CONSTANTS
    c1 = c1  c2 = c2
    p1 = p1  p2 = p2  p3 = p3  p4 = p4
    Calls = {c1, c2}
    Parts = {p1, p2, p3, p4}
    Kinds = {"append", "append_batches", "writeback"}
    AutoCompact = 2
    CrashAllowed = FALSE
SPECIFICATION FairCatalogSpec
PROPERTIES EveryCallReturns
\* The part keys run out.
CHECK_DEADLOCK FALSE
