CONSTANTS
    c1 = c1  c2 = c2  c3 = c3
    p1 = p1  p2 = p2  p3 = p3  p4 = p4
    Calls = {c1, c2, c3}
    Parts = {p1, p2, p3, p4}
    Kinds = {"write", "append", "append_batches", "compact", "writeback"}
    AutoCompact = 0
    CrashAllowed = TRUE
SPECIFICATION CatalogSpec
SYMMETRY Symmetry
INVARIANTS FilesExist FoldKeepsBase
PROPERTIES ImplementsHistory
\* The part keys run out.
CHECK_DEADLOCK FALSE
