CONSTANTS
    c1 = c1  c2 = c2
    p1 = p1  p2 = p2  p3 = p3  p4 = p4  p5 = p5
    Calls = {c1, c2}
    Parts = {p1, p2, p3, p4, p5}
    Kinds = {"append"}
    AutoCompact = 2
    CrashAllowed = FALSE
SPECIFICATION CatalogSpec
SYMMETRY Symmetry
INVARIANTS FilesExist
\* The part keys run out.
CHECK_DEADLOCK FALSE
