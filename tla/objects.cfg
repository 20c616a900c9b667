CONSTANTS
    a1 = a1  a2 = a2  a3 = a3  k1 = k1  k2 = k2  c1 = c1  c2 = c2
    Keys = {k1, k2}
    Cols = {c1, c2}
    Actors = {a1, a2, a3}
    Workloads <- Mixes
    MaxEdits = 4
    MaxVersions = 3
SPECIFICATION StoreSpec
SYMMETRY Symmetry
INVARIANTS IndexIsHonest
PROPERTIES ImplementsHistory UndisturbedScansAreCorrect
\* Edits and versions stop at their bounds.
CHECK_DEADLOCK FALSE
