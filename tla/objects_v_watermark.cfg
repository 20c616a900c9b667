CONSTANTS
    a1 = a1  a2 = a2  a3 = a3  k1 = k1  k2 = k2  c1 = c1  c2 = c2
    Keys = {k1}
    Cols = {c1, c2}
    Actors = {a1, a2}
    Workloads <- Overtaking
    MaxEdits = 2
    MaxVersions = 3
SPECIFICATION StoreSpec
INVARIANTS IndexIsHonest
\* Edits and versions stop at their bounds.
CHECK_DEADLOCK FALSE
