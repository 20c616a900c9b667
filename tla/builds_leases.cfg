CONSTANTS
    w1 = w1  w2 = w2  w3 = w3  NoWorker = NoWorker
    b1 = b1  b2 = b2
    t1 = t1  t2 = t2  t3 = t3
    Workers = {w1, w2, w3}
    Builds = {b1}
    Plan <- PairPlan
    Inputs <- PairInputs
    Handed = 3
    Waits = FALSE
    Slow = TRUE
    Mortal = {w1, w2, w3}
    Faults = FALSE
SPECIFICATION BuildsSpec
SYMMETRY Symmetry
INVARIANTS ExecutedOnce AtMostOneExecutor
\* Every build has ended.
CHECK_DEADLOCK FALSE
