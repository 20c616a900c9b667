CONSTANTS
    w1 = w1  w2 = w2  w3 = w3  NoWorker = NoWorker
    b1 = b1  b2 = b2
    t1 = t1  t2 = t2  t3 = t3
    Workers = {w1, w2}
    Builds = {b1, b2}
    Plan <- ChainPlan
    Inputs <- ChainInputs
    Handed = 1
    Waits = TRUE
    Slow = FALSE
    Mortal = {w1}
    Faults = TRUE
SPECIFICATION FairBuildsSpec
INVARIANTS StatusMatchesTasks
PROPERTIES TerminalStays ClaimedBuildEnds
\* Every build has ended.
CHECK_DEADLOCK FALSE
