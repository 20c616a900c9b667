CONSTANTS
    w1 = w1  w2 = w2  w3 = w3  NoWorker = NoWorker
    d1 = d1
    Workers = {w1, w2, w3}
    Datasets = {d1}
    Mortal = {w1, w2}
    Slow = {w1}
    Raising = {}
    Puts <- NoPuts
    Deletes = FALSE
    RunNow = FALSE
    MaxClock = 4
    MaxVersion = 3
    FireCap = 2
SPECIFICATION FairSchedulerSpec
INVARIANTS ServedOnce
PROPERTIES MovesForward DueIsServed
\* The clock and the datasets stop at their bounds.
CHECK_DEADLOCK FALSE
