CONSTANTS
    w1 = w1  w2 = w2  w3 = w3  NoWorker = NoWorker
    d1 = d1
    Workers = {w1, w2}
    Datasets = {d1}
    Mortal = {w1, w2}
    Slow = {w1, w2}
    Raising = {w1, w2}
    Puts <- SwitchAll
    Deletes = TRUE
    RunNow = TRUE
    MaxClock = 2
    MaxVersion = 2
    FireCap = 2
SPECIFICATION SchedulerSpec
SYMMETRY Symmetry
INVARIANTS AtMostOneRunner
\* The clock and the datasets stop at their bounds.
CHECK_DEADLOCK FALSE
