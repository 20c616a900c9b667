CONSTANTS
    Builds = {b1, b2}
    MaxVersions = 4
    MaxRuns = 3
    Declarations <- MCDeclarations
    Targets <- MCTargets
    AllOutputs = AllOutputs
    Monitored = {d1}
    Facts <- MCFacts
    Tickers = {t1, t2}
    MaxTicks = 4
    MaxFacts = 4
    Syncs = {s1, s2}
    SyncTargets = {d1, d2}
    MaxRow = 3
    TextRanks <- MCRanks
    MaxSyncs = 3
    MaxPuts = 2
    Queries = {q1, q2, q3}
    Slots = 2
    MaxQueries = 5
    k1 = k1  k2 = k2  c1 = c1
    Keys = {k1, k2}
    Cols = {c1}
    MaxRows = 2
    OrdCreatedBase = 1000
    MaxEdits = 4
    b = b  q1 = q1  q2 = q2
    Branches = {b}
    LakeCalls = {q1, q2}
    MaxSnapshots = 3
    MaxLakeCalls = 4
SPECIFICATION OperationsSpec
INVARIANTS InputConsumed PlanIsTopological LogFollowsState RowsArriveOnce SlotsAccounted ImplementationsAgree VersionsNameSnapshots
CHECK_DEADLOCK FALSE
