CONSTANTS
    a1 = a1  a2 = a2  ed = ed  vi = vi  team = team  raw = raw  derived = derived
    type = type  secret = secret  k1 = k1  r1 = r1  r2 = r2
    Users <- MCUsers
    Groups = {team}
    Datasets = {raw, derived}
    ObjectTypes = {type}
    Backing <- MCBacking
    Columns <- MCColumns
    Values = {1, 2}
    Requests = {r1, r2}
    Workloads <- MCWorkloads
    MaxProposals = 2
    Names = {secret}
    Transforms = {"transform"}
    Declared <- MCDeclared
    Threads = {r1, r2}
    MaxAttempts = 2
    MaxChanges = 3
    Usernames = {ed}
    Passwords = {"first", "second"}
    Slugs = {"ws"}
    Tasks = {r1, r2}
    MaxFailures = 1
    Offers <- MCOffers
    MaxIds = 2
    Marks = {secret}
    Files = {1, 2}
    MaxParts = 2
    MaxMarkings = 2
    MaxImports = 2
    Holders = {k1}
    Realms = {"his", "hers"}
    Actors = {a1, vi}
    Readable <- MCReadable
    MaskedFor = {vi}
    Backings <- MCBackings
    Calls = {r1, r2}
    MaxLogged = 3
    DatasetNames = {"a", "pa", "ppa"}
    Prefixed <- MCPrefixed
    MarkingNames = {"m", "m.s", "m.s.s"}
    Namespaced <- MCNamespaced
    Descriptions = {"x", "y"}
    TypeNames = {"t"}
    FileNames = {"f", "g"}
    Archives <- MCArchives
    Targets <- MCTargets
    MaxEdits = 1
    Pairs <- MCPairs
    Contents <- MCContents
SPECIFICATION GovernanceSpec
INVARIANTS TighteningsDoNotWiden ApprovedWasApplied PropagatedAtRest AccountsAreOwn ImportsHold EditsAreGoverned MergeKeepsRules WideningsAreTold
PROPERTIES DecisionsAreFinal
CHECK_DEADLOCK FALSE
