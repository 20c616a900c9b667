CONSTANTS
    alice = alice  bob = bob  upload = upload  early = early  late = late
    p1 = p1  p2 = p2  q1 = q1  q2 = q2
    Authors = {alice, bob}
    Raw = {upload}
    Names = {early, late}
    Requests = {p1, p2}
    Jobs = {q1, q2}
    Shares <- MCShares
    MaxRequests = 2
    MaxBuilds = 2
    MaxDecrees = 1
    Folded <- MCFolded
    Tables <- MCTables
    Invented = {"PAY", "x"}
    HelperNames <- MCHelpers
    Expressions <- MCExpressions
    MaxNesting = 1
    MaxSteps = 3
    Editors = {p1, p2}
    Bodies <- MCBodies
    Lists <- MCLists
    Columns = {"x"}
    MaxItems = 2
    MaxSaves = 4
    ApiNames = {"x", "y"}
    OtherFiles = {"other"}
    Handwritten <- MCHandwritten
    Saves = {p1, p2}
    MaxFileChanges = 4
    ObjectKeys = {"k", "l"}
    Fields = {"x"}
    Callers = {p1, p2}
    MaxLog = 3
    MaxCalls = 2
SPECIFICATION AuthoringSpec
SYMMETRY Symmetry
INVARIANTS CopiesStayPrivate FlowsAreAcyclic MaskedStaysOut ResultIsKnown ChainsHold OntologyStands LevelIsTrue
PROPERTIES UnsentIsUnchanged
CHECK_DEADLOCK FALSE
