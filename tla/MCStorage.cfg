SPECIFICATION StorageSpec
CONSTANTS
    Processes = {p1, p2}
    NONE = none
    MaxUserRequests = 4
    MaxPhases = 1
    MaxCrashes = 2
    Files = {f1, f2}
    Agents = {p1, p2}
    MaxCalls = 2
    MaxUserEdits = 1
    MaxKills = 1
    WorkFiles = {f1, f2}
    Quoted = {}
    MaxWrites = 2
    MaxSaved = 1
    Goals = {"child", "parent", "next"}
    ParentOf <- MCParent
    DependsOn <- MCDeps
    WithCriteria = {}
    Tests = {"t"}
    Revisions = {r1, r2}
    NOGOAL = nogoal
    Writers = {p1, p2}
    MaxEvidence = 3
    MaxEdits = 2
    MaxGoalCalls = 2
    Sources = {s1}
    Anchors = {a, noanchor}
    NOANCHOR = noanchor
    Texts = {t1, t2, t3}
    GONE = gone
    Indexers = {p1, p2}
    MaxSteps = 2
    Requests = {p1, p2, f1, f2}
    Free = {p1, p2}
    MaxRequests = 3
    MaxTokens = 7
    Bound = 2
    Excess = 1
    Limit = 1
    MaxDays = 2
SYMMETRY Symmetry
INVARIANTS OnlyTheLastTurnIsOpen IndexIsNeverAhead
    RestoreKeepsUserWork RollbackRestoresTheTree VerifiedGoalsAreTested
    VerifiedCodeIsTheSource SpendingIsBounded
PROPERTIES FinishedTurnsAreFinal NoCheckpointIsLost FreeRequestsAreGranted
