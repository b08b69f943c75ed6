SPECIFICATION WorkbenchSpec
CONSTANTS
    MaxIterations = 2
    MaxToolCalls = 3
    MaxTestRuns = 1
    StrategyLimit = 1
    AbortThreshold = 2
    ToolConcurrency = 2
    Tools = {"read_file", "write_file", "run_tests"}
    MaxBatch = 2
    MaxSummaries = 1
    MaxInterrupts = 2
    MaxVersion = 2
    Jobs = {j1, j2}
    OPERATOR = operator
    NONE = none
    MaxCancels = 1
    MaxRestarts = 1
    Managers = {manager}
    Editors = {j1, j2}
    NOAPP = noapp
    MaxEngines = 2
    MaxDeaths = 1
    MaxAttempts = 2
    Paths = {j1, j2}
    Hidden = {}
    Contents = {c1, c2, deep}
    Deep = {deep}
    ABSENT = absent
    LINK = link
    MaxChanges = 2
SYMMETRY Symmetry
INVARIANTS AtMostOnce NoSilentEffect ConversationMatchesWorkspace
    SavedBoundariesAreResumable CompletedMeansTestsPass
    RunsHoldTheLock ShutdownDrains
    EngineIsDiscoverable OwnersStopTheirEngines
     SnippetsFitTheirChunks
PROPERTIES ProgressIsNeverLost ContinuesOnCurrentFiles ImplementsAtomicRounds
    SettledStatusIsFinal UndoDiscardsOnlyItsOwnRun
CHECK_DEADLOCK FALSE
