SPECIFICATION TurnSpec
CONSTANTS
    MaxIterations = 2
    MaxToolCalls = 2
    MaxTestRuns = 1
    StrategyLimit = 1
    AbortThreshold = 2
    ToolConcurrency = 2
    Tools = {"read_file", "run_tests"}
    MaxBatch = 2
    MaxSummaries = 0
    MaxInterrupts = 1
    MaxVersion = 2
    Tasks = {"a", "b", "c"}
    Plans <- MCPlans
    Escalating = {"a"}
    MaxParallel = 2
    VerifyChanges = TRUE
    MaxFixes = 2
    MaxResumes = 2
    Ids = {a, b, c}
    Participants = {a, b}
    Sizes = {1, 2}
    MaxPending = 2
    MaxMessages = 4
    MaxBytes = 6
    ReadLimit = 2
    Jobs = {j1}
    OPERATOR = operator
    NONE = none
    MaxCancels = 2
    MaxRestarts = 0
INVARIANTS TasksMayExecute NothingOutlivesTheWave CompletionIsVerified
    ValidateIsExact ChannelIsReliable
PROPERTIES SettledTasksAreNotReplayed AlwaysReturns RunsEnd
    CancelIsNeverLost ShutdownReleasesTheWorkspace
CHECK_DEADLOCK FALSE
