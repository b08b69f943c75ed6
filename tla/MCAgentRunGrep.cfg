SPECIFICATION Spec
CONSTANTS
    MaxIterations = 3
    MaxToolCalls = 3
    MaxTestRuns = 1
    StrategyLimit = 1
    AbortThreshold = 2
    ToolConcurrency = 2
    Tools = {"read_file", "grep"}
    MaxBatch = 2
    MaxSummaries = 1
    MaxInterrupts = 2
    MaxVersion = 2
CHECK_DEADLOCK FALSE
PROPERTIES ContinuesOnCurrentFiles
