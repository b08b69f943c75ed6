SPECIFICATION ServicesSpec
CONSTANTS
    MaxVariants = 1
    Operations = {r, a, b}
    ReadOnly = {r}
    NOBODY = nobody
    Patience = 1
    MaxTime = 2
    MaxConnections = 2
    MaxAnswers = 2
INVARIANTS ShutdownStopsTheServer CandidatesAreTemporary
    OnlyApprovedCallsRun AnswersBelongToTheirCall
CHECK_DEADLOCK FALSE
