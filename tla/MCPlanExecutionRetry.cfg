SPECIFICATION PlanSpec
CONSTANTS
    Tasks = {"a", "b", "c"}
    Plans <- MCTeamPlans
    Escalating = {"a"}
    MaxParallel = 2
    VerifyChanges = TRUE
    MaxFixes = 2
    MaxResumes = 2
CHECK_DEADLOCK FALSE
INVARIANTS FailedTasksGetAnotherAttempt
