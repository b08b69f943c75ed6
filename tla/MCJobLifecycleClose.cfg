SPECIFICATION JobsSpec
CONSTANTS
    Jobs = {j1, j2}
    OPERATOR = operator
    NONE = none
    MaxCancels = 2
    MaxRestarts = 1
INVARIANT ActiveUntilClosed
CHECK_DEADLOCK FALSE
