SPECIFICATION Spec
CONSTANTS
    Processes = {p1, p2}
    NONE = none
    MaxUserRequests = 4
    MaxPhases = 2
    MaxCrashes = 0
INVARIANT RestartsAreReal
