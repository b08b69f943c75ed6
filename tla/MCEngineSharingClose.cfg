SPECIFICATION SharingSpec
CONSTANTS
    Managers = {manager}
    Editors = {e1, e2}
    NOAPP = noapp
    MaxEngines = 2
    MaxDeaths = 1
    MaxAttempts = 2
INVARIANT ClosedAppsLeaveNoEngine
CHECK_DEADLOCK FALSE
