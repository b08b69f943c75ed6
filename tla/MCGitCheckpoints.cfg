SPECIFICATION GitSpec
CONSTANTS
    WorkFiles = {"plain", "accented"}
    Quoted <- MCQuoted
    MaxWrites = 3
    MaxSaved = 1
INVARIANTS UntrackedFilesComeBack
CHECK_DEADLOCK FALSE
