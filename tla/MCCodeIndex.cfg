SPECIFICATION IndexSpec
CONSTANTS
    Paths = {f1, f2}
    Hidden = {}
    Contents = {c1, c2, deep}
    Deep = {deep}
    ABSENT = absent
    LINK = link
    MaxChanges = 2
SYMMETRY Symmetry
INVARIANT HashesAreOfIndexedText
CHECK_DEADLOCK FALSE
