SPECIFICATION Spec
CONSTANTS
    Convs = {c1, c2}
    NoConv = NoConv
    Calls = {k1, k2, k3}
    NoCall = NoCall
    StaleAfter = 0
    MaxTime = 1
    MaxRestarts = 0
INVARIANTS GripKept
PROPERTIES TakeoverJustified RegisterSpec
SYMMETRY Symmetry
CHECK_DEADLOCK FALSE
