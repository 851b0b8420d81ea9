SPECIFICATION FairSpec
CONSTANTS
    Convs = {c1, c2}
    NoConv = NoConv
    Calls = {k1, k2}
    NoCall = NoCall
    StaleAfter = 1
    MaxTime = 1
    MaxRestarts = 1
PROPERTIES CallsEnd
CHECK_DEADLOCK FALSE
