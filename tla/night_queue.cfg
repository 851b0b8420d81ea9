SPECIFICATION Spec
CONSTANTS
    c1 = c1
    c2 = c2
    Summary = Summary
    CardSeq <- TwoCards
    ReadRank <- SummaryLast
    Estimate = 1
    Rooms <- Room0or1
    Triggers <- Operator
    Switches <- OnOrOff
    Concurrency = 2
    AttemptCap = 0
    MaxPokes = 0
    MaxConv = 2
    MaxOpens = 1
    MaxFaults = 1
INVARIANTS LedgerExact NeverOverbooked CardAccounted
CHECK_DEADLOCK FALSE
