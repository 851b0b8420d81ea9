SPECIFICATION FairSpec
CONSTANTS
    c1 = c1
    c2 = c2
    Summary = Summary
    CardSeq <- OneCard
    ReadRank <- SummaryLast
    Estimate = 1
    Rooms <- Room0or1
    Triggers <- Clock
    Switches <- On
    Concurrency = 1
    AttemptCap = 1
    MaxPokes = 1
    MaxConv = 3
    MaxOpens = 1
    MaxFaults = 1
INVARIANTS RetriesBounded
PROPERTIES NoDeadCard RunDrains
CHECK_DEADLOCK FALSE
