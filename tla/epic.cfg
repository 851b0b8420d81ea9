SPECIFICATION FairSpec
CONSTANTS
    c1 = c1
    Cards = {c1}
    NoCard = NoCard
    Concurrency = 1
    MaxGens = 2
    MaxCardSeats = 1
    MaxLaunchAttempts = 2
    Upsets <- Anything
    MaxUpsets = 1
    MaxTwins = 3
INVARIANTS TypeOK SeatsSingle LeaseNames LiveRunIsArmed
PROPERTIES RunEnds
CHECK_DEADLOCK FALSE
