SPECIFICATION FairSpec
CONSTANTS
    a = a
    b = b
    c = c
    refiner = refiner
    Schedules = {a, b}
    Orders <- NoOrders
    NoOrder = NoOrder
    Reservation <- NoReservations
    Confs <- OutageConfs
    Initial <- OutageInitial
    Wall <- PlainWall
    MaxMinute = 3
    Limits <- OutageLimits
    MaxInFlight = 3
    MaxFailures = 2
    Grace = 1
    MissedCap = 20
    HistoryWindow = 20
    MaxCount = 3
PROPERTIES GuardReleased BootWalkEnds RecentMissIsCaughtUp SpentIsDisarmed
