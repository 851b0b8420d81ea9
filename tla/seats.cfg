SPECIFICATION Spec
CONSTANTS
    a = a
    b = b
    c = c
    refiner = refiner
    Schedules = {a, b, c}
    Orders <- RefinerOrders
    NoOrder = NoOrder
    Reservation <- OneSeat
    Confs <- SeatConfs
    Initial <- SeatInitial
    Wall <- PlainWall
    MaxMinute = 1
    Limits <- SeatLimits
    MaxInFlight = 2
    MaxFailures = 2
    Grace = 6
    MissedCap = 20
    HistoryWindow = 20
    MaxCount = 3
INVARIANTS SeatPool
