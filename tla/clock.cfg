SPECIFICATION Spec
CONSTANTS
    a = a
    b = b
    c = c
    refiner = refiner
    Schedules = {a, b}
    Orders <- NoOrders
    NoOrder = NoOrder
    Reservation <- NoReservations
    Confs <- ClockConfs
    Initial <- ClockInitial
    Wall <- FallBackWall
    MaxMinute = 3
    Limits <- ClockLimits
    MaxInFlight = 3
    MaxFailures = 2
    Grace = 6
    MissedCap = 20
    HistoryWindow = 20
    MaxCount = 3
INVARIANTS AtMostOncePerMinute 
