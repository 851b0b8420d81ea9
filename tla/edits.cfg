SPECIFICATION Spec
CONSTANTS
    a = a
    b = b
    c = c
    refiner = refiner
    Schedules = {a}
    Orders <- NoOrders
    NoOrder = NoOrder
    Reservation <- NoReservations
    Confs <- EditConfs
    Initial <- EditInitial
    Wall <- PlainWall
    MaxMinute = 1
    Limits <- EditLimits
    MaxInFlight = 3
    MaxFailures = 2
    Grace = 6
    MissedCap = 20
    HistoryWindow = 20
    MaxCount = 1
INVARIANTS FailureFuse OneLiveRun
