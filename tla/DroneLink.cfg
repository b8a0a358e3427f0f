SPECIFICATION FairSpec
CONSTANTS
    Settings <- MCSettings
    MaxValues = 3
    MaxFaults = 2
    MaxHangUps = 2
    MaxInFlight = 3
CHECK_DEADLOCK FALSE
INVARIANTS TypeOK NoFalseAlarm
PROPERTIES NeverBack LastValueArrives UserGetsThrough
