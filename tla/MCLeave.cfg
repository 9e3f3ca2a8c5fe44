SPECIFICATION Spec
CONSTANTS
    Clients = {c1}
    Ids = {r1, r2}
    Keys = {k1, k2}
    Windows <- MCWindows
    Opening = 4
    MaxLedger = 8
    CheckBalance = TRUE
INVARIANTS AvailableExact NeverOverdrawn NoOverlap TaskOpenWhileWaiting  
CHECK_DEADLOCK FALSE
