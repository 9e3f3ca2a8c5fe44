SPECIFICATION Spec
CONSTANTS
    Clients = {c1}
    Ids = {b1, b2, b3}
    Slots <- MCSlots
    Keys = {k1}
    NoKey = NoKey
INVARIANTS NoDoubleBooking 
CHECK_DEADLOCK FALSE
