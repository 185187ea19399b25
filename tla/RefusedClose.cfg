SPECIFICATION IngestSpec
CONSTANTS
    Proc = {p1}
    MaxConns = 2
    NoEvent = NoEvent
    NoSID = ""
    NoToken = NoToken
    NoObject = NoObject
    Garbled = Garbled
    MaxInt64 = 10
    Mantissa = 8
    Unit = 2
    Spacing <- MCSpacing
    Saturates = TRUE
    NoDelivery = NoDelivery
    Delivery <- Retried
    Event <- MCEvent
    Partitioned <- MCPartitioned
    MaxAttempts = 1
    MaxTried = 3
    MaxRestarts = 0
SYMMETRY Symmetry
CHECK_DEADLOCK FALSE
INVARIANTS
    AcceptedIsStored
