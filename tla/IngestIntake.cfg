SPECIFICATION IngestSpec
CONSTANTS
    Proc = {p1, p2}
    MaxConns = 2
    NoEvent = NoEvent
    NoSID = ""
    NoToken = NoToken
    NoObject = NoObject
    Garbled = Garbled
    MaxInt64 = 10
    Mantissa = 8
    Unit = 2
    Spacing <- MCSpacing
    Saturates = FALSE
    NoDelivery = NoDelivery
    Delivery <- Intake
    Event <- MCEvent
    Partitioned <- MCPartitioned
    MaxAttempts = 1
    MaxTried = 2
    MaxRestarts = 0
SYMMETRY Symmetry
CHECK_DEADLOCK FALSE
INVARIANTS
    OnlyVerifiedIsStored
    NoSplit
    LossIsCounted
