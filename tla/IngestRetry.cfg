SPECIFICATION IngestSpec
CONSTANTS
    Proc = {p1, p2}
    MaxConns = 2
    NoEvent = NoEvent
    NoSID = ""
    NoToken = NoToken
    NoObject = NoObject
    Garbled = Garbled
    MaxInt64 = 10
    Mantissa = 8
    Unit = 2
    Spacing <- MCSpacing
    Saturates = TRUE
    NoDelivery = NoDelivery
    Delivery <- Retried
    Event <- MCEvent
    Partitioned <- MCPartitioned
    MaxAttempts = 2
    MaxTried = 3
    MaxRestarts = 1
SYMMETRY Symmetry
CHECK_DEADLOCK FALSE
INVARIANTS
    IngestTypeOK
    AckedIsStored
    CountersNeverExceedRows
    LossIsCounted
