SPECIFICATION Spec
CONSTANTS
    Proc = {p1, p2}
    MaxConns = 2
    NoEvent = NoEvent
    NoSID = NoSID
    Event <- CloseRace
    Partitioned <- MCPartitioned
SYMMETRY Symmetry
INVARIANTS
    TypeOK
    Isolation
    EndsAreObserved
    OneJoinPerLeave
    ReplyIsTrue
PROPERTIES
    EffectAppliedOnce
    ClosesStick
    LedgerSpec
