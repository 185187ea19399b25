SPECIFICATION Spec
CONSTANTS
    Proc = {p1, p2}
    MaxConns = 2
    NoEvent = NoEvent
    NoSID = NoSID
    Event <- OneByOne
    Partitioned <- MCPartitioned
PROPERTIES
    ClosedIsFinal
