SPECIFICATION InMeetingSpec
CONSTANTS
    Proc = {p1, p2, p3}
    MaxConns = 2
    NoEvent = NoEvent
    NoSID = NoSID
    Event <- WaitCycle
    Partitioned <- MCPartitioned
PROPERTIES
    RecordEventReturns
