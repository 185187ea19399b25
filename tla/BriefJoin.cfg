SPECIFICATION ViewSpec
CONSTANTS
    Proc = {p1, p2}
    MaxConns = 2
    NoEvent = NoEvent
    NoSID = NoSID
    NoEnd = NoEnd
    Event <- BriefEvents
    Emitted <- Brief
    Partitioned <- MCPartitioned
    Clock <- MCClock
    Window <- MCWindow
    Gap <- MCGap
INVARIANT
    EveryJoinIsGrouped
