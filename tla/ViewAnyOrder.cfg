SPECIFICATION ViewSpec
CONSTANTS
    Proc = {p1, p2}
    MaxConns = 2
    NoEvent = NoEvent
    NoSID = NoSID
    NoEnd = NoEnd
    Event <- ShortEvents
    Emitted <- Short
    Partitioned <- MCPartitioned
    Clock <- MCClock
    Window <- MCWindow
    Gap <- MCGap
SYMMETRY Symmetry
INVARIANTS
    OpenOnlyIfOvertaken
    StillOpenIsLastOpen
