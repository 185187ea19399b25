SPECIFICATION InOrderSpec
CONSTANTS
    Proc = {p1, p2}
    MaxConns = 2
    NoEvent = NoEvent
    NoSID = NoSID
    NoEnd = NoEnd
    Event <- HistoryEvents
    Emitted <- History
    Partitioned <- MCPartitioned
    Clock <- MCClock
    Window <- MCWindow
    Gap <- MCGap
SYMMETRY Symmetry
INVARIANTS
    SessionsArePresences
    WindowOnlyTruncates
PROPERTIES
    JoinsAreTruth
