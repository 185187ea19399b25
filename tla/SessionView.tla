----------------------------- MODULE SessionView -----------------------------
(***************************************************************************)
(* Write path and read path together: deliveries arrive at JoinStore, and  *)
(* reference_query.sql groups the committed joins into sessions. A reader  *)
(* runs one statement, so it sees one state of the committed tables; what  *)
(* it sees is stated here as properties of those states, for every time,   *)
(* window and reconnect gap in three finite sets.                          *)
(*                                                                         *)
(* JoinStore's own Next delivers any event at any time and again. InOrder  *)
(* is the same store behind a sender that delivers the backend's events in *)
(* the order it emits them, each until it is stored, and may still repeat  *)
(* old ones.                                                               *)
(***************************************************************************)
EXTENDS JoinStore, SessionQuery

CONSTANTS
    Emitted,     \* the backend's events in the order it emits them
    Clock,       \* bound: times at which the query runs
    Window,      \* bound: its window, in the unit of Clock
    Gap          \* bound: its reconnect gap

ASSUME EmittedAssumption == Emitted \in Seq(Event)

\* LiveKit, external: one clock, an id per event, a SID per arrival, and a
\* departure or the room's end only for those who are there.
ASSUME HistoryAssumption ==
    /\ \A i, k \in DOMAIN Emitted :
          i < k => Emitted[i].id # Emitted[k].id /\ Emitted[i].at <= Emitted[k].at
    /\ \A k \in DOMAIN Emitted : Emitted[k].type = EventParticipantLeft =>
          /\ Emitted[k].sid # NoSID
          /\ \E i \in 1..(k - 1) :
                /\ Emitted[i].type = EventParticipantJoined
                /\ Emitted[i].room = Emitted[k].room
                /\ Emitted[i].sid = Emitted[k].sid
                /\ \A m \in (i + 1)..(k - 1) :
                      Emitted[m].room = Emitted[k].room =>
                          /\ Emitted[m].type # EventRoomFinished
                          /\ ~(Emitted[m].type = EventParticipantLeft
                               /\ Emitted[m].sid = Emitted[k].sid)

ASSUME NoEndAssumption == NoEnd \notin Nat

\* The query's parameters are times and durations.
ASSUME QueryAssumption == Clock \subseteq Nat /\ Window \subseteq Nat /\ Gap \subseteq Nat

VARIABLE
    overtook     \* history: for each departure, its joins that its close missed

viewVars == <<vars, overtook>>

\* The joins that carry the SID of the departure e.
OwnJoins(e) ==
    {j \in Event : /\ j.type = EventParticipantJoined
                   /\ e.type = EventParticipantLeft
                   /\ j.room = e.room
                   /\ j.sid = e.sid
                   /\ e.sid # NoSID}

ViewInit == Init /\ overtook = [e \in Event |-> {}]

\* The history records what the snapshot of closeBySID does not hold.
Watch ==
    overtook' = [e \in Event |->
        IF \E p \in Proc : ev[p] = e /\ pc[p] # "close_by_sid" /\ pc'[p] = "close_by_sid"
        THEN OwnJoins(e) \ joins
        ELSE overtook[e]]

ViewNext == Next /\ Watch

ViewSpec == ViewInit /\ [][ViewNext]_viewVars

\* The sender has had every earlier event stored.
Due(e) ==
    \E k \in DOMAIN Emitted :
        /\ Emitted[k] = e
        /\ \A i \in 1..(k - 1) : Emitted[i] \in eventRaw

InOrderNext ==
    /\ \/ \E p \in Proc :
             \/ \E e \in Event : Due(e) /\ Call(p, e)
             \/ RecordEvent(p)
             \/ Return(p)
       \/ Crash
    /\ Watch

InOrderSpec == ViewInit /\ [][InOrderNext]_viewVars

-----------------------------------------------------------------------------
(* What the query reads                                                    *)

\* A row of participant_join.
Row(j) == [join |-> j.id, room |-> j.room, identity |-> j.identity, sid |-> j.sid,
           started |-> j.at,
           ended |-> IF endedBy[j] = NoEvent THEN NoEnd ELSE endedBy[j].at]

Rows == {Row(j) : j \in joins}

\* The window frames of a query at time now, one for each way ties may fall.
Frames(now, window) ==
    UNION {Ordered(part) : part \in Partitions(Overlapping(Rows, now - window, now))}

InOneSession(w, i, k, gap) == SessionOrdinal(w, i, gap) = SessionOrdinal(w, k, gap)

\* The joins of a frame end in the order they start, and only the last is open.
EndInOrder(w) ==
    \A i, k \in DOMAIN w : i < k =>
        /\ w[i].ended # NoEnd
        /\ w[k].ended # NoEnd => w[i].ended <= w[k].ended

Before(r, t) == r.ended # NoEnd /\ r.ended <= t

\* Between the joins i and k the participant was away for more than the gap.
AbsentBetween(w, i, k, gap) ==
    \E x, y \in DOMAIN w :
        /\ w[x].ended # NoEnd
        /\ Before(w[i], w[x].ended)
        /\ w[y].started <= w[k].started
        /\ w[y].started - w[x].ended > gap
        /\ \A m \in DOMAIN w :
              Before(w[m], w[x].ended) \/ w[y].started <= w[m].started

-----------------------------------------------------------------------------
(* Properties                                                              *)

\* ADR-0019, "Correlating events into a coherent record is deterministic": if
\* deliveries come in order, the joins are at every moment the presences that
\* the backend's history amounts to, however many attempts overlap, fail or are
\* repeated.
Truth == INSTANCE Presence WITH happened <- Cardinality(eventRaw), rows <- Rows
JoinsAreTruth == Truth!Spec

\* In any order of arrival: a join is open although its departure is stored only
\* if the departure overtook it, that is the join was not committed when
\* closeBySID looked. ADR-0020's "open and stale" has this one other cause.
OpenOnlyIfOvertaken ==
    \A e \in eventRaw : \A j \in OwnJoins(e) :
        Open(j) => j \in overtook[e]

\* still_open is bool_or over the group where Session.IsOpen looks at its last
\* join: they agree in every window, also when lost departures leave several
\* joins of one participant open and when starts tie.
StillOpenIsLastOpen ==
    \A now \in Clock, window \in Window, gap \in Gap :
        \A w \in Frames(now, window) :
            \A s \in Sessions(w, gap) :
                /\ StillOpen(s) <=> IsOpen(s)
                /\ SessionStartedAt(s) = StartedAt(s)

\* ADR-0019, a session is a presence "spanning reconnects": comparing each join
\* with the one before it finds just the absences of more than the gap, provided
\* that joins end in the order they start.
SessionsArePresences ==
    \A now \in Clock, window \in Window, gap \in Gap :
        \A w \in {x \in Frames(now, window) : EndInOrder(x)} :
            \A i, k \in DOMAIN w : i < k =>
                (InOneSession(w, i, k, gap) <=> ~AbsentBetween(w, i, k, gap))

\* A narrower window truncates sessions and neither merges nor splits them,
\* provided that joins end in the order they start, in both orders in which
\* joins that start together may come: two joins it still shows are in one
\* session if and only if they are in the wider window.
WindowOnlyTruncates ==
    \A now \in Clock, gap \in Gap : \A narrow, wide \in Window :
        narrow < wide =>
            \A w \in {x \in Frames(now, wide) : EndInOrder(x)} :
                \A v \in {x \in Frames(now, narrow) : EndInOrder(x)} :
                    \A i, k \in DOMAIN v : \A m, n \in DOMAIN w :
                        v[i] = w[m] /\ v[k] = w[n] =>
                            (InOneSession(v, i, k, gap) <=> InOneSession(w, m, n, gap))

-----------------------------------------------------------------------------
(* A statement of the repository that the code does not keep.              *)

\* reference_query.sql:4, "Group a participant's joins into sessions, over a
\* bounded time window": every join that starts in the window is in a session.
EveryJoinIsGrouped ==
    \A now \in Clock, window \in Window :
        \A r \in Rows :
            now - window <= r.started /\ r.started < now =>
                r \in Overlapping(Rows, now - window, now)
=============================================================================
