----------------------------- MODULE JoinLedger -----------------------------
(***************************************************************************)
(* What store.Writer promises its caller (internal/ingest/store/store.go): *)
(* RecordEvent stores an event and applies its effect on participant_join  *)
(* in one indivisible step, at most once per event.                        *)
(***************************************************************************)
EXTENDS Session

VARIABLES
    eventRaw,     \* rows of event_raw
    joins,        \* rows of participant_join, by their opening event
    endedBy       \* the event that closed each join, or NoEvent

ledgerVars == <<eventRaw, joins, endedBy>>

-----------------------------------------------------------------------------

\* The row j can carry an end taken from e: same room, and ended_at does not
\* precede started_at (the generated active_range refuses that).
MayEnd(e, j) == j.room = e.room /\ j.at <= e.at

SameSID(e, j) == e.sid # NoSID /\ j.sid = e.sid

\* UPDATE participant_join SET ended_at, end_reason, ended_event_id.
EndJoins(closed, e) ==
    endedBy' = [j \in Event |-> IF j \in closed THEN e ELSE endedBy[j]]

\* participant_joined opens a join unless one with this id is there.
Opens(e) ==
    /\ e.type = EventParticipantJoined
    /\ joins' = IF \E j \in joins : j.id = e.id THEN joins ELSE joins \cup {e}
    /\ UNCHANGED endedBy

\* participant_left ends at most one join: its own, which is then still open,
\* or one of the same participant. Which one, and whether a row that has an
\* end may get this one instead, is left open.
Leaves(e) ==
    /\ e.type = EventParticipantLeft
    /\ \E closed \in SUBSET joins :
          /\ \A j, k \in closed : j = k
          /\ \A j \in closed :
                /\ MayEnd(e, j)
                /\ \/ SameSID(e, j) /\ endedBy[j] = NoEvent
                   \/ j.identity = e.identity
          /\ EndJoins(closed, e)
    /\ UNCHANGED joins

\* room_finished ends joins that are open in that room.
Finishes(e) ==
    /\ e.type = EventRoomFinished
    /\ \E closed \in SUBSET joins :
          /\ \A j \in closed : MayEnd(e, j) /\ endedBy[j] = NoEvent
          /\ EndJoins(closed, e)
    /\ UNCHANGED joins

\* Every other type is stored and has no effect on joins.
OnlyStored(e) ==
    /\ e.type \notin {EventParticipantJoined, EventParticipantLeft, EventRoomFinished}
    /\ UNCHANGED <<joins, endedBy>>

\* One call of RecordEvent that stores its event.
Record(e) ==
    /\ e \notin eventRaw
    /\ e.at \in Partitioned
    /\ eventRaw' = eventRaw \cup {e}
    /\ Opens(e) \/ Leaves(e) \/ Finishes(e) \/ OnlyStored(e)

Init ==
    /\ eventRaw = {}
    /\ joins = {}
    /\ endedBy = [j \in Event |-> NoEvent]

Next == \E e \in Event : Record(e)

Spec == Init /\ [][Next]_ledgerVars
=============================================================================
