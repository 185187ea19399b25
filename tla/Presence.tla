------------------------------ MODULE Presence ------------------------------
(***************************************************************************)
(* What joins are meant to record (ADR-0019): each one participant's       *)
(* presence in one room, from its arrival to its end. The backend is       *)
(* external; Emitted is what happens in its rooms, in order, and this      *)
(* specification replays it.                                               *)
(***************************************************************************)
EXTENDS Session, Sequences

CONSTANTS
    Emitted,     \* the backend's events in the order it emits them
    NoEnd        \* the end of a presence that lasts

VARIABLES
    happened,    \* how many events have happened
    rows         \* who is or was present

Here(r, e) == r.room = e.room /\ r.ended = NoEnd

Arrival(e) == [join |-> e.id, room |-> e.room, identity |-> e.identity,
               sid |-> e.sid, started |-> e.at, ended |-> NoEnd]

Gone(S, e) == (rows \ S) \cup {[r EXCEPT !.ended = e.at] : r \in S}

\* What e does to those present: an arrival, a departure of the one with that
\* SID, the departure of everyone, or nothing.
After(e) ==
    CASE e.type = EventParticipantJoined -> rows \cup {Arrival(e)}
      [] e.type = EventParticipantLeft   -> Gone({r \in rows : Here(r, e) /\ r.sid = e.sid}, e)
      [] e.type = EventRoomFinished      -> Gone({r \in rows : Here(r, e)}, e)
      [] OTHER                           -> rows

Init == happened = 0 /\ rows = {}

Next ==
    /\ happened < Len(Emitted)
    /\ happened' = happened + 1
    /\ rows' = After(Emitted[happened + 1])

Spec == Init /\ [][Next]_<<happened, rows>>
=============================================================================
