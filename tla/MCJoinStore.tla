---------------------------- MODULE MCJoinStore ----------------------------
(***************************************************************************)
(* Instances of JoinStore for TLC: one room, one participant who           *)
(* reconnects (two SIDs), departures with and without a SID, the room's    *)
(* end, a delivery stamped twice, and times on both sides of each other.   *)
(***************************************************************************)
EXTENDS JoinStore, TLC

Ev(id, type, sid, at) ==
    [id |-> id, type |-> type, room |-> "r1",
     identity |-> IF type = EventRoomFinished THEN "" ELSE "alice",
     sid |-> sid, at |-> at]

Join1      == Ev(1, EventParticipantJoined, "s1", 1)
Join1Again == Ev(1, EventParticipantJoined, "s1", 2)
Join2      == Ev(2, EventParticipantJoined, "s2", 2)
Leave1     == Ev(3, EventParticipantLeft, "s1", 2)
EarlyLeave == Ev(4, EventParticipantLeft, NoSID, 1)
LateLeave  == Ev(5, EventParticipantLeft, NoSID, 2)
RoomEnd    == Ev(6, EventRoomFinished, NoSID, 2)
RoomEnd2   == Ev(7, EventRoomFinished, NoSID, 2)

MCPartitioned == {1, 2}

\* Reconnects, departures and the room's end, all racing for two rows.
CloseRace == {Join1, Join1Again, Join2, Leave1, EarlyLeave, RoomEnd}

\* Two transactions that lock the same two rows in any order.
WaitCycle == {Join1, Join2, RoomEnd, RoomEnd2}

\* A meeting under way: both joins have been recorded, nobody has left.
InMeeting ==
    /\ eventRaw = {Join1, Join2} /\ joins = {Join1, Join2}
    /\ endedBy = [j \in Event |-> NoEvent]
    /\ pc = [p \in Proc |-> "idle"] /\ ev = [p \in Proc |-> NoEvent]
    /\ todo = [p \in Proc |-> {}] /\ locked = [p \in Proc |-> {}]
    /\ res = [p \in Proc |-> EmptyResult]

InMeetingSpec == InMeeting /\ [][Next]_vars /\ Fairness

\* One participant, a reconnect, a departure of each kind and the room's end.
OneByOne == {Join1, Join2, Leave1, LateLeave, RoomEnd}

Symmetry == Permutations(Proc)
=============================================================================
