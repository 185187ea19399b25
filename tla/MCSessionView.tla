--------------------------- MODULE MCSessionView ---------------------------
(***************************************************************************)
(* Instances of SessionView for TLC. Times are in units of the reconnect   *)
(* gap's resolution; the history has a reconnect that overlaps, one after  *)
(* a short and one after a long pause, a second participant, a second room *)
(* and an event with no effect on joins.                                   *)
(***************************************************************************)
EXTENDS SessionView

Ev(id, type, room, identity, sid, at) ==
    [id |-> id, type |-> type, room |-> room,
     identity |-> identity, sid |-> sid, at |-> at]

Arrives(id, identity, sid, at) == Ev(id, EventParticipantJoined, "r1", identity, sid, at)
Departs(id, identity, sid, at) == Ev(id, EventParticipantLeft, "r1", identity, sid, at)

MCPartitioned == 0..9
MCClock == {5, 8}
MCWindow == {2, 4, 8}
MCGap == {0, 1, 3}

\* In order: alice reconnects from another tab, leaves both, comes back.
History ==
    << Arrives(1, "alice", "a1", 1),
       Arrives(2, "bob", "b1", 1),
       Ev(3, EventParticipantJoined, "r2", "alice", "a9", 1),
       Arrives(4, "alice", "a2", 2),
       Departs(5, "alice", "a1", 3),
       Departs(6, "alice", "a2", 3),
       Arrives(7, "alice", "a3", 4),
       Ev(8, "track_published", "r1", "alice", "a3", 4),
       Departs(9, "alice", "a3", 5),
       Arrives(10, "alice", "a4", 7),
       Ev(11, EventRoomFinished, "r1", "", NoSID, 8) >>

\* In any order: two joins of one participant, their ends and the room's.
Short ==
    << Arrives(1, "alice", "a1", 1),
       Arrives(2, "alice", "a2", 2),
       Departs(3, "alice", "a1", 3),
       Departs(4, "alice", "a2", 4),
       Ev(5, EventRoomFinished, "r1", "", NoSID, 5) >>

\* A stay of less than a second.
Brief ==
    << Arrives(1, "alice", "a1", 1),
       Departs(2, "alice", "a1", 1) >>

Symmetry == Permutations(Proc)

EventOf(emitted) == {emitted[i] : i \in DOMAIN emitted}

HistoryEvents  == EventOf(History)
ShortEvents    == EventOf(Short)
BriefEvents    == EventOf(Brief)
=============================================================================
