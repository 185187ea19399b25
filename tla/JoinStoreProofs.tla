--------------------------- MODULE JoinStoreProofs ---------------------------
(***************************************************************************)
(* Proofs about JoinStore, for every set of events, every number of        *)
(* concurrent calls and every pool size.                                   *)
(***************************************************************************)
EXTENDS JoinStore, TLAPS

-----------------------------------------------------------------------------
(* The inductive invariant                                                 *)

\* Which events a statement runs for, and which rows it may still visit.
Selected ==
    \A p \in Proc :
        /\ todo[p] # {} => pc[p] \in Closing
        /\ pc[p] = "close_by_sid" =>
              /\ ev[p].type = EventParticipantLeft
              /\ ev[p].sid # NoSID
              /\ \A j \in todo[p] : j.sid = ev[p].sid
        /\ pc[p] = "close_by_identity" =>
              /\ ev[p].type = EventParticipantLeft
              /\ \A j \in todo[p] : j.identity = ev[p].identity
        /\ pc[p] = "close_room" => ev[p].type = EventRoomFinished
        /\ \A j \in todo[p] : j \in joins /\ j.room = ev[p].room

\* A transaction that has inserted a join row is the only one with its
\* started_event_id, and one that found the id taken still would.
Opening ==
    \A p \in Proc :
        /\ res[p].opened => pc[p] \in {"commit", "returned"}
        /\ res[p].opened /\ pc[p] = "commit" =>
              /\ ev[p].type = EventParticipantJoined
              /\ \A j \in joins : j.id # ev[p].id
              /\ \A q \in Proc \ {p} :
                    res[q].opened /\ pc[q] = "commit" => ev[q].id # ev[p].id
        /\ pc[p] = "commit" /\ ev[p].type = EventParticipantJoined /\ ~res[p].opened =>
              \E j \in joins : j.id = ev[p].id

\* A departure has at most one row in hand, visited or still to visit.
SingleTarget ==
    \A p \in Proc :
        ev[p] \in Event /\ ev[p].type = EventParticipantLeft =>
            \A j, k \in todo[p] \cup locked[p] : j = k

IInv ==
    /\ TypeOK
    /\ Isolation
    /\ Selected
    /\ Opening
    /\ SingleTarget
    /\ EndsAreObserved
    /\ OneJoinPerLeave

-----------------------------------------------------------------------------
(* Type correctness                                                        *)

\* RecordEvent's Rollback, from anywhere in a call, keeps every variable's type.
LEMMA RollbackType ==
    ASSUME TypeOK, NEW p \in Proc, NEW err \in Error, Rollback(p, err)
    PROVE  TypeOK'
  <1>1. res' \in [Proc -> Result]
    BY DEF TypeOK, Rollback, Finish, Result
  <1>2. pc' \in [Proc -> Control]
    BY DEF TypeOK, Rollback, Finish, Control
  <1> QED
    BY <1>1, <1>2 DEF TypeOK, Rollback, Finish, tables

\* A close statement that starts with rows of the table keeps the types.
LEMMA StartCloseType ==
    ASSUME TypeOK, NEW p \in Proc, NEW statement \in Closing, NEW rows \in SUBSET Event,
           StartClose(p, statement, rows)
    PROVE  TypeOK'
  <1>1. pc' \in [Proc -> Control]
    BY DEF TypeOK, StartClose, Control, InTx, Inserting
  <1> QED
    BY <1>1 DEF TypeOK, StartClose, tables, Closing, Inserting, InTx

\* The rows each close statement selects are rows of the table.
LEMMA SnapshotType ==
    ASSUME TypeOK, NEW e
    PROVE  /\ BySID(e) \in SUBSET Event
           /\ ByRoom(e) \in SUBSET Event
           /\ \A rows \in LatestByIdentity(e) :
                 /\ rows \in SUBSET Event
                 /\ \A j \in rows : j \in ByIdentity(e)
                 /\ \A j, k \in rows : j = k
  BY DEF TypeOK, BySID, ByRoom, ByIdentity, LatestByIdentity

\* COMMIT keeps the types.
LEMMA PublishType ==
    ASSUME TypeOK, NEW p \in Proc, ev[p] \in Event, NEW err \in Error,
           Publish(p), Finish(p, err)
    PROVE  TypeOK'
  <1>1. res' \in [Proc -> Result]
    BY DEF TypeOK, Finish, Result
  <1>2. pc' \in [Proc -> Control]
    BY DEF TypeOK, Finish, Control
  <1>3. endedBy' \in [Event -> Event \cup {NoEvent}]
    BY DEF TypeOK, Publish
  <1>4. eventRaw' \subseteq Event /\ joins' \subseteq Event
    BY DEF TypeOK, Publish
  <1> QED
    BY <1>1, <1>2, <1>3, <1>4 DEF TypeOK, Finish

\* Every step keeps the types; a call in progress has an event.
LEMMA NextType ==
    ASSUME TypeOK, \A p \in Proc : pc[p] # "idle" => ev[p] \in Event, [Next]_vars
    PROVE  TypeOK'
  <1>1. CASE UNCHANGED vars
    BY <1>1 DEF TypeOK, vars, tables, calls
  <1>2. CASE Crash
    <2>1. EmptyResult \in Result
      BY DEF EmptyResult, Result, Error
    <2> QED
      BY <1>2, <2>1 DEF Crash, TypeOK, tables, Control
  <1>3. ASSUME NEW p \in Proc, NEW e \in Event, Call(p, e)
        PROVE  TypeOK'
    BY <1>3 DEF Call, TypeOK, tables, Control, Closing, Inserting, InTx
  <1>4. ASSUME NEW p \in Proc, Return(p)
        PROVE  TypeOK'
    <2>1. EmptyResult \in Result
      BY DEF EmptyResult, Result, Error
    <2> QED
      BY <1>4, <2>1 DEF Return, TypeOK, tables, Control, Closing, Inserting, InTx
  <1>5. ASSUME NEW p \in Proc, Begin(p)
        PROVE  TypeOK'
    BY <1>5 DEF Begin, TypeOK, tables, Control, InTx
  <1>6. ASSUME NEW p \in Proc, Fail(p)
        PROVE  TypeOK'
    <2>1. CASE BeginFails(p) \/ StoreFails(p)
      BY <2>1, RollbackType DEF BeginFails, StoreFails, Error
    <2>2. CASE CommitReplyLost(p)
      BY <2>2, PublishType DEF CommitReplyLost, Error
    <2> QED
      BY <1>6, <2>1, <2>2 DEF Fail
  <1>7. ASSUME NEW p \in Proc, InsertEvent(p)
        PROVE  TypeOK'
    <2>1. CASE Rollback(p, "partition_missing")
      BY <2>1, RollbackType DEF Error
    <2>2. CASE pc' = [pc EXCEPT ![p] = "commit_duplicate"] /\ UNCHANGED <<tables, ev, todo, locked, res>>
      BY <2>2 DEF TypeOK, tables, Control, InTx
    <2>3. CASE /\ pc' = [pc EXCEPT ![p] = "apply_join_effect"]
               /\ res' = [res EXCEPT ![p].stored = TRUE]
               /\ UNCHANGED <<tables, ev, todo, locked>>
      <3>1. pc' \in [Proc -> Control]
        BY <2>3 DEF TypeOK, Control, InTx, Inserting
      <3>2. res' \in [Proc -> Result]
        BY <2>3 DEF TypeOK, Result
      <3> QED
        BY <2>3, <3>1, <3>2 DEF TypeOK, tables, Closing, Inserting, InTx
    <2> QED
      BY <1>7, <2>1, <2>2, <2>3 DEF InsertEvent
  <1>8. ASSUME NEW p \in Proc, ApplyJoinEffect(p)
        PROVE  TypeOK'
    <2>1. CASE OpenJoin(p)
      <3>1. pc' \in [Proc -> Control]
        BY <2>1 DEF OpenJoin, TypeOK, Control, InTx, Inserting
      <3>2. res' \in [Proc -> Result]
        BY <2>1 DEF OpenJoin, TypeOK, Result
      <3> QED
        BY <2>1, <3>1, <3>2 DEF OpenJoin, TypeOK, tables, Closing, Inserting, InTx
    <2>2. CASE StartClose(p, "close_by_sid", BySID(ev[p]))
      BY <2>2, SnapshotType, StartCloseType DEF Closing
    <2>3. CASE \E rows \in LatestByIdentity(ev[p]) : StartClose(p, "close_by_identity", rows)
      BY <2>3, SnapshotType, StartCloseType DEF Closing
    <2>4. CASE StartClose(p, "close_room", ByRoom(ev[p]))
      BY <2>4, SnapshotType, StartCloseType DEF Closing
    <2>5. CASE pc' = [pc EXCEPT ![p] = "commit"] /\ UNCHANGED <<tables, ev, todo, locked, res>>
      BY <2>5 DEF TypeOK, tables, Control, InTx, Inserting
    <2> QED
      BY <1>8, <2>1, <2>2, <2>3, <2>4, <2>5 DEF ApplyJoinEffect
  <1>9. ASSUME NEW p \in Proc, NEW j \in Event, UpdateRow(p, j)
        PROVE  TypeOK'
    BY <1>9 DEF UpdateRow, TypeOK, tables
  <1>10. ASSUME NEW p \in Proc, NEW j \in Event, CloseOutOfOrder(p, j)
         PROVE  TypeOK'
    BY <1>10, RollbackType DEF CloseOutOfOrder, Error
  <1>11. ASSUME NEW p \in Proc, FinishClose(p)
         PROVE  TypeOK'
    <2>1. CASE \E rows \in LatestByIdentity(ev[p]) : StartClose(p, "close_by_identity", rows)
      BY <2>1, SnapshotType, StartCloseType DEF Closing
    <2>2. CASE /\ pc' = [pc EXCEPT ![p] = "commit"]
               /\ res' = [res EXCEPT ![p] = [@ EXCEPT !.closed = locked[p],
                                     !.unmatched = ev[p].type = EventParticipantLeft
                                                   /\ locked[p] = {}]]
               /\ UNCHANGED <<tables, ev, todo, locked>>
      <3>1. pc' \in [Proc -> Control]
        BY <2>2 DEF TypeOK, Control, InTx, Inserting
      <3>2. res' \in [Proc -> Result]
        BY <2>2 DEF TypeOK, Result
      <3> QED
        BY <2>2, <3>1, <3>2 DEF TypeOK, tables, Closing, Inserting, InTx
    <2> QED
      BY <1>11, <2>1, <2>2 DEF FinishClose
  <1>12. ASSUME NEW p \in Proc, Commit(p)
         PROVE  TypeOK'
    BY <1>12, PublishType DEF Commit, Error
  <1>13. ASSUME NEW p \in Proc, CommitDuplicate(p) \/ StatementTimeout(p)
         PROVE  TypeOK'
    BY <1>13, RollbackType DEF CommitDuplicate, StatementTimeout, Error
  <1> QED
    BY <1>1, <1>2, <1>3, <1>4, <1>5, <1>6, <1>7, <1>8, <1>9, <1>10, <1>11, <1>12, <1>13
       DEF Next, RecordEvent, Proceed

-----------------------------------------------------------------------------
(* The invariant is inductive                                              *)

\* A step that leaves the tables alone leaves the facts about them alone.
LEMMA TablesUnchanged ==
    ASSUME EndsAreObserved, OneJoinPerLeave, UNCHANGED tables
    PROVE  EndsAreObserved' /\ OneJoinPerLeave'
  BY DEF EndsAreObserved, OneJoinPerLeave, ClosedBy, Entitled, tables

\* Rollback gives up the rows and keys of one call and touches no other.
LEMMA RollbackKeeps ==
    ASSUME IInv, NEW p \in Proc, NEW err \in Error, pc[p] # "idle", Rollback(p, err)
    PROVE  IInv'
  <1> USE DEF IInv
  <1>1. TypeOK'
    BY RollbackType
  <1>2. /\ pc'[p] = "returned" /\ locked'[p] = {} /\ todo'[p] = {}
        /\ res'[p].opened = res[p].opened /\ ev' = ev /\ UNCHANGED tables
        /\ \A q \in Proc \ {p} : /\ pc'[q] = pc[q] /\ locked'[q] = locked[q]
                               /\ todo'[q] = todo[q] /\ res'[q] = res[q]
    BY DEF TypeOK, Rollback, Finish, Result
  <1>3. UNCHANGED <<eventRaw, joins, endedBy>>
    BY <1>2 DEF tables
  <1>4. Isolation'
    BY <1>2, <1>3 DEF Isolation, Entitled, Inserting, Closing
  <1>5. Selected'
    BY <1>2, <1>3 DEF Selected, Closing
  <1>6. Opening'
    BY <1>2, <1>3 DEF Opening
  <1>7. SingleTarget'
    BY <1>2 DEF SingleTarget
  <1> QED
    BY <1>1, <1>2, <1>4, <1>5, <1>6, <1>7, TablesUnchanged

\* A close statement starts, in a transaction that has updated no row yet.
LEMMA StartCloseKeeps ==
    ASSUME IInv, NEW p \in Proc, NEW statement \in Closing, NEW rows \in SUBSET joins,
           StartClose(p, statement, rows),
           pc[p] \in {"apply_join_effect", "close_by_sid"}, locked[p] = {},
           \A j \in rows : j.room = ev[p].room,
           \/ /\ statement = "close_by_sid"
              /\ ev[p].type = EventParticipantLeft
              /\ ev[p].sid # NoSID
              /\ \A j \in rows : j.sid = ev[p].sid
           \/ /\ statement = "close_by_identity"
              /\ ev[p].type = EventParticipantLeft
              /\ \A j \in rows : j.identity = ev[p].identity
           \/ /\ statement = "close_room"
              /\ ev[p].type = EventRoomFinished,
           ev[p].type = EventParticipantLeft => \A j, k \in rows : j = k
    PROVE  IInv'
  <1> USE DEF IInv
  <1>1. TypeOK'
    <2>1. rows \in SUBSET Event
      BY DEF TypeOK
    <2> QED
      BY <2>1, StartCloseType
  <1>2. /\ pc'[p] = statement /\ todo'[p] = rows
        /\ ev' = ev /\ locked' = locked /\ res' = res
        /\ \A q \in Proc \ {p} : pc'[q] = pc[q] /\ todo'[q] = todo[q]
    BY DEF TypeOK, StartClose
  <1>3. UNCHANGED <<eventRaw, joins, endedBy>>
    BY DEF StartClose, tables
  <1>4. Isolation'
    <2>1. pc[p] \in Inserting /\ statement \in Inserting /\ statement # "idle"
      BY DEF Inserting, Closing
    <2> QED
      BY <1>2, <1>3, <2>1 DEF Isolation, Entitled, Closing
  <1>5. Selected'
    BY <1>2, <1>3 DEF Selected, Closing
  <1>6. Opening'
    <2>1. ~res[p].opened /\ statement # "commit"
      BY DEF Opening, Closing
    <2> QED
      BY <1>2, <1>3, <2>1 DEF Opening
  <1>7. SingleTarget'
    BY <1>2, <1>3 DEF SingleTarget
  <1> QED
    BY <1>1, <1>3, <1>4, <1>5, <1>6, <1>7, TablesUnchanged DEF tables

\* closeByIdentity starts on at most one row, of the same room and identity.
LEMMA StartIdentityKeeps ==
    ASSUME IInv, NEW p \in Proc, NEW rows \in LatestByIdentity(ev[p]),
           StartClose(p, "close_by_identity", rows),
           pc[p] \in {"apply_join_effect", "close_by_sid"}, locked[p] = {},
           ev[p].type = EventParticipantLeft
    PROVE  IInv'
  <1>1. \A j \in rows : j \in ByIdentity(ev[p])
    BY SnapshotType DEF IInv
  <1>2. \A j, k \in rows : j = k
    BY SnapshotType DEF IInv
  <1>3. \A j \in rows : j \in joins /\ j.room = ev[p].room /\ j.identity = ev[p].identity
    BY <1>1 DEF ByIdentity
  <1>4. rows \in SUBSET joins
    BY <1>3
  <1>5. "close_by_identity" \in Closing
    BY DEF Closing
  <1> QED
    BY <1>2, <1>3, <1>4, <1>5, StartCloseKeeps

\* Two rows of one room with one SID are one row: SIDs are new on every join
\* and started_event_id is unique.
LEMMA OneRowPerSID ==
    ASSUME EndsAreObserved, joins \subseteq Event, NEW j \in joins, NEW k \in joins,
           j.room = k.room, j.sid = k.sid, j.sid # NoSID
    PROVE  j = k
  BY SIDAssumption DEF EndsAreObserved

\* applyJoinEffect keeps the invariant.
LEMMA ApplyJoinEffectKeeps ==
    ASSUME IInv, NEW p \in Proc, ApplyJoinEffect(p)
    PROVE  IInv'
  <1> USE DEF IInv
  <1>1. pc[p] = "apply_join_effect" /\ locked[p] = {} /\ todo[p] = {} /\ ~res[p].opened
    BY DEF ApplyJoinEffect, Isolation, Selected, Opening, Closing
  <1>2. ev[p] \in Event /\ joins \subseteq Event
    BY <1>1 DEF Isolation, TypeOK
  <1>3. CASE ev[p].type = EventParticipantJoined /\ OpenJoin(p)
    <2>1. TypeOK'
      <3>1. pc' \in [Proc -> Control]
        BY <1>3 DEF OpenJoin, TypeOK, Control, InTx, Inserting
      <3>2. res' \in [Proc -> Result]
        <4>1. res \in [Proc -> Result]
          BY DEF TypeOK
        <4> QED
          BY <1>3, <4>1 DEF OpenJoin, Result
      <3> QED
        BY <1>1, <1>3, <3>1, <3>2 DEF OpenJoin, TypeOK, tables, Closing, Inserting, InTx
    <2>2. /\ pc'[p] = "commit" /\ ev' = ev /\ locked' = locked /\ todo' = todo
          /\ res'[p].opened <=> ~\E j \in joins : j.id = ev[p].id
          /\ \A q \in Proc \ {p} : pc'[q] = pc[q] /\ res'[q] = res[q]
      BY <1>3 DEF OpenJoin, TypeOK, Result
    <2>3. UNCHANGED <<eventRaw, joins, endedBy>>
      BY <1>3 DEF OpenJoin, tables
    <2>4. Isolation'
      BY <1>1, <2>2, <2>3 DEF Isolation, Entitled, Inserting, Closing
    <2>5. Selected'
      BY <1>1, <2>2, <2>3 DEF Selected, Closing
    <2>6. Opening'
      <3>1. \A q \in Proc \ {p} : res[q].opened /\ pc[q] = "commit" => ev[q].id # ev[p].id
        BY <1>3 DEF OpenJoin, JoinKeyHeld, Inserting
      <3> QED
        BY <1>3, <2>2, <2>3, <3>1 DEF Opening
    <2>7. SingleTarget'
      BY <2>2 DEF SingleTarget
    <2> QED
      BY <2>1, <2>3, <2>4, <2>5, <2>6, <2>7, TablesUnchanged DEF tables
  <1>4. CASE /\ ev[p].type = EventParticipantLeft
             /\ ev[p].sid # NoSID
             /\ StartClose(p, "close_by_sid", BySID(ev[p]))
    <2>1. \A j \in BySID(ev[p]) : j \in joins /\ j.room = ev[p].room /\ j.sid = ev[p].sid
      BY DEF BySID
    <2>2. \A j, k \in BySID(ev[p]) : j = k
      BY <1>2, <1>4, <2>1, OneRowPerSID
    <2>3. BySID(ev[p]) \in SUBSET joins /\ "close_by_sid" \in Closing
      BY <2>1 DEF Closing
    <2> QED
      BY <1>1, <1>4, <2>1, <2>2, <2>3, StartCloseKeeps
  <1>5. CASE /\ ev[p].type = EventParticipantLeft
             /\ \E rows \in LatestByIdentity(ev[p]) : StartClose(p, "close_by_identity", rows)
    BY <1>1, <1>5, StartIdentityKeeps
  <1>6. CASE ev[p].type = EventRoomFinished /\ StartClose(p, "close_room", ByRoom(ev[p]))
    <2>1. \A j \in ByRoom(ev[p]) : j \in joins /\ j.room = ev[p].room
      BY DEF ByRoom
    <2>2. ByRoom(ev[p]) \in SUBSET joins /\ "close_room" \in Closing
      BY <2>1 DEF Closing
    <2>3. ev[p].type # EventParticipantLeft
      BY <1>6 DEF EventParticipantLeft, EventRoomFinished
    <2> QED
      BY <1>1, <1>6, <2>1, <2>2, <2>3, StartCloseKeeps
  <1>7. CASE /\ ev[p].type \notin {EventParticipantJoined, EventParticipantLeft, EventRoomFinished}
             /\ pc' = [pc EXCEPT ![p] = "commit"]
             /\ UNCHANGED <<tables, ev, todo, locked, res>>
    <2>1. /\ pc'[p] = "commit" /\ \A q \in Proc \ {p} : pc'[q] = pc[q]
          /\ UNCHANGED <<eventRaw, joins, endedBy, ev, todo, locked, res>>
      BY <1>7 DEF TypeOK, tables
    <2>2. TypeOK'
      BY <1>7, <2>1 DEF TypeOK, Control, InTx, Inserting
    <2>3. Isolation'
      BY <1>1, <2>1 DEF Isolation, Entitled, Inserting, Closing
    <2>4. Selected'
      BY <1>1, <2>1 DEF Selected, Closing
    <2>5. Opening'
      BY <1>1, <1>7, <2>1 DEF Opening
    <2>6. SingleTarget'
      BY <2>1 DEF SingleTarget
    <2> QED
      BY <2>1, <2>2, <2>3, <2>4, <2>5, <2>6, TablesUnchanged DEF tables
  <1> QED
    BY <1>3, <1>4, <1>5, <1>6, <1>7 DEF ApplyJoinEffect

\* An UPDATE visits a row nobody holds: if it takes the row, the row is open or
\* the statement is closeByIdentity.
LEMMA UpdateRowKeeps ==
    ASSUME IInv, NEW p \in Proc, NEW j \in Event, UpdateRow(p, j)
    PROVE  IInv'
  <1> USE DEF IInv
  <1>1. TypeOK'
    BY DEF UpdateRow, TypeOK, tables
  <1>2. /\ todo'[p] = todo[p] \ {j}
        /\ locked'[p] = IF StillMatches(p, j) THEN locked[p] \cup {j} ELSE locked[p]
        /\ UNCHANGED <<eventRaw, joins, endedBy, pc, ev, res>>
        /\ \A q \in Proc \ {p} : todo'[q] = todo[q] /\ locked'[q] = locked[q]
    BY DEF UpdateRow, TypeOK, tables
  <1>3. /\ pc[p] \in Closing /\ j \in todo[p] /\ j.at <= ev[p].at
        /\ \A q \in Proc \ {p} : j \notin locked[q]
    BY DEF UpdateRow, RowHeld
  <1>4. j \in joins /\ Entitled(ev[p], j)
    BY <1>3 DEF Selected, Entitled, Closing
  <1>5. StillMatches(p, j) =>
          \/ endedBy[j] = NoEvent
          \/ ev[p].type = EventParticipantLeft /\ j.identity = ev[p].identity
    BY <1>3 DEF StillMatches, Selected
  <1>6. Isolation'
    <2>1. Entitled(ev[p], j)'
      BY <1>2, <1>4 DEF Entitled
    <2>2. \A q \in Proc, k \in Event : Entitled(ev[q], k) => Entitled(ev[q], k)'
      BY <1>2 DEF Entitled
    <2>3. \A q \in Proc : \A k \in locked'[q] : k \in locked[q] \/ (q = p /\ k = j /\ StillMatches(p, j))
      BY <1>2
    <2>4. \A q \in Proc : \A r \in Proc \ {q} : locked'[q] \cap locked'[r] = {}
      BY <1>2, <1>3 DEF Isolation
    <2>5. \A q \in Proc : \A k \in locked'[q] :
              /\ k \in joins /\ Entitled(ev[q], k)
              /\ \/ endedBy[k] = NoEvent
                 \/ ev[q].type = EventParticipantLeft /\ k.identity = ev[q].identity
      BY <1>4, <1>5, <2>3 DEF Isolation
    <2>6. \A q \in Proc : locked'[q] # {} => pc[q] \in Closing \cup {"commit"}
      BY <1>2, <1>3 DEF Isolation
    <2> QED
      BY <1>1, <1>2, <2>4, <2>5, <2>6 DEF Isolation, Entitled, TypeOK
  <1>7. Selected'
    BY <1>2 DEF Selected
  <1>8. Opening'
    BY <1>2 DEF Opening
  <1>9. SingleTarget'
    BY <1>2, <1>3 DEF SingleTarget
  <1> QED
    BY <1>1, <1>2, <1>6, <1>7, <1>8, <1>9, TablesUnchanged DEF tables

\* The end of a close statement keeps the invariant.
LEMMA FinishCloseKeeps ==
    ASSUME IInv, NEW p \in Proc, FinishClose(p)
    PROVE  IInv'
  <1> USE DEF IInv
  <1>1. CASE /\ pc[p] = "close_by_sid" /\ locked[p] = {}
             /\ \E rows \in LatestByIdentity(ev[p]) : StartClose(p, "close_by_identity", rows)
    <2>1. ev[p].type = EventParticipantLeft
      BY <1>1 DEF Selected
    <2> QED
      BY <1>1, <2>1, StartIdentityKeeps
  <1>2. CASE /\ pc' = [pc EXCEPT ![p] = "commit"]
             /\ res' = [res EXCEPT ![p] = [@ EXCEPT !.closed = locked[p],
                                     !.unmatched = ev[p].type = EventParticipantLeft
                                                   /\ locked[p] = {}]]
             /\ UNCHANGED <<tables, ev, todo, locked>>
    <2>1. TypeOK'
      <3>1. pc' \in [Proc -> Control]
        BY <1>2 DEF TypeOK, Control, InTx, Inserting
      <3>2. res' \in [Proc -> Result]
        <4>1. res \in [Proc -> Result] /\ locked[p] \in SUBSET Event
          BY DEF TypeOK
        <4> QED
          BY <1>2, <4>1 DEF Result
      <3> QED
        BY <1>2, <3>1, <3>2 DEF TypeOK, tables, Closing, Inserting, InTx
    <2>2. /\ pc'[p] = "commit"
          /\ \A q \in Proc \ {p} : pc'[q] = pc[q] /\ res'[q] = res[q]
          /\ UNCHANGED <<eventRaw, joins, endedBy, ev, todo, locked>>
      BY <1>2 DEF TypeOK, tables
    <2>3. res'[p].opened = res[p].opened
      BY <1>2 DEF TypeOK, Result
    <2>4. pc[p] \in Closing /\ todo[p] = {} /\ pc[p] # "commit"
      BY DEF FinishClose, Closing
    <2>5. ~res[p].opened /\ ev[p].type # EventParticipantJoined
      BY <2>4 DEF Opening, Selected, Closing, EventParticipantJoined, EventParticipantLeft,
                  EventRoomFinished
    <2>6. Isolation'
      BY <2>2, <2>4 DEF Isolation, Entitled, Inserting, Closing
    <2>7. Selected'
      BY <2>2, <2>4 DEF Selected, Closing
    <2>8. Opening'
      BY <2>2, <2>3, <2>5 DEF Opening
    <2>9. SingleTarget'
      BY <2>2 DEF SingleTarget
    <2> QED
      BY <2>1, <2>2, <2>6, <2>7, <2>8, <2>9, TablesUnchanged DEF tables
  <1> QED
    BY <1>1, <1>2 DEF FinishClose

\* INSERT INTO event_raw keeps the invariant: the key is free, and held by p.
LEMMA InsertEventKeeps ==
    ASSUME IInv, NEW p \in Proc, InsertEvent(p)
    PROVE  IInv'
  <1> USE DEF IInv
  <1>1. pc[p] = "insert_event"
    BY DEF InsertEvent
  <1>2. CASE Rollback(p, "partition_missing")
    BY <1>1, <1>2, RollbackKeeps DEF Error
  <1>3. ASSUME NEW c \in {"commit_duplicate", "apply_join_effect"},
               pc' = [pc EXCEPT ![p] = c],
               UNCHANGED <<tables, ev, todo, locked>>,
               res' = res \/ res' = [res EXCEPT ![p].stored = TRUE],
               c = "apply_join_effect" =>
                  ev[p].at \in Partitioned /\ ev[p] \notin eventRaw /\ ~EventKeyHeld(p)
        PROVE  IInv'
    <2>1. TypeOK'
      <3>1. pc' \in [Proc -> Control]
        BY <1>3 DEF TypeOK, Control, InTx, Inserting
      <3>2. res' \in [Proc -> Result]
        <4>1. CASE res' = res
          BY <4>1 DEF TypeOK
        <4>2. CASE res' = [res EXCEPT ![p].stored = TRUE]
          BY <4>2 DEF TypeOK, Result
        <4> QED
          BY <1>3, <4>1, <4>2
      <3> QED
        BY <1>1, <1>3, <3>1, <3>2 DEF TypeOK, tables, Closing, Inserting, InTx
    <2>2. /\ pc'[p] = c
          /\ \A q \in Proc \ {p} : pc'[q] = pc[q]
          /\ UNCHANGED <<eventRaw, joins, endedBy, ev, todo, locked>>
      BY <1>3 DEF TypeOK, tables
    <2>3. \A q \in Proc : res'[q].opened = res[q].opened
      <3>1. CASE res' = res
        BY <3>1
      <3>2. CASE res' = [res EXCEPT ![p].stored = TRUE]
        BY <3>2 DEF TypeOK, Result
      <3> QED
        BY <1>3, <3>1, <3>2
    <2>4. Isolation'
      BY <1>1, <1>3, <2>2 DEF Isolation, Entitled, Inserting, Closing, EventKeyHeld
    <2>5. Selected'
      BY <1>1, <2>2 DEF Selected, Closing
    <2>6. Opening'
      BY <1>1, <2>2, <2>3 DEF Opening
    <2>7. SingleTarget'
      BY <2>2 DEF SingleTarget
    <2> QED
      BY <2>1, <2>2, <2>4, <2>5, <2>6, <2>7, TablesUnchanged DEF tables
  <1> QED
    BY <1>2, <1>3 DEF InsertEvent

\* What a transaction about to commit holds.
LEMMA ReadyToCommit ==
    ASSUME IInv, NEW p \in Proc, pc[p] = "commit"
    PROVE  /\ ev[p] \in Event /\ ev[p] \notin eventRaw /\ ev[p] \notin joins
           /\ ev[p].at \in Partitioned
           /\ \A q \in Proc \ {p} : pc[q] \in Inserting => ev[q] # ev[p]
           /\ locked[p] \in SUBSET joins
           /\ \A j \in locked[p] :
                 /\ Entitled(ev[p], j)
                 /\ \/ endedBy[j] = NoEvent
                    \/ ev[p].type = EventParticipantLeft /\ j.identity = ev[p].identity
           /\ \A j \in Event : endedBy[j] # ev[p]
  <1>1. pc[p] \in Inserting /\ pc[p] # "idle"
    BY DEF Inserting
  <1>2. ev[p] \in Event /\ ev[p] \notin eventRaw
    BY <1>1 DEF IInv, Isolation
  <1>3. \A j \in Event : endedBy[j] # ev[p]
    BY <1>2, NoEventAssumption DEF IInv, EndsAreObserved
  <1> QED
    BY <1>1, <1>2, <1>3 DEF IInv, Isolation, EndsAreObserved

\* COMMIT keeps the invariant: the rows and keys the transaction held become
\* visible, and those of the others are untouched.
LEMMA PublishKeeps ==
    ASSUME IInv, NEW p \in Proc, NEW err \in Error, pc[p] = "commit",
           Publish(p), Finish(p, err)
    PROVE  IInv'
  <1> USE DEF IInv
  <1>1. /\ ev[p] \in Event /\ ev[p] \notin eventRaw /\ ev[p] \notin joins
        /\ \A q \in Proc \ {p} : pc[q] \in Inserting => ev[q] # ev[p]
        /\ locked[p] \in SUBSET joins
        /\ \A j \in locked[p] : Entitled(ev[p], j)
        /\ \A j \in Event : endedBy[j] # ev[p]
    BY ReadyToCommit
  <1>2. TypeOK'
    BY <1>1, PublishType
  <1>3. /\ pc'[p] = "returned" /\ locked'[p] = {} /\ todo'[p] = {} /\ ev' = ev
        /\ res'[p].opened = res[p].opened
        /\ \A q \in Proc \ {p} : /\ pc'[q] = pc[q] /\ locked'[q] = locked[q]
                               /\ todo'[q] = todo[q] /\ res'[q] = res[q]
    BY DEF TypeOK, Finish, Result
  <1>4. /\ eventRaw' = eventRaw \cup {ev[p]}
        /\ joins' = IF res[p].opened THEN joins \cup {ev[p]} ELSE joins
        /\ \A j \in Event : endedBy'[j] = IF j \in locked[p] THEN ev[p] ELSE endedBy[j]
    BY DEF Publish
  <1>5. res[p].opened => /\ ev[p].type = EventParticipantJoined
                         /\ \A j \in joins : j.id # ev[p].id
    BY DEF Opening
  <1>6. Isolation'
    <2>1. \A q \in Proc : pc'[q] # "idle" => ev'[q] \in Event
      BY <1>1, <1>3 DEF Isolation
    <2>2. \A q \in Proc : pc'[q] \in Inserting =>
              /\ ev'[q] \notin eventRaw'
              /\ ev'[q].at \in Partitioned
              /\ \A r \in Proc \ {q} : pc'[r] \in Inserting => ev'[r] # ev'[q]
      <3>1. "returned" \notin Inserting
        BY DEF Inserting, Closing
      <3> QED
        BY <1>1, <1>3, <1>4, <3>1 DEF Isolation
    <2>3. \A q \in Proc : \A r \in Proc \ {q} : locked'[q] \cap locked'[r] = {}
      BY <1>3 DEF Isolation
    <2>4. \A q \in Proc : locked'[q] # {} => pc'[q] \in Closing \cup {"commit"}
      BY <1>3 DEF Isolation
    <2>5. \A q \in Proc : \A j \in locked'[q] :
              /\ q # p /\ j \in locked[q] /\ j \in joins' /\ j \in Event
              /\ Entitled(ev[q], j) /\ endedBy'[j] = endedBy[j]
      <3> SUFFICES ASSUME NEW q \in Proc, NEW j \in locked'[q]
                   PROVE  /\ q # p /\ j \in locked[q] /\ j \in joins' /\ j \in Event
                          /\ Entitled(ev[q], j) /\ endedBy'[j] = endedBy[j]
        OBVIOUS
      <3>1. q # p /\ j \in locked[q] /\ j \in Event
        BY <1>3 DEF TypeOK
      <3>2. j \in joins /\ Entitled(ev[q], j) /\ j \notin locked[p]
        BY <3>1 DEF Isolation
      <3> QED
        BY <1>4, <3>1, <3>2
    <2>6. \A q \in Proc : \A j \in locked'[q] :
              /\ Entitled(ev'[q], j)
              /\ \/ endedBy'[j] = NoEvent
                 \/ ev'[q].type = EventParticipantLeft /\ j.identity = ev'[q].identity
      BY <1>3, <2>5 DEF Isolation
    <2> QED
      BY <2>1, <2>2, <2>3, <2>4, <2>5, <2>6 DEF Isolation, Entitled
  <1>7. Selected'
    BY <1>3, <1>4 DEF Selected
  <1>8. Opening'
    BY <1>3, <1>4 DEF Opening
  <1>9. SingleTarget'
    BY <1>3 DEF SingleTarget
  <1>10. EndsAreObserved'
    <2>1. \A j \in joins' : /\ j \in eventRaw' /\ j.type = EventParticipantJoined
                            /\ \A k \in joins' : k.id = j.id => k = j
      BY <1>4, <1>5 DEF EndsAreObserved
    <2>2. ASSUME NEW j \in Event, endedBy'[j] # NoEvent
          PROVE  /\ j \in joins' /\ endedBy'[j] \in eventRaw' /\ Entitled(endedBy'[j], j)
      <3>1. CASE j \in locked[p]
        BY <1>1, <1>4, <3>1
      <3>2. CASE j \notin locked[p]
        BY <1>4, <2>2, <3>2 DEF EndsAreObserved
      <3> QED
        BY <3>1, <3>2
    <2> QED
      BY <2>1, <2>2 DEF EndsAreObserved, Entitled
  <1>11. OneJoinPerLeave'
    <2> SUFFICES ASSUME NEW e \in Event, e.type = EventParticipantLeft,
                        NEW j \in joins', NEW k \in joins',
                        endedBy'[j] = e, endedBy'[k] = e
                 PROVE  j = k
      BY DEF OneJoinPerLeave, ClosedBy
    <2>1. j \in Event /\ k \in Event
      BY <1>2 DEF TypeOK
    <2>2. CASE e = ev[p]
      <3>1. j \in locked[p] /\ k \in locked[p]
        BY <1>1, <1>4, <2>1, <2>2
      <3> QED
        BY <1>1, <2>2, <3>1 DEF SingleTarget
    <2>3. CASE e # ev[p]
      <3>1. endedBy[j] = e /\ endedBy[k] = e
        BY <1>4, <2>1, <2>3
      <3>2. j \in joins /\ k \in joins
        BY <2>1, <3>1, NoEventAssumption DEF EndsAreObserved
      <3> QED
        BY <3>1, <3>2 DEF OneJoinPerLeave, ClosedBy
    <2> QED
      BY <2>2, <2>3
  <1> QED
    BY <1>2, <1>6, <1>7, <1>8, <1>9, <1>10, <1>11

\* A call begins, gets a connection, or hands its result over.
LEMMA OutsideKeeps ==
    ASSUME IInv, TypeOK', NEW p \in Proc,
           (\E e \in Event : Call(p, e)) \/ Begin(p) \/ Return(p)
    PROVE  IInv'
  <1> USE DEF IInv
  <1>1. /\ pc[p] \in {"idle", "begin", "returned"}
        /\ pc'[p] \in {"begin", "insert_event", "idle"}
        /\ pc'[p] # "idle" => ev'[p] \in Event
        /\ UNCHANGED <<eventRaw, joins, endedBy, todo, locked>>
        /\ \A q \in Proc \ {p} : pc'[q] = pc[q] /\ ev'[q] = ev[q] /\ res'[q] = res[q]
    BY DEF Call, Begin, Return, TypeOK, Isolation, tables
  <1>2. ~res'[p].opened
    BY DEF Call, Begin, Return, TypeOK, Opening, EmptyResult
  <1>3. locked[p] = {} /\ todo[p] = {}
    BY <1>1 DEF Isolation, Selected, Closing
  <1>4. Isolation'
    BY <1>1, <1>3 DEF Isolation, Entitled, Inserting, Closing
  <1>5. Selected'
    BY <1>1, <1>3 DEF Selected, Closing
  <1>6. Opening'
    BY <1>1, <1>2 DEF Opening
  <1>7. SingleTarget'
    BY <1>1, <1>3 DEF SingleTarget
  <1> QED
    BY <1>1, <1>4, <1>5, <1>6, <1>7, TablesUnchanged DEF tables

\* A crash forgets every call.
LEMMA CrashKeeps ==
    ASSUME IInv, TypeOK', Crash
    PROVE  IInv'
  <1> USE DEF IInv
  <1>1. /\ UNCHANGED <<eventRaw, joins, endedBy>>
        /\ \A q \in Proc : /\ pc'[q] = "idle" /\ todo'[q] = {} /\ locked'[q] = {}
                           /\ ~res'[q].opened
    BY DEF Crash, tables, EmptyResult
  <1>2. Isolation'
    BY <1>1 DEF Isolation, Inserting, Closing
  <1>3. Selected' /\ Opening' /\ SingleTarget'
    BY <1>1 DEF Selected, Opening, SingleTarget
  <1> QED
    BY <1>1, <1>2, <1>3, TablesUnchanged DEF tables

\* The invariant holds initially and is kept by every step.
LEMMA Inductive ==
    /\ Init => IInv
    /\ IInv /\ [Next]_vars => IInv'
  <1>1. Init => IInv
    <2> SUFFICES ASSUME Init PROVE IInv
      OBVIOUS
    <2>1. EmptyResult \in Result /\ ~EmptyResult.opened
      BY DEF EmptyResult, Result, Error
    <2>2. TypeOK
      BY <2>1 DEF Init, TypeOK, Control
    <2>3. Isolation
      BY DEF Init, Isolation, Inserting, Closing
    <2>4. Selected /\ Opening /\ SingleTarget
      BY <2>1 DEF Init, Selected, Opening, SingleTarget
    <2>5. EndsAreObserved /\ OneJoinPerLeave
      BY DEF Init, EndsAreObserved, OneJoinPerLeave, ClosedBy
    <2> QED
      BY <2>2, <2>3, <2>4, <2>5 DEF IInv
  <1>2. ASSUME IInv, [Next]_vars
        PROVE  IInv'
    <2>1. TypeOK'
      BY <1>2, NextType DEF IInv, Isolation
    <2>2. CASE UNCHANGED vars
      BY <1>2, <2>1, <2>2, TablesUnchanged
         DEF IInv, Isolation, Selected, Opening, SingleTarget, Entitled, vars, tables, calls
    <2>3. CASE Crash
      BY <1>2, <2>1, <2>3, CrashKeeps
    <2>4. ASSUME NEW p \in Proc, (\E e \in Event : Call(p, e)) \/ Begin(p) \/ Return(p)
          PROVE  IInv'
      BY <1>2, <2>1, <2>4, OutsideKeeps
    <2>5. ASSUME NEW p \in Proc, Fail(p)
          PROVE  IInv'
      <3>1. CASE BeginFails(p)
        BY <1>2, <3>1, RollbackKeeps DEF BeginFails, Error
      <3>2. CASE StoreFails(p)
        BY <1>2, <3>2, RollbackKeeps DEF StoreFails, Error, InTx, Inserting, Closing
      <3>3. CASE CommitReplyLost(p)
        BY <1>2, <3>3, PublishKeeps DEF CommitReplyLost, Error
      <3> QED
        BY <2>5, <3>1, <3>2, <3>3 DEF Fail
    <2>6. ASSUME NEW p \in Proc, NEW j \in Event, UpdateRow(p, j) \/ CloseOutOfOrder(p, j)
          PROVE  IInv'
      <3>1. CASE UpdateRow(p, j)
        BY <1>2, <3>1, UpdateRowKeeps
      <3>2. CASE CloseOutOfOrder(p, j)
        BY <1>2, <3>2, RollbackKeeps DEF CloseOutOfOrder, Error, Closing
      <3> QED
        BY <2>6, <3>1, <3>2
    <2>7. ASSUME NEW p \in Proc, Commit(p) \/ CommitDuplicate(p) \/ StatementTimeout(p)
          PROVE  IInv'
      <3>1. CASE Commit(p)
        BY <1>2, <3>1, PublishKeeps DEF Commit, Error
      <3>2. CASE CommitDuplicate(p)
        BY <1>2, <3>2, RollbackKeeps DEF CommitDuplicate, Error
      <3>3. CASE StatementTimeout(p)
        BY <1>2, <3>3, RollbackKeeps DEF StatementTimeout, Blocked, Error, Closing
      <3> QED
        BY <2>7, <3>1, <3>2, <3>3
    <2>8. ASSUME NEW p \in Proc, InsertEvent(p) \/ ApplyJoinEffect(p) \/ FinishClose(p)
          PROVE  IInv'
      BY <1>2, <2>8, InsertEventKeeps, ApplyJoinEffectKeeps, FinishCloseKeeps
    <2> QED
      BY <1>2, <2>2, <2>3, <2>4, <2>5, <2>6, <2>7, <2>8 DEF Next, RecordEvent, Proceed
  <1> QED
    BY <1>1, <1>2

\* IInv is an invariant of RecordEvent under any concurrency and any failures.
THEOREM Invariance == Spec => []IInv
  BY Inductive, PTL DEF Spec

-----------------------------------------------------------------------------
(* Results                                                                 *)

\* Every variable keeps its type.
THEOREM TypeCorrect == Spec => []TypeOK
  <1>1. IInv => TypeOK
    BY DEF IInv
  <1> QED
    BY <1>1, Invariance, PTL

\* Calls of RecordEvent are isolated: no two transactions store one event or
\* hold one join row, and a row held for a close that asks for an open join is
\* still open when the transaction commits.
THEOREM CallsAreIsolated == Spec => []Isolation
  <1>1. IInv => Isolation
    BY DEF IInv
  <1> QED
    BY <1>1, Invariance, PTL

\* Every join and every end on it comes from a stored event that is entitled to
\* it, and started_event_id is unique.
THEOREM ObservedEnds == Spec => []EndsAreObserved
  <1>1. IInv => EndsAreObserved
    BY DEF IInv
  <1> QED
    BY <1>1, Invariance, PTL

\* One departure ends at most one join.
THEOREM AtMostOneJoinPerLeave == Spec => []OneJoinPerLeave
  <1>1. IInv => OneJoinPerLeave
    BY DEF IInv
  <1> QED
    BY <1>1, Invariance, PTL

\* A call writes to the tables only when it commits.
LEMMA OnlyCommitWrites ==
    ASSUME NEW p \in Proc, RecordEvent(p), ~(pc[p] = "commit" /\ Publish(p))
    PROVE  UNCHANGED tables
  <1>1. CASE InsertEvent(p) \/ ApplyJoinEffect(p) \/ FinishClose(p)
    BY <1>1 DEF InsertEvent, ApplyJoinEffect, FinishClose, OpenJoin, StartClose, Rollback
  <1>2. CASE \E j \in Event : UpdateRow(p, j) \/ CloseOutOfOrder(p, j)
    BY <1>2 DEF UpdateRow, CloseOutOfOrder, Rollback
  <1>3. CASE Begin(p) \/ CommitDuplicate(p) \/ StatementTimeout(p)
    BY <1>3 DEF Begin, CommitDuplicate, StatementTimeout, Rollback
  <1>4. CASE Fail(p) \/ Commit(p)
    BY <1>4 DEF Fail, BeginFails, StoreFails, CommitReplyLost, Commit, Rollback
  <1> QED
    BY <1>1, <1>2, <1>3, <1>4 DEF RecordEvent, Proceed

\* The tables change only by the commit of a transaction that stores its event.
LEMMA OnlyCommitsWrite ==
    ASSUME [Next]_vars
    PROVE  \/ UNCHANGED tables
           \/ \E p \in Proc : pc[p] = "commit" /\ Publish(p)
  <1>1. CASE UNCHANGED vars
    BY <1>1 DEF vars
  <1>2. CASE Crash
    BY <1>2 DEF Crash
  <1>3. ASSUME NEW p \in Proc, (\E e \in Event : Call(p, e)) \/ Return(p)
        PROVE  UNCHANGED tables
    BY <1>3 DEF Call, Return
  <1> QED
    BY <1>1, <1>2, <1>3, OnlyCommitWrites DEF Next

\* A step that stores one event leaves the effect of every stored event alone.
LEMMA StoredEffectStays ==
    ASSUME IInv, [Next]_vars, NEW e \in eventRaw
    PROVE  /\ e \in eventRaw'
           /\ ClosedBy(e)' \subseteq ClosedBy(e)
           /\ e \in joins' <=> e \in joins
  <1>1. CASE UNCHANGED tables
    BY <1>1 DEF tables, ClosedBy
  <1>2. ASSUME NEW p \in Proc, pc[p] = "commit", Publish(p)
        PROVE  /\ e \in eventRaw'
               /\ ClosedBy(e)' \subseteq ClosedBy(e)
               /\ e \in joins' <=> e \in joins
    <2>1. e # ev[p] /\ ev[p] \in Event /\ ev[p] \notin joins /\ ev[p] \notin eventRaw
      BY <1>2, ReadyToCommit
    <2>2. joins \subseteq Event /\ e \in Event
      BY DEF IInv, TypeOK
    <2>3. /\ eventRaw' = eventRaw \cup {ev[p]}
          /\ joins' = IF res[p].opened THEN joins \cup {ev[p]} ELSE joins
          /\ \A j \in Event : endedBy'[j] = IF j \in locked[p] THEN ev[p] ELSE endedBy[j]
      BY <1>2 DEF Publish
    <2>4. ASSUME NEW j \in joins', endedBy'[j] = e
          PROVE  j \in joins /\ endedBy[j] = e
      <3>1. j \in Event /\ endedBy[j] = e
        BY <2>1, <2>2, <2>3, <2>4
      <3> QED
        BY <2>2, <3>1, NoEventAssumption DEF IInv, EndsAreObserved
    <2>5. ClosedBy(e)' \subseteq ClosedBy(e)
      BY <2>4 DEF ClosedBy
    <2> QED
      BY <2>1, <2>3, <2>5
  <1> QED
    BY <1>1, <1>2, OnlyCommitsWrite

\* The effect of an event is applied in the step that stores it and never again.
THEOREM AppliedOnce == Spec => EffectAppliedOnce
  <1>1. ASSUME IInv, [Next]_vars
        PROVE  \A e \in eventRaw : /\ e \in eventRaw'
                                   /\ ClosedBy(e)' \subseteq ClosedBy(e)
                                   /\ e \in joins' <=> e \in joins
    BY <1>1, StoredEffectStays
  <1> QED
    BY <1>1, Invariance, PTL DEF Spec, EffectAppliedOnce

\* A closed join is never reopened, and only closeByIdentity replaces an end.
THEOREM ClosedJoinsStayClosed == Spec => ClosesStick
  <1>1. ASSUME IInv, [Next]_vars
        PROVE  \A j \in Event :
                  endedBy[j] # NoEvent /\ endedBy'[j] # endedBy[j] =>
                      /\ endedBy'[j] \in Event
                      /\ endedBy'[j].type = EventParticipantLeft
                      /\ endedBy'[j].room = j.room
                      /\ endedBy'[j].identity = j.identity
    <2> SUFFICES ASSUME NEW j \in Event, endedBy[j] # NoEvent, endedBy'[j] # endedBy[j]
                 PROVE  /\ endedBy'[j] \in Event
                        /\ endedBy'[j].type = EventParticipantLeft
                        /\ endedBy'[j].room = j.room
                        /\ endedBy'[j].identity = j.identity
      OBVIOUS
    <2>1. PICK p \in Proc : pc[p] = "commit" /\ Publish(p)
      BY <1>1, OnlyCommitsWrite DEF tables
    <2>2. j \in locked[p] /\ endedBy'[j] = ev[p]
      BY <2>1 DEF Publish
    <2>3. /\ ev[p] \in Event /\ Entitled(ev[p], j)
          /\ ev[p].type = EventParticipantLeft /\ j.identity = ev[p].identity
      BY <1>1, <2>1, <2>2, ReadyToCommit
    <2> QED
      BY <2>2, <2>3 DEF Entitled
  <1> QED
    BY <1>1, Invariance, PTL DEF Spec, ClosesStick

-----------------------------------------------------------------------------
(* RecordEvent implements the ledger                                       *)

\* A commit is one Record step of the ledger.
LEMMA CommitIsRecord ==
    ASSUME IInv, NEW p \in Proc, pc[p] = "commit", Publish(p)
    PROVE  Ledger!Record(ev[p])
  <1> USE DEF EventParticipantJoined, EventParticipantLeft, EventRoomFinished,
              Ledger!EventParticipantJoined, Ledger!EventParticipantLeft,
              Ledger!EventRoomFinished
  <1>1. /\ ev[p] \in Event /\ ev[p] \notin eventRaw /\ ev[p].at \in Partitioned
        /\ locked[p] \in SUBSET joins
        /\ \A j \in locked[p] :
              /\ Entitled(ev[p], j)
              /\ \/ endedBy[j] = NoEvent
                 \/ ev[p].type = EventParticipantLeft /\ j.identity = ev[p].identity
    BY ReadyToCommit
  <1>2. eventRaw' = eventRaw \cup {ev[p]}
    BY DEF Publish
  <1>3. Ledger!EndJoins(locked[p], ev[p])
    BY DEF Publish, Ledger!EndJoins
  <1>4. ev[p].type # EventParticipantJoined => UNCHANGED joins
    BY DEF IInv, Opening, Publish
  <1>5. CASE ev[p].type = EventParticipantJoined
    <2>1. locked[p] = {}
      BY <1>1, <1>5 DEF Entitled
    <2>2. endedBy' = endedBy
      BY <2>1 DEF Publish, IInv, TypeOK
    <2>3. joins' = IF \E j \in joins : j.id = ev[p].id THEN joins ELSE joins \cup {ev[p]}
      BY <1>5 DEF IInv, Opening, Publish
    <2> QED
      BY <1>1, <1>2, <1>5, <2>2, <2>3 DEF Ledger!Record, Ledger!Opens
  <1>6. CASE ev[p].type = EventParticipantLeft
    <2>1. \A j, k \in locked[p] : j = k
      BY <1>1, <1>6 DEF IInv, SingleTarget
    <2>2. \A j \in locked[p] :
              /\ Ledger!MayEnd(ev[p], j)
              /\ \/ Ledger!SameSID(ev[p], j) /\ endedBy[j] = NoEvent
                 \/ j.identity = ev[p].identity
      BY <1>1, <1>6 DEF Entitled, Ledger!MayEnd, Ledger!SameSID
    <2>3. Ledger!Leaves(ev[p])
      BY <1>1, <1>3, <1>4, <1>6, <2>1, <2>2 DEF Ledger!Leaves
    <2> QED
      BY <1>1, <1>2, <2>3 DEF Ledger!Record
  <1>7. CASE ev[p].type = EventRoomFinished
    <2>1. \A j \in locked[p] : Ledger!MayEnd(ev[p], j) /\ endedBy[j] = NoEvent
      BY <1>1, <1>7 DEF Entitled, Ledger!MayEnd
    <2>2. Ledger!Finishes(ev[p])
      BY <1>1, <1>3, <1>4, <1>7, <2>1 DEF Ledger!Finishes
    <2> QED
      BY <1>1, <1>2, <2>2 DEF Ledger!Record
  <1>8. CASE ev[p].type \notin {EventParticipantJoined, EventParticipantLeft, EventRoomFinished}
    <2>1. locked[p] = {}
      BY <1>1, <1>8 DEF Entitled
    <2>2. endedBy' = endedBy
      BY <2>1 DEF Publish, IInv, TypeOK
    <2> QED
      BY <1>1, <1>2, <1>4, <1>8, <2>2 DEF Ledger!Record, Ledger!OnlyStored
  <1> QED
    BY <1>5, <1>6, <1>7, <1>8

\* RecordEvent, with its separate statements, waits, failures and retries,
\* implements the one-step contract of store.Writer.
THEOREM RecordEventImplementsLedger == Spec => LedgerSpec
  <1>1. Init => Ledger!Init
    BY DEF Init, Ledger!Init
  <1>2. ASSUME IInv, [Next]_vars
        PROVE  [Ledger!Next]_(Ledger!ledgerVars)
    <2>1. CASE UNCHANGED tables
      BY <2>1 DEF tables, Ledger!ledgerVars
    <2>2. ASSUME NEW p \in Proc, pc[p] = "commit", Publish(p)
          PROVE  Ledger!Next
      <3>1. ev[p] \in Event
        BY <1>2, <2>2, ReadyToCommit
      <3> QED
        BY <1>2, <2>2, <3>1, CommitIsRecord DEF Ledger!Next
    <2> QED
      BY <1>2, <2>1, <2>2, OnlyCommitsWrite
  <1> QED
    BY <1>1, <1>2, Invariance, PTL DEF Spec, LedgerSpec, Ledger!Spec
=============================================================================
