------------------------ MODULE JoinStoreReplyProofs ------------------------
(***************************************************************************)
(* What RecordEvent returns is so: proofs about the store.Result and the   *)
(* error of every call, on top of the invariant of JoinStoreProofs.        *)
(***************************************************************************)
EXTENDS JoinStoreProofs

-----------------------------------------------------------------------------
(* The invariant                                                           *)

\* A Result under way: empty until the event's row is inserted, and when the
\* call is about to commit what it says is what the transaction holds.
ResultInProgress(p) ==
    /\ pc[p] \in {"idle", "begin", "insert_event", "commit_duplicate"} =>
          res[p] = EmptyResult
    /\ pc[p] \in Inserting => res[p].stored /\ res[p].err = "none"
    /\ pc[p] \in Inserting \ {"commit"} => res[p].closed = {} /\ ~res[p].unmatched
    /\ pc[p] = "commit" =>
          /\ res[p].closed = locked[p]
          /\ res[p].unmatched => locked[p] = {}
    /\ pc[p] = "commit_duplicate" => ev[p] \in eventRaw

\* A Result that has been returned, and why an error was.
ResultReturned(p) ==
    pc[p] = "returned" =>
        /\ res[p].err = "none" =>
              /\ ev[p] \in eventRaw
              /\ res[p].opened => res[p].stored /\ ev[p] \in joins
              /\ res[p].closed \subseteq joins
              /\ \A j \in res[p].closed : endedBy[j] # NoEvent
              /\ res[p].unmatched => ClosedBy(ev[p]) = {}
        /\ res[p].err = "partition_missing" => ev[p].at \notin Partitioned
        /\ res[p].err = "close_out_of_order" =>
              ev[p].type \in {EventParticipantLeft, EventRoomFinished}

\* Of the calls for one event at most one has reported it stored.
OneStores ==
    \A p, q \in Proc :
        /\ p # q
        /\ pc[p] = "returned" /\ res[p].err = "none" /\ res[p].stored
        /\ pc[q] = "returned" /\ res[q].err = "none" /\ res[q].stored
        => ev[p] # ev[q]

RowsHaveAPartition == \A e \in eventRaw : e.at \in Partitioned

Replies ==
    /\ \A p \in Proc : ResultInProgress(p) /\ ResultReturned(p)
    /\ OneStores
    /\ RowsHaveAPartition

-----------------------------------------------------------------------------
(* The invariant is inductive                                              *)

\* Rows that are closed stay closed, and no row is deleted.
LEMMA ClosedRowsStay ==
    ASSUME IInv, [Next]_vars
    PROVE  /\ joins \subseteq joins'
           /\ \A j \in joins : endedBy[j] # NoEvent => endedBy'[j] # NoEvent
  <1>1. CASE UNCHANGED tables
    BY <1>1 DEF tables
  <1>2. ASSUME NEW p \in Proc, pc[p] = "commit", Publish(p)
        PROVE  /\ joins \subseteq joins'
               /\ \A j \in joins : endedBy[j] # NoEvent => endedBy'[j] # NoEvent
    <2>1. ev[p] \in Event /\ joins \subseteq Event
      BY <1>2, ReadyToCommit DEF IInv, TypeOK
    <2> QED
      BY <1>2, <2>1, NoEventAssumption DEF Publish
  <1> QED
    BY <1>1, <1>2, OnlyCommitsWrite

\* A step of one call leaves the variables of the others alone.
LEMMA OneCallMoves ==
    ASSUME TypeOK, NEW p \in Proc, NEW q \in Proc, p # q,
           (\E e \in Event : Call(p, e)) \/ RecordEvent(p) \/ Return(p)
    PROVE  /\ pc'[q] = pc[q] /\ ev'[q] = ev[q] /\ res'[q] = res[q]
           /\ todo'[q] = todo[q] /\ locked'[q] = locked[q]
  <1> USE DEF TypeOK
  <1>1. CASE (\E e \in Event : Call(p, e)) \/ Begin(p) \/ Return(p)
    BY <1>1 DEF Call, Begin, Return
  <1>2. CASE \E err \in Error : Finish(p, err)
    BY <1>2 DEF Finish
  <1>3. CASE InsertEvent(p)
    BY <1>2, <1>3 DEF InsertEvent, Rollback, Error
  <1>4. CASE ApplyJoinEffect(p)
    BY <1>4 DEF ApplyJoinEffect, OpenJoin, StartClose
  <1>5. CASE FinishClose(p)
    BY <1>5 DEF FinishClose, StartClose
  <1>6. CASE \E j \in Event : UpdateRow(p, j)
    BY <1>6 DEF UpdateRow
  <1>7. CASE Fail(p) \/ Commit(p) \/ CommitDuplicate(p) \/ StatementTimeout(p)
             \/ \E j \in Event : CloseOutOfOrder(p, j)
    BY <1>2, <1>7 DEF Fail, BeginFails, StoreFails, CommitReplyLost, Commit, CommitDuplicate,
                      StatementTimeout, CloseOutOfOrder, Rollback, Error
  <1> QED
    BY <1>1, <1>3, <1>4, <1>5, <1>6, <1>7 DEF RecordEvent, Proceed

\* RecordEvent keeps its argument, and is in progress before and after each of
\* its steps.
LEMMA CallStaysBusy ==
    ASSUME TypeOK, NEW p \in Proc, RecordEvent(p)
    PROVE  pc[p] # "idle" /\ pc'[p] # "idle" /\ ev' = ev
  <1> USE DEF TypeOK, Closing
  <1>1. CASE Begin(p) \/ InsertEvent(p)
    BY <1>1 DEF Begin, InsertEvent, Rollback, Finish
  <1>2. CASE ApplyJoinEffect(p)
    BY <1>2 DEF ApplyJoinEffect, OpenJoin, StartClose
  <1>3. CASE FinishClose(p) \/ \E j \in Event : UpdateRow(p, j)
    BY <1>3 DEF FinishClose, StartClose, UpdateRow
  <1>4. CASE Fail(p) \/ Commit(p) \/ CommitDuplicate(p)
    BY <1>4 DEF Fail, BeginFails, StoreFails, CommitReplyLost, Commit, CommitDuplicate,
                Rollback, Finish, InTx, Inserting
  <1>5. CASE StatementTimeout(p) \/ \E j \in Event : CloseOutOfOrder(p, j)
    BY <1>5 DEF StatementTimeout, Blocked, CloseOutOfOrder, Rollback, Finish
  <1> QED
    BY <1>1, <1>2, <1>3, <1>4, <1>5 DEF RecordEvent, Proceed

\* What a call has promised stays so while the others move.
LEMMA BystanderKeeps ==
    ASSUME IInv, [Next]_vars, NEW q \in Proc,
           ResultInProgress(q), ResultReturned(q),
           pc'[q] = pc[q], ev'[q] = ev[q], res'[q] = res[q], locked'[q] = locked[q]
    PROVE  ResultInProgress(q)' /\ ResultReturned(q)'
  <1>1. ev[q] \in eventRaw => ev[q] \in eventRaw' /\ ClosedBy(ev[q])' \subseteq ClosedBy(ev[q])
    BY StoredEffectStays DEF ClosedBy
  <1>2. /\ joins \subseteq joins'
        /\ \A j \in joins : endedBy[j] # NoEvent => endedBy'[j] # NoEvent
    BY ClosedRowsStay
  <1>3. ResultInProgress(q)'
    BY <1>1 DEF ResultInProgress
  <1>4. ResultReturned(q)'
    BY <1>1, <1>2 DEF ResultReturned, ClosedBy
  <1> QED
    BY <1>3, <1>4

\* A call that ends without a commit returns its error, or the empty Result of
\* a duplicate.
LEMMA RollbackReplies ==
    ASSUME IInv, Replies, NEW p \in Proc, NEW err \in Error, Rollback(p, err),
           err = "none" => pc[p] = "commit_duplicate",
           err = "partition_missing" => ev[p].at \notin Partitioned,
           err = "close_out_of_order" => ev[p].type \in {EventParticipantLeft, EventRoomFinished}
    PROVE  /\ ResultInProgress(p)' /\ ResultReturned(p)'
           /\ pc'[p] = "returned"
           /\ res'[p].err = "none" => ~res'[p].stored
  <1>1. /\ pc'[p] = "returned" /\ res'[p].err = err /\ ev' = ev
        /\ res'[p].stored = res[p].stored /\ res'[p].opened = res[p].opened
        /\ res'[p].closed = res[p].closed /\ res'[p].unmatched = res[p].unmatched
        /\ UNCHANGED <<eventRaw, joins, endedBy>>
    BY DEF Rollback, Finish, IInv, TypeOK, Result, tables
  <1>2. err = "none" => /\ ev[p] \in eventRaw
                        /\ ~res[p].stored /\ ~res[p].opened /\ ~res[p].unmatched
                        /\ res[p].closed = {}
    BY DEF Replies, ResultInProgress, EmptyResult
  <1>3. ResultInProgress(p)'
    BY <1>1 DEF ResultInProgress, Inserting, Closing
  <1>4. ResultReturned(p)'
    BY <1>1, <1>2 DEF ResultReturned, ClosedBy
  <1> QED
    BY <1>1, <1>2, <1>3, <1>4

\* A call that commits returns what its transaction held, which is now visible.
LEMMA PublishReplies ==
    ASSUME IInv, Replies, NEW p \in Proc, NEW err \in {"none", "failed"}, pc[p] = "commit",
           Publish(p), Finish(p, err)
    PROVE  ResultInProgress(p)' /\ ResultReturned(p)'
  <1>1. /\ pc'[p] = "returned" /\ res'[p].err = err /\ ev' = ev
        /\ res'[p].stored = res[p].stored /\ res'[p].opened = res[p].opened
        /\ res'[p].closed = res[p].closed /\ res'[p].unmatched = res[p].unmatched
    BY DEF Finish, IInv, TypeOK, Result
  <1>2. /\ ev[p] \in Event /\ locked[p] \in SUBSET joins /\ joins \subseteq Event
        /\ \A j \in Event : endedBy[j] # ev[p]
    BY ReadyToCommit DEF IInv, TypeOK
  <1>3. /\ eventRaw' = eventRaw \cup {ev[p]}
        /\ joins' = IF res[p].opened THEN joins \cup {ev[p]} ELSE joins
        /\ \A j \in Event : endedBy'[j] = IF j \in locked[p] THEN ev[p] ELSE endedBy[j]
    BY DEF Publish
  <1>4. /\ res[p].closed = locked[p] /\ res[p].stored
        /\ res[p].unmatched => locked[p] = {}
    BY DEF Replies, ResultInProgress, Inserting
  <1>5. ResultInProgress(p)'
    BY <1>1 DEF ResultInProgress, Inserting, Closing
  <1>6. ResultReturned(p)'
    <2>1. \A j \in res'[p].closed : j \in joins' /\ endedBy'[j] # NoEvent
      BY <1>1, <1>2, <1>3, <1>4, NoEventAssumption
    <2>2. res'[p].opened => res'[p].stored /\ ev'[p] \in joins'
      BY <1>1, <1>3, <1>4
    <2>3. res'[p].unmatched => ClosedBy(ev[p])' = {}
      BY <1>1, <1>2, <1>3, <1>4 DEF ClosedBy
    <2> QED
      BY <1>1, <1>3, <2>1, <2>2, <2>3 DEF ResultReturned
  <1> QED
    BY <1>5, <1>6

\* The statements of a transaction fill the Result in.
LEMMA StatementReplies ==
    ASSUME IInv, Replies, NEW p \in Proc,
           \/ Begin(p) \/ ApplyJoinEffect(p) \/ FinishClose(p)
           \/ \E j \in Event : UpdateRow(p, j)
           \/ InsertEvent(p) /\ ~Rollback(p, "partition_missing")
    PROVE  ResultInProgress(p)' /\ pc'[p] # "returned"
  <1> USE DEF Inserting, Closing
  <1>0. ResultInProgress(p)
    BY DEF Replies
  <1>1. CASE Begin(p)
    BY <1>0, <1>1 DEF Begin, IInv, TypeOK, ResultInProgress
  <1>2. CASE InsertEvent(p) /\ ~Rollback(p, "partition_missing")
    <2>1. pc[p] = "insert_event" /\ res[p] = EmptyResult
      BY <1>0, <1>2 DEF InsertEvent, ResultInProgress
    <2>2. CASE /\ ev[p] \in eventRaw
               /\ pc' = [pc EXCEPT ![p] = "commit_duplicate"]
               /\ UNCHANGED <<tables, ev, todo, locked, res>>
      BY <2>1, <2>2 DEF IInv, TypeOK, ResultInProgress, tables
    <2>3. CASE /\ pc' = [pc EXCEPT ![p] = "apply_join_effect"]
               /\ res' = [res EXCEPT ![p].stored = TRUE]
      <3>1. /\ pc'[p] = "apply_join_effect" /\ res'[p].stored /\ res'[p].err = "none"
            /\ res'[p].closed = {} /\ ~res'[p].unmatched
        BY <2>1, <2>3 DEF IInv, TypeOK, Result, EmptyResult
      <3> QED
        BY <3>1 DEF ResultInProgress
    <2> QED
      BY <1>2, <2>2, <2>3 DEF InsertEvent
  <1>3. CASE ApplyJoinEffect(p)
    <2>1. /\ pc[p] = "apply_join_effect" /\ locked[p] = {}
          /\ res[p].stored /\ res[p].err = "none" /\ res[p].closed = {} /\ ~res[p].unmatched
      BY <1>0, <1>3 DEF ApplyJoinEffect, ResultInProgress, IInv, Isolation
    <2>2. CASE OpenJoin(p)
      <3>1. /\ pc'[p] = "commit" /\ res'[p].stored /\ res'[p].err = "none" /\ locked' = locked
            /\ res'[p].closed = {} /\ ~res'[p].unmatched
        BY <2>1, <2>2 DEF OpenJoin, IInv, TypeOK, Result
      <3> QED
        BY <2>1, <3>1 DEF ResultInProgress
    <2>3. ASSUME NEW c \in Closing \cup {"commit"}, pc' = [pc EXCEPT ![p] = c],
                 UNCHANGED <<locked, res>>
          PROVE  ResultInProgress(p)' /\ pc'[p] # "returned"
      BY <2>1, <2>3 DEF IInv, TypeOK, ResultInProgress
    <2> QED
      BY <1>3, <2>2, <2>3 DEF ApplyJoinEffect, StartClose
  <1>4. CASE \E j \in Event : UpdateRow(p, j)
    <2>1. pc[p] \in Closing /\ pc' = pc /\ res' = res
      BY <1>4 DEF UpdateRow
    <2> QED
      BY <1>0, <2>1 DEF ResultInProgress
  <1>5. CASE FinishClose(p)
    <2>1. /\ pc[p] \in Closing
          /\ res[p].stored /\ res[p].err = "none" /\ res[p].closed = {} /\ ~res[p].unmatched
      BY <1>0, <1>5 DEF FinishClose, ResultInProgress
    <2>2. CASE \E rows \in LatestByIdentity(ev[p]) : StartClose(p, "close_by_identity", rows)
      BY <2>1, <2>2 DEF StartClose, IInv, TypeOK, ResultInProgress
    <2>3. CASE /\ pc' = [pc EXCEPT ![p] = "commit"]
               /\ res' = [res EXCEPT ![p] = [@ EXCEPT !.closed = locked[p],
                                     !.unmatched = ev[p].type = EventParticipantLeft
                                                   /\ locked[p] = {}]]
               /\ UNCHANGED <<tables, ev, todo, locked>>
      <3>1. /\ pc'[p] = "commit" /\ res'[p].stored /\ res'[p].err = "none" /\ locked' = locked
            /\ res'[p].closed = locked[p] /\ (res'[p].unmatched => locked[p] = {})
        BY <2>1, <2>3 DEF IInv, TypeOK, Result
      <3> QED
        BY <3>1 DEF ResultInProgress
    <2> QED
      BY <1>5, <2>2, <2>3 DEF FinishClose
  <1> QED
    BY <1>1, <1>2, <1>3, <1>4, <1>5

\* Every step of a call keeps what that call has promised.
LEMMA MoverReplies ==
    ASSUME IInv, Replies, NEW p \in Proc,
           (\E e \in Event : Call(p, e)) \/ RecordEvent(p) \/ Return(p)
    PROVE  /\ ResultInProgress(p)' /\ ResultReturned(p)'
           /\ pc'[p] = "returned" /\ res'[p].err = "none" /\ res'[p].stored =>
                 pc[p] = "commit" /\ Publish(p)
  <1>1. CASE \E e \in Event : Call(p, e)
    <2>1. pc[p] = "idle" /\ pc'[p] = "begin" /\ res' = res /\ UNCHANGED locked
      BY <1>1 DEF Call, IInv, TypeOK
    <2> QED
      BY <2>1 DEF Replies, ResultInProgress, ResultReturned, Inserting, Closing
  <1>2. CASE Return(p)
    <2>1. pc'[p] = "idle" /\ res'[p] = EmptyResult
      BY <1>2 DEF Return, IInv, TypeOK
    <2> QED
      BY <2>1 DEF ResultInProgress, ResultReturned, Inserting, Closing
  <1>3. CASE \/ Begin(p) \/ ApplyJoinEffect(p) \/ FinishClose(p)
             \/ \E j \in Event : UpdateRow(p, j)
             \/ InsertEvent(p) /\ ~Rollback(p, "partition_missing")
    BY <1>3, StatementReplies DEF ResultReturned
  <1>4. CASE InsertEvent(p) /\ Rollback(p, "partition_missing")
    <2>1. pc'[p] # "commit_duplicate" /\ pc'[p] # "apply_join_effect"
      BY <1>4 DEF Rollback, Finish, IInv, TypeOK
    <2>2. ev[p].at \notin Partitioned
      BY <1>4, <2>1 DEF InsertEvent, IInv, TypeOK
    <2> QED
      BY <1>4, <2>2, RollbackReplies DEF Error
  <1>5. CASE \E j \in Event : CloseOutOfOrder(p, j)
    <2>1. ev[p].type \in {EventParticipantLeft, EventRoomFinished}
      BY <1>5 DEF CloseOutOfOrder, Closing, IInv, Selected
    <2> QED
      BY <1>5, <2>1, RollbackReplies DEF CloseOutOfOrder, Error
  <1>6. CASE CommitDuplicate(p)
    BY <1>6, RollbackReplies DEF CommitDuplicate, Error
  <1>7. CASE BeginFails(p) \/ StoreFails(p) \/ StatementTimeout(p)
    BY <1>7, RollbackReplies DEF BeginFails, StoreFails, StatementTimeout, Error
  <1>8. CASE Commit(p) \/ CommitReplyLost(p)
    BY <1>8, PublishReplies DEF Commit, CommitReplyLost
  <1> QED
    BY <1>1, <1>2, <1>3, <1>4, <1>5, <1>6, <1>7, <1>8 DEF RecordEvent, Proceed, Fail

\* Replies is kept by every step, given the invariant of JoinStoreProofs.
LEMMA RepliesInductive ==
    /\ Init => Replies
    /\ IInv /\ Replies /\ [Next]_vars => Replies'
  <1>1. Init => Replies
    BY DEF Init, Replies, ResultInProgress, ResultReturned, OneStores, RowsHaveAPartition,
           Inserting, Closing
  <1>2. ASSUME IInv, Replies, [Next]_vars
        PROVE  Replies'
    <2>1. RowsHaveAPartition'
      <3>1. CASE UNCHANGED tables
        BY <1>2, <3>1 DEF Replies, RowsHaveAPartition, tables
      <3>2. ASSUME NEW p \in Proc, pc[p] = "commit", Publish(p)
            PROVE  RowsHaveAPartition'
        BY <1>2, <3>2, ReadyToCommit DEF Replies, RowsHaveAPartition, Publish
      <3> QED
        BY <1>2, <3>1, <3>2, OnlyCommitsWrite
    <2>2. CASE UNCHANGED vars
      BY <1>2, <2>1, <2>2 DEF Replies, ResultInProgress, ResultReturned, OneStores, ClosedBy,
                              vars, tables, calls
    <2>3. CASE Crash
      <3>1. \A p \in Proc : pc'[p] = "idle" /\ res'[p] = EmptyResult
        BY <2>3 DEF Crash
      <3> QED
        BY <2>1, <3>1 DEF Replies, ResultInProgress, ResultReturned, OneStores, Inserting, Closing
    <2>4. ASSUME NEW p \in Proc,
                 (\E e \in Event : Call(p, e)) \/ RecordEvent(p) \/ Return(p)
          PROVE  Replies'
      <3>1. \A q \in Proc : p # q =>
                /\ pc'[q] = pc[q] /\ ev'[q] = ev[q] /\ res'[q] = res[q]
                /\ locked'[q] = locked[q]
        BY <1>2, <2>4, OneCallMoves DEF IInv
      <3>2. \A q \in Proc : ResultInProgress(q)' /\ ResultReturned(q)'
        <4> SUFFICES ASSUME NEW q \in Proc
                     PROVE  ResultInProgress(q)' /\ ResultReturned(q)'
          OBVIOUS
        <4>1. CASE p = q
          BY <1>2, <2>4, <4>1, MoverReplies
        <4>2. CASE p # q
          BY <1>2, <3>1, <4>2, BystanderKeeps DEF Replies
        <4> QED
          BY <4>1, <4>2
      <3>3. OneStores'
        <4>1. \A q \in Proc : p # q /\ pc[q] = "returned" /\ res[q].err = "none" =>
                                ev[q] \in eventRaw
          BY <1>2 DEF Replies, ResultReturned
        <4>2. pc'[p] = "returned" /\ res'[p].err = "none" /\ res'[p].stored =>
                ev'[p] \notin eventRaw
          <5> SUFFICES ASSUME pc'[p] = "returned", res'[p].err = "none", res'[p].stored
                       PROVE  ev'[p] \notin eventRaw
            OBVIOUS
          <5>1. pc[p] = "commit" /\ Publish(p)
            BY <1>2, <2>4, MoverReplies
          <5>2. ev[p] \notin eventRaw
            BY <1>2, <5>1, ReadyToCommit
          <5>3. ev'[p] = ev[p]
            BY <1>2, <2>4, <5>1, CallStaysBusy DEF IInv, Call, Return
          <5> QED
            BY <5>2, <5>3
        <4> QED
          BY <1>2, <3>1, <4>1, <4>2 DEF Replies, OneStores
      <3> QED
        BY <2>1, <3>2, <3>3 DEF Replies
    <2> QED
      BY <1>2, <2>2, <2>3, <2>4 DEF Next
  <1> QED
    BY <1>1, <1>2

\* Replies is an invariant of RecordEvent.
THEOREM RepliesInvariance == Spec => [](IInv /\ Replies)
  BY Inductive, RepliesInductive, PTL DEF Spec

\* What RecordEvent tells its caller is so in the committed tables when it
\* returns, and as long as the caller may look at it.
THEOREM RepliesAreTrue == Spec => []ReplyIsTrue
  <1>1. IInv /\ Replies => ReplyIsTrue
    BY DEF Replies, ResultReturned, OneStores, RowsHaveAPartition, ReplyIsTrue
  <1> QED
    BY <1>1, RepliesInvariance, PTL
=============================================================================
