------------------------------ MODULE JoinStore ------------------------------
(***************************************************************************)
(* internal/ingest/store/postgres/postgres.go: Store.RecordEvent, called   *)
(* by several webhook handlers at once, against PostgreSQL at its default  *)
(* isolation level READ COMMITTED.                                         *)
(*                                                                         *)
(* The variables eventRaw, joins and endedBy are the COMMITTED tables. What*)
(* a running transaction has written is not in them: its event_raw row is  *)
(* implied by its control state, the join row it inserted by res.opened,   *)
(* and the rows it updated, which it keeps locked, are locked[p]. A commit *)
(* publishes all of it at once, a rollback none of it.                     *)
(*                                                                         *)
(* What is taken from PostgreSQL itself, because the code relies on it:    *)
(*  - a statement works on the rows its own snapshot saw, in any order;    *)
(*  - an insert whose unique key another open transaction has written      *)
(*    waits until that transaction ends;                                   *)
(*  - an update of a row that another open transaction has written waits,  *)
(*    and then evaluates its WHERE clause again on the new row version. A  *)
(*    subquery that is not correlated keeps the value it had;              *)
(*  - a stored generated column is computed before the row is locked.      *)
(***************************************************************************)
EXTENDS Session, FiniteSets

CONSTANTS
    Proc,        \* handler goroutines that may be inside RecordEvent at once
    MaxConns     \* connections of the pool

ASSUME MaxConnsAssumption == MaxConns \in Nat \ {0}

VARIABLES
    eventRaw,    \* committed rows of event_raw
    joins,       \* committed rows of participant_join
    endedBy,     \* committed end of each join
    pc,          \* where each call of RecordEvent is
    ev,          \* its argument
    todo,        \* rows the running UPDATE has still to visit
    locked,      \* rows of participant_join it has updated
    res          \* the store.Result it fills in, and its error

tables == <<eventRaw, joins, endedBy>>
calls  == <<pc, ev, todo, locked, res>>
vars   == <<tables, calls>>

Closing   == {"close_by_sid", "close_by_identity", "close_room"}
Inserting == Closing \cup {"apply_join_effect", "commit"}
InTx      == Inserting \cup {"insert_event", "commit_duplicate"}
Control   == InTx \cup {"idle", "begin", "returned"}

Error == {"none", "partition_missing", "close_out_of_order", "failed"}

Result == [stored : BOOLEAN, opened : BOOLEAN, closed : SUBSET Event,
           unmatched : BOOLEAN, err : Error]

EmptyResult == [stored |-> FALSE, opened |-> FALSE, closed |-> {},
                unmatched |-> FALSE, err |-> "none"]

Init ==
    /\ eventRaw = {}
    /\ joins = {}
    /\ endedBy = [j \in Event |-> NoEvent]
    /\ pc = [p \in Proc |-> "idle"]
    /\ ev = [p \in Proc |-> NoEvent]
    /\ todo = [p \in Proc |-> {}]
    /\ locked = [p \in Proc |-> {}]
    /\ res = [p \in Proc |-> EmptyResult]

-----------------------------------------------------------------------------
(* State formulas                                                          *)

\* ended_at IS NULL, as a statement that starts now sees it.
Open(j) == j \in joins /\ endedBy[j] = NoEvent

\* The rows each close statement's snapshot selects.
BySID(e)      == {j \in joins : Open(j) /\ j.room = e.room /\ j.sid = e.sid}
ByIdentity(e) == {j \in joins : Open(j) /\ j.room = e.room /\ j.identity = e.identity}
ByRoom(e)     == {j \in joins : Open(j) /\ j.room = e.room}

\* ORDER BY started_at DESC LIMIT 1: a latest one, any of them when they tie.
LatestByIdentity(e) ==
    LET latest == {j \in ByIdentity(e) : \A k \in ByIdentity(e) : k.at <= j.at}
    IN  IF latest = {} THEN {{}} ELSE {{j} : j \in latest}

\* Mutant: an insert that does not wait for the other transaction.
EventKeyFree(p) == FALSE

\* Another open transaction holds the primary key of p's event.
EventKeyHeld(p) ==
    \E q \in Proc \ {p} : pc[q] \in Inserting /\ ev[q] = ev[p]

\* Mutant: participant_join without UNIQUE (started_event_id).
JoinKeyFree(p) == FALSE

\* Another open transaction holds the started_event_id p wants to insert.
JoinKeyHeld(p) ==
    \E q \in Proc \ {p} :
        pc[q] \in Inserting /\ res[q].opened /\ ev[q].id = ev[p].id

\* Mutant: an update that does not lock its row.
RowFree(p, j) == FALSE

RowHeld(p, j) == \E q \in Proc \ {p} : j \in locked[q]

\* Mutant: close statements without AND ended_at IS NULL in their outer WHERE.
MatchesAnyway(p, j) == TRUE

\* The WHERE clause, evaluated again on the committed version of a row the
\* statement has selected: closeBySID and closeRoom ask for ended_at IS NULL,
\* closeByIdentity only for the join_id its subquery found.
StillMatches(p, j) == pc[p] = "close_by_identity" \/ endedBy[j] = NoEvent

-----------------------------------------------------------------------------
(* The steps of RecordEvent                                                *)

\* The transaction of p ends and RecordEvent returns err; the deferred
\* Rollback discards whatever has not been committed.
Finish(p, err) ==
    /\ pc' = [pc EXCEPT ![p] = "returned"]
    /\ todo' = [todo EXCEPT ![p] = {}]
    /\ locked' = [locked EXCEPT ![p] = {}]
    /\ res' = [res EXCEPT ![p].err = err]
    /\ UNCHANGED ev

\* Mutant: no deferred Rollback, an error return leaves the transaction open.
ReturnWithoutRollback(p, err) ==
    /\ pc' = [pc EXCEPT ![p] = "returned"]
    /\ res' = [res EXCEPT ![p].err = err]
    /\ UNCHANGED <<tables, ev, todo, locked>>

Rollback(p, err) == Finish(p, err) /\ UNCHANGED tables

\* A handler calls RecordEvent(ctx, e).
Call(p, e) ==
    /\ pc[p] = "idle"
    /\ pc' = [pc EXCEPT ![p] = "begin"]
    /\ ev' = [ev EXCEPT ![p] = e]
    /\ UNCHANGED <<tables, todo, locked, res>>

\* pool.Begin waits for one of MaxConns connections.
Begin(p) ==
    /\ pc[p] = "begin"
    /\ Cardinality({q \in Proc : pc[q] \in InTx}) < MaxConns
    /\ pc' = [pc EXCEPT ![p] = "insert_event"]
    /\ UNCHANGED <<tables, ev, todo, locked, res>>

BeginFails(p) ==
    /\ pc[p] = "begin"
    /\ Rollback(p, "failed")

\* INSERT INTO event_raw ... ON CONFLICT DO NOTHING. The row is routed to a
\* partition before any key is looked at.
InsertEvent(p) ==
    /\ pc[p] = "insert_event"
    /\ \/ /\ ev[p].at \notin Partitioned
          /\ Rollback(p, "partition_missing")
       \/ /\ ev[p].at \in Partitioned
          /\ ev[p] \in eventRaw
          /\ pc' = [pc EXCEPT ![p] = "commit_duplicate"]
          /\ UNCHANGED <<tables, ev, todo, locked, res>>
       \/ /\ ev[p].at \in Partitioned
          /\ ev[p] \notin eventRaw
          /\ ~EventKeyHeld(p)
          /\ pc' = [pc EXCEPT ![p] = "apply_join_effect"]
          /\ res' = [res EXCEPT ![p].stored = TRUE]
          /\ UNCHANGED <<tables, ev, todo, locked>>

\* A close statement starts: its snapshot fixes the rows it will visit.
StartClose(p, statement, rows) ==
    /\ pc' = [pc EXCEPT ![p] = statement]
    /\ todo' = [todo EXCEPT ![p] = rows]
    /\ UNCHANGED <<tables, ev, locked, res>>

\* INSERT INTO participant_join ... ON CONFLICT (started_event_id) DO NOTHING.
OpenJoin(p) ==
    /\ ~JoinKeyHeld(p)
    /\ pc' = [pc EXCEPT ![p] = "commit"]
    /\ res' = [res EXCEPT ![p].opened = ~\E j \in joins : j.id = ev[p].id]
    /\ UNCHANGED <<tables, ev, todo, locked>>

\* Mutant: a departure goes by the identity although it has a SID.
ApplyWithoutSID(p) ==
    /\ pc[p] = "apply_join_effect"
    /\ \/ /\ ev[p].type = EventParticipantJoined
          /\ OpenJoin(p)
       \/ /\ ev[p].type = EventParticipantLeft
          /\ \E rows \in LatestByIdentity(ev[p]) :
                StartClose(p, "close_by_identity", rows)
       \/ /\ ev[p].type = EventRoomFinished
          /\ StartClose(p, "close_room", ByRoom(ev[p]))

\* applyJoinEffect, up to the first row of the statement it runs.
ApplyJoinEffect(p) ==
    /\ pc[p] = "apply_join_effect"
    /\ \/ /\ ev[p].type = EventParticipantJoined
          /\ OpenJoin(p)
       \/ /\ ev[p].type = EventParticipantLeft
          /\ ev[p].sid # NoSID
          /\ StartClose(p, "close_by_sid", BySID(ev[p]))
       \/ /\ ev[p].type = EventParticipantLeft
          /\ ev[p].sid = NoSID
          /\ \E rows \in LatestByIdentity(ev[p]) :
                StartClose(p, "close_by_identity", rows)
       \/ /\ ev[p].type = EventRoomFinished
          /\ StartClose(p, "close_room", ByRoom(ev[p]))
       \/ /\ ev[p].type \notin {EventParticipantJoined, EventParticipantLeft,
                                EventRoomFinished}
          /\ pc' = [pc EXCEPT ![p] = "commit"]
          /\ UNCHANGED <<tables, ev, todo, locked, res>>

\* Mutant: no generated active_range to refuse an end before the start.
UpdateRowUnordered(p, j) ==
    /\ pc[p] \in Closing
    /\ j \in todo[p]
    /\ ~RowHeld(p, j)
    /\ todo' = [todo EXCEPT ![p] = @ \ {j}]
    /\ locked' = [locked EXCEPT ![p] = IF StillMatches(p, j) THEN @ \cup {j} ELSE @]
    /\ UNCHANGED <<tables, pc, ev, res>>

\* The UPDATE reaches row j, once no other transaction holds it.
UpdateRow(p, j) ==
    /\ pc[p] \in Closing
    /\ j \in todo[p]
    /\ j.at <= ev[p].at
    /\ ~RowHeld(p, j)
    /\ todo' = [todo EXCEPT ![p] = @ \ {j}]
    /\ locked' = [locked EXCEPT ![p] = IF StillMatches(p, j) THEN @ \cup {j} ELSE @]
    /\ UNCHANGED <<tables, pc, ev, res>>

\* tstzrange(started_at, ended_at) fails with SQLSTATE 22000, held or not;
\* classifyClose makes it ErrCloseOutOfOrder.
CloseOutOfOrder(p, j) ==
    /\ pc[p] \in Closing
    /\ j \in todo[p]
    /\ ev[p].at < j.at
    /\ Rollback(p, "close_out_of_order")

\* Mutant: closeByIdentity runs also after closeBySID has closed a join.
FinishCloseFallsThrough(p) ==
    /\ pc[p] \in Closing
    /\ todo[p] = {}
    /\ \/ /\ pc[p] = "close_by_sid"
          /\ \E rows \in LatestByIdentity(ev[p]) :
                StartClose(p, "close_by_identity", rows)
       \/ /\ pc[p] # "close_by_sid"
          /\ pc' = [pc EXCEPT ![p] = "commit"]
          /\ res' = [res EXCEPT ![p].closed = locked[p]]
          /\ UNCHANGED <<tables, ev, todo, locked>>

\* The UPDATE is done. A SID that matched no open join falls through to
\* closeByIdentity; otherwise the rows affected go into the Result.
FinishClose(p) ==
    /\ pc[p] \in Closing
    /\ todo[p] = {}
    /\ \/ /\ pc[p] = "close_by_sid"
          /\ locked[p] = {}
          /\ \E rows \in LatestByIdentity(ev[p]) :
                StartClose(p, "close_by_identity", rows)
       \/ /\ ~(pc[p] = "close_by_sid" /\ locked[p] = {})
          /\ pc' = [pc EXCEPT ![p] = "commit"]
          /\ res' = [res EXCEPT ![p] = [@ EXCEPT !.closed = locked[p],
                                     !.unmatched = ev[p].type = EventParticipantLeft
                                                   /\ locked[p] = {}]]
          /\ UNCHANGED <<tables, ev, todo, locked>>

\* COMMIT makes the event and its effect visible together.
Publish(p) ==
    /\ eventRaw' = eventRaw \cup {ev[p]}
    /\ joins' = IF res[p].opened THEN joins \cup {ev[p]} ELSE joins
    /\ endedBy' = [j \in Event |-> IF j \in locked[p] THEN ev[p] ELSE endedBy[j]]

Commit(p) ==
    /\ pc[p] = "commit"
    /\ Publish(p)
    /\ Finish(p, "none")

\* The server commits but the connection, or the caller's context, is gone
\* before pgx learns of it.
CommitReplyLost(p) ==
    /\ pc[p] = "commit"
    /\ Publish(p)
    /\ Finish(p, "failed")

CommitDuplicate(p) ==
    /\ pc[p] = "commit_duplicate"
    /\ Rollback(p, "none")

\* Mutant: the error of a failed statement or commit is dropped.
StoreFailsSilently(p) ==
    /\ pc[p] \in InTx
    /\ Rollback(p, "none")

\* A statement, the commit or the connection fails, or the request's context
\* is cancelled: RecordEvent returns a retryable error.
StoreFails(p) ==
    /\ pc[p] \in InTx
    /\ Rollback(p, "failed")

\* The running statement waits for another transaction.
Blocked(p) ==
    \/ /\ pc[p] = "insert_event"
       /\ ev[p].at \in Partitioned
       /\ ev[p] \notin eventRaw
       /\ EventKeyHeld(p)
    \/ /\ pc[p] = "apply_join_effect"
       /\ ev[p].type = EventParticipantJoined
       /\ JoinKeyHeld(p)
    \/ /\ pc[p] \in Closing
       /\ \E j \in todo[p] : j.at <= ev[p].at /\ RowHeld(p, j)

\* Mutant: a pool without statement_timeout.
NoStatementTimeout(p) == FALSE

\* statement_timeout (IngestOptions: one second) cancels a waiting statement.
StatementTimeout(p) ==
    /\ Blocked(p)
    /\ Rollback(p, "failed")

\* The handler takes the result.
Return(p) ==
    /\ pc[p] = "returned"
    /\ pc' = [pc EXCEPT ![p] = "idle"]
    /\ ev' = [ev EXCEPT ![p] = NoEvent]
    /\ res' = [res EXCEPT ![p] = EmptyResult]
    /\ UNCHANGED <<tables, todo, locked>>

\* The ingester dies: its connections drop and every open transaction is
\* rolled back. The tables survive, nothing else does.
Crash ==
    /\ \E p \in Proc : pc[p] # "idle"
    /\ pc' = [p \in Proc |-> "idle"]
    /\ ev' = [p \in Proc |-> NoEvent]
    /\ todo' = [p \in Proc |-> {}]
    /\ locked' = [p \in Proc |-> {}]
    /\ res' = [p \in Proc |-> EmptyResult]
    /\ UNCHANGED tables

-----------------------------------------------------------------------------
(* Specification                                                           *)

\* A step RecordEvent takes of itself, inside its transaction.
Proceed(p) ==
    \/ InsertEvent(p)
    \/ ApplyJoinEffect(p)
    \/ \E j \in Event : UpdateRow(p, j) \/ CloseOutOfOrder(p, j)
    \/ FinishClose(p)
    \/ Commit(p)
    \/ CommitDuplicate(p)
    \/ StatementTimeout(p)

Fail(p) == BeginFails(p) \/ CommitReplyLost(p) \/ StoreFails(p)

RecordEvent(p) == Begin(p) \/ Proceed(p) \/ Fail(p)

Next ==
    \/ \E p \in Proc :
          \/ \E e \in Event : Call(p, e)
          \/ RecordEvent(p)
          \/ Return(p)
    \/ Crash

Spec == Init /\ [][Next]_vars

\* A running statement proceeds, waits no longer than statement_timeout, and
\* pgxpool hands out connections in the order they were asked for.
Fairness ==
    \A p \in Proc : WF_vars(Proceed(p)) /\ SF_vars(Begin(p))

FairSpec == Spec /\ Fairness

-----------------------------------------------------------------------------
(* Properties                                                              *)

\* Every variable has its type, and a call that is not inside its transaction
\* (not begun, returned, on any error path) has no statement running and holds
\* no row of participant_join: the deferred Rollback leaves nothing behind.
TypeOK ==
    /\ eventRaw \subseteq Event
    /\ joins \subseteq Event
    /\ endedBy \in [Event -> Event \cup {NoEvent}]
    /\ pc \in [Proc -> Control]
    /\ ev \in [Proc -> Event \cup {NoEvent}]
    /\ todo \in [Proc -> SUBSET Event]
    /\ locked \in [Proc -> SUBSET Event]
    /\ res \in [Proc -> Result]
    /\ \A p \in Proc : pc[p] \notin InTx => todo[p] = {} /\ locked[p] = {}

ClosedBy(e) == {j \in joins : endedBy[j] = e}

\* The join j is one the event e is entitled to end.
Entitled(e, j) ==
    /\ j.room = e.room
    /\ j.at <= e.at
    /\ \/ e.type = EventRoomFinished
       \/ /\ e.type = EventParticipantLeft
          /\ (e.sid # NoSID /\ j.sid = e.sid) \/ j.identity = e.identity

\* Isolation of the transactions in flight (RecordEvent's one transaction and
\* the row locks of its statements): an event being stored is not in event_raw
\* and no other transaction is storing it; no two hold one join row; the rows
\* held by closeBySID or closeRoom are still open when they commit; and a held
\* row is one the event is entitled to end.
Isolation ==
    \A p \in Proc :
        /\ pc[p] # "idle" => ev[p] \in Event
        /\ pc[p] \in Inserting =>
              /\ ev[p] \notin eventRaw
              /\ ev[p].at \in Partitioned
              /\ \A q \in Proc \ {p} : pc[q] \in Inserting => ev[q] # ev[p]
        /\ \A q \in Proc \ {p} : locked[p] \cap locked[q] = {}
        /\ locked[p] # {} => pc[p] \in Closing \cup {"commit"}
        /\ \A j \in locked[p] :
              /\ j \in joins
              /\ Entitled(ev[p], j)
              /\ \/ endedBy[j] = NoEvent
                 \/ /\ ev[p].type = EventParticipantLeft
                    /\ j.identity = ev[p].identity

\* ADR-0020, "only ever set from an observed event": every join row and every
\* end on it comes from a stored event of the right type, room and participant,
\* and no end precedes its start, whatever order the events were committed in.
EndsAreObserved ==
    /\ \A j \in joins :
          /\ j \in eventRaw
          /\ j.type = EventParticipantJoined
          /\ \A k \in joins : k.id = j.id => k = j
    /\ \A j \in Event :
          endedBy[j] # NoEvent =>
              /\ j \in joins
              /\ endedBy[j] \in eventRaw
              /\ Entitled(endedBy[j], j)

\* store.Result: "Greater than one only for room_finished". One departure ends
\* at most one join, over all the statements, retries and redeliveries that
\* work on its behalf.
OneJoinPerLeave ==
    \A e \in Event :
        e.type = EventParticipantLeft =>
            \A j, k \in ClosedBy(e) : j = k

\* What RecordEvent tells its caller is so in the committed tables at the time
\* it returns, and still is when the caller looks at it: a nil error means the
\* event is stored, an opened join exists, a closed join is closed, an
\* unmatched leave closed nothing; of two calls for one event at most one
\* reports it stored; ErrPartitionMissing means it is nowhere.
ReplyIsTrue ==
    \A p \in Proc : pc[p] = "returned" =>
        /\ res[p].err = "none" =>
              /\ ev[p] \in eventRaw
              /\ res[p].opened => ev[p] \in joins
              /\ \A j \in res[p].closed : endedBy[j] # NoEvent
              /\ res[p].unmatched => ClosedBy(ev[p]) = {}
              /\ \A q \in Proc \ {p} :
                    pc[q] = "returned" /\ res[q].err = "none" /\ ev[q] = ev[p] =>
                        ~(res[p].stored /\ res[q].stored)
        /\ res[p].err = "partition_missing" => ev[p] \notin eventRaw

\* RecordEvent's comment: a concurrent redelivery must not apply the effect
\* twice. From the step that stores an event on, no step closes another join
\* in its name or adds or removes the join it opened.
EffectAppliedOnce ==
    [][\A e \in eventRaw :
          /\ e \in eventRaw'
          /\ ClosedBy(e)' \subseteq ClosedBy(e)
          /\ e \in joins' <=> e \in joins]_vars

\* Closed joins stay closed, and the one statement that can replace an end is
\* closeByIdentity, for the same participant: closeBySID and closeRoom are
\* "scoped to open joins", also when they had to wait for the row.
ClosesStick ==
    [][\A j \in Event :
          endedBy[j] # NoEvent /\ endedBy'[j] # endedBy[j] =>
              /\ endedBy'[j] \in Event
              /\ endedBy'[j].type = EventParticipantLeft
              /\ endedBy'[j].room = j.room
              /\ endedBy'[j].identity = j.identity]_vars

\* store.Writer's contract: on the committed tables RecordEvent is one atomic
\* step of JoinLedger, whatever runs beside it, fails or is retried.
Ledger == INSTANCE JoinLedger
LedgerSpec == Ledger!Spec

\* Every call of RecordEvent ends: no wait for a connection, a key or a row is
\* for ever, also when two room_finished wait for each other's rows.
RecordEventReturns ==
    \A p \in Proc : pc[p] = "begin" ~> pc[p] \in {"returned", "idle"}

-----------------------------------------------------------------------------
(* A statement of the repository that the code does not keep.              *)

\* postgres.go:39, of closing a join: "a redelivery cannot re-close an already-
\* closed join with a later timestamp". A closed join keeps its end.
ClosedIsFinal ==
    [][\A j \in Event : endedBy[j] # NoEvent => endedBy'[j] = endedBy[j]]_vars
=============================================================================
