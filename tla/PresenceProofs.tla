--------------------------- MODULE PresenceProofs ---------------------------
(***************************************************************************)
(* The store behind a sender that delivers in order implements Presence:   *)
(* however many attempts overlap, fail, time out, crash or are repeated,   *)
(* the committed joins are the presences that the backend's history        *)
(* amounts to.                                                             *)
(***************************************************************************)
EXTENDS SessionViewProofs

-----------------------------------------------------------------------------
(* The invariant                                                           *)

Happened == Cardinality(eventRaw)

\* What is stored is a prefix of the history, and what is being delivered is no
\* further on than the next event.
StoredPrefix ==
    /\ IsFiniteSet(eventRaw)
    /\ Happened <= Len(Emitted)
    /\ eventRaw = {Emitted[i] : i \in 1..Happened}
    /\ \A p \in Proc : pc[p] # "idle" => Due(ev[p])

\* No event from m on to n ends the join that Emitted[i] opened.
Undisturbed(i, m, n) ==
    \A k \in m..n : Emitted[k].room = Emitted[i].room =>
        /\ Emitted[k].type # EventRoomFinished
        /\ ~(Emitted[k].type = EventParticipantLeft /\ Emitted[k].sid = Emitted[i].sid)

\* Who has arrived, and has not left since, has an open join.
PresentAreOpen ==
    \A i \in 1..Happened :
        Emitted[i].type = EventParticipantJoined /\ Undisturbed(i, i + 1, Happened) =>
            Open(Emitted[i])

\* The rows the event e has to end.
Target(e) ==
    {j \in joins : /\ Open(j)
                   /\ j.room = e.room
                   /\ \/ e.type = EventRoomFinished
                      \/ e.type = EventParticipantLeft /\ j.sid = e.sid}

\* A transaction ends just those, never falls back to the identity, and opens
\* the join of every arrival.
Exact ==
    \A p \in Proc :
        /\ pc[p] # "close_by_identity"
        /\ pc[p] \in Closing \cup {"commit"} => todo[p] \cup locked[p] = Target(ev[p])
        /\ pc[p] = "commit" /\ ev[p].type = EventParticipantJoined => res[p].opened

InOrderInv == ViewInv /\ StoredPrefix /\ PresentAreOpen /\ Exact

-----------------------------------------------------------------------------
(* Consequences of the invariant                                           *)

LEMMA HistoryFacts ==
    /\ Len(Emitted) \in Nat /\ DOMAIN Emitted = 1..Len(Emitted)
    /\ \A i \in 1..Len(Emitted) : Emitted[i] \in Event
    /\ \A i, k \in 1..Len(Emitted) : Emitted[i].id = Emitted[k].id => i = k
  <1>1. Len(Emitted) \in Nat /\ DOMAIN Emitted = 1..Len(Emitted)
    BY EmittedAssumption
  <1>2. \A i \in 1..Len(Emitted) : Emitted[i] \in Event
    BY EmittedAssumption
  <1>3. ASSUME NEW i \in 1..Len(Emitted), NEW k \in 1..Len(Emitted),
               Emitted[i].id = Emitted[k].id
        PROVE  i = k
    <2>1. ~(i < k) /\ ~(k < i)
      BY <1>1, <1>3, HistoryAssumption
    <2> QED
      BY <1>1, <2>1
  <1> QED
    BY <1>1, <1>2, <1>3

\* An event that is due and not stored is the next one.
LEMMA DueIsNext ==
    ASSUME StoredPrefix, NEW e, Due(e), e \notin eventRaw
    PROVE  /\ Happened \in Nat /\ Happened + 1 \in 1..Len(Emitted)
           /\ e = Emitted[Happened + 1]
  <1>1. Happened \in Nat
    BY FS_CardinalityType DEF StoredPrefix, Happened
  <1>2. PICK k \in 1..Len(Emitted) : Emitted[k] = e /\ \A i \in 1..(k - 1) : Emitted[i] \in eventRaw
    BY HistoryFacts DEF Due
  <1>3. Happened < k
    BY <1>1, <1>2, HistoryFacts DEF StoredPrefix
  <1>4. k = Happened + 1
    <2>1. ASSUME Happened + 1 < k
          PROVE  FALSE
      <3>1. Happened + 1 \in 1..(k - 1) /\ Happened + 1 \in 1..Len(Emitted)
        BY <1>1, <1>2, <2>1, HistoryFacts
      <3>2. PICK i \in 1..Happened : Emitted[i] = Emitted[Happened + 1]
        BY <1>2, <3>1 DEF StoredPrefix
      <3>3. i \in 1..Len(Emitted)
        BY <1>1, <3>1, HistoryFacts
      <3>4. i = Happened + 1
        BY <3>1, <3>2, <3>3, HistoryFacts
      <3> QED
        BY <1>1, <3>4
    <2> QED
      BY <1>1, <1>3, <2>1, HistoryFacts
  <1> QED
    BY <1>1, <1>2, <1>4

\* So there is at most one transaction that stores anything.
LEMMA OneWriter ==
    ASSUME InOrderInv, NEW p \in Proc, pc[p] \in Inserting
    PROVE  /\ Happened \in Nat /\ Happened + 1 \in 1..Len(Emitted)
           /\ ev[p] = Emitted[Happened + 1] /\ ev[p] \in Event /\ ev[p] \notin eventRaw
           /\ \A q \in Proc : pc[q] \in Inserting => q = p
  <1>1. ASSUME NEW q \in Proc, pc[q] \in Inserting
        PROVE  /\ Happened \in Nat /\ Happened + 1 \in 1..Len(Emitted)
               /\ ev[q] = Emitted[Happened + 1] /\ ev[q] \in Event /\ ev[q] \notin eventRaw
    <2>1. pc[q] # "idle"
      BY <1>1 DEF Inserting, Closing
    <2>2. ev[q] \notin eventRaw /\ Due(ev[q]) /\ ev[q] \in Event
      BY <1>1, <2>1 DEF InOrderInv, ViewInv, IInv, Isolation, StoredPrefix
    <2> QED
      BY <2>2, DueIsNext DEF InOrderInv
  <1>2. ASSUME NEW q \in Proc, pc[q] \in Inserting, q # p
        PROVE  FALSE
    BY <1>1, <1>2 DEF InOrderInv, ViewInv, IInv, Isolation
  <1> QED
    BY <1>1, <1>2

\* A departure that is due finds the join it ends.
LEMMA DepartureHasAJoin ==
    ASSUME InOrderInv, NEW p \in Proc, pc[p] \in Inserting, ev[p].type = EventParticipantLeft
    PROVE  ev[p].sid # NoSID /\ Target(ev[p]) # {}
  <1>1. /\ Happened \in Nat /\ Happened + 1 \in 1..Len(Emitted) /\ ev[p] = Emitted[Happened + 1]
    BY OneWriter
  <1>2. (Happened + 1) - 1 = Happened /\ Happened + 1 \in DOMAIN Emitted
    BY <1>1, HistoryFacts
  <1>3. /\ ev[p].sid # NoSID
        /\ \E i \in 1..Happened :
              /\ Emitted[i].type = EventParticipantJoined
              /\ Emitted[i].room = ev[p].room
              /\ Emitted[i].sid = ev[p].sid
              /\ \A m \in (i + 1)..Happened :
                    Emitted[m].room = ev[p].room =>
                        /\ Emitted[m].type # EventRoomFinished
                        /\ ~(Emitted[m].type = EventParticipantLeft
                             /\ Emitted[m].sid = ev[p].sid)
    BY <1>1, <1>2, HistoryAssumption
  <1>4. PICK i \in 1..Happened :
              /\ Emitted[i].type = EventParticipantJoined
              /\ Emitted[i].room = ev[p].room
              /\ Emitted[i].sid = ev[p].sid
              /\ Undisturbed(i, i + 1, Happened)
    BY <1>3 DEF Undisturbed
  <1>5. Open(Emitted[i])
    BY <1>4 DEF InOrderInv, PresentAreOpen
  <1>6. Emitted[i] \in Target(ev[p])
    BY <1>4, <1>5 DEF Target, Open
  <1> QED
    BY <1>3, <1>6

\* No join has the id of the event that is being stored.
LEMMA FreshJoinId ==
    ASSUME InOrderInv, NEW p \in Proc, pc[p] \in Inserting, NEW j \in joins
    PROVE  j.id # ev[p].id
  <1>1. /\ Happened \in Nat /\ Happened + 1 \in 1..Len(Emitted) /\ ev[p] = Emitted[Happened + 1]
    BY OneWriter
  <1>2. j \in eventRaw
    BY DEF InOrderInv, ViewInv, IInv, EndsAreObserved
  <1>3. PICK i \in 1..Happened : j = Emitted[i]
    BY <1>2 DEF InOrderInv, StoredPrefix
  <1>4. i \in 1..Len(Emitted) /\ i # Happened + 1
    BY <1>1, HistoryFacts
  <1> QED
    BY <1>1, <1>3, <1>4, HistoryFacts

-----------------------------------------------------------------------------
(* Every step keeps it                                                     *)

\* What Exact says of one call.
ExactCall(p) ==
    /\ pc[p] # "close_by_identity"
    /\ pc[p] \in Closing \cup {"commit"} => todo[p] \cup locked[p] = Target(ev[p])
    /\ pc[p] = "commit" /\ ev[p].type = EventParticipantJoined => res[p].opened

\* applyJoinEffect starts the statement that selects the target of its event.
LEMMA ApplyIsExact ==
    ASSUME InOrderInv, NEW p \in Proc, ApplyJoinEffect(p)
    PROVE  ExactCall(p)'
  <1> USE DEF InOrderInv, ViewInv, IInv, TypeOK, EventParticipantJoined, EventParticipantLeft,
              EventRoomFinished
  <1>1. pc[p] \in Inserting /\ pc[p] = "apply_join_effect"
    BY DEF ApplyJoinEffect, Inserting
  <1>2. todo[p] = {} /\ locked[p] = {} /\ ev[p] \in Event
    BY <1>1 DEF Isolation, Selected, Closing
  <1>3. UNCHANGED <<tables, ev, locked>>
    BY DEF ApplyJoinEffect, OpenJoin, StartClose
  <1>4. ASSUME NEW e
        PROVE  Target(e)' = Target(e)
    BY <1>3 DEF Target, Open, tables
  <1>5. CASE ev[p].type = EventParticipantJoined
    <2>1. OpenJoin(p)
      BY <1>5 DEF ApplyJoinEffect
    <2>2. pc'[p] = "commit" /\ todo' = todo
      BY <2>1 DEF OpenJoin
    <2>3. ~\E j \in joins : j.id = ev[p].id
      BY <1>1, FreshJoinId
    <2>4. res'[p].opened
      BY <2>1, <2>3 DEF OpenJoin, Result
    <2>5. Target(ev[p]) = {}
      BY <1>5 DEF Target
    <2> QED
      BY <1>2, <1>3, <1>4, <2>2, <2>4, <2>5 DEF ExactCall
  <1>6. CASE ev[p].type = EventParticipantLeft
    <2>1. ev[p].sid # NoSID
      BY <1>1, <1>6, DepartureHasAJoin
    <2>2. pc'[p] = "close_by_sid" /\ todo'[p] = BySID(ev[p])
      BY <1>6, <2>1 DEF ApplyJoinEffect, StartClose
    <2>3. BySID(ev[p]) = Target(ev[p])
      BY <1>6 DEF BySID, Target
    <2> QED
      BY <1>2, <1>3, <1>4, <2>2, <2>3 DEF ExactCall
  <1>7. CASE ev[p].type = EventRoomFinished
    <2>1. pc'[p] = "close_room" /\ todo'[p] = ByRoom(ev[p])
      BY <1>7 DEF ApplyJoinEffect, StartClose
    <2>2. ByRoom(ev[p]) = Target(ev[p])
      BY <1>7 DEF ByRoom, Target
    <2> QED
      BY <1>2, <1>3, <1>4, <2>1, <2>2 DEF ExactCall
  <1>8. CASE ev[p].type \notin {EventParticipantJoined, EventParticipantLeft, EventRoomFinished}
    <2>1. pc'[p] = "commit" /\ todo' = todo
      BY <1>8 DEF ApplyJoinEffect
    <2>2. Target(ev[p]) = {}
      BY <1>8 DEF Target
    <2> QED
      BY <1>2, <1>3, <1>4, <1>8, <2>1, <2>2 DEF ExactCall
  <1> QED
    BY <1>5, <1>6, <1>7, <1>8

\* The statement visits the rows it selected, all of which still match, and a
\* departure does not fall through to its identity.
LEMMA CloseIsExact ==
    ASSUME InOrderInv, NEW p \in Proc, FinishClose(p) \/ \E j \in Event : UpdateRow(p, j)
    PROVE  ExactCall(p)'
  <1> USE DEF InOrderInv, ViewInv, IInv, TypeOK
  <1>1. pc[p] \in Closing /\ pc[p] \in Inserting /\ pc[p] # "close_by_identity"
    BY DEF FinishClose, UpdateRow, Inserting, Exact
  <1>2. todo[p] \cup locked[p] = Target(ev[p])
    BY <1>1 DEF Exact
  <1>3. UNCHANGED <<tables, ev>>
    BY DEF FinishClose, StartClose, UpdateRow
  <1>4. ASSUME NEW e
        PROVE  Target(e)' = Target(e)
    BY <1>3 DEF Target, Open, tables
  <1>5. ev[p].type # EventParticipantJoined
    BY <1>1 DEF Selected, Closing, EventParticipantJoined, EventParticipantLeft,
                EventRoomFinished
  <1>6. ASSUME NEW j \in Event, UpdateRow(p, j)
        PROVE  ExactCall(p)'
    <2>1. j \in todo[p] /\ endedBy[j] = NoEvent
      BY <1>2, <1>6 DEF UpdateRow, Target, Open
    <2>2. /\ pc'[p] = pc[p]
          /\ todo'[p] = todo[p] \ {j} /\ locked'[p] = locked[p] \cup {j}
      BY <1>6, <2>1 DEF UpdateRow, StillMatches
    <2>3. todo'[p] \cup locked'[p] = Target(ev[p])
      BY <1>2, <2>1, <2>2
    <2> QED
      BY <1>1, <1>3, <1>4, <1>5, <2>2, <2>3 DEF ExactCall
  <1>7. CASE FinishClose(p)
    <2>1. ~(pc[p] = "close_by_sid" /\ locked[p] = {})
      <3>1. pc[p] = "close_by_sid" => ev[p].type = EventParticipantLeft
        BY DEF Selected
      <3>2. todo[p] = {}
        BY <1>7 DEF FinishClose
      <3> QED
        BY <1>1, <1>2, <3>1, <3>2, DepartureHasAJoin
    <2>2. pc'[p] = "commit" /\ todo' = todo /\ locked' = locked
      BY <1>7, <2>1 DEF FinishClose
    <2> QED
      BY <1>2, <1>3, <1>4, <1>5, <2>2 DEF ExactCall
  <1> QED
    BY <1>6, <1>7

\* A call moves and writes no table.
LEMMA CallIsExact ==
    ASSUME InOrderInv, NEW p \in Proc,
           (\E e \in Event : Call(p, e)) \/ RecordEvent(p) \/ Return(p)
    PROVE  ExactCall(p)'
  <1> USE DEF InOrderInv, ViewInv, IInv, TypeOK, Closing
  <1>1. CASE (\E e \in Event : Call(p, e)) \/ Return(p) \/ Begin(p)
    BY <1>1 DEF ExactCall, Call, Return, Begin
  <1>2. CASE InsertEvent(p)
    BY <1>2 DEF ExactCall, InsertEvent, Rollback, Finish
  <1>3. CASE Fail(p) \/ Commit(p) \/ CommitDuplicate(p) \/ StatementTimeout(p)
             \/ \E j \in Event : CloseOutOfOrder(p, j)
    BY <1>3 DEF ExactCall, Fail, BeginFails, StoreFails, CommitReplyLost, Commit,
                CommitDuplicate, StatementTimeout, CloseOutOfOrder, Rollback, Finish
  <1> QED
    BY <1>1, <1>2, <1>3, ApplyIsExact, CloseIsExact DEF RecordEvent, Proceed

LEMMA ExactKeeps ==
    ASSUME InOrderInv, Next
    PROVE  Exact'
  <1> SUFFICES ASSUME NEW p \in Proc
               PROVE  ExactCall(p)'
    BY DEF Exact, ExactCall
  <1>1. CASE Crash
    BY <1>1 DEF Crash, ExactCall, Closing
  <1>2. ASSUME NEW q \in Proc, (\E e \in Event : Call(q, e)) \/ RecordEvent(q) \/ Return(q)
        PROVE  ExactCall(p)'
    <2>1. CASE p = q
      BY <1>2, <2>1, CallIsExact
    <2>2. CASE p # q
      <3>1. /\ pc'[p] = pc[p] /\ ev'[p] = ev[p] /\ res'[p] = res[p]
            /\ todo'[p] = todo[p] /\ locked'[p] = locked[p]
        BY <1>2, <2>2, OneCallMoves DEF InOrderInv, ViewInv, IInv
      <3>2. CASE pc[p] \notin Inserting
        BY <3>1, <3>2 DEF ExactCall, Inserting, Closing
      <3>3. CASE pc[p] \in Inserting
        <4>1. ~(pc[q] = "commit" /\ Publish(q))
          BY <2>2, <3>3, OneWriter DEF Inserting
        <4>2. UNCHANGED tables
          BY <1>2, <4>1, OnlyCommitWrites DEF Call, Return
        <4>3. ASSUME NEW e
              PROVE  Target(e)' = Target(e)
          BY <4>2 DEF Target, Open, tables
        <4> QED
          BY <3>1, <4>3 DEF ExactCall, InOrderInv, Exact
      <3> QED
        BY <3>2, <3>3
    <2> QED
      BY <2>1, <2>2
  <1> QED
    BY <1>1, <1>2 DEF Next

\* What COMMIT does: the next event happens to the tables.
LEMMA CommitIsNext ==
    ASSUME InOrderInv, NEW p \in Proc, pc[p] = "commit", Publish(p)
    PROVE  LET e == Emitted[Happened + 1]
           IN  /\ Happened \in Nat /\ Happened + 1 \in 1..Len(Emitted) /\ e \in Event
               /\ IsFiniteSet(eventRaw') /\ Happened' = Happened + 1
               /\ eventRaw' = eventRaw \cup {e}
               /\ joins' = IF e.type = EventParticipantJoined THEN joins \cup {e} ELSE joins
               /\ \A j \in Event : endedBy'[j] = IF j \in Target(e) THEN e ELSE endedBy[j]
               /\ e \notin joins /\ endedBy[e] = NoEvent
  <1> USE DEF InOrderInv, ViewInv, IInv, TypeOK
  <1>1. /\ Happened \in Nat /\ Happened + 1 \in 1..Len(Emitted)
        /\ ev[p] = Emitted[Happened + 1] /\ ev[p] \in Event /\ ev[p] \notin eventRaw
    BY OneWriter DEF Inserting
  <1>2. eventRaw' = eventRaw \cup {ev[p]}
    BY DEF Publish
  <1>3. IsFiniteSet(eventRaw') /\ Happened' = Happened + 1
    BY <1>1, <1>2, FS_AddElement DEF StoredPrefix, Happened
  <1>4. locked[p] = Target(ev[p])
    BY DEF Exact, Selected, Closing
  <1>5. res[p].opened <=> ev[p].type = EventParticipantJoined
    BY DEF Exact, Opening, Result
  <1>6. ev[p] \notin joins /\ endedBy[ev[p]] = NoEvent
    BY <1>1 DEF EndsAreObserved
  <1>7. joins' = IF ev[p].type = EventParticipantJoined THEN joins \cup {ev[p]} ELSE joins
    BY <1>5 DEF Publish
  <1>8. \A j \in Event : endedBy'[j] = IF j \in Target(ev[p]) THEN ev[p] ELSE endedBy[j]
    BY <1>4 DEF Publish
  <1> QED
    BY <1>1, <1>2, <1>3, <1>6, <1>7, <1>8

LEMMA PrefixKeeps ==
    ASSUME InOrderInv, InOrderNext
    PROVE  StoredPrefix'
  <1> USE DEF InOrderInv
  <1>0. Next /\ [Next]_vars
    BY DEF InOrderNext, Next
  <1>1. eventRaw \subseteq eventRaw'
    BY <1>0, StoredEffectStays DEF ViewInv
  <1> DEFINE DueIn(e, S) ==
          \E k \in DOMAIN Emitted : Emitted[k] = e /\ \A i \in 1..(k - 1) : Emitted[i] \in S
  <1>2. \A e : Due(e) => DueIn(e, eventRaw')
    BY <1>1 DEF Due
  <1>3. ASSUME NEW q \in Proc, pc'[q] # "idle"
        PROVE  DueIn(ev'[q], eventRaw')
    <2> HIDE DEF DueIn
    <2>1. ~Crash
      BY <1>3 DEF Crash
    <2>2. PICK p \in Proc : (\E e \in Event : Due(e) /\ Call(p, e)) \/ RecordEvent(p) \/ Return(p)
      BY <2>1 DEF InOrderNext
    <2>3. CASE p # q
      <3>1. pc'[q] = pc[q] /\ ev'[q] = ev[q]
        BY <2>2, <2>3, OneCallMoves DEF ViewInv, IInv
      <3> QED
        BY <1>2, <1>3, <3>1 DEF StoredPrefix
    <2>4. CASE p = q
      <3>1. CASE \E e \in Event : Due(e) /\ Call(p, e)
        BY <1>2, <2>4, <3>1 DEF Call, ViewInv, IInv, TypeOK
      <3>2. CASE RecordEvent(p)
        <4>1. pc[p] # "idle" /\ ev' = ev
          BY <3>2, CallStaysBusy DEF ViewInv, IInv
        <4> QED
          BY <1>2, <2>4, <4>1 DEF StoredPrefix
      <3>3. ~Return(p)
        BY <1>3, <2>4 DEF Return, ViewInv, IInv, TypeOK
      <3> QED
        BY <2>2, <3>1, <3>2, <3>3
    <2> QED
      BY <2>3, <2>4
  <1>4. /\ IsFiniteSet(eventRaw') /\ Happened' <= Len(Emitted)
        /\ eventRaw' = {Emitted[i] : i \in 1..Happened'}
    <2>1. CASE UNCHANGED tables
      BY <2>1 DEF tables, StoredPrefix, Happened
    <2>2. ASSUME NEW p \in Proc, pc[p] = "commit", Publish(p)
          PROVE  /\ IsFiniteSet(eventRaw') /\ Happened' <= Len(Emitted)
                 /\ eventRaw' = {Emitted[i] : i \in 1..Happened'}
      <3>1. /\ Happened \in Nat /\ Happened + 1 \in 1..Len(Emitted)
            /\ IsFiniteSet(eventRaw') /\ Happened' = Happened + 1
            /\ eventRaw' = eventRaw \cup {Emitted[Happened + 1]}
        BY <2>2, CommitIsNext
      <3>2. Happened' <= Len(Emitted)
        BY <3>1, HistoryFacts
      <3>3. 1..Happened' = (1..Happened) \cup {Happened + 1}
        BY <3>1
      <3>4. {Emitted[i] : i \in 1..Happened'}
                = {Emitted[i] : i \in 1..Happened} \cup {Emitted[Happened + 1]}
        BY <3>3
      <3> QED
        BY <3>1, <3>2, <3>4 DEF StoredPrefix
    <2> QED
      BY <1>0, <2>1, <2>2, OnlyCommitsWrite
  <1> QED
    BY <1>3, <1>4 DEF StoredPrefix, Due

LEMMA PresentKeeps ==
    ASSUME InOrderInv, InOrderNext
    PROVE  PresentAreOpen'
  <1> USE DEF InOrderInv
  <1>0. [Next]_vars
    BY DEF InOrderNext, Next
  <1>1. CASE UNCHANGED tables
    BY <1>1 DEF tables, PresentAreOpen, Happened, Open
  <1>2. ASSUME NEW p \in Proc, pc[p] = "commit", Publish(p)
        PROVE  PresentAreOpen'
    <2> DEFINE e == Emitted[Happened + 1]
    <2>1. /\ Happened \in Nat /\ Happened + 1 \in 1..Len(Emitted) /\ e \in Event
          /\ Happened' = Happened + 1
          /\ joins' = IF e.type = EventParticipantJoined THEN joins \cup {e} ELSE joins
          /\ \A j \in Event : endedBy'[j] = IF j \in Target(e) THEN e ELSE endedBy[j]
          /\ e \notin joins /\ endedBy[e] = NoEvent
      BY <1>2, CommitIsNext
    <2> SUFFICES ASSUME NEW i \in 1..(Happened + 1), Emitted[i].type = EventParticipantJoined,
                        Undisturbed(i, i + 1, Happened + 1)
                 PROVE  Emitted[i] \in joins' /\ endedBy'[Emitted[i]] = NoEvent
      BY <2>1 DEF PresentAreOpen, Open
    <2>2. CASE i = Happened + 1
      <3>1. e \notin Target(e)
        BY <2>1 DEF Target
      <3> QED
        BY <2>1, <2>2, <3>1
    <2>3. CASE i # Happened + 1
      <3>1. i \in 1..Happened /\ Happened + 1 \in (i + 1)..(Happened + 1)
        BY <2>1, <2>3
      <3>2. Undisturbed(i, i + 1, Happened)
        BY <2>1, <3>1 DEF Undisturbed
      <3>3. Emitted[i] \in joins /\ endedBy[Emitted[i]] = NoEvent
        BY <3>1, <3>2 DEF PresentAreOpen, Open
      <3>4. Emitted[i] \notin Target(e)
        BY <3>1 DEF Undisturbed, Target
      <3>5. Emitted[i] \in Event
        BY <2>1, <3>1, HistoryFacts
      <3> QED
        BY <2>1, <3>3, <3>4, <3>5
    <2> QED
      BY <2>2, <2>3
  <1> QED
    BY <1>0, <1>1, <1>2, OnlyCommitsWrite

LEMMA InOrderInductive ==
    ASSUME InOrderInv, [InOrderNext]_viewVars
    PROVE  InOrderInv'
  <1>1. ViewInv'
    BY ViewInductive DEF InOrderInv, InOrderNext, ViewNext, Next
  <1>2. CASE InOrderNext
    <2>1. Next
      BY <1>2 DEF InOrderNext, Next
    <2> QED
      BY <1>1, <1>2, <2>1, PrefixKeeps, PresentKeeps, ExactKeeps DEF InOrderInv
  <1>3. CASE UNCHANGED viewVars
    <2> USE <1>3 DEF viewVars, vars, tables, calls, InOrderInv
    <2>1. StoredPrefix'
      BY DEF StoredPrefix, Happened, Due
    <2>2. PresentAreOpen'
      BY DEF PresentAreOpen, Happened, Open
    <2>3. Exact'
      BY DEF Exact, Target, Open
    <2> QED
      BY <1>1, <2>1, <2>2, <2>3
  <1> QED
    BY <1>2, <1>3

-----------------------------------------------------------------------------
(* The refinement                                                          *)

\* A row has no end just if its join is open.
LEMMA OpenRows ==
    ASSUME IInv, NEW j \in joins
    PROVE  Row(j).ended = NoEnd <=> endedBy[j] = NoEvent
  <1>1. endedBy[j] # NoEvent => endedBy[j].at \in Nat
    BY EventTimeAssumption DEF IInv, TypeOK
  <1> QED
    BY <1>1, NoEndAssumption DEF Row

\* The rows after the event e has ended those in S and, if it is an arrival,
\* opened its own.
LEMMA RowsAfterClose ==
    ASSUME IInv, NEW e \in Event, joins' = joins,
           \A j \in Event : endedBy'[j] = IF j \in Target(e) THEN e ELSE endedBy[j]
    PROVE  Rows' = (Rows \ {Row(j) : j \in Target(e)})
                     \cup {[r EXCEPT !.ended = e.at] : r \in {Row(j) : j \in Target(e)}}
  <1>1. joins \subseteq Event /\ Target(e) \subseteq joins /\ e # NoEvent
    BY NoEventAssumption DEF IInv, TypeOK, Target
  <1>2. \A j \in joins \ Target(e) : Row(j)' = Row(j)
    BY <1>1 DEF Row
  <1>3. \A j \in Target(e) : Row(j)' = [Row(j) EXCEPT !.ended = e.at]
    BY <1>1 DEF Row
  <1>4. \A j \in joins \ Target(e) : Row(j) \notin {Row(k) : k \in Target(e)}
    <2> SUFFICES ASSUME NEW j \in joins \ Target(e), NEW k \in Target(e), Row(j) = Row(k)
                 PROVE  FALSE
      OBVIOUS
    <2>1. endedBy[k] = NoEvent /\ k \in joins
      BY DEF Target, Open
    <2>2. Row(j).ended = NoEnd /\ Row(j).room = j.room /\ Row(j).sid = j.sid
          /\ Row(k).room = k.room /\ Row(k).sid = k.sid
      BY <2>1, OpenRows DEF Row
    <2>3. endedBy[j] = NoEvent /\ j.room = k.room /\ j.sid = k.sid
      BY <2>2, OpenRows
    <2> QED
      BY <2>1, <2>3 DEF Target, Open
  <1>5. Rows' = {Row(j)' : j \in joins}
    BY DEF Rows
  <1>6. Rows = {Row(j) : j \in joins}
    BY DEF Rows
  <1> DEFINE Old(j) == Row(j)
             New(j) == Row(j)'
  <1>7. /\ \A j \in joins \ Target(e) : New(j) = Old(j)
        /\ \A j \in Target(e) : New(j) = [Old(j) EXCEPT !.ended = e.at]
        /\ \A j \in joins \ Target(e) : Old(j) \notin {Old(k) : k \in Target(e)}
        /\ Rows' = {New(j) : j \in joins} /\ Rows = {Old(j) : j \in joins}
    BY <1>2, <1>3, <1>4, <1>5, <1>6
  <1> HIDE DEF Old, New
  <1>8. Rows' = (Rows \ {Old(j) : j \in Target(e)})
                  \cup {[r EXCEPT !.ended = e.at] : r \in {Old(j) : j \in Target(e)}}
    BY <1>1, <1>7
  <1> QED
    BY <1>8 DEF Old

\* COMMIT of the next event does to the rows what Presence says it does.
LEMMA CommitReplays ==
    ASSUME InOrderInv, NEW p \in Proc, pc[p] = "commit", Publish(p)
    PROVE  Truth!Next
  <1> USE DEF EventParticipantJoined, EventParticipantLeft, EventRoomFinished,
              Truth!EventParticipantJoined, Truth!EventParticipantLeft,
              Truth!EventRoomFinished
  <1>0. IInv
    BY DEF InOrderInv, ViewInv
  <1>1. PICK e \in Event :
        /\ e = Emitted[Happened + 1]
        /\ Happened \in Nat /\ Happened + 1 \in 1..Len(Emitted)
        /\ Happened' = Happened + 1
        /\ joins' = IF e.type = EventParticipantJoined THEN joins \cup {e} ELSE joins
        /\ \A j \in Event : endedBy'[j] = IF j \in Target(e) THEN e ELSE endedBy[j]
        /\ e \notin joins /\ endedBy[e] = NoEvent
    BY CommitIsNext
  <1>2. Happened < Len(Emitted)
    BY <1>1, HistoryFacts
  <1>3. ASSUME NEW S \in SUBSET Rows, S = {Row(j) : j \in Target(e)},
               e.type # EventParticipantJoined
        PROVE  Rows' = Truth!Gone(S, e)
    BY <1>0, <1>1, <1>3, RowsAfterClose DEF Truth!Gone
  <1>4. Rows' = Truth!After(e)
    <2>1. CASE e.type = EventParticipantJoined
      <3>1. Target(e) = {}
        BY <2>1 DEF Target
      <3>2. /\ joins' = joins \cup {e} /\ joins \subseteq Event
            /\ \A j \in Event : endedBy'[j] = endedBy[j]
        BY <1>0, <1>1, <2>1, <3>1 DEF IInv, TypeOK
      <3>3. \A j \in joins : Row(j)' = Row(j)
        BY <3>2 DEF Row
      <3>4. Row(e)' = Truth!Arrival(e)
        BY <1>1, <3>2 DEF Row, Truth!Arrival
      <3>5. Rows' = Rows \cup {Truth!Arrival(e)}
        BY <3>2, <3>3, <3>4 DEF Rows
      <3> QED
        BY <2>1, <3>5 DEF Truth!After
    <2>2. CASE e.type = EventParticipantLeft
      <3>1. {r \in Rows : Truth!Here(r, e) /\ r.sid = e.sid} = {Row(j) : j \in Target(e)}
        <4>1. \A j \in joins : Row(j).room = j.room /\ Row(j).sid = j.sid
          BY DEF Row
        <4>2. \A j \in joins : j \in Target(e) <=> Truth!Here(Row(j), e) /\ Row(j).sid = e.sid
          BY <1>0, <2>2, <4>1, OpenRows DEF Target, Open, Truth!Here
        <4>3. Target(e) \subseteq joins
          BY DEF Target
        <4> QED
          BY <4>2, <4>3 DEF Rows
      <3> QED
        BY <1>3, <2>2, <3>1 DEF Truth!After
    <2>3. CASE e.type = EventRoomFinished
      <3>1. {r \in Rows : Truth!Here(r, e)} = {Row(j) : j \in Target(e)}
        <4>1. \A j \in joins : Row(j).room = j.room
          BY DEF Row
        <4>2. \A j \in joins : j \in Target(e) <=> Truth!Here(Row(j), e)
          BY <1>0, <2>3, <4>1, OpenRows DEF Target, Open, Truth!Here
        <4>3. Target(e) \subseteq joins
          BY DEF Target
        <4> QED
          BY <4>2, <4>3 DEF Rows
      <3> QED
        BY <1>3, <2>3, <3>1 DEF Truth!After
    <2>4. CASE e.type \notin {EventParticipantJoined, EventParticipantLeft, EventRoomFinished}
      <3>1. Target(e) = {}
        BY <2>4 DEF Target
      <3>2. joins' = joins /\ joins \subseteq Event /\ \A j \in Event : endedBy'[j] = endedBy[j]
        BY <1>0, <1>1, <2>4, <3>1 DEF IInv, TypeOK
      <3>3. \A j \in joins : Row(j)' = Row(j)
        BY <3>2 DEF Row
      <3>4. Rows' = Rows
        BY <3>2, <3>3 DEF Rows
      <3> QED
        BY <2>4, <3>4 DEF Truth!After
    <2> QED
      BY <2>1, <2>2, <2>3, <2>4
  <1> QED
    BY <1>1, <1>2, <1>4 DEF Truth!Next, Happened

-----------------------------------------------------------------------------
(* The theorems                                                            *)

\* Behind an in-order sender what is stored is a prefix of the history, and no
\* departure falls back to the identity.
THEOREM InOrderInvariance == InOrderSpec => []InOrderInv
  <1>1. ViewInit => InOrderInv
    <2> SUFFICES ASSUME ViewInit PROVE InOrderInv
      OBVIOUS
    <2>1. ViewInv
      BY ViewInitial
    <2>2. IsFiniteSet(eventRaw) /\ Happened = 0 /\ eventRaw = {}
      BY FS_EmptySet DEF ViewInit, Init, Happened
    <2>3. StoredPrefix
      BY <2>2, HistoryFacts DEF StoredPrefix, ViewInit, Init
    <2>4. PresentAreOpen
      BY <2>2 DEF PresentAreOpen
    <2>5. Exact
      BY DEF Exact, ViewInit, Init, Closing
    <2> QED
      BY <2>1, <2>3, <2>4, <2>5 DEF InOrderInv
  <1>2. InOrderInv /\ [InOrderNext]_viewVars => InOrderInv'
    BY InOrderInductive
  <1> QED
    BY <1>1, <1>2, PTL DEF InOrderSpec

\* ADR-0019: with deliveries in order the joins are at every moment the
\* presences of the backend's history.
THEOREM JoinsRecordPresences == InOrderSpec => JoinsAreTruth
  <1>1. ViewInit => Truth!Init
    BY FS_EmptySet DEF ViewInit, Init, Truth!Init, Rows
  <1>2. InOrderInv /\ [InOrderNext]_viewVars => [Truth!Next]_<<Cardinality(eventRaw), Rows>>
    <2> SUFFICES ASSUME InOrderInv, [InOrderNext]_viewVars
                 PROVE  [Truth!Next]_<<Cardinality(eventRaw), Rows>>
      OBVIOUS
    <2>1. [Next]_vars
      BY DEF InOrderNext, Next, viewVars
    <2>2. CASE UNCHANGED tables
      BY <2>2 DEF tables, Rows, Row
    <2> QED
      BY <2>1, <2>2, OnlyCommitsWrite, CommitReplays
  <1> QED
    BY <1>1, <1>2, InOrderInvariance, PTL DEF InOrderSpec, JoinsAreTruth, Truth!Spec
=============================================================================
