---------------------------- MODULE IngestProofs ----------------------------
(***************************************************************************)
(* Proofs about Ingest, for every set of deliveries and any number of      *)
(* handlers, attempts and restarts, on top of the invariants of RecordEvent*)
(* in JoinStoreProofs and JoinStoreReplyProofs.                            *)
(***************************************************************************)
EXTENDS Ingest, JoinStoreReplyProofs, FiniteSetTheorems, WellFoundedInduction,
        NaturalsInduction

-----------------------------------------------------------------------------
(* The inductive invariant                                                 *)

\* The delivery a handler works on was tried, passed every check of ServeHTTP,
\* and its event is the argument of RecordEvent.
HandlesStorable ==
    \A p \in Proc : handling[p] # NoDelivery =>
        /\ Storable(handling[p])
        /\ attempts[handling[p]] > 0
        /\ ev[p] = Translate(handling[p].body)

Busy == {p \in Proc : pc[p] # "idle"}

\* The tables and the calls in progress are finite, so that they can be counted.
Countable == IsFiniteSet(eventRaw) /\ IsFiniteSet(joins) /\ IsFiniteSet(Busy)

\* The calls that have stored an event, or opened a join, and not yet been counted.
Unreported     == {p \in Proc : pc[p] = "returned" /\ res[p].err = "none"}
StoredReplies  == {p \in Unreported : res[p].stored}
OpenedReplies  == {p \in Unreported : res[p].opened}

\* The deliveries that are acknowledged and lost.
Lost == {d \in Delivery : /\ verdict[d] = "acked"
                          /\ Storable(d)
                          /\ Translate(d.body) \notin eventRaw}

IngestInv ==
    /\ IInv /\ Replies
    /\ IngestTypeOK
    /\ HandlesStorable
    /\ OnlyVerifiedIsStored
    /\ AckedIsStored
    /\ Countable
    /\ CountersNeverExceedRows
    /\ IsFiniteSet(Lost)
    /\ LossIsCounted

-----------------------------------------------------------------------------
(* The receiver uses the store as JoinStore allows                         *)

\* Every step of the receiver is a step of RecordEvent's callers or leaves the
\* store alone.
LEMMA StoreStep ==
    ASSUME [IngestNext]_allVars
    PROVE  [Next]_vars
  <1>1. ASSUME NEW p \in Proc, NEW d \in Delivery, Receive(p, d)
        PROVE  Next
    <2>1. Translate(d.body) \in Event /\ Call(p, Translate(d.body))
      BY <1>1, DeliveryAssumption DEF Receive
    <2> QED
      BY <2>1 DEF Next
  <1>2. ASSUME NEW p \in Proc, RecordEvent(p) \/ Respond(p)
        PROVE  Next
    BY <1>2 DEF Next, Respond
  <1>3. CASE CrashIngest
    BY <1>3 DEF CrashIngest, Next
  <1> QED
    BY <1>1, <1>2, <1>3 DEF IngestNext, RequestLost, Refuse, allVars

\* The invariants of RecordEvent hold in the receiver.
LEMMA StoreInvariant ==
    /\ IngestInit => IInv /\ Replies
    /\ IInv /\ Replies /\ [IngestNext]_allVars => IInv' /\ Replies'
  BY Inductive, RepliesInductive, StoreStep DEF IngestInit

-----------------------------------------------------------------------------
(* Facts about the operators of the handler                                *)

\* LiveKit learns of one delivery at a time, and takes a 200 only for an
\* acknowledgement it has not had.
LEMMA AnsweredOne ==
    ASSUME verdict \in [Delivery -> {"unsettled", "acked", "refused"}],
           NEW d \in Delivery, NEW status, Answered(d, status)
    PROVE  /\ verdict' \in [Delivery -> {"unsettled", "acked", "refused"}]
           /\ \A c \in Delivery \ {d} : verdict'[c] = verdict[c]
           /\ verdict'[d] = "acked" => verdict[d] = "acked" \/ status = 200
  BY DEF Answered

\* A failure of the store is answered with a 500, everything else with a 200.
LEMMA AnswerOf ==
    ASSUME NEW r \in Result
    PROVE  /\ Answer(r).outcome \in Outcome
           /\ Answer(r).status = 200 => r.err # "failed"
  BY DEF Answer, Result, Error, Outcome

\* The time and the type of a translated event.
LEMMA TranslateOf ==
    ASSUME NEW b
    PROVE  Translate(b).at = OccurredAt(b) /\ Translate(b).type = b.event
  BY DEF Translate

\* What the handler counts for a result.
LEMMA CountOf ==
    ASSUME metrics \in Metrics, NEW r \in Result, NEW type,
           r.err = "none" => IsFiniteSet(r.closed)
    PROVE  /\ Count(r, type) \in Metrics
           /\ Count(r, type).stored =
                 metrics.stored + (IF r.err = "none" /\ r.stored THEN 1 ELSE 0)
           /\ Count(r, type).joinsOpened =
                 metrics.joinsOpened + (IF r.err = "none" /\ r.stored /\ r.opened THEN 1 ELSE 0)
           /\ Count(r, type).partitionMissed + Count(r, type).closeOutOfOrder =
                 metrics.partitionMissed + metrics.closeOutOfOrder +
                 (IF r.err \in {"partition_missing", "close_out_of_order"} THEN 1 ELSE 0)
  <1>1. Answer(r).outcome \in Outcome
    BY AnswerOf
  <1>2. EndReasonOf(type) \in EndReason
    BY DEF EndReasonOf, EndReason
  <1>3. r.err = "none" => Cardinality(r.closed) \in Nat
    BY FS_CardinalityType
  <1> DEFINE done == r.err = "none" /\ r.stored
             Plus(n, b) == IF b THEN n + 1 ELSE n
  <1>4. Count(r, type) \in Metrics
    <2> DEFINE o  == Answer(r).outcome
               k  == EndReasonOf(type)
               n1 == metrics.requests[o] + 1
               n2 == Plus(metrics.partitionMissed, r.err = "partition_missing")
               n3 == Plus(metrics.closeOutOfOrder, r.err = "close_out_of_order")
               n4 == Plus(metrics.duplicates, r.err = "none" /\ ~r.stored)
               n5 == Plus(metrics.stored, done)
               n6 == Plus(metrics.joinsOpened, done /\ r.opened)
               n7 == IF done THEN metrics.joinsClosed[k] + Cardinality(r.closed)
                     ELSE metrics.joinsClosed[k]
               n8 == Plus(metrics.closeUnmatched, done /\ r.unmatched)
    <2>1. /\ n1 \in Nat /\ n2 \in Nat /\ n3 \in Nat /\ n4 \in Nat
          /\ n5 \in Nat /\ n6 \in Nat /\ n8 \in Nat
      BY <1>1 DEF Metrics
    <2>2. n7 \in Nat
      BY <1>2, <1>3 DEF Metrics
    <2> DEFINE m1 == [metrics EXCEPT !.requests[o] = n1]
               m2 == [m1 EXCEPT !.partitionMissed = n2, !.closeOutOfOrder = n3, !.duplicates = n4]
               m3 == [m2 EXCEPT !.stored = n5, !.joinsOpened = n6]
               m4 == [m3 EXCEPT !.joinsClosed[k] = n7]
    <2>3. Count(r, type) = [m4 EXCEPT !.closeUnmatched = n8]
      BY DEF Count
    <2> HIDE DEF n1, n2, n3, n4, n5, n6, n7, n8, o, k
    <2>4. o \in Outcome /\ k \in EndReason
      BY <1>1, <1>2 DEF o, k
    <2>5. m1 \in Metrics
      BY <2>1, <2>4 DEF Metrics
    <2> HIDE DEF m1
    <2>6. m2 \in Metrics
      BY <2>1, <2>5 DEF Metrics
    <2> HIDE DEF m2
    <2>7. m3 \in Metrics
      BY <2>1, <2>6 DEF Metrics
    <2> HIDE DEF m3
    <2>8. m4 \in Metrics
      BY <2>2, <2>4, <2>7 DEF Metrics
    <2> HIDE DEF m4
    <2> QED
      BY <2>1, <2>3, <2>8 DEF Metrics
  <1>5. Count(r, type).stored = Plus(metrics.stored, done)
    BY DEF Count, Metrics
  <1>6. Count(r, type).joinsOpened = Plus(metrics.joinsOpened, done /\ r.opened)
    BY DEF Count, Metrics
  <1>7. /\ Count(r, type).partitionMissed =
              Plus(metrics.partitionMissed, r.err = "partition_missing")
        /\ Count(r, type).closeOutOfOrder =
              Plus(metrics.closeOutOfOrder, r.err = "close_out_of_order")
    BY DEF Count, Metrics
  <1>8. /\ metrics.stored \in Nat /\ metrics.joinsOpened \in Nat
        /\ metrics.partitionMissed \in Nat /\ metrics.closeOutOfOrder \in Nat
    BY DEF Metrics
  <1> QED
    BY <1>4, <1>5, <1>6, <1>7, <1>8

\* Counting: a set that gains or loses an element.
LEMMA CountGain ==
    ASSUME NEW S, IsFiniteSet(S), NEW x, NEW T \in SUBSET (S \cup {x})
    PROVE  /\ IsFiniteSet(T)
           /\ Cardinality(S) \in Nat /\ Cardinality(T) \in Nat
           /\ Cardinality(T) <= Cardinality(S) + 1
           /\ T \subseteq S => Cardinality(T) <= Cardinality(S)
           /\ x \in S /\ x \notin T => Cardinality(T) + 1 <= Cardinality(S)
  <1>1. /\ IsFiniteSet(S \cup {x})
        /\ Cardinality(S \cup {x}) = IF x \in S THEN Cardinality(S) ELSE Cardinality(S) + 1
    BY FS_AddElement
  <1>2. IsFiniteSet(T) /\ Cardinality(T) <= Cardinality(S \cup {x})
    BY <1>1, FS_Subset
  <1>3. Cardinality(S) \in Nat /\ Cardinality(T) \in Nat
    BY <1>2, FS_CardinalityType
  <1>4. T \subseteq S => Cardinality(T) <= Cardinality(S)
    BY FS_Subset
  <1>5. ASSUME x \in S, x \notin T
        PROVE  Cardinality(T) + 1 <= Cardinality(S)
    <2>1. IsFiniteSet(S \ {x}) /\ Cardinality(S \ {x}) = Cardinality(S) - 1
      BY <1>5, FS_RemoveElement
    <2>2. T \in SUBSET (S \ {x})
      BY <1>5
    <2>3. Cardinality(T) <= Cardinality(S \ {x})
      BY <2>1, <2>2, FS_Subset
    <2> QED
      BY <1>3, <2>1, <2>3
  <1> QED
    BY <1>1, <1>2, <1>3, <1>4, <1>5

-----------------------------------------------------------------------------
(* The invariant is inductive                                              *)

\* The receiver's own variables keep their types.
LEMMA IngestTypeKeeps ==
    ASSUME IngestInv, IInv', [IngestNext]_allVars
    PROVE  IngestTypeOK'
  <1> USE DEF IngestTypeOK
  <1>1. TypeOK /\ TypeOK' /\ IngestTypeOK
    BY DEF IngestInv, IInv
  <1>2. ASSUME NEW d \in Delivery, Attempt(d)
        PROVE  attempts' \in [Delivery -> 0..MaxAttempts]
    BY <1>1, <1>2, BoundsAssumption DEF Attempt
  <1>3. CASE UNCHANGED allVars
    BY <1>1, <1>3 DEF allVars, vars, tables, calls, ingestVars, senderVars
  <1>4. ASSUME NEW d \in Delivery, RequestLost(d)
        PROVE  IngestTypeOK'
    BY <1>1, <1>2, <1>4 DEF RequestLost, vars, calls
  <1>5. ASSUME NEW d \in Delivery, NEW p \in Proc, Refuse(p, d)
        PROVE  IngestTypeOK'
    <2>1. verdict' \in [Delivery -> {"unsettled", "acked", "refused"}]
      BY <1>1, <1>5, AnsweredOne DEF Refuse
    <2>2. metrics' \in Metrics
      <3>1. Refusal(d).outcome \in Outcome
        BY DEF Refusal, Outcome
      <3> DEFINE m == [metrics EXCEPT !.requests[Refusal(d).outcome] = @ + 1]
                 n == IF Refusal(d).outcome = "ignored" THEN metrics.rejected + 1
                      ELSE metrics.rejected
      <3>2. m \in Metrics /\ n \in Nat
        BY <1>1, <3>1 DEF Metrics
      <3>3. metrics' = [m EXCEPT !.rejected = n]
        BY <1>5 DEF Refuse
      <3> HIDE DEF m, n
      <3> QED
        BY <3>2, <3>3 DEF Metrics
    <2> QED
      BY <1>1, <1>2, <1>5, <2>1, <2>2 DEF Refuse, vars, calls
  <1>6. ASSUME NEW d \in Delivery, NEW p \in Proc, Receive(p, d)
        PROVE  IngestTypeOK'
    <2>1. metrics' \in Metrics
      BY <1>1, <1>6 DEF Receive, Metrics
    <2>2. \A q \in Proc : handling'[q] = NoDelivery <=> pc'[q] = "idle"
      BY <1>1, <1>6, DeliveryAssumption DEF Receive, Call, TypeOK
    <2>3. handling' \in [Proc -> Delivery \cup {NoDelivery}]
      BY <1>1, <1>6 DEF Receive
    <2> QED
      BY <1>1, <1>2, <1>6, <2>1, <2>2, <2>3 DEF Receive
  <1>7. ASSUME NEW p \in Proc, RecordEvent(p), UNCHANGED ingestVars
        PROVE  IngestTypeOK'
    <2>1. \A q \in Proc : pc'[q] = "idle" <=> pc[q] = "idle"
      BY <1>1, <1>7, CallStaysBusy, OneCallMoves
    <2> QED
      BY <1>1, <1>7, <2>1 DEF ingestVars, senderVars
  <1>8. ASSUME NEW p \in Proc, Respond(p)
        PROVE  IngestTypeOK'
    <2>1. pc[p] = "returned" /\ handling[p] \in Delivery
      BY <1>1, <1>8 DEF Respond, Return
    <2>2. verdict' \in [Delivery -> {"unsettled", "acked", "refused"}]
      BY <1>1, <1>8, <2>1, AnsweredOne DEF Respond
    <2>3. metrics' \in Metrics
      <3>1. res[p] \in Result
        BY <1>1 DEF TypeOK
      <3>2. res[p].err = "none" => IsFiniteSet(res[p].closed)
        BY <2>1, FS_Subset DEF IngestInv, Countable, Replies, ResultReturned
      <3> QED
        BY <1>1, <1>8, <3>1, <3>2, CountOf DEF Respond
    <2>4. /\ handling' \in [Proc -> Delivery \cup {NoDelivery}]
          /\ \A q \in Proc : handling'[q] = NoDelivery <=> pc'[q] = "idle"
      BY <1>1, <1>8 DEF Respond, Return, TypeOK
    <2> QED
      BY <1>1, <1>8, <2>2, <2>3, <2>4 DEF Respond
  <1>9. CASE CrashIngest
    <2>1. NoMetrics \in Metrics
      BY DEF NoMetrics, Metrics
    <2> QED
      BY <1>1, <1>9, <2>1, BoundsAssumption DEF CrashIngest, Crash, senderVars
  <1> QED
    BY <1>3, <1>4, <1>5, <1>6, <1>7, <1>8, <1>9 DEF IngestNext

\* Every call of RecordEvent is for a delivery that ServeHTTP let through.
LEMMA HandlesStorableKeeps ==
    ASSUME IngestInv, [IngestNext]_allVars
    PROVE  /\ HandlesStorable'
           /\ \A d \in Delivery : attempts[d] > 0 => attempts'[d] > 0
  <1>1. /\ TypeOK /\ IngestTypeOK /\ HandlesStorable
        /\ attempts \in [Delivery -> 0..MaxAttempts]
        /\ handling \in [Proc -> Delivery \cup {NoDelivery}]
    BY DEF IngestInv, IInv, IngestTypeOK
  <1> DEFINE Tried == \A d \in Delivery : attempts[d] > 0 => attempts'[d] > 0
  <1>2. ASSUME NEW d \in Delivery, Attempt(d)
        PROVE  Tried /\ attempts'[d] > 0
    BY <1>1, <1>2, BoundsAssumption DEF Attempt
  <1>3. ASSUME UNCHANGED <<ev, handling>>, Tried
        PROVE  HandlesStorable' /\ Tried
    BY <1>1, <1>3 DEF HandlesStorable
  <1>4. CASE UNCHANGED allVars
    BY <1>3, <1>4 DEF allVars, vars, calls, ingestVars, senderVars
  <1>5. ASSUME NEW d \in Delivery, RequestLost(d) \/ \E p \in Proc : Refuse(p, d)
        PROVE  HandlesStorable' /\ Tried
    BY <1>2, <1>3, <1>5 DEF RequestLost, Refuse, vars, calls
  <1>6. ASSUME NEW d \in Delivery, NEW p \in Proc, Receive(p, d)
        PROVE  HandlesStorable' /\ Tried
    <2>1. Tried /\ attempts'[d] > 0
      BY <1>2, <1>6 DEF Receive
    <2>2. /\ handling'[p] = d /\ ev'[p] = Translate(d.body) /\ Storable(d)
          /\ \A q \in Proc \ {p} : handling'[q] = handling[q] /\ ev'[q] = ev[q]
      BY <1>1, <1>6 DEF Receive, Call, TypeOK
    <2> QED
      BY <1>1, <2>1, <2>2 DEF HandlesStorable
  <1>7. ASSUME NEW p \in Proc, RecordEvent(p), UNCHANGED ingestVars
        PROVE  HandlesStorable' /\ Tried
    BY <1>1, <1>3, <1>7, CallStaysBusy DEF ingestVars, senderVars
  <1>8. ASSUME NEW p \in Proc, Respond(p)
        PROVE  HandlesStorable' /\ Tried
    <2>1. /\ handling'[p] = NoDelivery /\ UNCHANGED attempts
          /\ \A q \in Proc \ {p} : handling'[q] = handling[q] /\ ev'[q] = ev[q]
      BY <1>1, <1>8 DEF Respond, Return, TypeOK
    <2> QED
      BY <1>1, <2>1 DEF HandlesStorable
  <1>9. CASE CrashIngest
    BY <1>9 DEF CrashIngest, senderVars, HandlesStorable
  <1> QED
    BY <1>4, <1>5, <1>6, <1>7, <1>8, <1>9 DEF IngestNext

\* A row is written by a call in progress, and nothing else happens then.
LEMMA RowsComeFromCalls ==
    ASSUME [IngestNext]_allVars
    PROVE  \/ UNCHANGED tables
           \/ \E p \in Proc : /\ pc[p] = "commit" /\ Publish(p)
                              /\ RecordEvent(p) /\ UNCHANGED ingestVars
  <1>1. CASE UNCHANGED vars
    BY <1>1 DEF vars
  <1>2. ASSUME NEW p \in Proc, RecordEvent(p), UNCHANGED ingestVars
        PROVE  UNCHANGED tables \/ (pc[p] = "commit" /\ Publish(p))
    BY <1>2, OnlyCommitWrites
  <1>3. CASE CrashIngest
    BY <1>3 DEF CrashIngest, Crash
  <1>4. ASSUME NEW p \in Proc, Respond(p) \/ \E d \in Delivery : Receive(p, d)
        PROVE  UNCHANGED tables
    BY <1>4 DEF Respond, Return, Receive, Call
  <1> QED
    BY <1>1, <1>2, <1>3, <1>4 DEF IngestNext, RequestLost, Refuse, allVars

\* Every new row comes from a verified delivery.
LEMMA VerifiedKeeps ==
    ASSUME IngestInv, [IngestNext]_allVars
    PROVE  OnlyVerifiedIsStored'
  <1>1. \A d \in Delivery : attempts[d] > 0 => attempts'[d] > 0
    BY HandlesStorableKeeps
  <1>2. ASSUME NEW p \in Proc, pc[p] = "commit"
        PROVE  \E d \in Delivery :
                  /\ attempts[d] > 0 /\ d.token # NoToken /\ d.token.valid
                  /\ d.token.digest = d.body /\ Decodes(d.body)
                  /\ d.body.event \notin Rejected /\ Translate(d.body) = ev[p]
    <2>1. handling[p] \in Delivery /\ handling[p] # NoDelivery
      BY <1>2, DeliveryAssumption DEF IngestInv, IngestTypeOK
    <2>2. Storable(handling[p]) /\ attempts[handling[p]] > 0
          /\ ev[p] = Translate(handling[p].body)
      BY <2>1 DEF IngestInv, HandlesStorable
    <2>3. Verify(handling[p]) /\ Decodes(handling[p].body)
          /\ Classify(handling[p].body.event) # "reject"
      BY <2>2 DEF Storable
    <2>4. handling[p].body.event \notin Rejected
      BY <2>3 DEF Classify, Canonical, Rejected
    <2> QED
      BY <2>1, <2>2, <2>3, <2>4 DEF Verify
  <1>3. CASE UNCHANGED tables
    BY <1>1, <1>3 DEF IngestInv, OnlyVerifiedIsStored, tables
  <1>4. ASSUME NEW p \in Proc, pc[p] = "commit", Publish(p)
        PROVE  OnlyVerifiedIsStored'
    <2>1. eventRaw' = eventRaw \cup {ev[p]}
      BY <1>4 DEF Publish
    <2> QED
      BY <1>1, <1>2, <1>4, <2>1 DEF IngestInv, OnlyVerifiedIsStored
  <1> QED
    BY <1>3, <1>4, RowsComeFromCalls

\* A delivery that reaches RecordEvent is acknowledged by the answer to a call
\* that did not fail.
LEMMA NewlyAcked ==
    ASSUME IngestInv, [IngestNext]_allVars, NEW d \in Delivery, Storable(d),
           verdict[d] # "acked", verdict'[d] = "acked"
    PROVE  \E p \in Proc : Respond(p) /\ handling[p] = d /\ res[p].err # "failed"
  <1>1. /\ TypeOK /\ verdict \in [Delivery -> {"unsettled", "acked", "refused"}]
        /\ \A p \in Proc : pc[p] # "idle" => handling[p] \in Delivery
    BY DEF IngestInv, IInv, IngestTypeOK
  <1>2. ASSUME NEW p \in Proc, NEW c \in Delivery, Refuse(p, c)
        PROVE  FALSE
    <2>1. c # d /\ Answered(c, Refusal(c).status)
      BY <1>2 DEF Refuse
    <2> QED
      BY <1>1, <2>1, AnsweredOne
  <1>3. ASSUME NEW p \in Proc, Respond(p)
        PROVE  handling[p] = d /\ res[p].err # "failed"
    <2>1. handling[p] \in Delivery /\ Answered(handling[p], Answer(res[p]).status)
      BY <1>1, <1>3 DEF Respond, Return
    <2>2. handling[p] = d /\ Answer(res[p]).status = 200
      BY <1>1, <2>1, AnsweredOne
    <2>3. res[p] \in Result
      BY <1>1 DEF TypeOK
    <2> QED
      BY <2>2, <2>3, AnswerOf
  <1>4. ~UNCHANGED verdict
    OBVIOUS
  <1> QED
    BY <1>2, <1>3, <1>4 DEF IngestNext, RequestLost, Receive, CrashIngest, allVars, ingestVars,
                            senderVars

\* A delivery acknowledged now is stored, or was refused for one of two reasons.
LEMMA AnsweredTruly ==
    ASSUME IngestInv, NEW p \in Proc, Respond(p), res[p].err # "failed"
    PROVE  \/ Translate(handling[p].body) \in eventRaw
           \/ res[p].err = "partition_missing" /\ OccurredAt(handling[p].body) \notin Partitioned
           \/ res[p].err = "close_out_of_order"
              /\ handling[p].body.event \in {EventParticipantLeft, EventRoomFinished}
  <1>1. pc[p] = "returned" /\ handling[p] # NoDelivery
    BY DEF Respond, Return, IngestInv, IngestTypeOK
  <1>2. ev[p] = Translate(handling[p].body)
    BY <1>1 DEF IngestInv, HandlesStorable
  <1>3. ev[p].at = OccurredAt(handling[p].body) /\ ev[p].type = handling[p].body.event
    BY <1>2, TranslateOf
  <1>4. res[p].err \in Error
    BY DEF IngestInv, IInv, TypeOK, Result
  <1> QED
    BY <1>1, <1>2, <1>3, <1>4 DEF IngestInv, Replies, ResultReturned, Error

\* Rows are never deleted.
LEMMA RowsStay ==
    ASSUME IngestInv, [IngestNext]_allVars
    PROVE  eventRaw \subseteq eventRaw'
  BY StoreStep, StoredEffectStays DEF IngestInv

\* An acknowledged event is stored.
LEMMA AckedKeeps ==
    ASSUME IngestInv, [IngestNext]_allVars
    PROVE  AckedIsStored'
  <1> SUFFICES ASSUME NEW d \in Delivery, verdict'[d] = "acked", Storable(d),
                      OccurredAt(d.body) \in Partitioned,
                      d.body.event \notin {EventParticipantLeft, EventRoomFinished}
               PROVE  Translate(d.body) \in eventRaw'
    BY DEF AckedIsStored
  <1>1. CASE verdict[d] = "acked"
    BY <1>1, RowsStay DEF IngestInv, AckedIsStored
  <1>2. CASE verdict[d] # "acked"
    <2>1. PICK p \in Proc : Respond(p) /\ handling[p] = d /\ res[p].err # "failed"
      BY <1>2, NewlyAcked
    <2> QED
      BY <2>1, RowsStay, AnsweredTruly
  <1> QED
    BY <1>1, <1>2

\* Every loss is counted: the set of lost deliveries grows by one only when a
\* counter of losses does.
LEMMA LossKeeps ==
    ASSUME IngestInv, IngestTypeOK', [IngestNext]_allVars
    PROVE  IsFiniteSet(Lost') /\ LossIsCounted'
  <1> DEFINE counted == metrics.partitionMissed + metrics.closeOutOfOrder
  <1>1. /\ IsFiniteSet(Lost) /\ Cardinality(Lost) \in Nat
        /\ restarts = 0 => Cardinality(Lost) <= counted
    BY FS_CardinalityType DEF IngestInv, LossIsCounted, Lost
  <1>2. /\ metrics \in Metrics /\ metrics' \in Metrics
        /\ metrics.partitionMissed \in Nat /\ metrics.closeOutOfOrder \in Nat
        /\ metrics'.partitionMissed \in Nat /\ metrics'.closeOutOfOrder \in Nat
        /\ restarts \in Nat
    BY BoundsAssumption DEF IngestInv, IngestTypeOK, Metrics
  <1>3. LossIsCounted' <=> (restarts' = 0 => Cardinality(Lost') <= counted')
    BY DEF LossIsCounted, Lost
  <1>4. CASE \E p \in Proc : Respond(p)
    <2> PICK p \in Proc : Respond(p)
      BY <1>4
    <2>1. Lost' \subseteq Lost \cup {handling[p]}
      <3>1. ASSUME NEW d \in Delivery, verdict'[d] = "acked", Storable(d),
                   Translate(d.body) \notin eventRaw', d # handling[p]
            PROVE  verdict[d] = "acked" /\ Translate(d.body) \notin eventRaw
        <4>1. handling[p] \in Delivery /\ Answered(handling[p], Answer(res[p]).status)
          BY DEF Respond, Return, IngestInv, IngestTypeOK
        <4> QED
          BY <3>1, <4>1, AnsweredOne, RowsStay DEF IngestInv, IngestTypeOK
      <3> QED
        BY <3>1 DEF Lost
    <2>2. res[p].err \notin {"partition_missing", "close_out_of_order"} => Lost' \subseteq Lost
      <3> SUFFICES ASSUME res[p].err \notin {"partition_missing", "close_out_of_order"},
                          NEW d \in Delivery, verdict'[d] = "acked", Storable(d),
                          Translate(d.body) \notin eventRaw'
                   PROVE  verdict[d] = "acked" /\ Translate(d.body) \notin eventRaw
        BY DEF Lost
      <3>1. Translate(d.body) \notin eventRaw
        BY RowsStay
      <3>2. ASSUME verdict[d] # "acked"
            PROVE  FALSE
        <4>1. PICK q \in Proc : Respond(q) /\ handling[q] = d /\ res[q].err # "failed"
          BY <3>2, NewlyAcked
        <4>2. q = p
          BY <4>1 DEF Respond, Return, IngestInv, IInv, TypeOK
        <4> QED
          BY <3>1, <4>1, <4>2, AnsweredTruly
      <3> QED
        BY <3>1, <3>2
    <2>3. counted' = counted +
              (IF res[p].err \in {"partition_missing", "close_out_of_order"} THEN 1 ELSE 0)
      <3>1. res[p] \in Result
        BY DEF IngestInv, IInv, TypeOK
      <3>2. res[p].err = "none" => IsFiniteSet(res[p].closed)
        BY FS_Subset DEF IngestInv, Countable, Replies, ResultReturned, Respond, Return
      <3>3. metrics' = Count(res[p], ev[p].type)
        BY DEF Respond
      <3> QED
        BY <1>2, <3>1, <3>2, <3>3, CountOf
    <2>4. /\ IsFiniteSet(Lost') /\ Cardinality(Lost') \in Nat
          /\ Cardinality(Lost') <= Cardinality(Lost) + 1
          /\ Lost' \subseteq Lost => Cardinality(Lost') <= Cardinality(Lost)
      BY <1>1, <2>1, CountGain
    <2>5. restarts' = restarts
      BY DEF Respond
    <2> QED
      BY <1>1, <1>2, <1>3, <2>2, <2>3, <2>4, <2>5
  <1>5. CASE ~\E p \in Proc : Respond(p)
    <2>1. Lost' \subseteq Lost
      BY <1>5, NewlyAcked, RowsStay DEF Lost
    <2>2. IsFiniteSet(Lost') /\ Cardinality(Lost') <= Cardinality(Lost)
      BY <1>1, <2>1, FS_Subset
    <2>3. Cardinality(Lost') \in Nat
      BY <2>2, FS_CardinalityType
    <2>4. \/ CrashIngest
          \/ restarts' = restarts /\ counted' = counted
      <3>1. ASSUME NEW d \in Delivery, NEW p \in Proc, Refuse(p, d) \/ Receive(p, d)
            PROVE  restarts' = restarts /\ counted' = counted
        BY <1>2, <3>1 DEF Refuse, Receive, Metrics
      <3> QED
        BY <1>5, <3>1 DEF IngestNext, RequestLost, allVars, ingestVars
    <2>5. CASE CrashIngest
      <3>1. restarts' # 0
        BY <1>2, <2>5 DEF CrashIngest
      <3> QED
        BY <1>3, <2>2, <3>1
    <2>6. CASE restarts' = restarts /\ counted' = counted
      BY <1>1, <1>2, <1>3, <2>2, <2>3, <2>6
    <2> QED
      BY <2>4, <2>5, <2>6
  <1> QED
    BY <1>4, <1>5

\* What a step of RecordEvent adds to the replies that are not counted yet: the
\* call that commits, and no other.
LEMMA RepliesGrowByCommit ==
    ASSUME IngestInv, NEW p \in Proc, RecordEvent(p), Replies'
    PROVE  /\ pc[p] = "commit" /\ Publish(p) =>
                 /\ p \notin StoredReplies /\ p \notin OpenedReplies
                 /\ StoredReplies' \subseteq StoredReplies \cup {p}
                 /\ OpenedReplies' \subseteq OpenedReplies \cup {p}
                 /\ ~res[p].opened => OpenedReplies' \subseteq OpenedReplies
           /\ ~(pc[p] = "commit" /\ Publish(p)) =>
                 /\ StoredReplies' \subseteq StoredReplies
                 /\ OpenedReplies' \subseteq OpenedReplies
  <1> USE DEF StoredReplies, OpenedReplies, Unreported
  <1>1. \A q \in Proc \ {p} : pc'[q] = pc[q] /\ res'[q] = res[q]
    BY OneCallMoves DEF IngestInv, IInv
  <1>2. CASE pc[p] = "commit" /\ Publish(p)
    <2>1. \E err \in Error : Finish(p, err)
      BY <1>2 DEF RecordEvent, Begin, Proceed, Fail, InsertEvent, ApplyJoinEffect, UpdateRow,
                  CloseOutOfOrder, FinishClose, Commit, CommitDuplicate, StatementTimeout,
                  BeginFails, CommitReplyLost, StoreFails, Rollback, Closing, Error
    <2>2. res'[p].opened = res[p].opened
      BY <2>1 DEF Finish, IngestInv, IInv, TypeOK, Result
    <2> QED
      BY <1>1, <1>2, <2>2
  <1>3. CASE ~(pc[p] = "commit" /\ Publish(p))
    <2>1. pc'[p] = "returned" /\ res'[p].err = "none" => ~res'[p].stored /\ ~res'[p].opened
      BY <1>3, MoverReplies DEF IngestInv, Replies, ResultReturned
    <2> QED
      BY <1>1, <1>3, <2>1
  <1> QED
    BY <1>2, <1>3

\* The tables and the calls in progress stay finite.
LEMMA CountableKeeps ==
    ASSUME IngestInv, [IngestNext]_allVars
    PROVE  Countable'
  <1>1. IsFiniteSet(eventRaw) /\ IsFiniteSet(joins) /\ IsFiniteSet(Busy) /\ TypeOK
    BY DEF IngestInv, IInv, Countable
  <1>2. IsFiniteSet(eventRaw') /\ IsFiniteSet(joins')
    <2>1. CASE UNCHANGED tables
      BY <1>1, <2>1 DEF tables
    <2>2. ASSUME NEW p \in Proc, Publish(p)
          PROVE  IsFiniteSet(eventRaw') /\ IsFiniteSet(joins')
      BY <1>1, <2>2, FS_AddElement DEF Publish
    <2> QED
      BY <2>1, <2>2, RowsComeFromCalls
  <1>3. IsFiniteSet(Busy')
    <2>1. \E p : Busy' \subseteq Busy \cup {p}
      <3>1. CASE UNCHANGED pc
        BY <3>1 DEF Busy
      <3>2. ASSUME NEW p \in Proc,
                   (\E e \in Event : Call(p, e)) \/ RecordEvent(p) \/ Return(p)
            PROVE  Busy' \subseteq Busy \cup {p}
        BY <1>1, <3>2, OneCallMoves DEF Busy
      <3>3. CASE Crash
        BY <3>3 DEF Crash, Busy
      <3> QED
        BY <3>1, <3>2, <3>3, StoreStep DEF Next, vars, calls
    <2> QED
      BY <1>1, <2>1, CountGain
  <1> QED
    BY <1>2, <1>3 DEF Countable

\* The counters of stored events and of opened joins stay within the tables.
LEMMA CountersKeep ==
    ASSUME IngestInv, IngestTypeOK', Replies', Countable', [IngestNext]_allVars
    PROVE  CountersNeverExceedRows'
  <1>1. /\ metrics.stored \in Nat /\ metrics.joinsOpened \in Nat
        /\ metrics'.stored \in Nat /\ metrics'.joinsOpened \in Nat
        /\ metrics \in Metrics
    BY DEF IngestInv, IngestTypeOK, Metrics
  <1>2. /\ IsFiniteSet(eventRaw) /\ Cardinality(eventRaw) \in Nat
        /\ IsFiniteSet(joins) /\ Cardinality(joins) \in Nat
        /\ Cardinality(eventRaw') \in Nat /\ Cardinality(joins') \in Nat
    BY FS_CardinalityType DEF IngestInv, Countable
  <1>3. /\ IsFiniteSet(StoredReplies) /\ IsFiniteSet(OpenedReplies)
        /\ IsFiniteSet(StoredReplies') /\ IsFiniteSet(OpenedReplies')
    <2>1. StoredReplies \subseteq Busy /\ OpenedReplies \subseteq Busy
      BY DEF StoredReplies, OpenedReplies, Unreported, Busy
    <2>2. StoredReplies' \subseteq Busy' /\ OpenedReplies' \subseteq Busy'
      BY DEF StoredReplies, OpenedReplies, Unreported, Busy
    <2> QED
      BY <2>1, <2>2, FS_Subset DEF IngestInv, Countable
  <1>4. /\ Cardinality(StoredReplies) \in Nat /\ Cardinality(OpenedReplies) \in Nat
        /\ Cardinality(StoredReplies') \in Nat /\ Cardinality(OpenedReplies') \in Nat
    BY <1>3, FS_CardinalityType
  <1>5. /\ metrics.stored + Cardinality(StoredReplies) <= Cardinality(eventRaw)
        /\ metrics.joinsOpened + Cardinality(OpenedReplies) <= Cardinality(joins)
    BY DEF IngestInv, CountersNeverExceedRows, StoredReplies, OpenedReplies, Unreported
  <1>6. SUFFICES
          /\ metrics'.stored + Cardinality(StoredReplies') <= Cardinality(eventRaw')
          /\ metrics'.joinsOpened + Cardinality(OpenedReplies') <= Cardinality(joins')
    BY DEF CountersNeverExceedRows, StoredReplies, OpenedReplies, Unreported
  <1>7. ASSUME UNCHANGED <<eventRaw, joins>>,
               metrics'.stored = metrics.stored, metrics'.joinsOpened = metrics.joinsOpened,
               StoredReplies' \subseteq StoredReplies, OpenedReplies' \subseteq OpenedReplies
        PROVE  /\ metrics'.stored + Cardinality(StoredReplies') <= Cardinality(eventRaw')
               /\ metrics'.joinsOpened + Cardinality(OpenedReplies') <= Cardinality(joins')
    <2>1. /\ Cardinality(StoredReplies') <= Cardinality(StoredReplies)
          /\ Cardinality(OpenedReplies') <= Cardinality(OpenedReplies)
      BY <1>3, <1>7, FS_Subset
    <2> QED
      BY <1>1, <1>2, <1>4, <1>5, <1>7, <2>1
  <1>8. CASE UNCHANGED allVars
    BY <1>7, <1>8 DEF allVars, vars, tables, calls, ingestVars, StoredReplies, OpenedReplies,
                      Unreported
  <1>9. ASSUME NEW d \in Delivery,
               RequestLost(d) \/ \E p \in Proc : Refuse(p, d) \/ Receive(p, d)
        PROVE  /\ metrics'.stored + Cardinality(StoredReplies') <= Cardinality(eventRaw')
               /\ metrics'.joinsOpened + Cardinality(OpenedReplies') <= Cardinality(joins')
    <2>1. UNCHANGED <<eventRaw, joins, res>>
      BY <1>9 DEF RequestLost, Refuse, Receive, Call, vars, tables, calls
    <2>2. metrics'.stored = metrics.stored /\ metrics'.joinsOpened = metrics.joinsOpened
      BY <1>1, <1>9 DEF RequestLost, Refuse, Receive, Metrics
    <2>3. \A q \in Proc : pc'[q] = "returned" => pc[q] = "returned"
      BY <1>9 DEF RequestLost, Refuse, Receive, Call, vars, calls, IngestInv, IInv, TypeOK
    <2> QED
      BY <1>7, <2>1, <2>2, <2>3 DEF StoredReplies, OpenedReplies, Unreported
  <1>10. ASSUME NEW p \in Proc, RecordEvent(p), UNCHANGED ingestVars
         PROVE  /\ metrics'.stored + Cardinality(StoredReplies') <= Cardinality(eventRaw')
                /\ metrics'.joinsOpened + Cardinality(OpenedReplies') <= Cardinality(joins')
    <2>1. UNCHANGED metrics
      BY <1>10 DEF ingestVars
    <2>2. CASE ~(pc[p] = "commit" /\ Publish(p))
      BY <1>7, <1>10, <2>1, <2>2, OnlyCommitWrites, RepliesGrowByCommit DEF tables
    <2>3. CASE pc[p] = "commit" /\ Publish(p)
      <3>1. /\ StoredReplies' \subseteq StoredReplies \cup {p}
            /\ OpenedReplies' \subseteq OpenedReplies \cup {p}
            /\ ~res[p].opened => OpenedReplies' \subseteq OpenedReplies
        BY <1>10, <2>3, RepliesGrowByCommit
      <3>2. /\ Cardinality(StoredReplies') <= Cardinality(StoredReplies) + 1
            /\ Cardinality(OpenedReplies') <= Cardinality(OpenedReplies) + 1
            /\ ~res[p].opened => Cardinality(OpenedReplies') <= Cardinality(OpenedReplies)
        BY <1>3, <3>1, CountGain
      <3>3. ev[p] \notin eventRaw /\ ev[p] \notin joins
        BY <2>3, ReadyToCommit DEF IngestInv
      <3>4. Cardinality(eventRaw') = Cardinality(eventRaw) + 1
        BY <1>2, <2>3, <3>3, FS_AddElement DEF Publish
      <3>5. Cardinality(joins') = IF res[p].opened THEN Cardinality(joins) + 1 ELSE Cardinality(joins)
        BY <1>2, <2>3, <3>3, FS_AddElement DEF Publish
      <3> QED
        BY <1>1, <1>2, <1>4, <1>5, <2>1, <3>2, <3>4, <3>5
    <2> QED
      BY <2>2, <2>3
  <1>11. ASSUME NEW p \in Proc, Respond(p)
         PROVE  /\ metrics'.stored + Cardinality(StoredReplies') <= Cardinality(eventRaw')
                /\ metrics'.joinsOpened + Cardinality(OpenedReplies') <= Cardinality(joins')
    <2>1. /\ pc[p] = "returned" /\ UNCHANGED <<eventRaw, joins>> /\ pc'[p] = "idle"
          /\ \A q \in Proc \ {p} : pc'[q] = pc[q] /\ res'[q] = res[q]
      BY <1>11 DEF Respond, Return, tables, IngestInv, IInv, TypeOK
    <2>2. /\ metrics'.stored = metrics.stored +
                (IF res[p].err = "none" /\ res[p].stored THEN 1 ELSE 0)
          /\ metrics'.joinsOpened = metrics.joinsOpened +
                (IF res[p].err = "none" /\ res[p].stored /\ res[p].opened THEN 1 ELSE 0)
      <3>1. res[p] \in Result
        BY DEF IngestInv, IInv, TypeOK
      <3>2. res[p].err = "none" => IsFiniteSet(res[p].closed)
        BY <2>1, FS_Subset DEF IngestInv, Countable, Replies, ResultReturned
      <3>3. metrics' = Count(res[p], ev[p].type)
        BY <1>11 DEF Respond
      <3> QED
        BY <1>1, <3>1, <3>2, <3>3, CountOf
    <2>3. /\ StoredReplies' \subseteq StoredReplies /\ p \notin StoredReplies'
          /\ OpenedReplies' \subseteq OpenedReplies /\ p \notin OpenedReplies'
          /\ res[p].err = "none" /\ res[p].stored => p \in StoredReplies
          /\ res[p].err = "none" /\ res[p].opened => p \in OpenedReplies
      BY <2>1 DEF StoredReplies, OpenedReplies, Unreported
    <2>4. /\ Cardinality(StoredReplies') <= Cardinality(StoredReplies)
          /\ p \in StoredReplies => Cardinality(StoredReplies') + 1 <= Cardinality(StoredReplies)
          /\ Cardinality(OpenedReplies') <= Cardinality(OpenedReplies)
          /\ p \in OpenedReplies => Cardinality(OpenedReplies') + 1 <= Cardinality(OpenedReplies)
      <3>1. /\ StoredReplies' \in SUBSET (StoredReplies \cup {p})
            /\ OpenedReplies' \in SUBSET (OpenedReplies \cup {p})
        BY <2>3
      <3> QED
        BY <1>3, <2>3, <3>1, CountGain
    <2> QED
      BY <1>1, <1>2, <1>4, <1>5, <2>1, <2>2, <2>3, <2>4
  <1>12. CASE CrashIngest
    <2>1. metrics'.stored = 0 /\ metrics'.joinsOpened = 0
      BY <1>12 DEF CrashIngest, NoMetrics
    <2>2. StoredReplies' = {} /\ OpenedReplies' = {}
      BY <1>12 DEF CrashIngest, Crash, StoredReplies, OpenedReplies, Unreported
    <2> QED
      BY <1>2, <2>1, <2>2, FS_EmptySet
  <1> QED
    BY <1>8, <1>9, <1>10, <1>11, <1>12 DEF IngestNext

\* The invariant holds initially and is kept by every step of the receiver.
LEMMA IngestInductive ==
    /\ IngestInit => IngestInv
    /\ IngestInv /\ [IngestNext]_allVars => IngestInv'
  <1>1. ASSUME IngestInit
        PROVE  IngestInv
    <2>1. IInv /\ Replies
      BY <1>1, StoreInvariant
    <2>2. /\ eventRaw = {} /\ joins = {} /\ Busy = {} /\ Lost = {}
          /\ StoredReplies = {} /\ OpenedReplies = {}
      BY <1>1 DEF IngestInit, Init, Busy, Lost, StoredReplies, OpenedReplies, Unreported
    <2>3. metrics = NoMetrics /\ NoMetrics \in Metrics
      BY <1>1 DEF IngestInit, NoMetrics, Metrics
    <2>4. IngestTypeOK
      BY <1>1, <2>1, <2>3, BoundsAssumption DEF IngestInit, Init, IInv, IngestTypeOK
    <2>5. HandlesStorable /\ OnlyVerifiedIsStored /\ AckedIsStored
      BY <1>1, <2>2 DEF IngestInit, HandlesStorable, OnlyVerifiedIsStored, AckedIsStored
    <2>6. Countable /\ IsFiniteSet(Lost)
      BY <2>2, FS_EmptySet DEF Countable
    <2>7. CountersNeverExceedRows
      <3>1. metrics.stored = 0 /\ metrics.joinsOpened = 0
        BY <2>3 DEF NoMetrics
      <3>2. /\ metrics.stored + Cardinality(StoredReplies) <= Cardinality(eventRaw)
            /\ metrics.joinsOpened + Cardinality(OpenedReplies) <= Cardinality(joins)
        BY <2>2, <3>1, FS_EmptySet
      <3> QED
        BY <3>2 DEF CountersNeverExceedRows, StoredReplies, OpenedReplies, Unreported
    <2>8. LossIsCounted
      <3>1. metrics.partitionMissed = 0 /\ metrics.closeOutOfOrder = 0
        BY <2>3 DEF NoMetrics
      <3>2. Cardinality(Lost) <= metrics.partitionMissed + metrics.closeOutOfOrder
        BY <2>2, <3>1, FS_EmptySet
      <3> QED
        BY <3>2 DEF LossIsCounted, Lost
    <2> QED
      BY <2>1, <2>4, <2>5, <2>6, <2>7, <2>8 DEF IngestInv
  <1>2. ASSUME IngestInv, [IngestNext]_allVars
        PROVE  IngestInv'
    <2>1. IInv' /\ Replies'
      BY <1>2, StoreInvariant DEF IngestInv
    <2>2. IngestTypeOK'
      BY <1>2, <2>1, IngestTypeKeeps
    <2>3. HandlesStorable' /\ OnlyVerifiedIsStored' /\ AckedIsStored' /\ Countable'
      BY <1>2, HandlesStorableKeeps, VerifiedKeeps, AckedKeeps, CountableKeeps
    <2>4. CountersNeverExceedRows'
      BY <1>2, <2>1, <2>2, <2>3, CountersKeep
    <2>5. IsFiniteSet(Lost') /\ LossIsCounted'
      BY <1>2, <2>2, LossKeeps
    <2> QED
      BY <2>1, <2>2, <2>3, <2>4, <2>5 DEF IngestInv
  <1> QED
    BY <1>1, <1>2

\* IngestInv is an invariant of the receiver under lost requests and answers,
\* overlapping attempts, storage failures and restarts.
THEOREM IngestInvariance == IngestSpec => []IngestInv
  BY IngestInductive, PTL DEF IngestSpec

-----------------------------------------------------------------------------
(* Results                                                                 *)

\* Every variable of the receiver keeps its type, and a handler has a delivery
\* exactly as long as its call of RecordEvent is in progress.
THEOREM IngestTypeCorrect == IngestSpec => []IngestTypeOK
  <1>1. IngestInv => IngestTypeOK
    BY DEF IngestInv
  <1> QED
    BY <1>1, IngestInvariance, PTL

\* Every row of event_raw comes from a delivery that was tried and verified and
\* is in scope.
THEOREM RowsAreVerified == IngestSpec => []OnlyVerifiedIsStored
  <1>1. IngestInv => OnlyVerifiedIsStored
    BY DEF IngestInv
  <1> QED
    BY <1>1, IngestInvariance, PTL

\* A 200 that makes LiveKit stop means the event is stored, outside the two
\* exceptions that AckedIsStored names.
THEOREM AcknowledgedIsStored == IngestSpec => []AckedIsStored
  <1>1. IngestInv => AckedIsStored
    BY DEF IngestInv
  <1> QED
    BY <1>1, IngestInvariance, PTL

\* The counters of stored events and opened joins never run ahead of the tables.
THEOREM CountersAreWithinRows == IngestSpec => []CountersNeverExceedRows
  <1>1. IngestInv => CountersNeverExceedRows
    BY DEF IngestInv
  <1> QED
    BY <1>1, IngestInvariance, PTL

\* Until the first restart every acknowledged event that was lost is counted.
THEOREM LossesAreCounted == IngestSpec => []LossIsCounted
  <1>1. IngestInv => LossIsCounted
    BY DEF IngestInv
  <1> QED
    BY <1>1, IngestInvariance, PTL

-----------------------------------------------------------------------------
(* Numbers: ParseInt and the float64 give one reading where it matters     *)

LEMMA LeastSpacing ==
    ASSUME NEW T \in SUBSET Nat, T # {}
    PROVE  \E x \in T : \A y \in T : x <= y
  <1> DEFINE R == {ss \in Nat \X Nat : ss[1] < ss[2]}
  <1>1. IsWellFoundedOn(R, Nat)
    BY NatLessThanWellFounded DEF OpToRel
  <1>2. PICK x \in T : \A y \in T : ~(<<y, x>> \in R)
    <2> HIDE DEF R
    <2> QED
      BY <1>1, WFMin
  <1>3. \A y \in T : ~(y < x)
    BY <1>2
  <1> QED
    BY <1>3

\* Around a number that some spacing reaches, floats lie no farther apart than
\* that spacing.
LEMMA GapOf ==
    ASSUME NEW u \in Int, NEW s \in Spacing, Abs(u) < Mantissa * s
    PROVE  Gap(u) \in Spacing /\ Gap(u) \in Nat \ {0} /\ Gap(u) <= s
  <1> DEFINE T == {t \in Spacing : Abs(u) < Mantissa * t}
  <1>1. T \in SUBSET Nat /\ s \in T
    BY NumberFormatAssumption
  <1>2. PICK x \in T : \A y \in T : x <= y
    BY <1>1, LeastSpacing
  <1>3. /\ Gap(u) \in Spacing
        /\ \A t \in Spacing : Abs(u) < Mantissa * t => Gap(u) <= t
    BY <1>2 DEF Gap
  <1> QED
    BY <1>3, NumberFormatAssumption

\* A float64 holds every whole number below 2^53.
LEMMA WholeIsExact ==
    ASSUME NEW n \in Int, Abs(n) < Mantissa
    PROVE  Float64(n * Unit) = n * Unit
  <1> DEFINE u == n * Unit
             g == Gap(u)
  <1>1. Unit \in Nat \ {0} /\ Unit \in Spacing /\ Mantissa \in Nat \ {0}
    BY NumberFormatAssumption
  <1>2. u \in Int /\ Abs(n) \in Nat /\ Abs(u) = Abs(n) * Unit
    BY <1>1 DEF Abs
  <1>3. Abs(u) < Mantissa * Unit
    BY <1>1, <1>2
  <1>4. g \in Spacing /\ g \in Nat \ {0} /\ g <= Unit
    BY <1>1, <1>2, <1>3, GapOf
  <1>5. Unit % g = 0
    BY <1>1, <1>4, NumberFormatAssumption
  <1>6. PICK k \in Nat : Unit = k * g
    <2>1. ASSUME NEW h \in Nat \ {0}, NEW w \in Nat, w % h = 0
          PROVE  w \div h \in Nat /\ w = (w \div h) * h
      BY <2>1
    <2> HIDE DEF g
    <2> QED
      BY <1>1, <1>4, <1>5, <2>1
  <1>7. PICK m \in Nat : Abs(u) = m * g
    <2>1. Abs(u) = (Abs(n) * k) * g /\ Abs(n) * k \in Nat
      BY <1>2, <1>4, <1>6
    <2> QED
      BY <2>1
  <1>8. Abs(u) \div g = m /\ Abs(u) % g = 0
    <2> HIDE DEF u, g
    <2> QED
      BY <1>4, <1>7
  <1>9. Float64(u) = IF u < 0 THEN -Abs(u) ELSE Abs(u)
    <2> HIDE DEF u
    <2> QED
      BY <1>4, <1>7, <1>8 DEF Float64
  <1> QED
    BY <1>2, <1>9 DEF Abs

\* Rounding keeps the sign, and so does the conversion to an integer.
LEMMA FloatKeepsSign ==
    ASSUME NEW u \in Int, IsFloat64(u)
    PROVE  /\ FloatToInt(Float64(u)) \in Int
           /\ u <= 0 => FloatToInt(Float64(u)) <= 0
  <1>1. PICK s \in Spacing : 2 * Abs(u) < (2 * Mantissa - 1) * s
    BY DEF IsFloat64
  <1>2. Abs(u) \in Nat /\ s \in Nat \ {0} /\ Mantissa \in Nat \ {0}
    BY NumberFormatAssumption DEF Abs
  <1>3. Abs(u) < Mantissa * s
    BY <1>1, <1>2
  <1>4. Gap(u) \in Nat \ {0}
    BY <1>3, GapOf
  <1>5. PICK f \in Nat : Float64(u) = IF u < 0 THEN -f ELSE f
    <2>1. Abs(u) \div Gap(u) \in Nat
      BY <1>2, <1>4
    <2>2. \A q \in Nat : q * Gap(u) \in Nat /\ (q + 1) * Gap(u) \in Nat
      BY <1>4
    <2> QED
      BY <2>1, <2>2 DEF Float64
  <1>6. u = 0 => Float64(u) = 0
    <2>1. ASSUME u = 0
          PROVE  Abs(u) = 0 /\ Abs(u) \div Gap(u) = 0 /\ Abs(u) % Gap(u) = 0
      BY <2>1, <1>4 DEF Abs
    <2> QED
      BY <2>1, <1>4 DEF Float64
  <1>7. Float64(u) \in Int /\ (u <= 0 => Float64(u) <= 0)
    BY <1>5, <1>6
  <1>8. ASSUME NEW v \in Int
        PROVE  FloatToInt(v) \in Int /\ (v <= 0 => FloatToInt(v) <= 0)
    <2>1. Unit \in Nat \ {0} /\ MaxInt64 \in Nat /\ Abs(v) \in Nat
      BY NumberFormatAssumption DEF Abs
    <2>2. PICK n \in Nat : n = Abs(v) \div Unit
      BY <2>1
    <2>3. v = 0 => n = 0
      BY <2>1, <2>2 DEF Abs
    <2> QED
      BY <2>1, <2>2, <2>3 DEF FloatToInt
  <1> QED
    BY <1>7, <1>8

\* A float64 that is a whole number within 64 bits converts to that number.
LEMMA WholeConverts ==
    ASSUME NEW n \in (-MaxInt64 - 1)..MaxInt64
    PROVE  FloatToInt(n * Unit) = n
  <1>1. Unit \in Nat \ {0} /\ MaxInt64 \in Nat \ {0} /\ n \in Int
    BY NumberFormatAssumption
  <1>2. Abs(n) \in Nat /\ Abs(n * Unit) = Abs(n) * Unit
    BY <1>1 DEF Abs
  <1>3. Abs(n * Unit) \div Unit = Abs(n)
    BY <1>1, <1>2
  <1>4. (n * Unit < 0 <=> n < 0) /\ (n * Unit > 0 <=> n > 0)
    BY <1>1
  <1>5. CASE Abs(n) <= MaxInt64
    BY <1>1, <1>2, <1>3, <1>4, <1>5 DEF FloatToInt, Abs
  <1>6. CASE Abs(n) > MaxInt64
    <2>1. n = -MaxInt64 - 1 /\ ~(n * Unit > 0)
      BY <1>1, <1>4, <1>6 DEF Abs
    <2> QED
      BY <1>1, <1>2, <1>3, <1>6, <2>1 DEF FloatToInt
  <1> QED
    BY <1>1, <1>2, <1>5, <1>6

\* However a number is written, protoInt64 makes of it what its float64 gives,
\* unless ParseInt read it and it is beyond the floats' whole numbers.
LEMMA Reading ==
    ASSUME NEW x \in Number, IsInt64(x)
    PROVE  LET u == Denoted(x)
               i == Int64(x)
           IN  /\ u \in Int /\ i \in Int
               /\ u <= 0 => i <= 0
               /\ \/ i = FloatToInt(Float64(u))
                  \/ u = i * Unit /\ (i >= Mantissa \/ i <= -Mantissa)
  <1>1. /\ Unit \in Nat \ {0} /\ Mantissa \in Nat \ {0} /\ MaxInt64 \in Nat \ {0}
    BY NumberFormatAssumption
  <1>2. ASSUME NEW n \in (-MaxInt64 - 1)..MaxInt64, Denoted(x) = n * Unit, Int64(x) = n
        PROVE  /\ Denoted(x) \in Int /\ Int64(x) \in Int
               /\ Denoted(x) <= 0 => Int64(x) <= 0
               /\ \/ Int64(x) = FloatToInt(Float64(Denoted(x)))
                  \/ Denoted(x) = Int64(x) * Unit
                     /\ (Int64(x) >= Mantissa \/ Int64(x) <= -Mantissa)
    <2>1. n \in Int
      BY <1>1
    <2>2. Abs(n) < Mantissa => FloatToInt(Float64(n * Unit)) = n
      BY <2>1, WholeIsExact, WholeConverts
    <2>3. ~(Abs(n) < Mantissa) => n >= Mantissa \/ n <= -Mantissa
      BY <1>1, <2>1 DEF Abs
    <2>4. n * Unit \in Int /\ (n * Unit <= 0 => n <= 0)
      BY <1>1, <2>1
    <2> QED
      BY <1>2, <2>1, <2>2, <2>3, <2>4
  <1>3. CASE x.form = "null"
    <2>1. Denoted(x) = 0 * Unit /\ Int64(x) = 0 /\ 0 \in (-MaxInt64 - 1)..MaxInt64
      BY <1>1, <1>3 DEF Denoted, Int64
    <2> QED
      BY <1>2, <2>1
  <1>4. CASE ParsesInt(x)
    <2>1. Denoted(x) = x.n * Unit /\ Int64(x) = x.n /\ x.n \in (-MaxInt64 - 1)..MaxInt64
      BY <1>4 DEF Denoted, Int64, ParsesInt
    <2> QED
      BY <1>2, <2>1
  <1>5. CASE x.form # "null" /\ ~ParsesInt(x)
    <2>1. Int64(x) = FloatToInt(Float64(Denoted(x))) /\ IsFloat64(Denoted(x))
      BY <1>5 DEF Int64, IsInt64
    <2>2. \/ x.form = "integer" /\ x.n \in Int
          \/ x.form = "float" /\ x.units \in Int
      <3>1. x.form \in {"integer", "float"}
        BY <1>5 DEF IsInt64
      <3>2. CASE x \in [form : {"null", "word"}]
        BY <3>1, <3>2
      <3>3. CASE x \in [form : {"integer"}, n : Int]
        BY <3>3
      <3>4. CASE x \in [form : {"float"}, units : Int]
        BY <3>4
      <3> QED
        BY <3>2, <3>3, <3>4 DEF Number
    <2>3. Denoted(x) \in Int
      BY <1>1, <2>2 DEF Denoted
    <2> QED
      BY <2>1, <2>3, FloatKeepsSign
  <1> QED
    BY <1>3, <1>4, <1>5

\* Two ways to write one number are read as one time, as no time both, or one
\* of them as a time beyond the floats' whole numbers.
LEMMA TwoReadings ==
    ASSUME NEW x \in Number, NEW y \in Number, IsInt64(x), IsInt64(y),
           Denoted(x) = Denoted(y)
    PROVE  /\ Int64(x) \in Int /\ Int64(y) \in Int
           /\ \/ Int64(x) = Int64(y)
              \/ Int64(x) <= 0 /\ Int64(y) <= 0
              \/ Int64(x) >= Mantissa
              \/ Int64(y) >= Mantissa
  <1>1. Unit \in Nat \ {0} /\ Mantissa \in Nat \ {0}
    BY NumberFormatAssumption
  <1>2. \A i \in Int : i <= -Mantissa => i * Unit <= 0
    BY <1>1
  <1> QED
    BY <1>1, <1>2, Reading

\* The times of an event are tried in one order, so two bodies that say the same
\* have one time as long as both have one below the floats' limit.
LEMMA SameTime ==
    ASSUME NEW c \in Delivery, NEW d \in Delivery, Storable(c), Storable(d),
           Content(c.body) = Content(d.body),
           OccurredAt(c.body) < Mantissa, OccurredAt(d.body) < Mantissa
    PROVE  OccurredAt(c.body) = OccurredAt(d.body)
  <1> DEFINE b == c.body
             a == d.body
  <1>1. /\ Denoted(b.createdAt) = Denoted(a.createdAt)
        /\ (b.room = NoObject) <=> (a.room = NoObject)
        /\ (b.participant = NoObject) <=> (a.participant = NoObject)
        /\ b.room # NoObject => Denoted(b.room.creationTime) = Denoted(a.room.creationTime)
        /\ b.participant # NoObject =>
              Denoted(b.participant.joinedAt) = Denoted(a.participant.joinedAt)
    BY DEF Content
  <1>2. Decodes(b) /\ Decodes(a)
    BY DEF Storable
  <1> DEFINE Agree(x, y) ==
                /\ Int64(x) \in Int /\ Int64(y) \in Int
                /\ \/ Int64(x) = Int64(y)
                   \/ Int64(x) <= 0 /\ Int64(y) <= 0
                   \/ Int64(x) >= Mantissa
                   \/ Int64(y) >= Mantissa
  <1>3. Agree(b.createdAt, a.createdAt)
    BY <1>1, <1>2, TwoReadings, NumberAssumption DEF Decodes
  <1>4. b.room # NoObject => Agree(b.room.creationTime, a.room.creationTime)
    BY <1>1, <1>2, TwoReadings, NumberAssumption DEF Decodes
  <1>5. b.participant # NoObject => Agree(b.participant.joinedAt, a.participant.joinedAt)
    BY <1>1, <1>2, TwoReadings, NumberAssumption DEF Decodes
  <1>6. Mantissa \in Nat \ {0}
    BY NumberFormatAssumption
  <1> QED
    BY <1>1, <1>3, <1>4, <1>5, <1>6 DEF OccurredAt

\* Two deliveries that say the same, their numbers written in any way the
\* adapter reads, never make two rows: a stored event has a partition, every
\* partition lies within the whole numbers of a float64, and there both ways to
\* read a number agree.
THEOREM ContentIsNotSplit == IngestSpec => []NoSplit
  <1>1. ASSUME IngestInv, NEW c \in Delivery, NEW d \in Delivery,
               Storable(c), Translate(c.body) \in eventRaw,
               Storable(d), Translate(d.body) \in eventRaw,
               Content(c.body) = Content(d.body)
        PROVE  Translate(c.body) = Translate(d.body)
    <2>1. /\ OccurredAt(c.body) \in Partitioned
          /\ OccurredAt(d.body) \in Partitioned
      BY <1>1, TranslateOf DEF IngestInv, Replies, RowsHaveAPartition
    <2>2. OccurredAt(c.body) = OccurredAt(d.body)
      BY <1>1, <2>1, SameTime, PartitionedAssumption
    <2>3. /\ c.body.event = d.body.event /\ c.body.id = d.body.id
          /\ c.body.track = d.body.track
          /\ (c.body.room = NoObject) <=> (d.body.room = NoObject)
          /\ (c.body.participant = NoObject) <=> (d.body.participant = NoObject)
          /\ c.body.room # NoObject => c.body.room.name = d.body.room.name
          /\ c.body.participant # NoObject =>
                /\ c.body.participant.identity = d.body.participant.identity
                /\ c.body.participant.sid = d.body.participant.sid
      BY <1>1 DEF Content
    <2> QED
      BY <2>2, <2>3 DEF Translate
  <1>2. IngestInv => NoSplit
    BY <1>1 DEF NoSplit
  <1> QED
    BY <1>2, IngestInvariance, PTL
=============================================================================
