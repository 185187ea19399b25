------------------------------- MODULE Ingest -------------------------------
(***************************************************************************)
(* The webhook receiver end to end: LiveKit (external) sends deliveries    *)
(* and retries them, LiveKitHandler.ServeHTTP (webhook/handler.go)         *)
(* verifies, translates and classifies each, calls RecordEvent (JoinStore),*)
(* counts what happened (metrics/metrics.go) and answers.                  *)
(*                                                                         *)
(* The sender follows ADR-0027: it stops at a 2xx or a 4xx and tries again *)
(* after a 5xx, a lost answer or a dead receiver, at most MaxAttempts      *)
(* times. It may try again while an earlier attempt is still being handled.*)
(* Reading, verifying, translating and counting touch no shared state but  *)
(* the counters, so each side of the call of RecordEvent is one step.      *)
(***************************************************************************)
EXTENDS JoinStore, LiveKit

CONSTANTS
    Delivery,      \* the deliveries LiveKit makes
    NoDelivery,    \* a handler that is free
    MaxAttempts,   \* bound: attempts per delivery
    MaxTried,      \* bound: deliveries tried in one behaviour
    MaxRestarts    \* bound: crashes of the receiver

ASSUME DeliveryAssumption ==
    /\ NoDelivery \notin Delivery
    /\ \A d \in Delivery : Storable(d) => Translate(d.body) \in Event

ASSUME NumberAssumption ==
    \A d \in Delivery : Storable(d) =>
        /\ d.body.createdAt \in Number
        /\ d.body.room # NoObject => d.body.room.creationTime \in Number
        /\ d.body.participant # NoObject => d.body.participant.joinedAt \in Number

\* PostgreSQL's timestamptz ends in the year 294276, some 2^43 seconds after
\* 1970; a float64 holds every whole number below 2^53.
ASSUME PartitionedAssumption == \A t \in Partitioned : t < Mantissa

ASSUME BoundsAssumption ==
    MaxAttempts \in Nat /\ MaxTried \in Nat /\ MaxRestarts \in Nat

VARIABLES
    handling,      \* the delivery each handler works on
    attempts,      \* how often LiveKit has tried each delivery
    verdict,       \* what LiveKit has learned of it
    metrics,       \* metrics.Ingest
    restarts       \* crashes so far

senderVars == <<attempts, verdict>>
ingestVars == <<handling, senderVars, metrics, restarts>>
allVars    == <<vars, ingestVars>>

\* The outcomes of handler.go; malformed is split by the label verified, which
\* every other outcome determines.
Outcome == {"accepted", "duplicate", "ignored", "unverified", "malformed",
            "malformed_verified", "too_large", "partition_missing", "store_failed"}

EndReason == {"participant_left", "room_finished"}

Metrics ==
    [requests : [Outcome -> Nat], stored : Nat, duplicates : Nat,
     rejected : Nat, unrecognised : Nat, partitionMissed : Nat,
     joinsOpened : Nat, joinsClosed : [EndReason -> Nat],
     closeUnmatched : Nat, closeOutOfOrder : Nat]

NoMetrics ==
    [requests |-> [o \in Outcome |-> 0], stored |-> 0, duplicates |-> 0,
     rejected |-> 0, unrecognised |-> 0, partitionMissed |-> 0,
     joinsOpened |-> 0, joinsClosed |-> [r \in EndReason |-> 0],
     closeUnmatched |-> 0, closeOutOfOrder |-> 0]

IngestInit ==
    /\ Init
    /\ handling = [p \in Proc |-> NoDelivery]
    /\ attempts = [d \in Delivery |-> 0]
    /\ verdict = [d \in Delivery |-> "unsettled"]
    /\ metrics = NoMetrics
    /\ restarts = 0

-----------------------------------------------------------------------------
(* Answers                                                                 *)

\* finish(status, outcome), for the outcomes decided before RecordEvent.
Refusal(d) ==
    CASE d.oversize -> [status |-> 413, outcome |-> "too_large"]
      [] ~d.oversize /\ d.truncated -> [status |-> 400, outcome |-> "malformed"]
      [] ~d.oversize /\ ~d.truncated /\ ~Verify(d) ->
            [status |-> 401, outcome |-> "unverified"]
      [] ~d.oversize /\ ~d.truncated /\ Verify(d) /\ ~Decodes(d.body) ->
            [status |-> 400, outcome |-> "malformed_verified"]
      [] OTHER -> [status |-> 200, outcome |-> "ignored"]

\* Mutant: a storage failure is acknowledged like a missing partition.
AnswerAlwaysOk(r) ==
    CASE r.err = "partition_missing"  -> [status |-> 200, outcome |-> "partition_missing"]
      [] r.err = "close_out_of_order" -> [status |-> 200, outcome |-> "accepted"]
      [] r.err = "failed"             -> [status |-> 200, outcome |-> "store_failed"]
      [] r.err = "none" /\ ~r.stored  -> [status |-> 200, outcome |-> "duplicate"]
      [] r.err = "none" /\ r.stored   -> [status |-> 200, outcome |-> "accepted"]

\* finish(status, outcome), for what RecordEvent returned.
Answer(r) ==
    CASE r.err = "partition_missing"  -> [status |-> 200, outcome |-> "partition_missing"]
      [] r.err = "close_out_of_order" -> [status |-> 200, outcome |-> "accepted"]
      [] r.err = "failed"             -> [status |-> 500, outcome |-> "store_failed"]
      [] r.err = "none" /\ ~r.stored  -> [status |-> 200, outcome |-> "duplicate"]
      [] r.err = "none" /\ r.stored   -> [status |-> 200, outcome |-> "accepted"]

\* endReason: the label of joinsClosed.
EndReasonOf(type) ==
    IF type = EventRoomFinished THEN "room_finished" ELSE "participant_left"

\* Mutant: the counter of stored events is moved before the switch on the error.
CountStoredEarly(r, type) ==
    [metrics EXCEPT
        !.requests[Answer(r).outcome] = @ + 1,
        !.partitionMissed = IF r.err = "partition_missing" THEN @ + 1 ELSE @,
        !.closeOutOfOrder = IF r.err = "close_out_of_order" THEN @ + 1 ELSE @,
        !.stored = IF r.stored THEN @ + 1 ELSE @,
        !.joinsOpened = IF r.opened THEN @ + 1 ELSE @]

\* Mutant: a refused close is not counted.
CountNoRefusedClose(r, type) ==
    [metrics EXCEPT
        !.requests[Answer(r).outcome] = @ + 1,
        !.partitionMissed = IF r.err = "partition_missing" THEN @ + 1 ELSE @]

\* Mutant: an event without a partition is answered and not counted.
CountNoMissedPartition(r, type) ==
    [metrics EXCEPT
        !.requests[Answer(r).outcome] = @ + 1,
        !.closeOutOfOrder = IF r.err = "close_out_of_order" THEN @ + 1 ELSE @]

\* The counters after the handler has dealt with result r for an event of a type.
Count(r, type) ==
    LET done == r.err = "none" /\ r.stored
    IN  [metrics EXCEPT
            !.requests[Answer(r).outcome] = @ + 1,
            !.partitionMissed = IF r.err = "partition_missing" THEN @ + 1 ELSE @,
            !.closeOutOfOrder = IF r.err = "close_out_of_order" THEN @ + 1 ELSE @,
            !.duplicates = IF r.err = "none" /\ ~r.stored THEN @ + 1 ELSE @,
            !.stored = IF done THEN @ + 1 ELSE @,
            !.joinsOpened = IF done /\ r.opened THEN @ + 1 ELSE @,
            !.joinsClosed[EndReasonOf(type)] =
                IF done THEN @ + Cardinality(r.closed) ELSE @,
            !.closeUnmatched = IF done /\ r.unmatched THEN @ + 1 ELSE @]

\* LiveKit gets the answer, or it is lost or comes after its timeout.
Answered(d, status) ==
    \/ verdict' = [verdict EXCEPT ![d] =
                      CASE @ # "unsettled" -> @
                        [] @ = "unsettled" /\ status = 200 -> "acked"
                        [] @ = "unsettled" /\ status = 500 -> "unsettled"
                        [] OTHER -> "refused"]
    \/ UNCHANGED verdict

-----------------------------------------------------------------------------
(* Actions                                                                 *)

\* LiveKit tries d: it has not been settled and has attempts left.
Attempt(d) ==
    /\ verdict[d] = "unsettled"
    /\ attempts[d] < MaxAttempts
    /\ Cardinality({c \in Delivery : attempts[c] > 0} \cup {d}) <= MaxTried
    /\ attempts' = [attempts EXCEPT ![d] = @ + 1]

\* The request never reaches the receiver.
RequestLost(d) ==
    /\ Attempt(d)
    /\ UNCHANGED <<vars, handling, verdict, metrics, restarts>>

\* ServeHTTP answers without calling RecordEvent.
Refuse(p, d) ==
    /\ handling[p] = NoDelivery
    /\ Attempt(d)
    /\ ~Storable(d)
    /\ metrics' = [metrics EXCEPT
                      !.requests[Refusal(d).outcome] = @ + 1,
                      !.rejected = IF Refusal(d).outcome = "ignored" THEN @ + 1 ELSE @]
    /\ Answered(d, Refusal(d).status)
    /\ UNCHANGED <<vars, handling, restarts>>

\* Mutant: the handler answers 200 first and stores the event in the background.
ReceiveAnswersFirst(p, d) ==
    /\ handling[p] = NoDelivery
    /\ Attempt(d)
    /\ Storable(d)
    /\ Answered(d, 200)
    /\ Call(p, Translate(d.body))
    /\ UNCHANGED <<handling, metrics, restarts>>

\* ServeHTTP up to the call of RecordEvent.
Receive(p, d) ==
    /\ handling[p] = NoDelivery
    /\ Attempt(d)
    /\ Storable(d)
    /\ handling' = [handling EXCEPT ![p] = d]
    /\ metrics' = [metrics EXCEPT
                      !.unrecognised = IF Classify(d.body.event) = "store" THEN @ + 1 ELSE @]
    /\ Call(p, Translate(d.body))
    /\ UNCHANGED <<verdict, restarts>>

\* ServeHTTP from the return of RecordEvent on.
Respond(p) ==
    /\ Return(p)
    /\ metrics' = Count(res[p], ev[p].type)
    /\ Answered(handling[p], Answer(res[p]).status)
    /\ handling' = [handling EXCEPT ![p] = NoDelivery]
    /\ UNCHANGED <<attempts, restarts>>

\* The receiver dies and comes back: requests in progress get no answer, and
\* the counters start again.
CrashIngest ==
    /\ restarts < MaxRestarts
    /\ restarts' = restarts + 1
    /\ Crash
    /\ handling' = [p \in Proc |-> NoDelivery]
    /\ metrics' = NoMetrics
    /\ UNCHANGED senderVars

IngestNext ==
    \/ \E d \in Delivery :
          \/ RequestLost(d)
          \/ \E p \in Proc : Refuse(p, d) \/ Receive(p, d)
    \/ \E p \in Proc :
          \/ RecordEvent(p) /\ UNCHANGED ingestVars
          \/ Respond(p)
    \/ CrashIngest

IngestSpec == IngestInit /\ [][IngestNext]_allVars

-----------------------------------------------------------------------------
(* Properties                                                              *)

\* Every variable has its type, and a request is in a handler's hands, with its
\* answer still owed, exactly as long as the handler's call of RecordEvent is
\* out: ServeHTTP never answers before the store does.
IngestTypeOK ==
    /\ TypeOK
    /\ handling \in [Proc -> Delivery \cup {NoDelivery}]
    /\ \A p \in Proc : handling[p] = NoDelivery <=> pc[p] = "idle"
    /\ attempts \in [Delivery -> 0..MaxAttempts]
    /\ verdict \in [Delivery -> {"unsettled", "acked", "refused"}]
    /\ metrics \in Metrics
    /\ restarts \in 0..MaxRestarts

\* ADR-0027, a 2xx means "Stored, or already stored": once LiveKit has stopped
\* retrying a delivery because of a 200, its event is in event_raw, through
\* crashes, lost answers, overlapping attempts and failed commits. Excepted are
\* events no partition covers, which are dropped on purpose, and the two closing
\* types, for which AcceptedIsStored below shows that it fails.
AckedIsStored ==
    \A d \in Delivery :
        /\ verdict[d] = "acked"
        /\ Storable(d)
        /\ OccurredAt(d.body) \in Partitioned
        /\ d.body.event \notin {EventParticipantLeft, EventRoomFinished}
        => Translate(d.body) \in eventRaw

\* "An unverified delivery must never reach a JSON decoder" (verify.go), let
\* alone the tables: every row comes from a delivery that was tried, was
\* verified and is in scope.
OnlyVerifiedIsStored ==
    \A e \in eventRaw :
        \E d \in Delivery :
            /\ attempts[d] > 0
            /\ d.token # NoToken
            /\ d.token.valid
            /\ d.token.digest = d.body
            /\ Decodes(d.body)
            /\ d.body.event \notin Rejected
            /\ Translate(d.body) = e

\* What a body says: each number by what it denotes, however it is written.
Content(b) ==
    <<b.event, b.id, b.track, Denoted(b.createdAt),
      IF b.room = NoObject THEN <<>>
      ELSE <<b.room.name, b.room.sid, Denoted(b.room.creationTime)>>,
      IF b.participant = NoObject THEN <<>>
      ELSE <<b.participant.identity, b.participant.sid,
             Denoted(b.participant.joinedAt)>> >>

\* eventid.go:15, "Split. One event redelivered derives two ids": LiveKit
\* versions write numbers as strings, integers or floats (jsonnum.go), which are
\* read by ParseInt or through a float64 that rounds. Two deliveries that say
\* the same never make two rows: where the two readings differ, a time is
\* beyond every partition.
NoSplit ==
    LET stored == {d \in Delivery : /\ attempts[d] > 0
                                    /\ Storable(d)
                                    /\ Translate(d.body) \in eventRaw}
    IN  \A c, d \in stored :
            Content(c.body) = Content(d.body) => Translate(c.body) = Translate(d.body)

\* "Events durably written to event_raw" and "Joins opened" never count more
\* than there are rows, counting also the answers still on their way out of
\* RecordEvent, although one event may be tried many times at once.
CountersNeverExceedRows ==
    LET unreported == {p \in Proc : pc[p] = "returned" /\ res[p].err = "none"}
    IN  /\ metrics.stored + Cardinality({p \in unreported : res[p].stored})
              <= Cardinality(eventRaw)
        /\ metrics.joinsOpened + Cardinality({p \in unreported : res[p].opened})
              <= Cardinality(joins)

\* ADR-0027, data loss "is counted": as long as the receiver has not restarted,
\* every acknowledged event that is not in event_raw shows in the counter of
\* missing partitions or in that of refused closes.
LossIsCounted ==
    restarts = 0 =>
        Cardinality({d \in Delivery : /\ verdict[d] = "acked"
                                      /\ Storable(d)
                                      /\ Translate(d.body) \notin eventRaw})
            <= metrics.partitionMissed + metrics.closeOutOfOrder

-----------------------------------------------------------------------------
(* A statement of the repository that the code does not keep.              *)

\* handler.go:149, of a refused close: "The event is stored; only its close was
\* refused". Data loss is possible in exactly one place, the missing partition:
\* every other acknowledged event in scope is in event_raw.
AcceptedIsStored ==
    \A d \in Delivery :
        /\ verdict[d] = "acked"
        /\ Storable(d)
        /\ OccurredAt(d.body) \in Partitioned
        => Translate(d.body) \in eventRaw
=============================================================================
