# A TLA+ model of the session analysis platform

This directory specifies the platform in TLA+, model-checks it with TLC and
proves with TLAPS, for every value of the parameters, all safety properties that
TLC checks: of the store, the receiver, the session view, the ids, the process and
the partitions. The write path turns the
webhooks of a video backend (LiveKit) into rows of `event_raw` and
`participant_join`; the read path is one query that groups those joins into
sessions; around both is a process that starts, serves and stops.
Paths below are relative to the repository; ADR numbers are sections of
`ARCHITECTURE.md`.

## 1. Inventory

### Parts, state, operations

| Part | Source | State | Operations |
|---|---|---|---|
| PostgreSQL store | `internal/ingest/store/postgres/postgres.go`, `store.go`, `migrations/000001`, `000003` | tables `event_raw`, `participant_join`; row and key locks of open transactions | `RecordEvent`, `applyJoinEffect`, `close` |
| Session vocabulary | `internal/session/session.go` | none (types) | `Join.IsOpen`; `Session.StartedAt`, `IsOpen`, `Reconnects` |
| Connection pool | `internal/database/pool.go` | at most `MaxConns` connections, `statement_timeout` per session | `Open`; (pgx) `Begin`, `Ping`, `Close` |
| Webhook handler | `internal/ingest/webhook/handler.go` | one goroutine per request | `ServeHTTP` |
| LiveKit adapter | `internal/ingest/adapter/livekit` | none | `Verify`, `Classify`, `Translate`, `occurredAt`, `protoInt64` |
| Event ids | `internal/ingest/eventid` | none | `FromBackendEventID`, `FromFields` |
| Ingest metrics | `internal/ingest/metrics` | ten counters and a histogram, in memory | one method per counter |
| Partition bootstrap | `migrations/000002` | the partitions of `event_raw` | up, down |
| Session query | `benchmarks/reference_query.sql` | none | groups joins into sessions when read |
| Processes | `cmd/ingester`, `cmd/queryapi`, `internal/telemetry`, `internal/config` | server, pool, exporters | start, readiness, shutdown |
| Not code yet | `adapter/mediasoup`, `ingest/pipeline`, `internal/query` | | package comments only |

### How they interact

LiveKit posts a delivery and retries it on a 5xx, a timeout or a dead receiver
(ADR-0027). A goroutine per request reads the body under a cap, verifies token
and digest, decodes, classifies, derives the event's id from the event itself
and calls `RecordEvent`. That takes a connection from the pool and runs one
transaction: insert the event `ON CONFLICT DO NOTHING`; if it was new, open a
join (`participant_joined`), close one (`participant_left`, by SID and failing
that by identity) or close all of a room (`room_finished`); commit. The handler
turns the result into counters and a status.

No Go value is shared between two requests but the counters. What they share is
the database, at PostgreSQL's default isolation level READ COMMITTED, so the
interesting interleavings are those of SQL statements.

### What is hard, and what correct means

* Redelivery is normal and may overlap the first attempt. Correct: the effect of
  an event is applied exactly when the event is stored, and once.
* Close statements of several transactions race for the same join rows, wait for
  each other, re-check on newer row versions, and fall through from one statement
  to another. Correct: an end always comes from a stored event entitled to give
  it, one departure ends one join, a closed join is not reopened.
* A transaction may be refused, time out, lose its connection, lose the reply to
  its commit, or die with the process. Correct: what the caller is told is true,
  and a 200 means "stored, or already stored".
* Transactions may wait for each other in a cycle, and callers for a connection
  whose holders wait. Correct: every call returns.
* Events are unordered, and what the store makes of an order is what readers see.
  Correct: in order, the joins are what happened; out of order, a join is wrong
  only in the ways that can be named. The query computes with neighbours in a
  window what is meant of a participant's whole presence.
* One event must have one id and two events two, over retries, missing fields and
  the forms a number may take in JSON.
* A process stops with requests in flight, whose senders may never finish.
  Correct: it does stop, cuts no transaction, and what it answered is counted.
* Counters start at zero with the process and count attempts of events that are
  retried. Correct: they never claim more than the tables hold, and a loss that
  was acknowledged is counted.

`PROJECT.json` lists each of these hazards at its line, with the properties that
cover it.

## 2. Modules

| Module | Models | Extends |
|---|---|---|
| `Session` | event types, the event and join rows, assumptions on keys and SIDs | |
| `JoinLedger` | the contract of `store.Writer`: abstract, one atomic step per event | `Session` |
| `JoinStore` | `RecordEvent`, statement by statement, called concurrently | `Session` |
| `LiveKit` | the adapter and the id derivation, as operators | |
| `Ingest` | handler, counters, external sender, composed with the store | `JoinStore`, `LiveKit` |
| `Presence` | what joins are meant to record: abstract, the backend's history replayed | `Session` |
| `SessionQuery` | `reference_query.sql` and `type Session`, as operators | |
| `SessionView` | the query over the tables of the store, deliveries in order or not | `JoinStore`, `SessionQuery` |
| `EventId` | the input of the id's hash, byte by byte | |
| `Config` | configuration as a function of the environment, as operators | |
| `Lifecycle` | `run()` of both binaries, telemetry, the pool and the server around it | `Config` |
| `Partitions` | the migration that makes and drops partitions | |
| `JoinStoreProofs`, `JoinStoreReplyProofs` | theorems about `JoinStore` | `JoinStore` |
| `IngestProofs` | theorems about `Ingest` | `Ingest`, `JoinStoreReplyProofs` |
| `SessionViewProofs` | theorems about the query, and about joins in any order of delivery | `SessionView`, `JoinStoreReplyProofs` |
| `PresenceProofs` | in order, the store implements `Presence` | `SessionViewProofs` |
| `EventIdProofs`, `LifecycleProofs`, `PartitionsProofs` | theorems about these three | the module each is named after |
| `MCJoinStore`, `MCIngest`, `MCSessionView`, `MCEventId`, `MCLifecycle`, `MCPartitions` | instances for TLC | |

### JoinStore

`eventRaw`, `joins` and `endedBy` are the committed tables. A join is named by
its opening event (`started_event_id` is unique); `ended_at`, `end_reason` and
`ended_event_id` are all functions of the closing event, so `endedBy` holds that
event. What an open transaction has written is in its own variables: the event
row is implied by `pc \in Inserting`, an inserted join by `res.opened`, updated
rows by `locked`. A commit publishes all of it, a rollback none.

| Code | Action |
|---|---|
| the handler calls and takes the result | `Call`, `Return` |
| `pool.Begin` | `Begin`, `BeginFails` |
| `insertEvent`: missing partition, conflict, inserted | `InsertEvent` (three disjuncts) |
| `applyJoinEffect`: the switch, up to the first row | `ApplyJoinEffect` |
| one row of an UPDATE: wait, re-check, update | `UpdateRow` |
| SQLSTATE 22000, `classifyClose` | `CloseOutOfOrder` |
| end of an UPDATE, the fall-through in `close`, the `Result` | `FinishClose` |
| `tx.Commit` | `Commit`, `CommitReplyLost`, `CommitDuplicate` |
| every `return res, fmt.Errorf(...)` | `StoreFails` |
| `statement_timeout` | `StatementTimeout` |
| death of the process | `Crash` |

Facts about PostgreSQL that the code relies on and the model takes from its
documentation:

* a statement sees the rows committed when it started; between two statements of
  a transaction the view moves on;
* an insert that meets a unique key written by another open transaction waits for
  that transaction to end;
* an UPDATE that meets a row written by another open transaction waits, and then
  evaluates its WHERE clause on the new version. The subquery of
  `closeByIdentity` is not correlated, so its value is kept and only
  `join_id = X` is evaluated again;
* a stored generated column is computed before the row is locked, so a close
  with an end before the start fails without waiting;
* an aborted transaction leaves nothing. A transaction whose client has gone is
  rolled back by the server; the model rolls it back in the step in which
  `RecordEvent` returns. Had the server taken longer, others would only have
  waited longer for what it holds.

PostgreSQL also breaks wait cycles with its deadlock detector, by default after
one second like the pool's `statement_timeout`. `RecordEvent` makes the same
retryable error of either, so `StatementTimeout` stands for both.

### Ingest

Everything before the call of `RecordEvent` depends on the request alone, and
everything after it on the result and the counters, which are atomic adders. So
`Refuse` and `Receive` are the handler up to an early return or the call,
`Respond` the handler from the return on. A payload is a record of the fields the
adapter reads; a digest is the body it vouches for; an id is the tuple of what it
is derived from, uuidv5 being taken as injective. `malformed` is two outcomes in
the model since the label `verified` tells them apart. `LiveKit` the sender and
the network are external: `Attempt`, `RequestLost` and `Answered`.

A number of a payload is what is written (`Number`), and `Int64` what
`jsonnum.go` makes of it. Nothing, `null` and `""` are zero. Digits that fit 64 bits
are read by `ParseInt` (`ParsesInt`). Everything else must be a JSON float that is
not infinite (`IsFloat64`), or the body does not decode; it is rounded to the
nearest float64, ties to even (`Float64`), and converted with its fraction dropped
(`FloatToInt`). A float64 is given by `Mantissa`, 2^53, and by the distances
`Spacing` between neighbours, powers of two; all in units of `1/Unit`, so that
fractions down to a unit are there. For a float beyond 64 bits Go leaves the result
to the build: the constant `Saturates` tells arm64 from amd64, the theorems hold for
both, and each `Ingest` run takes one.

### SessionQuery and SessionView

A query is one statement and sees one state of the committed tables, so the read
path needs no actions: its properties are invariants of the store's states, for
every time, window and gap in three small sets. `Overlaps` is `&&` on
`active_range`, which is empty for a join that ends when it starts; `Ordered` is
the window's ORDER BY, which leaves ties open, so properties quantify over every
order it allows; `IsNew`, `SessionOrdinal` and `Sessions` are the three steps of
the query.

`ViewSpec` is the store as it is: any event at any time, again and again.
`InOrderSpec` is the same store behind a sender that delivers each event of a
history `Emitted` once the ones before it are stored, and repeats old ones at
will. The variable `overtook` is history: it records, when a departure's
`closeBySID` takes its snapshot, which of its joins were not in it yet.

`Presence` is the abstract specification: who is in a room, one event of the
history after another. `JoinsAreTruth` says that in-order delivery implements it,
with the number of stored events as the position in the history and the table's
rows as those present.

### EventId

Two failures are named in the package comment of `eventid.go`. Collapse is looked
at where fields are joined: `EventId` has both derivations, the length prefixes
and `itoa` with the wrap-around of the least int, over strings that imitate
boundaries. Split is looked at where bodies are read: `NoSplit` in `Ingest`
compares deliveries that say the same with their numbers in other JSON forms. It
needs an argument, because the two ways to read a number do differ: from 2^53 on a
float64 skips whole numbers. A stored event has a partition, though, and no
partition is that far away.
`LiveKit` itself takes an id to be the tuple of the fields it is derived from,
which `NoCollapse` justifies.

### Lifecycle

| Code | Action |
|---|---|
| `config.LoadIngester`, `LoadService` | `Load` |
| `telemetry.Setup` up to each error return | `SetupTrace`, `SetupMetric`, `SetupRuntime` |
| `database.Open` | `NewPool`, `Ping` |
| `NewVerifier`, `NewIngest`, the mux | `NewHandler`, `Serve` |
| `select`, `srv.Shutdown` | `Select`, `Shutdown` |
| the deferred calls, latest first | `ClosePool`, `ShutdownTelemetry`, `Exit` |
| the goroutine of `ListenAndServe` | `Listen`, `AcceptFails` |
| a request | `Arrive`, `ReadBody`, `Acquire`, `AcquireFails`, `Release`, `Finish`, `Answer` |
| periodic reader, signals | `Export`, `Signal` |
| external | `Kill`, `Outage` |

`defers` is the explicit stack of deferred calls; `return` from anywhere in
`run()` goes to it. The query API skips the database and mounts the liveness probe
only. After the listener fails `run()` returns without `Shutdown`, and connections
that are open may still carry requests. A second signal changes nothing.

### Partitions

Time has units of a fraction of a day, the database a fixed offset from UTC;
daylight saving is left out. `make migrate-force` (`MigrateForce`) lets `up` run
again over partitions that exist.

## 3. Runs

| Run | Instance | States | Shows |
|---|---|---|---|
| `store_safety` | 2 calls, 6 events | 342 thousand | all safety properties, and that `JoinStore` implements `JoinLedger` |
| `store_wait` | 3 calls, 2 connections, 2 `room_finished` over 2 joins | 109 thousand | `RecordEventReturns` when two transactions wait for each other and a third call for a connection |
| `ingest_retry` | 2 handlers, 3 deliveries tried twice, 1 restart | 546 thousand | what a 200 and the counters mean |
| `ingest_intake` | 20 kinds of delivery, any 2 of them in a behaviour | 9 thousand | `OnlyVerifiedIsStored`, `NoSplit`, and `LossIsCounted` where no partition covers a time |
| `view_inorder` | 2 calls, a history of 11 events | 19 thousand | the joins are the truth, sessions are presences, windows truncate |
| `view_anyorder` | 2 calls, 5 events in any order | 250 thousand | why a join may be open, and that both notions of open agree |
| `lifecycle` | both binaries, 7 environments, 2 deliveries and 2 probes on 1 connection, 1 outage | 1.1 million | failed starts leave nothing, nothing is served half configured, the process stops, and what it leaves |
| `event_ids` | pairs of 484 inputs | 117 thousand | `NoCollapse` |
| `partition_window` | days of 12 units, 3 time zones | 7 thousand | `FreshWindowIsCovered` |

The properties, each stated in full beside its definition:

* `TypeOK`, `IngestTypeOK`: types, and two shapes. A call outside its transaction
  holds no row and runs no statement, whichever error path it left by; a handler
  owes an answer exactly while its call of `RecordEvent` is out.
* `Isolation`: the promises open transactions make to each other.
* `EndsAreObserved`: every join and every end has a stored event entitled to it.
* `OneJoinPerLeave`: one departure ends at most one join.
* `ReplyIsTrue`: what `RecordEvent` returned is so in the tables.
* `EffectAppliedOnce`, `ClosesStick`: what no step may do to a stored event's
  effect and to a closed join.
* `LedgerSpec`: on the committed tables, `RecordEvent` is one atomic step.
* `RecordEventReturns`: every call ends.
* `AckedIsStored`, `LossIsCounted`: a 200 means stored, except where a counter
  says otherwise.
* `CountersNeverExceedRows`: no event or join is counted twice.
* `OnlyVerifiedIsStored`: every row comes from a verified delivery in scope.
* `JoinsAreTruth`: delivered in order, joins are at every moment the presences.
* `OpenOnlyIfOvertaken`: in any order, a join whose departure is stored is open
  only if the departure's statement ran before the join was committed.
* `SessionsArePresences`: the query's neighbour comparison separates joins exactly
  where the participant was absent for more than the gap.
* `WindowOnlyTruncates`: a narrower window drops joins and regroups none. Both
  need joins that end in the order they start: see below, "one tab within another".
  `WindowOnlyTruncates` needs it of the order in either window. Joins that start in
  one second may be ordered differently in two windows: of [1,2), [1,5) and one
  from 4 on, the second or the first may come last before the third, and only in
  one of these orders is the third new for a gap of one. The instance TLC checks
  has no such joins; the attempt to prove the property without this showed it.
* `StillOpenIsLastOpen`: the query and `Session.IsOpen` agree.
* `NoCollapse`, `NoSplit`: one id per event.
* `ExitCutsNoTransaction`, `NothingStoredAfterFlush`, `CleanStopIsComplete`,
  `Stops`, `NothingLeaks`, `ServesOnlyConfigured`: the process.
* `FreshWindowIsCovered`: six days back and twelve ahead of the migration, in
  every time zone, each instant in one partition.

**Bounds.** Two calls suffice for every race between two transactions, which is
what each hazard needs; three are used where the third waits for a connection, and
that run starts in a meeting under way, a state with two recorded joins, since how
they got there does not matter to who waits for whom.
One room and one identity put all events in competition for the same rows: other
rooms or identities never meet them. Two joins are the smallest number on which
two transactions can wait in a cycle and on which a departure can hit the wrong
join. The times 1 and 2 give an end before, at and after a start; in the `Ingest`
runs time 0 is one that no partition covers. Their floats have three significant
bits, in halves: 3 is written as 3 and as 3.0, 1.5 loses its fraction, 9 as a float
becomes 8, 12 is beyond the integers and 20 beyond the floats. `CloseRace` contains one event with two times, the case in
which `event_raw` and `participant_join` disagree about what a duplicate is.
`MaxAttempts`, `MaxTried` and `MaxRestarts` bound the sender and the restarts;
`CHECK_DEADLOCK FALSE` in the `Ingest` runs is because a sender that has used its
attempts stops. Handlers are interchangeable, hence the symmetry; the runs with a
temporal property other than a step property do not use it.

The history of `view_inorder` has a reconnect that overlaps, one after a pause of
one unit and one after two, a second participant and a second room, so that each
gap in `MCGap` separates something; its windows cut between the joins. The five
events of `view_anyorder` are two joins with all that can end them. In `lifecycle`
two deliveries and a readiness probe on one connection are one that holds it, one
that waits and one whose body is still being read. Its environments lack or spoil
one variable each, since no check of `Load` looks at two. `event_ids` needs pairs and no more, because a
collapse is between two. The days of `partition_window` are cut finely enough for
the zones UTC-12 and UTC+14 and every time of day. `CHECK_DEADLOCK FALSE` in
`event_ids` and `lifecycle` is because the bound is reached or the process
has ended.

**Fairness.** `FairSpec` assumes that a call inside its transaction takes its next
step (`WF(Proceed)`), among which is the cancellation of a waiting statement by
`statement_timeout`, set on every connection by `database.Open`; and that a
caller waiting for a connection gets one if they keep becoming free
(`SF(Begin)`): pgxpool serves waiters in order. Nothing is assumed of failures,
of crashes or of the handler.

`Lifecycle` assumes that `run()` proceeds (`WF(Main)`), which includes the expiry of
the deadlines the code sets (ten seconds, five seconds), and that a handler that
holds a connection gives it back (`WF(Release)`), since each statement has a
timeout. That the server can still be heard is part of this: to a database that
has fallen silent a statement timeout does not apply, and `pool.Close` would wait.
Nothing is assumed of senders, so `Stops` covers bodies that never end.

### Where the code and its comments part

Three runs expect a violation; each states what the repository says.

* `closed_is_final`: `closeByIdentity` asks for an open join only in its subquery.
  If it waits for the row while `room_finished` closes it, it overwrites the end.
  `ClosesStick` says how far that goes: only a departure of the same participant
  can do it, and the join stays closed.
* `refused_close`: a close refused as out of order rolls back the event too; the
  handler acknowledges it as stored. `AckedIsStored` holds for all other types,
  and `LossIsCounted` shows that the counter of refused closes does account for it.
* `brief_join`: a join of less than a second has the empty range and is in no
  session.

Other differences between text and code are consequences of single conditions
that the modules contain, and have no run of their own:

* `CloseUnmatched`, "the opening event was never received" (`store.go:40`), is also
  set when the departure follows `room_finished`.
* A departure whose own join is closed, or has not arrived, falls through to the
  identity and may end another join of the participant, though the SID was there
  (`postgres.go:161`). `EndsAreObserved` and `OneJoinPerLeave` bound the damage.
* A departure that overtakes its join leaves it open, with both events stored:
  "open and stale" (ADR-0020) does not always mean that an event was lost.
  `OpenOnlyIfOvertaken` shows that this is the only way.
* One tab within another: with joins [1,6), [2,3) and [6,7) the query measures the
  third from 3, and splits the session of a participant who never left. This is
  why `SessionsArePresences` asks for joins that end in the order they start.
* `closeRoom` goes by name: a late `room_finished` ends joins of the next room of
  that name if that opened by the second in which the first ended.
* Events of unknown types are counted as "stored anyway" (`metrics.go:64`) before
  anything is stored, and on each attempt.
* The readiness probe needs a connection, so a busy pool makes it say "database
  unreachable".
* Without an id from the backend, two rooms of one name that finish in one second
  are one event: the derived id has whole seconds and no room SID. Without
  `createdAt`, an event of any type with a participant takes the time at which the
  participant joined.

## 4. Proofs

Every invariant and step property of the passing runs, and both refinements, are
theorems: for all sets of events, deliveries, calls and requests, all pool sizes,
numbers of attempts and restarts, histories, windows and gaps, strings and zones.

| Module | Theorem | Statement |
|---|---|---|
| `JoinStoreProofs` | `TypeCorrect` | `Spec => []TypeOK` |
| | `CallsAreIsolated` | `Spec => []Isolation` |
| | `ObservedEnds` | `Spec => []EndsAreObserved` |
| | `AtMostOneJoinPerLeave` | `Spec => []OneJoinPerLeave` |
| | `AppliedOnce` | `Spec => EffectAppliedOnce` |
| | `ClosedJoinsStayClosed` | `Spec => ClosesStick` |
| | `RecordEventImplementsLedger` | `Spec => LedgerSpec` |
| `JoinStoreReplyProofs` | `RepliesAreTrue` | `Spec => []ReplyIsTrue` |
| `IngestProofs` | `IngestTypeCorrect` | `IngestSpec => []IngestTypeOK` |
| | `RowsAreVerified` | `IngestSpec => []OnlyVerifiedIsStored` |
| | `AcknowledgedIsStored` | `IngestSpec => []AckedIsStored` |
| | `CountersAreWithinRows` | `IngestSpec => []CountersNeverExceedRows` |
| | `LossesAreCounted` | `IngestSpec => []LossIsCounted` |
| | `ContentIsNotSplit` | `IngestSpec => []NoSplit` |
| `SessionViewProofs` | `OnlyOvertakenStaysOpen` | `ViewSpec => []OpenOnlyIfOvertaken` |
| | `OpenColumnsAgree` | `ViewSpec => []StillOpenIsLastOpen` |
| | `QueryFindsAbsences` | `ViewSpec => []SessionsArePresences` |
| | `NarrowWindowTruncates` | `ViewSpec => []WindowOnlyTruncates` |
| | `InOrderIsView` | `InOrderSpec => ViewSpec` |
| `PresenceProofs` | `JoinsRecordPresences` | `InOrderSpec => JoinsAreTruth` |
| `LifecycleProofs` | `LifecycleTypeCorrect` | `Spec => []LifecycleTypeOK` |
| | `ExitLeavesNothing` | `Spec => []NothingLeaks` |
| | `TransactionsEndBeforeExit` | `Spec => []ExitCutsNoTransaction` |
| | `FlushIsLast` | `Spec => NothingStoredAfterFlush` |
| | `CleanStopLosesNothing` | `Spec => []CleanStopIsComplete` |
| | `OnlyConfiguredServes` | `Spec => []ServesOnlyConfigured` |
| `EventIdProofs` | `EncodeIsInjective`, `DeriveIsInjective` | lists of fields, and inputs, from their encoding |
| | `EventsDoNotCollapse` | `Spec => []NoCollapse` |
| `PartitionsProofs` | `FreshDatabaseAcceptsWrites` | `Spec => []FreshWindowIsCovered` |

### Assumptions

Each is an `ASSUME` in the module that declares the constant, and TLC evaluates it
in every run of that module.

* `Session`: an event is its primary key; times are naturals; `NoEvent` is not an
  event; and within a room a SID belongs to one `participant_joined` id (ADR-0016,
  LiveKit issues a SID per join). The last is needed for `OneJoinPerLeave`:
  `closeBySID` has no LIMIT and would end as many joins as share the SID.
* `LiveKit`: of two distances between floats the smaller divides the larger, and
  one of them is the whole number (all are powers of two).
* `Ingest`: a delivery that passes the checks translates to an event and its numbers
  are written in one of the forms of `Number`; every time with a partition is below
  2^53 seconds (`timestamptz` ends before 2^43); the bounds are naturals.
* `SessionView`: the history is a sequence of events with one id each and times
  that do not decrease, and a departure carries the SID of an arrival of its room
  that neither a departure nor the room's end has undone (what a backend says of
  itself). Times, windows and gaps are naturals.
* `Lifecycle`, `Config`: which binaries there are, that a request is for one of the
  three endpoints, that a number parses to a number, that a pool has a connection.
* `EventId`: strings are bytes and shorter than 2^32, since their length is put in
  four; the least int is negative.
* `Partitions`: a day has a length, and no zone is a day away from UTC.

### The store

The inductive invariant `IInv` adds to the properties what they need to survive a
step:

* `Selected`: the rows an UPDATE has still to visit are rows of the table that
  fit its event. A row is chosen in one step and updated in a later one; nothing
  else ties the two together.
* `Opening`: a transaction that has inserted a join row is the only one with that
  `started_event_id`, so two commits cannot both add it; one that found the id
  taken still finds it so when it commits, which is what makes its commit a step
  of the ledger.
* `SingleTarget`: a departure has at most one row in hand, visited or to visit,
  although the fall-through selects a second time.

Each kind of step has its lemma (`InsertEventKeeps`, `UpdateRowKeeps`, ...,
`PublishKeeps`) and `Inductive` puts them together. The step properties and the
refinement then follow from one observation, `OnlyCommitsWrite`: the tables change
only by `Publish`, and `CommitIsRecord` shows that in a state of `IInv` a
`Publish` is `JoinLedger!Record`. The mapping is the identity on the tables.

`ReplyIsTrue` speaks of a `Result` after its transaction has gone, so `Replies`
follows the `Result` from the first statement on: what it says before the commit is
what the transaction holds (`ResultInProgress`), what was true at the commit stays
true (`ResultReturned`, by `ClosedRowsStay`), and of two calls for one event only
one has stored it (`OneStores`).

### The receiver

Every step of `Ingest` is a step of `JoinStore` or leaves it alone (`StoreStep`), so
`IInv` and `Replies` hold in it. `IngestInv` adds `HandlesStorable`, which ties the
delivery a handler holds to the argument of its call, and that tables, busy calls
and losses are finite, without which their sizes could not be compared. The
counters are then a matter of one row or one answer at a time: a commit adds one
row and one unreported answer, `Respond` turns that answer into a count, a crash
drops both.

`NoSplit` rests on arithmetic. `WholeIsExact`: a whole number below `Mantissa` is a
multiple of the distance between floats around it, since that distance divides one,
so rounding keeps it. `Reading`: hence `Int64` is the conversion of the rounded
float however the number is written, unless `ParseInt` read one of 2^53 or more, or
of -2^53 or less; and it never makes a time of a number that is not positive
(`FloatKeepsSign`). `TwoReadings` and `SameTime` carry this through the order in
which `occurredAt` tries the three times, and `RowsHaveAPartition`, part of
`Replies`, rules the large ones out for rows.

### The view

`ViewInv` is `IInv`, finiteness of the joins, and `Accounted`: of the joins with a
departure's SID, those that `closeBySID` did not see are in `overtook`, and the
others are closed or in the hands of the transaction. It must hold of a transaction
under way for `OpenOnlyIfOvertaken` to hold of its commit.

The query's properties hold in every state of the tables with finitely many joins.
That a running sum of "new" flags separates two joins exactly if a later one up to
the second is new (`Ordinals`, `SessionsAreIntervals`) is the step from neighbours to
groups;
`NewMeansAbsent` and `AbsentMeansNew` are where joins that end in order are needed;
`PastDoesNotMatter` and `TiedRows` say that what a narrow window cuts off, and how
it breaks ties, does not change whether a row that remains is new.

### In order

`InOrderInv` adds to `ViewInv`:

* `StoredPrefix`: what is stored is a prefix of the history, and what is being
  delivered is at most the next event. So there is one writer at a time
  (`OneWriter`): all other calls are repetitions that will find their event there.
* `PresentAreOpen`: who has arrived and not left has an open join.
* `Exact`: the rows in the hands of the writer are the open ones its event ends, and
  no departure falls through to the identity, because its own join is there.

With these a commit is one step of `Presence` (`CommitReplays`), and every other
step changes neither the tables nor the position in the history.

### The process

`LifecycleInv` says what `run()` owns at each place. On the way up
(`OwnedGoingUp`) pool, providers and the stack of deferred calls grow together; on
the way down (`OwnedGoingDown`) what is still there is what the stack has still to
undo. `Drained` orders the end: no connection without a pool, no flush before the
pool is gone. `Complete` says that `run()` returns nil only after a `Shutdown` that
left no request, and that each that was answered is counted.

### Ids and partitions

`encode` and `itoa` are loops. `LoopDefines` shows that a loop over naturals has a
result for every number of rounds, from which `digits` and `FlattenSeq` are what
they say. `BlockParses` is the heart: from a field after its length the field can
be read, whatever follows. By `CommonFields` two lists with one encoding agree as
far as both go, by `NoFewerFields` neither goes further; so the two derivations,
with three and nine fields, never meet.

`PartitionsInv` says that a partition is the one of its day and that the days around
`created` are all there; the rest is arithmetic of days, with the zone shifting the
window by less than one.

### Induction

The library's induction theorems take a predicate as a parameter, which the
provers at hand cannot instantiate. `LeastNatural` (`LeastNumber` in `EventIdProofs`, `LeastSpacing` in `IngestProofs`)
does the same for sets: the set of counterexamples has a least element. It follows
from the well-foundedness of `<` and carries the proofs about ordinals, sessions,
digits and buffers.

### Only model-checked

`RecordEventReturns` and `Stops`: liveness is out of the prover's reach. The three
runs that expect a violation are counterexamples and need no proof.

## 5. Not modelled

* JWT, HMAC and SHA-1 themselves: a token is valid or not, a hash is injective.
* Decimal fractions finer than the unit of the model, and times beyond what the
  microseconds of a `timestamptz` hold, which are taken to have no partition.
* Fields the store keeps and never compares: `payload`, `track_sid`, `received_at`,
  `backend_event_id`, `room_sid`.
* Labels of counters that no property tells apart, the duration histogram, logs,
  spans, resource attributes.
* Connection lifetimes and health checks inside pgxpool, daylight saving, the
  recurring partition job (which does not exist yet).
* The performance of the query and its plan (`benchmarks/run.sh`, `seed.sql`).
* Deployment, dashboards, and packages that contain only a comment: the mediasoup
  adapter, the correlation pipeline, the query API's packages.

## 6. Plan

1. Done: the store, the receiver, the session view, event ids, the process and the
   partitions, modelled and checked, and all their safety properties proved.
2. Next: what of the three disagreements can be said positively for all instances,
   such as which joins no session shows, and the steps towards liveness that are
   safety (who can wait for whom).
3. When a maintenance job or a second backend appears: `Partitions` with the job as
   an action, `LiveKit` beside an adapter with delivery ordinals other than zero.
