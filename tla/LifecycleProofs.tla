-------------------------- MODULE LifecycleProofs --------------------------
(***************************************************************************)
(* Proofs about Lifecycle, for every environment, any set of requests and  *)
(* any pool size.                                                          *)
(***************************************************************************)
EXTENDS Lifecycle, SequenceTheorems, TLAPS

-----------------------------------------------------------------------------
(* The stack of deferred calls                                             *)

Deferred == {"stop", "telemetry", "pool"}
Bare     == <<"stop">>
Observed == <<"stop", "telemetry">>
Pooled   == <<"stop", "telemetry", "pool">>

\* A sequence is known by its elements.
LEMMA StackByElements ==
    ASSUME NEW s \in Seq(Deferred)
    PROVE  /\ Len(s) = 1 /\ s[1] = "stop" => s = Bare
           /\ Len(s) = 2 /\ s[1] = "stop" /\ s[2] = "telemetry" => s = Observed
           /\ Len(s) = 3 /\ s[1] = "stop" /\ s[2] = "telemetry" /\ s[3] = "pool" => s = Pooled
  <1>1. ASSUME NEW t \in Seq(Deferred), Len(s) = Len(t), Len(s) \in {1, 2, 3},
               s[1] = t[1], Len(s) > 1 => s[2] = t[2], Len(s) > 2 => s[3] = t[3]
        PROVE  s = t
    <2>1. \A i \in 1..Len(s) : i = 1 \/ (i = 2 /\ Len(s) > 1) \/ (i = 3 /\ Len(s) > 2)
      BY <1>1
    <2> QED
      BY <1>1, <2>1, SeqEqual
  <1>2. /\ Bare \in Seq(Deferred) /\ Len(Bare) = 1 /\ Bare[1] = "stop"
        /\ Observed \in Seq(Deferred) /\ Len(Observed) = 2
        /\ Observed[1] = "stop" /\ Observed[2] = "telemetry"
        /\ Pooled \in Seq(Deferred) /\ Len(Pooled) = 3
        /\ Pooled[1] = "stop" /\ Pooled[2] = "telemetry" /\ Pooled[3] = "pool"
    BY DEF Bare, Observed, Pooled, Deferred
  <1> QED
    BY <1>1, <1>2

\* The stacks run() builds, what defer adds to them and what unwinding removes.
LEMMA Stacks ==
    /\ Append(Bare, "telemetry") = Observed /\ Append(Observed, "pool") = Pooled
    /\ Front(Observed) = Bare /\ Front(Pooled) = Observed
    /\ Last(Bare) = "stop" /\ Last(Observed) = "telemetry" /\ Last(Pooled) = "pool"
    /\ <<>> # Bare /\ <<>> # Observed /\ <<>> # Pooled
    /\ Bare # Observed /\ Bare # Pooled /\ Observed # Pooled
  <1>1. /\ Bare \in Seq(Deferred) /\ Len(Bare) = 1 /\ Bare[1] = "stop"
        /\ Observed \in Seq(Deferred) /\ Len(Observed) = 2
        /\ Observed[1] = "stop" /\ Observed[2] = "telemetry"
        /\ Pooled \in Seq(Deferred) /\ Len(Pooled) = 3
        /\ Pooled[1] = "stop" /\ Pooled[2] = "telemetry" /\ Pooled[3] = "pool"
        /\ "telemetry" \in Deferred /\ "pool" \in Deferred
    BY DEF Bare, Observed, Pooled, Deferred
  <1>2. /\ Append(Bare, "telemetry") = Observed /\ Append(Observed, "pool") = Pooled
    <2>1. /\ Append(Bare, "telemetry") \in Seq(Deferred) /\ Len(Append(Bare, "telemetry")) = 2
          /\ Append(Bare, "telemetry")[1] = "stop"
          /\ Append(Bare, "telemetry")[2] = "telemetry"
      BY DEF Bare, Deferred
    <2>2. /\ Append(Observed, "pool") \in Seq(Deferred) /\ Len(Append(Observed, "pool")) = 3
          /\ Append(Observed, "pool")[1] = "stop"
          /\ Append(Observed, "pool")[2] = "telemetry"
          /\ Append(Observed, "pool")[3] = "pool"
      BY DEF Observed, Deferred
    <2> QED
      BY <2>1, <2>2, StackByElements
  <1>3. Front(Observed) = Bare
    <2>1. Front(Observed) = SubSeq(Observed, 1, 1)
      BY <1>1 DEF Front
    <2>2. /\ SubSeq(Observed, 1, 1) \in Seq(Deferred) /\ Len(SubSeq(Observed, 1, 1)) = 1
          /\ SubSeq(Observed, 1, 1)[1] = "stop"
      BY <1>1
    <2> QED
      BY <2>1, <2>2, StackByElements
  <1>4. Front(Pooled) = Observed
    <2>1. Front(Pooled) = SubSeq(Pooled, 1, 2)
      BY <1>1 DEF Front
    <2>2. /\ SubSeq(Pooled, 1, 2) \in Seq(Deferred) /\ Len(SubSeq(Pooled, 1, 2)) = 2
          /\ SubSeq(Pooled, 1, 2)[1] = "stop" /\ SubSeq(Pooled, 1, 2)[2] = "telemetry"
      BY <1>1
    <2> QED
      BY <2>1, <2>2, StackByElements
  <1>5. Last(Bare) = "stop" /\ Last(Observed) = "telemetry" /\ Last(Pooled) = "pool"
    BY <1>1 DEF Last
  <1>6. /\ <<>> # Bare /\ <<>> # Observed /\ <<>> # Pooled
        /\ Bare # Observed /\ Bare # Pooled /\ Observed # Pooled
    BY DEF Bare, Observed, Pooled
  <1> QED
    BY <1>2, <1>3, <1>4, <1>5, <1>6

-----------------------------------------------------------------------------
(* The inductive invariant                                                 *)

AllProviders == {"trace", "metric"}

Starting == {"load", "setup_trace", "setup_metric", "setup_runtime", "open", "ping",
             "handler", "serve"}
Up       == Starting \cup {"select", "shutdown"}

\* What run() owns at each place on its way up.
OwnedGoingUp ==
    /\ at \in Up => result = "none" /\ flush = "none"
    /\ at \in Starting <=> at \in Up /\ server = "none"
    /\ at \in {"load", "setup_trace", "setup_metric", "setup_runtime"} =>
          defers = Bare /\ pool = "none"
    /\ at \in {"load", "setup_trace"} => providers = {}
    /\ at = "setup_metric" => providers = {"trace"}
    /\ at \in Up \ {"load", "setup_trace", "setup_metric"} => providers = AllProviders
    /\ at = "open" => binary = "ingester" /\ defers = Observed /\ pool = "none"
    /\ at = "ping" => binary = "ingester" /\ defers = Observed /\ pool = "open"
    /\ at = "handler" => binary = "ingester"
    /\ at \in {"handler", "serve", "select", "shutdown"} =>
          IF binary = "ingester" THEN defers = Pooled /\ pool = "open"
                                 ELSE defers = Observed /\ pool = "none"
    /\ at = "shutdown" => server = "closed"

\* What it still owns on its way down is what it has still to undo.
OwnedGoingDown ==
    /\ at = "unwind" =>
          \/ defers = Pooled /\ pool \in {"open", "closing"} /\ providers = AllProviders
             /\ flush = "none"
          \/ defers = Observed /\ pool \in {"none", "closed"} /\ providers = AllProviders
             /\ flush = "none"
          \/ defers = Bare /\ pool \in {"none", "closed"} /\ providers = {}
    /\ at = "exited" => defers = <<>> /\ pool \in {"none", "closed"} /\ providers = {}

\* A connection is held only while there is a pool, nothing is handled before
\* the server starts, and telemetry is flushed after the pool is gone.
Drained ==
    /\ pool \in {"none", "closed"} => Holders = {}
    /\ server = "none" => \A r \in Request : req[r] = "none"
    /\ flush # "none" => pool \in {"none", "closed"}

\* A configuration was accepted before anything was set up.
Configured ==
    binary = "ingester" =>
        /\ at \in Up \ {"load"} => LoadIngester(environ) # NoConfig
        /\ server # "none" => LoadIngester(environ) # NoConfig /\ pool # "none"

\* run() returns nil only after a Shutdown that left no request active; no
\* request arrives after that, and each that did is counted.
Complete ==
    /\ \A r \in Request :
          req[r] \in {"finished", "answered"} /\ Kind[r] = "webhook" => r \in counted
    /\ result = "ok" =>
          /\ at \in {"unwind", "exited", "killed"}
          /\ server = "closed"
          /\ Active = {}
    /\ result = "ok" /\ flush = "ok" =>
          \A r \in Request : req[r] = "answered" /\ Kind[r] = "webhook" => r \in exported

LifecycleInv ==
    /\ LifecycleTypeOK
    /\ OwnedGoingUp
    /\ OwnedGoingDown
    /\ Drained
    /\ Configured
    /\ Complete

-----------------------------------------------------------------------------
(* Every step keeps it                                                     *)

\* What run() does on its own leaves the requests alone.
LEMMA MainKeeps ==
    ASSUME LifecycleInv, Main
    PROVE  LifecycleInv'
  <1> USE Stacks DEF LifecycleInv, LifecycleTypeOK, OwnedGoingUp, OwnedGoingDown, Drained,
          Configured, Complete, Up, Starting, AllProviders, Failed, Holders, Active,
          started, process, requests, outside, Goto, Return, Pop
  <1> HIDE DEF Bare, Observed, Pooled
  <1>0. /\ <<"stop">> = Bare /\ <<"stop", "telemetry">> = Observed
        /\ <<"stop", "telemetry", "pool">> = Pooled
    BY DEF Bare, Observed, Pooled
  <1>1. CASE Load
    BY <1>0, <1>1 DEF Load
  <1>2. CASE SetupTrace
    BY <1>0, <1>2 DEF SetupTrace
  <1>3. CASE SetupMetric
    BY <1>0, <1>3 DEF SetupMetric
  <1>4. CASE SetupRuntime
    BY <1>0, <1>4 DEF SetupRuntime
  <1>5. CASE NewPool
    BY <1>0, <1>5 DEF NewPool
  <1>6. CASE Ping
    BY <1>0, <1>6 DEF Ping
  <1>7. CASE NewHandler
    BY <1>0, <1>7 DEF NewHandler
  <1>8. CASE Serve
    BY <1>0, <1>8 DEF Serve
  <1>9. CASE Select
    BY <1>0, <1>9 DEF Select
  <1>10. CASE Shutdown
    BY <1>0, <1>10 DEF Shutdown
  <1>11. CASE ClosePool
    BY <1>0, <1>11 DEF ClosePool
  <1>12. CASE ShutdownTelemetry
    BY <1>0, <1>12 DEF ShutdownTelemetry
  <1>13. CASE Exit
    BY <1>0, <1>13 DEF Exit
  <1> QED
    BY <1>1, <1>2, <1>3, <1>4, <1>5, <1>6, <1>7, <1>8, <1>9, <1>10, <1>11, <1>12, <1>13 DEF Main

\* A handler moves on without run(): what it holds and what it has counted is
\* all that changes.
LEMMA HandlersKeep ==
    ASSUME LifecycleInv, NEW r \in Request, Arrive(r) \/ ReadBody(r) \/ Handle(r)
    PROVE  LifecycleInv'
  <1> USE DEF LifecycleInv, LifecycleTypeOK, Move, started, process, outside
  <1>0. Kind[r] \in {"webhook", "readyz", "healthz"}
    BY KindAssumption
  <1>1. \E from, to : Move(r, from, to)
    BY DEF Arrive, ReadBody, Handle, Acquire, AcquireFails, Release, Finish, Answer
  <1>2. LifecycleTypeOK'
    <2>1. req' \in [Request -> {"none", "reading", "waiting", "holding", "returned",
                                "finished", "answered"}]
      BY <1>0 DEF Arrive, ReadBody, Handle, Acquire, AcquireFails, Release, Finish, Answer
    <2>2. stored' \cup counted' \cup exported' \subseteq Request
      BY <1>0 DEF Arrive, ReadBody, Handle, Acquire, AcquireFails, Release, Finish, Answer
    <2> QED
      BY <1>1, <2>1, <2>2 DEF Failed
  <1>3. OwnedGoingUp' /\ OwnedGoingDown' /\ Configured'
    BY <1>1 DEF OwnedGoingUp, OwnedGoingDown, Configured
  <1>4. \A q \in Request : q # r => req'[q] = req[q]
    BY <1>1
  <1>5. Drained'
    <2>1. server = "none" => FALSE
      BY <1>0 DEF Drained, Arrive, ReadBody, Handle, Acquire, AcquireFails, Release, Finish,
                  Answer
    <2>2. req'[r] = "holding" => pool = "open"
      BY <1>0 DEF Arrive, ReadBody, Handle, Acquire, AcquireFails, Release, Finish, Answer
    <2> QED
      BY <1>1, <1>4, <2>1, <2>2 DEF Drained, Holders
  <1>6. Complete'
    <2>1. /\ counted \subseteq counted'
          /\ req'[r] = "finished" /\ Kind[r] = "webhook" => r \in counted'
          /\ req'[r] = "answered" => req[r] = "finished"
      BY <1>0 DEF Arrive, ReadBody, Handle, Acquire, AcquireFails, Release, Finish, Answer
    <2>2. result # "ok"
      <3>1. result = "ok" => server = "closed" /\ Active = {}
        BY DEF Complete
      <3>2. r \in Active \/ server \in {"listening", "accept_failed"}
        BY <1>0 DEF Active, Arrive, ReadBody, Handle, Acquire, AcquireFails, Release, Finish,
                    Answer
      <3> QED
        BY <3>1, <3>2
    <2> QED
      BY <1>1, <1>4, <2>1, <2>2 DEF Complete
  <1> QED
    BY <1>2, <1>3, <1>5, <1>6

LEMMA LifecycleInductive ==
    ASSUME LifecycleInv, [Next]_vars
    PROVE  LifecycleInv'
  <1> USE DEF LifecycleInv, LifecycleTypeOK, OwnedGoingUp, OwnedGoingDown, Drained,
          Configured, Complete, Up, Starting, AllProviders, Failed, Holders, Active,
          started, process, requests, outside, Running
  <1>1. CASE Main
    BY <1>1, MainKeeps
  <1>2. ASSUME NEW r \in Request, Arrive(r) \/ ReadBody(r) \/ Handle(r)
        PROVE  LifecycleInv'
    BY <1>2, HandlersKeep
  <1>3. CASE Listen
    BY <1>3 DEF Listen
  <1>4. CASE AcceptFails
    BY <1>4 DEF AcceptFails
  <1>5. CASE Export
    BY <1>5 DEF Export
  <1>6. CASE Signal
    BY <1>6 DEF Signal
  <1>7. CASE Kill
    BY <1>7 DEF Kill
  <1>8. CASE Outage
    BY <1>8 DEF Outage
  <1>9. CASE UNCHANGED vars
    BY <1>9 DEF vars
  <1> QED
    BY <1>1, <1>2, <1>3, <1>4, <1>5, <1>6, <1>7, <1>8, <1>9 DEF Next

-----------------------------------------------------------------------------
(* The theorems                                                            *)

\* The invariant holds of every state of every run of a process.
THEOREM LifecycleInvariance == Spec => []LifecycleInv
  <1>1. Init => LifecycleInv
    BY BinaryAssumption DEF Init, LifecycleInv, LifecycleTypeOK, OwnedGoingUp, OwnedGoingDown,
       Drained, Configured, Complete, Up, Starting, AllProviders, Holders, Active, Bare, Failed
  <1>2. LifecycleInv /\ [Next]_vars => LifecycleInv'
    BY LifecycleInductive
  <1> QED
    BY <1>1, <1>2, PTL DEF Spec

\* Type correctness.
THEOREM LifecycleTypeCorrect == Spec => []LifecycleTypeOK
  BY LifecycleInvariance, PTL DEF LifecycleInv

\* main.go's deferred calls and telemetry.Setup's own unwinding: on whichever
\* return of run() the process exits, no provider and no pool is left.
THEOREM ExitLeavesNothing == Spec => []NothingLeaks
  <1>1. LifecycleInv => NothingLeaks
    BY DEF LifecycleInv, OwnedGoingDown, NothingLeaks
  <1> QED
    BY <1>1, LifecycleInvariance, PTL

\* However run() ends, pool.Close has waited for the handlers that hold a
\* connection: an exit cuts no transaction.
THEOREM TransactionsEndBeforeExit == Spec => []ExitCutsNoTransaction
  <1>1. LifecycleInv => ExitCutsNoTransaction
    BY DEF LifecycleInv, OwnedGoingDown, Drained, ExitCutsNoTransaction
  <1> QED
    BY <1>1, LifecycleInvariance, PTL

\* Telemetry is shut down after the pool: no step stores an event after it.
THEOREM FlushIsLast == Spec => NothingStoredAfterFlush
  <1>1. LifecycleInv /\ [Next]_vars => [flush # "none" => stored' = stored]_vars
    <2> SUFFICES ASSUME LifecycleInv, [Next]_vars, flush # "none"
                 PROVE  stored' = stored
      OBVIOUS
    <2>1. Holders = {}
      BY DEF LifecycleInv, Drained
    <2>2. ASSUME NEW r \in Request, Arrive(r) \/ ReadBody(r) \/ Handle(r)
          PROVE  stored' = stored
      BY <2>1, <2>2 DEF Holders, Move, Arrive, ReadBody, Handle, Acquire, AcquireFails, Release,
                        Finish, Answer
    <2>3. ~(\E r \in Request : Arrive(r) \/ ReadBody(r) \/ Handle(r)) => stored' = stored
      BY DEF Next, Main, Load, SetupTrace, SetupMetric, SetupRuntime, NewPool, Ping,
             NewHandler, Serve, Select, Shutdown, ClosePool, ShutdownTelemetry, Exit, Listen,
             AcceptFails, Export, Signal, Kill, Outage, requests, vars
    <2> QED
      BY <2>2, <2>3
  <1> QED
    BY <1>1, LifecycleInvariance, PTL DEF Spec, NothingStoredAfterFlush

\* When run() returns nil and the flush succeeds, every delivery that arrived
\* was answered and is in the exported counters.
THEOREM CleanStopLosesNothing == Spec => []CleanStopIsComplete
  <1>1. LifecycleInv => CleanStopIsComplete
    BY DEF LifecycleInv, LifecycleTypeOK, Complete, Active, CleanStopIsComplete
  <1> QED
    BY <1>1, LifecycleInvariance, PTL

\* A configuration that LoadIngester returns has both credentials and a limit
\* that lets a body through.
LEMMA AcceptedConfig ==
    ASSUME NEW e, LoadIngester(e) # NoConfig
    PROVE  /\ IngesterOnly(e).apiSecret # "" /\ IngesterOnly(e).apiKey # ""
           /\ IngesterOnly(e).maxBody > 0
  <1>1. PICK n \in Int : n = IngesterOnly(e).maxBody
    BY ParseAssumption DEF IngesterOnly, intEnv
  <1>2. ~(n <= 0)
    BY <1>1 DEF LoadIngester
  <1>3. IngesterOnly(e).apiSecret # "" /\ IngesterOnly(e).apiKey # ""
    BY DEF LoadIngester
  <1>4. IngesterOnly(e).maxBody > 0
    BY <1>1, <1>2
  <1> QED
    BY <1>3, <1>4

\* An ingester that takes requests has both credentials, a limit that lets a
\* body through, a pool it has reached and all its telemetry.
THEOREM OnlyConfiguredServes == Spec => []ServesOnlyConfigured
  <1>1. LifecycleInv => ServesOnlyConfigured
    <2> SUFFICES ASSUME LifecycleInv, server = "listening", binary = "ingester"
                 PROVE  ServesOnlyConfigured
      BY DEF ServesOnlyConfigured
    <2>1. LoadIngester(environ) # NoConfig /\ pool # "none"
      BY DEF LifecycleInv, Configured
    <2>2. Running /\ at # "unwind" => pool = "open" /\ providers = {"trace", "metric"}
      BY DEF LifecycleInv, LifecycleTypeOK, OwnedGoingUp, Up, Starting, AllProviders, Running
    <2> QED
      BY <2>1, <2>2, AcceptedConfig DEF ServesOnlyConfigured
  <1> QED
    BY <1>1, LifecycleInvariance, PTL
=============================================================================
