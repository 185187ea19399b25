----------------------------- MODULE Lifecycle -----------------------------
(***************************************************************************)
(* One process of cmd/ingester or cmd/queryapi from start to exit: run()   *)
(* with its deferred calls, telemetry.Setup, database.Open, and the HTTP   *)
(* server whose handlers run beside it.                                    *)
(*                                                                         *)
(* A request is a webhook delivery, a readiness or a liveness probe. What  *)
(* RecordEvent does while it holds a connection is in JoinStore; here it   *)
(* commits or fails. From the libraries the code relies on:                *)
(*  - http.Server.Shutdown stops listening and waits for active requests,  *)
(*    whose contexts it does not cancel;                                   *)
(*  - pgxpool.Pool.Close refuses every later acquire, those that wait      *)
(*    included, and returns when every connection has been given back;     *)
(*  - a meter provider exports what has been counted when it is shut down. *)
(***************************************************************************)
EXTENDS Config, FiniteSets, SequencesExt

CONSTANTS
    Binary,      \* the binaries that may be started
    Environ,     \* the environments they may be started in
    Request,     \* requests that may arrive while it runs
    Kind,        \* "webhook", "readyz" or "healthz", for each request
    MaxConns,    \* connections of the pool
    MaxOutages   \* bound: how often the database goes away

ASSUME PoolAssumption == MaxConns \in Nat \ {0}

ASSUME BinaryAssumption == Binary \subseteq {"ingester", "queryapi"}

ASSUME KindAssumption == Kind \in [Request -> {"webhook", "readyz", "healthz"}]

VARIABLES
    binary, environ,
    at,          \* where run() is
    defers,      \* its deferred calls, the latest last
    result,      \* what it returns
    signalled,   \* SIGINT or SIGTERM has been received: ctx is done
    providers,   \* installed telemetry providers
    pool,        \* the connection pool
    server,      \* the goroutine that listens; after a failure errCh has its error
    req,         \* where each request's handler is
    stored,      \* webhooks whose event is committed
    counted,     \* webhooks counted in the metrics
    exported,    \* of these, the ones that have reached the collector
    flush,       \* how the last export went
    db, outages  \* whether the database can be reached

started  == <<binary, environ>>
process  == <<at, defers, result, signalled, providers, pool, flush>>
requests == <<req, stored, counted>>
outside  == <<db, outages>>
vars     == <<started, process, server, requests, exported, outside>>

Running  == at \notin {"exited", "killed"}
Active   == {r \in Request : req[r] \notin {"none", "answered"}}
Holders  == {r \in Request : req[r] = "holding"}
Failed   == {"bind_failed", "accept_failed"}
Mounted(r) == binary = "ingester" \/ Kind[r] = "healthz"

Init ==
    /\ binary \in Binary /\ environ \in Environ
    /\ at = "load" /\ defers = <<"stop">> /\ result = "none"
    /\ signalled = FALSE
    /\ providers = {} /\ pool = "none" /\ server = "none"
    /\ req = [r \in Request |-> "none"]
    /\ stored = {} /\ counted = {} /\ exported = {}
    /\ flush = "none"
    /\ db = "up" /\ outages = 0

-----------------------------------------------------------------------------
(* run(), up to the select                                                 *)

Goto(label) == at' = label /\ UNCHANGED result

\* return err: the deferred calls come next.
Return(err) == at' = "unwind" /\ result' = err

Load ==
    /\ at = "load"
    /\ LET cfg == IF binary = "ingester" THEN LoadIngester(environ) ELSE LoadService(environ)
       IN  IF cfg = NoConfig THEN Return("config") ELSE Goto("setup_trace")
    /\ UNCHANGED <<started, defers, signalled, providers, pool, flush, server, requests,
                   exported, outside>>

\* telemetry.Setup, the trace provider: it is the first.
SetupTrace ==
    /\ at = "setup_trace"
    /\ \/ Return("telemetry") /\ UNCHANGED providers
       \/ Goto("setup_metric") /\ providers' = {"trace"}
    /\ UNCHANGED <<started, defers, signalled, pool, flush, server, requests, exported, outside>>

\* Mutant: an error of the metric exporter is returned as it is.
SetupMetricLeaks ==
    /\ at = "setup_metric"
    /\ \/ Return("telemetry") /\ UNCHANGED providers
       \/ Goto("setup_runtime") /\ providers' = providers \cup {"metric"}
    /\ UNCHANGED <<started, defers, signalled, pool, flush, server, requests, exported, outside>>

\* The metric provider; on an error what is installed is unwound.
SetupMetric ==
    /\ at = "setup_metric"
    /\ \/ Return("telemetry") /\ providers' = {}
       \/ Goto("setup_runtime") /\ providers' = providers \cup {"metric"}
    /\ UNCHANGED <<started, defers, signalled, pool, flush, server, requests, exported, outside>>

\* Runtime instrumentation, and run() defers the shutdown that Setup returns.
SetupRuntime ==
    /\ at = "setup_runtime"
    /\ \/ /\ Return("telemetry")
          /\ providers' = {}
          /\ UNCHANGED defers
       \/ /\ Goto(IF binary = "ingester" THEN "open" ELSE "serve")
          /\ defers' = Append(defers, "telemetry")
          /\ UNCHANGED providers
    /\ UNCHANGED <<started, signalled, pool, flush, server, requests, exported, outside>>

\* database.Open: the connection string is parsed and a pool created.
NewPool ==
    /\ at = "open"
    /\ \/ Return("database") /\ UNCHANGED pool
       \/ Goto("ping") /\ pool' = "open"
    /\ UNCHANGED <<started, defers, signalled, providers, flush, server, requests, exported,
                   outside>>

\* Mutant: the pool's Close is deferred before the telemetry's shutdown.
PingDefersEarly ==
    /\ at = "ping"
    /\ \/ /\ Return("database")
          /\ pool' = "closed"
          /\ UNCHANGED defers
       \/ /\ db = "up" /\ ~signalled
          /\ Goto("handler")
          /\ defers' = <<"stop", "pool", "telemetry">>
          /\ UNCHANGED pool
    /\ UNCHANGED <<started, signalled, providers, flush, server, requests, exported, outside>>

\* It is pinged under ctx, which a signal cancels, and a timeout of its own.
Ping ==
    /\ at = "ping"
    /\ \/ /\ Return("database")
          /\ pool' = "closed"
          /\ UNCHANGED defers
       \/ /\ db = "up" /\ ~signalled
          /\ Goto("handler")
          /\ defers' = Append(defers, "pool")
          /\ UNCHANGED pool
    /\ UNCHANGED <<started, signalled, providers, flush, server, requests, exported, outside>>

\* NewVerifier, which wants a secret, and NewIngest.
NewHandler ==
    /\ at = "handler"
    /\ \/ Return("handler")
       \/ IngesterOnly(environ).apiSecret # "" /\ Goto("serve")
    /\ UNCHANGED <<started, defers, signalled, providers, pool, flush, server, requests,
                   exported, outside>>

Serve ==
    /\ at = "serve"
    /\ Goto("select")
    /\ server' = "starting"
    /\ UNCHANGED <<started, defers, signalled, providers, pool, flush, requests, exported,
                   outside>>

-----------------------------------------------------------------------------
(* run(), from the select on                                               *)

\* With an error and a signal both there, either is taken. Shutdown stops the
\* listening, or keeps it from starting.
Select ==
    /\ at = "select"
    /\ \/ /\ server \in Failed
          /\ Return("listen")
          /\ UNCHANGED server
       \/ /\ signalled
          /\ Goto("shutdown")
          /\ server' = "closed"
    /\ UNCHANGED <<started, defers, signalled, providers, pool, flush, requests, exported,
                   outside>>

\* Mutant: srv.Close, which does not wait.
ShutdownAtOnce ==
    /\ at = "shutdown"
    /\ Return("ok")
    /\ UNCHANGED <<started, defers, signalled, providers, pool, flush, server, requests,
                   exported, outside>>

\* Mutant: Shutdown with a context that never ends.
ShutdownWaits ==
    /\ at = "shutdown"
    /\ Active = {} /\ Return("ok")
    /\ UNCHANGED <<started, defers, signalled, providers, pool, flush, server, requests,
                   exported, outside>>

\* srv.Shutdown: no request is active, or its ten seconds are over.
Shutdown ==
    /\ at = "shutdown"
    /\ \/ Active = {} /\ Return("ok")
       \/ Active # {} /\ Return("deadline")
    /\ UNCHANGED <<started, defers, signalled, providers, pool, flush, server, requests,
                   exported, outside>>

Pop == defers' = Front(defers) /\ UNCHANGED <<at, result, signalled>>

\* Mutant: Close returns although connections are out.
ClosePoolAtOnce ==
    /\ at = "unwind" /\ defers # <<>> /\ Last(defers) = "pool"
    /\ pool' = "closed" /\ Pop
    /\ UNCHANGED <<started, providers, flush, server, requests, exported, outside>>

\* defer pool.Close()
ClosePool ==
    /\ at = "unwind" /\ defers # <<>> /\ Last(defers) = "pool"
    /\ \/ /\ pool = "open"
          /\ pool' = "closing"
          /\ UNCHANGED <<at, defers, result, signalled>>
       \/ /\ pool = "closing" /\ Holders = {}
          /\ pool' = "closed" /\ Pop
    /\ UNCHANGED <<started, providers, flush, server, requests, exported, outside>>

\* The deferred shutdownTelemetry: it flushes, or fails within five seconds.
ShutdownTelemetry ==
    /\ at = "unwind" /\ defers # <<>> /\ Last(defers) = "telemetry"
    /\ providers' = {}
    /\ \/ flush' = "ok" /\ exported' = counted
       \/ flush' = "failed" /\ UNCHANGED exported
    /\ Pop
    /\ UNCHANGED <<started, pool, server, requests, outside>>

\* stop() is the last, and main exits: handlers that still run are cut off.
Exit ==
    /\ at = "unwind" /\ defers = <<"stop">>
    /\ at' = "exited" /\ defers' = <<>>
    /\ UNCHANGED <<started, result, signalled, providers, pool, flush, server, requests,
                   exported, outside>>

Main ==
    \/ Load \/ SetupTrace \/ SetupMetric \/ SetupRuntime
    \/ NewPool \/ Ping \/ NewHandler \/ Serve
    \/ Select \/ Shutdown \/ ClosePool \/ ShutdownTelemetry \/ Exit

-----------------------------------------------------------------------------
(* Beside run()                                                            *)

Listen ==
    /\ Running /\ server = "starting"
    /\ server' \in {"listening", "bind_failed"}
    /\ UNCHANGED <<started, process, requests, exported, outside>>

\* Connections that are open stay open.
AcceptFails ==
    /\ Running /\ server = "listening"
    /\ server' = "accept_failed"
    /\ UNCHANGED <<started, process, requests, exported, outside>>

\* The periodic reader of the meter provider.
Export ==
    /\ Running /\ "metric" \in providers
    /\ exported' = counted
    /\ UNCHANGED <<started, process, server, requests, outside>>

\* A handler moves from one place to the next, whatever run() does meanwhile.
Move(r, from, to) ==
    /\ Running
    /\ req[r] = from
    /\ req' = [req EXCEPT ![r] = to]
    /\ UNCHANGED <<started, process, server, exported, outside>>

\* A webhook's body has to be read first; readyz goes to the pool at once.
Arrive(r) ==
    /\ server \in {"listening", "accept_failed"} /\ Mounted(r)
    /\ Move(r, "none", CASE Kind[r] = "webhook" -> "reading"
                         [] Kind[r] = "readyz"  -> "waiting"
                         [] Kind[r] = "healthz" -> "returned")
    /\ UNCHANGED <<stored, counted>>

\* The body is read, at the pace of the sender: RecordEvent is called, or the
\* delivery is turned away.
ReadBody(r) ==
    /\ Move(r, "reading", "waiting") \/ Move(r, "reading", "returned")
    /\ UNCHANGED <<stored, counted>>

Acquire(r) ==
    /\ pool = "open" /\ Cardinality(Holders) < MaxConns
    /\ Move(r, "waiting", "holding")
    /\ UNCHANGED <<stored, counted>>

\* The pool is closed, the sender of a webhook has gone, or a readyz has waited
\* its two seconds because all connections are out or none can be made.
AcquireFails(r) ==
    /\ \/ pool # "open"
       \/ Kind[r] = "webhook"
       \/ Cardinality(Holders) = MaxConns
       \/ db = "down"
    /\ Move(r, "waiting", "returned")
    /\ UNCHANGED <<stored, counted>>

\* The connection is given back after the transaction or the ping, which has
\* failed or succeeded.
Release(r) ==
    /\ Move(r, "holding", "returned")
    /\ \/ UNCHANGED stored
       \/ /\ db = "up" /\ Kind[r] = "webhook"
          /\ stored' = stored \cup {r}
    /\ UNCHANGED counted

\* finish counts a webhook before it writes the status.
Finish(r) ==
    /\ Move(r, "returned", "finished")
    /\ counted' = IF Kind[r] = "webhook" THEN counted \cup {r} ELSE counted
    /\ UNCHANGED stored

Answer(r) ==
    /\ Move(r, "finished", "answered")
    /\ UNCHANGED <<stored, counted>>

Handle(r) == Acquire(r) \/ AcquireFails(r) \/ Release(r) \/ Finish(r) \/ Answer(r)

Signal ==
    /\ Running /\ ~signalled
    /\ signalled' = TRUE
    /\ UNCHANGED <<started, at, defers, result, providers, pool, flush, server, requests,
                   exported, outside>>

Kill ==
    /\ Running
    /\ at' = "killed"
    /\ UNCHANGED <<started, defers, result, signalled, providers, pool, flush, server,
                   requests, exported, outside>>

Outage ==
    /\ Running
    /\ \/ db = "up" /\ outages < MaxOutages /\ db' = "down" /\ outages' = outages + 1
       \/ db = "down" /\ db' = "up" /\ UNCHANGED outages
    /\ UNCHANGED <<started, process, server, requests, exported>>

Next ==
    \/ Main
    \/ Listen \/ AcceptFails \/ Export
    \/ \E r \in Request : Arrive(r) \/ ReadBody(r) \/ Handle(r)
    \/ Signal \/ Kill \/ Outage

Spec == Init /\ [][Next]_vars

\* run() proceeds, its deadlines included, and a transaction ends: every one of
\* its statements has a timeout. Nobody makes a sender finish its body.
Fairness ==
    /\ WF_vars(Main)
    /\ \A r \in Request : WF_vars(Release(r))

FairSpec == Spec /\ Fairness

-----------------------------------------------------------------------------
(* Properties                                                              *)

LifecycleTypeOK ==
    /\ binary \in {"ingester", "queryapi"}
    /\ at \in {"load", "setup_trace", "setup_metric", "setup_runtime", "open", "ping",
               "handler", "serve", "select", "shutdown", "unwind", "exited", "killed"}
    /\ defers \in {<<>>, <<"stop">>, <<"stop", "telemetry">>, <<"stop", "telemetry", "pool">>}
    /\ result \in {"none", "config", "telemetry", "database", "handler", "listen",
                   "deadline", "ok"}
    /\ signalled \in BOOLEAN
    /\ providers \subseteq {"trace", "metric"}
    /\ pool \in {"none", "open", "closing", "closed"}
    /\ server \in {"none", "starting", "listening", "closed"} \cup Failed
    /\ req \in [Request -> {"none", "reading", "waiting", "holding", "returned", "finished",
                            "answered"}]
    /\ stored \cup counted \cup exported \subseteq Request
    /\ flush \in {"none", "ok", "failed"}

\* telemetry.go:31, "a failed Setup leaves no exporters running", and the same of
\* run() and of database.Open: on whichever of its returns the process exits, no
\* provider and no pool is left.
NothingLeaks ==
    at = "exited" => providers = {} /\ pool \in {"none", "closed"}

\* However run() ends, by a drained or an expired Shutdown or by an error of the
\* listener, which skips Shutdown, its exit cuts no transaction: pool.Close has
\* waited for the handlers that hold a connection.
ExitCutsNoTransaction ==
    at = "exited" => Holders = {}

\* The order of the deferred calls: nothing is stored any more once telemetry is
\* shut down. A handler that outlives the deadline may still answer, and count,
\* after the flush; what it counts was committed before.
NothingStoredAfterFlush ==
    [][flush # "none" => stored' = stored]_vars

\* A shutdown that drains loses nothing: when run() returns nil and the flush
\* succeeds, every delivery that arrived was answered and is in the exported
\* counters.
CleanStopIsComplete ==
    at = "exited" /\ result = "ok" /\ flush = "ok" =>
        \A r \in Request :
            req[r] # "none" => /\ req[r] = "answered"
                               /\ Kind[r] = "webhook" => r \in exported

\* config.go:77, "the receiver refuses to start without it rather than accepting
\* unverified traffic": an ingester that takes requests has both credentials, a
\* limit that lets a body through, a pool it has reached, and all its telemetry.
ServesOnlyConfigured ==
    server = "listening" /\ binary = "ingester" =>
        /\ IngesterOnly(environ).apiSecret # ""
        /\ IngesterOnly(environ).apiKey # ""
        /\ IngesterOnly(environ).maxBody > 0
        /\ pool # "none"
        /\ Running /\ at # "unwind" => pool = "open" /\ providers = {"trace", "metric"}

\* After a signal the process ends, whatever senders and the collector do: also
\* during start-up, with requests that never finish, and when the listener fails
\* at the same time.
Stops == signalled ~> ~Running

=============================================================================
