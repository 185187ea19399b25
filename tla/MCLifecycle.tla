---------------------------- MODULE MCLifecycle ----------------------------
(***************************************************************************)
(* An instance of Lifecycle for TLC: both binaries in environments that    *)
(* set, omit, empty or spoil a variable, with requests of each kind that   *)
(* outnumber the connections.                                              *)
(***************************************************************************)
EXTENDS Lifecycle

MCNumber == ("0" :> 0) @@ ("-1" :> -1)

Keys == {"LISTEN_ADDR", "OTLP_ENDPOINT", "OTLP_INSECURE", "DATABASE_URL",
         "LIVEKIT_API_KEY", "LIVEKIT_API_SECRET", "MAX_BODY_BYTES"}

NoEnviron == [key \in Keys |-> Unset]

Complete == [NoEnviron EXCEPT !["LIVEKIT_API_KEY"] = "key", !["LIVEKIT_API_SECRET"] = "secret"]

\* One complete environment, and those that lack or spoil one variable.
MCEnviron ==
    {Complete, NoEnviron,
     [Complete EXCEPT !["LIVEKIT_API_KEY"] = ""],
     [Complete EXCEPT !["LIVEKIT_API_SECRET"] = Unset],
     [Complete EXCEPT !["MAX_BODY_BYTES"] = "0"],
     [Complete EXCEPT !["MAX_BODY_BYTES"] = "-1"],
     [Complete EXCEPT !["MAX_BODY_BYTES"] = "no", !["OTLP_INSECURE"] = "no"]}

\* Two deliveries and two probes, for one connection.
MCKind == [w1 |-> "webhook", w2 |-> "webhook", z1 |-> "readyz", h1 |-> "healthz"]
MCRequest == DOMAIN MCKind
=============================================================================
