------------------------------- MODULE Config -------------------------------
(***************************************************************************)
(* internal/config/config.go: the configuration of a binary, as a function *)
(* of its environment. An environment maps each SAP_ variable to Unset or  *)
(* to its value; the prefix SAP_ is left out.                              *)
(***************************************************************************)
EXTENDS Integers

CONSTANTS
    Unset,       \* a variable that os.LookupEnv does not find
    NoConfig,    \* the configuration of a load that returns an error
    Number       \* what strconv.ParseInt makes of the values it accepts

ASSUME ParseAssumption == \A value \in DOMAIN Number : Number[value] \in Int

\* A set but empty variable counts as unset.
env(e, key, fallback) == IF e[key] \in {Unset, ""} THEN fallback ELSE e[key]

\* So does a value that is no number: it is not an error.
intEnv(e, key, fallback) == IF e[key] \in DOMAIN Number THEN Number[e[key]] ELSE fallback

boolEnv(e, key, fallback) ==
    CASE e[key] \in {"1", "t", "true", "y", "yes"} -> TRUE
      [] e[key] \in {"0", "f", "false", "n", "no"} -> FALSE
      [] OTHER                                     -> fallback

\* Both checks of LoadService come after a default that is not empty.
LoadService(e) ==
    LET cfg == [listenAddr   |-> env(e, "LISTEN_ADDR", "default"),
                otlpEndpoint |-> env(e, "OTLP_ENDPOINT", "localhost:4317"),
                otlpInsecure |-> boolEnv(e, "OTLP_INSECURE", TRUE)]
    IN  IF cfg.listenAddr = "" \/ cfg.otlpEndpoint = "" THEN NoConfig ELSE cfg

IngesterOnly(e) ==
    [databaseURL |-> env(e, "DATABASE_URL", "postgres://localhost"),
     apiKey      |-> env(e, "LIVEKIT_API_KEY", ""),
     apiSecret   |-> env(e, "LIVEKIT_API_SECRET", ""),
     maxBody     |-> intEnv(e, "MAX_BODY_BYTES", 1048576)]

\* Mutant: any number of bytes will do.
LoadAnyLimit(e) ==
    LET cfg == IngesterOnly(e)
    IN  IF LoadService(e) = NoConfig \/ cfg.apiKey = "" \/ cfg.apiSecret = ""
        THEN NoConfig
        ELSE cfg

\* No default for a credential, and no limit that refuses every body.
LoadIngester(e) ==
    LET cfg == IngesterOnly(e)
    IN  IF \/ LoadService(e) = NoConfig
           \/ cfg.apiKey = ""
           \/ cfg.apiSecret = ""
           \/ cfg.maxBody <= 0
        THEN NoConfig
        ELSE cfg
=============================================================================
