SPECIFICATION FairSpec
CONSTANTS
    Unset = Unset
    NoConfig = NoConfig
    Number <- MCNumber
    Binary = {"ingester", "queryapi"}
    Environ <- MCEnviron
    Request <- MCRequest
    Kind <- MCKind
    MaxConns = 1
    MaxOutages = 1
CHECK_DEADLOCK FALSE
INVARIANTS
    LifecycleTypeOK
    NothingLeaks
    ServesOnlyConfigured
    ExitCutsNoTransaction
    CleanStopIsComplete
PROPERTIES
    NothingStoredAfterFlush
    Stops
