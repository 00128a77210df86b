SPECIFICATION FairSpec
CONSTANTS
    Run = run
    Thread = {run, c1, c2}
    IntMax = 1
    MaxEmits = 3
INVARIANTS
    ConnectorInvariant
    CallbackExcludesHandoff
    NothingLost
    LockNeverOverSignalled
PROPERTIES
    LockIsMutex
    RegisteredIsCalled
CHECK_DEADLOCK FALSE
