SPECIFICATION Spec
CONSTANTS
    r1 = r1
    r2 = r2
    r3 = r3
    w1 = w1
    w2 = w2
    k1 = k1
    k2 = k2
    NoRequest = NoRequest
    NoTask = NoTask
    Requests <- MCTwo
    Workers <- MCWorkers
    Keys <- MCOneKey
    Key <- MCKeyTwo
    Worker <- MCWorkerTwo
    MaxAttempts = 2
    MaxFaults = 2
CHECK_DEADLOCK FALSE
INVARIANTS
    TypeOK
    OneBrowserPerKey
    NoStrayTask
    CleanupSparesOwner
PROPERTIES
    ImplementsIdempotency
