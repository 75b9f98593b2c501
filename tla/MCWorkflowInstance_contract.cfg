SPECIFICATION FairSpec
CONSTANTS
    p1 = p1
    p2 = p2
    Procs <- MCProcs
    N = 2
    MaxCrashes = 1
CHECK_DEADLOCK FALSE
PROPERTIES
    Settles
    ImplementsContract
