SPECIFICATION Spec
CONSTANTS
    p1 = p1
    p2 = p2
    Procs <- MCProcs
    N = 3
    MaxCrashes = 2
CHECK_DEADLOCK FALSE
SYMMETRY Symmetry
INVARIANTS
    TypeOK
    OneExecutor
    BlocksInOrder
    CompletedIsProven
    NativeSuccessIsShared
PROPERTIES
    StoppedInstanceFrozen
    SettledStays
