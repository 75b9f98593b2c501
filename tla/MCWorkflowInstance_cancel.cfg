SPECIFICATION Spec
CONSTANTS
    p1 = p1
    p2 = p2
    Procs <- MCOneProc
    N = 2
    MaxCrashes = 0
CHECK_DEADLOCK FALSE
INVARIANTS
    TerminatedRunIsCanceled
