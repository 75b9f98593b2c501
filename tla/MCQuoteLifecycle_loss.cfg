SPECIFICATION Spec
CONSTANTS
    p1 = p1
    p2 = p2
    alice = alice
    bob = bob
    eve = eve
    NoProc = NoProc
    NoUser = NoUser
    Procs <- MCProcs
    Users <- MCUsers
    Requester = alice
    Approvers <- MCApprovers
    AllowLegacy = TRUE
    MaxCrashes = 2
    MaxClaimLosses = 1
CHECK_DEADLOCK FALSE
SYMMETRY Symmetry
INVARIANTS
    TypeOK
    BrowserRunsOnce
    RunIsAuthorised
    RejectionStops
    StepMatchesFacts
    AtMostOneReview
    SkillProvenance
    PlanMatchesBrowser
PROPERTIES
    TerminalSnapshotFrozen
