SPECIFICATION FairSpec
CONSTANTS
    p1 = p1
    p2 = p2
    alice = alice
    bob = bob
    eve = eve
    NoProc = NoProc
    NoUser = NoUser
    Procs <- MCProcs
    Users <- MCUsers
    Requester = alice
    Approvers <- MCApprovers
    AllowLegacy = TRUE
    MaxCrashes = 2
    MaxClaimLosses = 0
CHECK_DEADLOCK FALSE
INVARIANTS
    ReplansWithinBudget
PROPERTIES
    QuoteOrHuman
    ImplementsContract
