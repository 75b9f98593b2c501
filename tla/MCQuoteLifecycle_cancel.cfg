SPECIFICATION Spec
CONSTANTS
    p1 = p1
    p2 = p2
    alice = alice
    bob = bob
    eve = eve
    NoProc = NoProc
    NoUser = NoUser
    Procs <- MCOneProc
    Users <- MCUsers
    Requester = alice
    Approvers <- MCApprovers
    AllowLegacy = TRUE
    MaxCrashes = 0
    MaxClaimLosses = 0
CHECK_DEADLOCK FALSE
PROPERTIES
    CancelSticks
