SPECIFICATION FairSpec
CONSTANTS
    c1 = c1
    c2 = c2
    other = other
    NoRow = NoRow
    NoPlan = NoPlan
    Calls <- MCCalls
    Org <- MCOrg
    Shapes <- MCShapes
    MaxReplans = 1
    MaxRetries = 1
CHECK_DEADLOCK FALSE
INVARIANTS
    SnapshotIsTrue
    BudgetKept
    RepeatNeedsFault
PROPERTIES
    CallEnds
    ImplementsCheckpoints
