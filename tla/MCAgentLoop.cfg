CONSTANTS
    MaxSteps = 3
    MaxRetries = 1
    Modes <- MCModes

SPECIFICATION FairSpec

INVARIANTS
    SettledUnlessHole
    NoStrayStep
PROPERTIES
    LoopEnds
    ImplementsAttempts

\* The loop ends, and with it the behaviour.
CHECK_DEADLOCK FALSE
