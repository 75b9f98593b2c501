SPECIFICATION FairSpec
CONSTANTS
    r1 = r1
    r2 = r2
    r3 = r3
    w1 = w1
    w2 = w2
    k1 = k1
    k2 = k2
    NoRequest = NoRequest
    NoTask = NoTask
    Requests <- MCThree
    Workers <- MCWorkers
    Keys <- MCTwoKeys
    Key <- MCKeyThree
    Worker <- MCWorkerThree
    MaxAttempts = 1
    MaxFaults = 1
CHECK_DEADLOCK FALSE
PROPERTIES
    Answered
