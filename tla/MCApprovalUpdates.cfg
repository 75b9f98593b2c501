SPECIFICATION FairSpec
CONSTANTS
    approver1 = approver1
    approver2 = approver2
    continue1 = continue1
    continue2 = continue2
    client1 = client1
    Deciders <- MCDeciders
    Continuers <- MCContinuers
    Clients <- MCClients
    Connections = 2
CHECK_DEADLOCK FALSE
INVARIANTS
    ApprovalGatesExecution
PROPERTIES
    AnswerIsCurrent
    LearnsDecision
    RequestsEnd
