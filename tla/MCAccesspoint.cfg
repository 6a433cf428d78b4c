SPECIFICATION FairSpec
CONSTANTS
    MaxConns = 3
    MaxLoops = 3
    MaxReceivers = 2
    MaxAttempts = 2
    Leaves = TRUE
INVARIANTS TypeOK OneReader NoSendOnClosed NoLeakedConnection
PROPERTIES KeepsContract DropIsRepaired CloseSettles
CHECK_DEADLOCK FALSE
