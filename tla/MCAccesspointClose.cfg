SPECIFICATION FairSpec
CONSTANTS
    MaxConns = 2
    MaxLoops = 2
    MaxReceivers = 1
    MaxAttempts = 1
    Leaves = FALSE
PROPERTY CloseTerminates
CHECK_DEADLOCK FALSE
