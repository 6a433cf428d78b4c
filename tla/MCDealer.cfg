SPECIFICATION FairSpec
CONSTANTS
    MaxConns = 3
    MaxLoops = 3
    MaxReceivers = 2
    RequestReceivers <- MCRequestReceivers
    Leaves = TRUE
INVARIANTS TypeOK OneReader NoSendOnClosed NoLeakedConnection ReplyOnSameConnection
PROPERTIES KeepsContract DropIsRepaired StopSettles
