SPECIFICATION FairSpec
CONSTANTS
    a = a
    b = b
    NoCaller = NoCaller
    Callers <- MCCallers
    Puts <- MCPuts
    maxAuthRetries = 1
    maxTotalRetries = 1
    maxPutRetries = 1
INVARIANTS TypeOK ForcedIsFresh RetryUsesNewerToken
PROPERTY RequestEnds
CHECK_DEADLOCK FALSE
