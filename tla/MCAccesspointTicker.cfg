SPECIFICATION Spec
CONSTANTS
    MaxConns = 2
    MaxLoops = 2
    MaxReceivers = 1
    MaxAttempts = 6
    Leaves = FALSE
INVARIANT TickerSurvives
CHECK_DEADLOCK FALSE
