SPECIFICATION MCSpec
CONSTANTS
    Callers = {"a", "b"}
    Devices = {"d", "e"}
    NoDevice = "none"
    MaxAttempts = 2
    MaxLate = 2
INVARIANTS TypeOK NamedDeviceOnly RepeatAsAsked
PROPERTY CommandEnds
CHECK_DEADLOCK FALSE
