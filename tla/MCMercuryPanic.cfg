SPECIFICATION Spec
CONSTANTS
    Calls = {1, 2}
    Uris = {"t", "w"}
    Covers <- MCCovers
    Topics = {"t"}
    ChanCap = 1
    MaxWire = 2
    MaxEvents = 2
INVARIANT SafeForConcurrentUse
CHECK_DEADLOCK FALSE
