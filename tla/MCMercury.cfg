SPECIFICATION MCSpec
CONSTANTS
    Calls = {1, 2, 3}
    Uris = {"t", "w"}
    Covers <- MCCovers
    Topics = {"t"}
    ChanCap = 1
    MaxWire = 1
    MaxEvents = 2
INVARIANTS TypeOK PendingExact RegisteredIffOpen
PROPERTIES SlowSubscriberNeverBlocks CloseReleasesCallers
CHECK_DEADLOCK FALSE
