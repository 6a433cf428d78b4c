SPECIFICATION MCSpec
CONSTANTS
    Devices = {"d", "e"}
    NoDevice = "none"
    Percents = {40, 70}
    MaxSets = 0
    Tracks = {"t1", "t2"}
    NoTrack = "none"
    Chans = {"c"}
    ChanCap = 1
    MaxOffers = 3
INVARIANT MetadataOfCurrentTrack
CHECK_DEADLOCK FALSE
