SPECIFICATION MCSpec
CONSTANTS
    Devices = {"d", "e"}
    NoDevice = "none"
    Percents = {40, 70}
    MaxSets = 2
    Tracks = {"t1", "t2"}
    NoTrack = "none"
    Chans = {"c"}
    ChanCap = 1
    MaxOffers = 2
INVARIANTS TypeOK ListedIsOpen ShownTrackIsFetched SentAsAsked
PROPERTIES OfferIsTaken CloseEndsLoops VolumeIsTaken
CHECK_DEADLOCK FALSE
