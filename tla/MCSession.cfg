SPECIFICATION MCSpec
CONSTANTS
    Types = {"accesspoint", "spclient", "dealer"}
    MaxLen = 2
    Users = {"u", "v"}
    MaxGrants = 3
    Interactive = TRUE
    MaxStarts = 3
INVARIANTS TypeOK AddressesInTurn RefreshTokenAccepted SavedIdentityKept
PROPERTY InteractiveSettles
CHECK_DEADLOCK FALSE
