SPECIFICATION FairSpec
CONSTANTS
    U32Max = 2
    Limit = 2
    Descriptors = {c1, c2}
    Keys = {k1}
    None = None
    Lost = Lost
    InterruptedApplies = FALSE
    EventCapacity = 2
    Watchable <- ReadPlaces
    Sightings <- OnlyReady
    InterestRequests <- Readable
    ModeRequests = {"Level"}
    MaxUncertain = 0
    MaxLost = 0
PROPERTIES
    ReportsWhileReady
    WakeReported
