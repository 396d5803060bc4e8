SPECIFICATION FairSpec
CONSTANTS
    U32Max = 2
    Limit = 2
    Descriptors = {c1, c2}
    Keys = {k1}
    None = None
    EventCapacity = 1
    WakeFd = WakeFd
    Conditions = {"EPOLLIN"}
    InterestRequests <- Readable
    ModeRequests = {"Level", "OneShot"}
PROPERTIES
    LevelReported
    WakeReported
