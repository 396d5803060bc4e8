SPECIFICATION Spec
CONSTANTS
    U32Max = 2
    Limit = 2
    Descriptors = {c1, c2}
    Keys = {k1}
    None = None
    EventCapacity = 2
    WakeFd = WakeFd
    Conditions = {"EPOLLOUT", "EPOLLHUP"}
    InterestRequests <- ReadableOrWritable
    ModeRequests = {"Level", "OneShot"}
INVARIANTS
    KernelAgrees
PROPERTIES
    NothingLost
    OneShotOnce
SYMMETRY Symmetry
