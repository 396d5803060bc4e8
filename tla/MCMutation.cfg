SPECIFICATION Spec
CONSTANTS
    U32Max = 2
    Limit = 2
    PollIdMax = 3
    Descriptors = {c1, d1}
    DupFds = {d1}
    Keys = {k1}
    InterestRequests <- OneInterest
    ModeRequests = {"OneShot"}
    None = None
INVARIANTS
    FreeListSound
    CapacityHonest
    NoInvariantError
    TableBackendAgreement
    NoOrphan
    DuplicatesHeldOnce
PROPERTIES
    FreshHandle
    StaleForever
    OnlyTargetChanges
