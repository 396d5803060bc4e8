SPECIFICATION SequenceSpec
CONSTANTS
    U32Max = 4
    Limit = 1
    PollIdMax = 3
    Descriptors = {s1, d1}
    DupFds = {d1}
    StrangerFd = s1
    Keys = {k1}
    InterestRequests <- Readable
    ModeRequests = {"Level", "OneShot"}
    None = None
INVARIANTS
    NeverDiverges
    GeneratorInStep
PROPERTIES
    RequestsTrue
    ImplementsLifecycle
