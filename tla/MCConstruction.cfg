SPECIFICATION Spec
CONSTANTS
    U32Max = 9
    USizeMax = 31
    Millisecond = 2
    Second = 4
    CIntMax = 7
    TimeMax = 3
    MaxDuration = 19
    Forever = Forever
    Gap = 2
    Targets = {"linux", "kqueue", "netbsd", "unsupported"}
    Sizes = {0, 1, 2, 3, 4, 7, 8, 9, 10, 16}
    Keys = {k1, k2}
    Wakers = {w1, w2, w3}
    None = None
INVARIANTS
    NothingLeaked
    WakersUsable
    CapacitiesSuffice
    BlocksAsAsked
