SPECIFICATION FairSpec
CONSTANTS
    Wakers = {w1, w2, w3}
    Keys = {k1, k2}
    MaxCounter = 2
    MaxCalls = 3
    None = None
INVARIANTS
    NoLostWake
    NoSpuriousWake
PROPERTY WakeDelivered
CHECK_DEADLOCK FALSE
