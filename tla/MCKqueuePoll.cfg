SPECIFICATION Spec
CONSTANTS
    U32Max = 2
    Limit = 2
    Descriptors = {c1, c2}
    Keys = {k1}
    None = None
    Lost = Lost
    InterruptedApplies = TRUE
    EventCapacity = 2
    Watchable <- ReadPlaces
    Sightings <- OnlyReady
    InterestRequests <- OnlyBoth
    ModeRequests = {"Level", "OneShot"}
    MaxUncertain = 0
    MaxLost = 0
INVARIANTS
    FiltersAgree
    WakeKept
PROPERTIES
    OneShotOnce
    RecoveryTrue
    CoalescedExactly
SYMMETRY Symmetry
