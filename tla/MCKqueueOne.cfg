SPECIFICATION Spec
CONSTANTS
    U32Max = 3
    Limit = 1
    Descriptors = {c1, c2}
    Keys = {k1}
    None = None
    Lost = Lost
    InterruptedApplies = FALSE
    EventCapacity = 1
    Watchable <- EveryPlace
    Sightings <- ReadyOrClosed
    InterestRequests <- ReadableOrBoth
    ModeRequests = {"Level", "OneShot"}
    MaxUncertain = 1
    MaxLost = 1
INVARIANTS
    FiltersAgree
    ObservationComplete
PROPERTIES
    CoalescedExactly
SYMMETRY Symmetry
