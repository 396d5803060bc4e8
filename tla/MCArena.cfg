SPECIFICATION Spec
CONSTANTS
    Capacity = 4
    EventSize = 5
    NativeSize = 3
INVARIANTS
    UnreadIntact
    CommittedWritten
