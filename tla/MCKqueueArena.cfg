SPECIFICATION Spec
CONSTANTS
    event_capacity = 5
    change_capacity = 4
INVARIANTS
    EventsCurrent
    ReceiptsCurrent
    StagedWritten
