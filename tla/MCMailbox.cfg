\* Three posting threads against one consumer, batches up to two items.
CONSTANTS
    Producer = {p1, p2, p3}
    MaxBatch = 2
    MaxPosted = 2
    AttachFirst = TRUE
SPECIFICATION Spec
INVARIANTS TypeOK OneWakeToken
PROPERTIES ImplementsChannel PostedIsDelivered
CHECK_DEADLOCK FALSE
