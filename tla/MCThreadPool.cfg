\* Two workers and two callers of post_batch, room for two tasks.
CONSTANTS
    Worker = {w1, w2}
    Poster = {p1, p2}
    Capacity = 2
    MaxBatch = 2
    MaxOffered = 4
    Nobody = Nobody
SPECIFICATION Spec
INVARIANTS TypeOK NobodyOversleeps DrainedAtShutdown
PROPERTIES ImplementsChannel AcceptedRuns ShutdownReturns
CHECK_DEADLOCK FALSE
