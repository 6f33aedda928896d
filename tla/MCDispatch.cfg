\* Every overlap of two sessions' reads and closes, two messages and one, with a pool
\* that holds an event of each session unless a slow popper is in the way.
CONSTANTS
    s1 = s1
    s2 = s2
    Session = {s1, s2}
    Worker = {w1, w2}
    PoolCapacity = 2
    None = None
    MaxSent <- TwoAndOne
    Sends <- TextOrChunkAndJoin
SPECIFICATION Spec
INVARIANTS TypeOK SingleFlight
PROPERTIES CleanedForGood KeepsOrder ClosedSettles SentSettles
CHECK_DEADLOCK FALSE
