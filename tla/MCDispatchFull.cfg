\* A pool that cannot hold one event of every session: a submission is refused.
CONSTANTS
    s1 = s1
    s2 = s2
    Session = {s1, s2}
    Worker = {w1, w2}
    PoolCapacity = 1
    None = None
    MaxSent <- TwoAndNone
    Sends <- TextOrChunkAndJoin
SPECIFICATION Spec
PROPERTY ClosedIsCleaned
CHECK_DEADLOCK FALSE
