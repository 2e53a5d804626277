\* A queue of three slots: all the ways its two indices can lie to each other.  A pool of
\* five slots over cleared memory, and up to two adds beyond them: every fill pattern, and
\* what follows when the pool is full.
CONSTANTS
    Values = {a, b}
    Garbage = Garbage
    Capacity = 3
    PoolCapacity = 5
    StaleFlags = {}
    MaxSize = 7
SPECIFICATION ContainersSpec
INVARIANTS TypeOK PoolTypeOK NoHoleBelowNext ForeachVisitsAll ExactUntilFull
PROPERTY ImplementsFifo
