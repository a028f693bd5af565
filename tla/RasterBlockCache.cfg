CONSTANTS
    Threads = {t1, t2}
    Offsets = {o1, o2}
    CacheMax = 2
    Resamples = FALSE
    NULL = NULL
SPECIFICATION Spec
SYMMETRY Symmetry
INVARIANTS
    TypeOK
    LockedBlockIsKept
    ListHoldsTheBlocks
    CacheIsBounded
    OnlyDroppedIsLost
    ReadsSeeWrites
PROPERTIES
    FlushLeavesNothingBehind
    ImplementsRecencyList
