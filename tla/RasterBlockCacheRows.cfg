CONSTANTS
    Threads = {t1}
    Offsets = {o1, o2}
    CacheMax = 1
    Resamples = TRUE
    NULL = NULL
SPECIFICATION Spec
SYMMETRY Symmetry
INVARIANTS
    NothingIsLostSilently
