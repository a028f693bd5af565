CONSTANTS
    Threads = {t1, t2}
    Offsets = {o1, o2}
    CacheMax = 2
    Resamples = FALSE
    NULL = NULL
SPECIFICATION Spec
SYMMETRY Symmetry
PROPERTIES
    FlushedIsWritten
