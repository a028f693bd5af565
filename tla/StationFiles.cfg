\* A search that has ended is not started again: the runs stop.
CHECK_DEADLOCK FALSE

CONSTANTS
    s1 = s1
    s2 = s2
    s3 = s3
    Nobody = Nobody
    NoStation = NoStation
    NoneFit = NoneFit
    N = 2
    Searches <- MCSearches
    Years <- MCYears
    Good <- MCGood

SPECIFICATION Spec
SYMMETRY Alike

INVARIANTS
    TypeOK
    ReadsWhatItFetched
    NearestReadableIsChosen

PROPERTY
    FoundCleansTheYear
