\* Scenes before and after the hour from which the interval ends, at noon and
\* in the last hour of the day; on the hour and past it.  Two stations, four
\* rows each.
SPECIFICATION Spec
CONSTANTS
    Hours = {4, 5, 12, 23}
    Minutes = {0, 40}
    MaxStations = 2
    MaxRows = 4
    HeapHours = 15
    RowsAt <- MCRowsAt
INVARIANTS
    TypeOK
    NearestAcceptableStationIsChosen
    SceneRecordIsUsable
PROPERTIES
    EverySearchEnds
\* The search is over.
CHECK_DEADLOCK FALSE
