\* One scene, one station: a file of three rows that cover the day is enough.
SPECIFICATION Spec
CONSTANTS
    Hours = {12}
    Minutes = {0}
    MaxStations = 1
    MaxRows = 3
    HeapHours = 15
    RowsAt <- MCRowsAt
INVARIANTS
    TemperaturesAreThoseMeasured
CHECK_DEADLOCK FALSE
