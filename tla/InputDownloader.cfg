\* Two images, three invocations in one storage directory.
SPECIFICATION Spec
CONSTANTS
    Images = {i1, i2}
    NoTier = NoTier
    MaxRuns = 3
INVARIANTS
    TypeOK
    UnpacksOnlyItsOwnDownload
    SoleSceneHasAStationFile
PROPERTIES
    SceneIsDamagedOnlyByUnpacking
    StationDataIsNotBlanked
CHECK_DEADLOCK FALSE
