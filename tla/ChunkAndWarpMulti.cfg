CONSTANTS
    DstXSize = 5
    DstYSize = 3
    BlockXSize = 2
    BlockYSize = 2
    MaxChunks = 4
    Free = Free
    Main = Main
    Nothing = Nothing
    CE_None = CE_None
    CE_Failure = CE_Failure
SPECIFICATION Spec
INVARIANTS
    TypeOK
    SuccessWritesEachPixelOnce
    NoChunkIsWrittenTwice
    SectionsAreExclusive
    ReturnLeavesNoThread
PROPERTIES
    ImplementsWarpCall
CHECK_DEADLOCK FALSE
