\* The nine products, two tries per run, two runs in the same directory.
SPECIFICATION Spec
CONSTANTS
    Layers <- MCLayers
    RewriteOrder <- MCRewriteOrder
    Evapo <- MCEvapo
    Listed <- MCListed
    MAX_TRIES = 2
    MaxRuns = 2
INVARIANTS
    TypeOK
    ExitZeroMeansUsableProducts
    FailureIsOfTheLastStep
PROPERTIES
    KeepsContract
CHECK_DEADLOCK FALSE
