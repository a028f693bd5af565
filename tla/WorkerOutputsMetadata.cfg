\* One run is enough: the suffixes _LSA.nc and _LST.nc are never written.
SPECIFICATION Spec
CONSTANTS
    Layers <- MCLayers
    RewriteOrder <- MCRewriteOrder
    Evapo <- MCEvapo
    Listed <- MCListed
    MAX_TRIES = 2
    MaxRuns = 1
INVARIANTS
    MetadataFindsEveryProduct
CHECK_DEADLOCK FALSE
