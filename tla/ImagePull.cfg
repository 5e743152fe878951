CONSTANTS
    Digest = {d1, d2}
    CONCURRENT_LAYER_DOWNLOADS = 2
    MaxLayers = 2
    MaxTries = 1
    None = None
SPECIFICATION FairSpec
INVARIANTS
    MountedComplete
    LayerTakenOnce
    ProgressInOrder
PROPERTIES
    PullEnds
    FailureReported
