CONSTANTS
    MaxLines = 2
    Layers = 1
    ExitCode = {1}
    None = None
SPECIFICATION FairSpec
INVARIANTS
    
    ExitFaithful
    ExitedIsLast
PROPERTIES
    OrphanStops
    EndedStops
    StopReachesContainer
