CONSTANTS
    MaxLines = 0
    Layers = 0
    ExitCode = {0, 1}
    None = None
SPECIFICATION FairSpec
PROPERTIES
    ShutdownCompletes
