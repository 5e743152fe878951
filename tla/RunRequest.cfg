CONSTANTS
    Part = {a}
    Keys = 2
    U8 = 4
    U32 = 16
    MaxCpus = 3
    Memory = {0, 7, 8, 15}
    MaxEnv = 2
    None = None
SPECIFICATION Spec
INVARIANTS
    SizesArrive
    SpecAsGiven
