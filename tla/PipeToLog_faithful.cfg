CONSTANTS
    BUFFER_SIZE = 4
    Extra = 2
    MarkLen = 1
    Size = 4
SPECIFICATION Spec
INVARIANTS
    OutputFaithful
