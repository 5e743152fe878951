CONSTANTS
    BUFFER_SIZE = 4
    Extra = 2
    MarkLen = 1
    Size = 9
SPECIFICATION Spec
INVARIANTS
    TypeOK
    OnlyOutput
    LossMarked
