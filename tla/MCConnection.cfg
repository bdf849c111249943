CONSTANTS
    MaxLine = 2
    BufSize = 3
    MaxInput = 6
    MaxOutput = 2
SPECIFICATION Spec
CHECK_DEADLOCK FALSE
INVARIANTS
    LinesIndependentOfChunks
    OnlyLongLinesRejected
    RecvBufferBounded
    OutputIsFifo
