SPECIFICATION FairSpec
CONSTANTS
    Chunk = 2
    MaxLine = 1
    MaxStream = 4
    MaxConns = 2
INVARIANT TypeOK
PROPERTIES IsAChannel LinesAreRead
CHECK_DEADLOCK FALSE
