SPECIFICATION CodeFairSpec
CONSTANTS
    Missing = Missing
    Torn = Torn
    MaxAccepted = 1
    MaxSessions = 2
    Word = 8
    Posix = TRUE
    MaxHashes = 1
PROPERTY ShutdownEnds
CHECK_DEADLOCK FALSE
