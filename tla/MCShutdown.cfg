SPECIFICATION FairSpec
CONSTANTS
    Missing = Missing
    Torn = Torn
    MaxAccepted = 1
    MaxSessions = 2
    Word = 8
    Posix = TRUE
    MaxHashes = 1
INVARIANTS STypeOK NoDoubleCount FinalFlushIsComplete WindowsTile LocalsOutliveThreads
PROPERTIES LossOnlyByFailure ShutdownEnds
CHECK_DEADLOCK FALSE
