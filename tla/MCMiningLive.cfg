SPECIFICATION MFairSpec
CONSTANTS
    Threads = 2
    Jobs = {s1, s2, none}
    ShortJobs = {}
    NoJob = NoJob
    KChunk = 1
    NonceSpace = 2
    HashMod = 1
    MaxGen = 2
    MaxHasherGen = 1
    ThreadsFail = TRUE
    TSO = TRUE
    Seeds = {s1, s2}
    NoSeed = none
    Mixed = Mixed
    NoWorker = NoWorker
    Fast = TRUE
    DatasetThreadsFail = TRUE
    CreateVMFails = TRUE
INVARIANTS MTypeOK
PROPERTIES RekeyOverlapEnds OnJobReturns WorkersNotice
CHECK_DEADLOCK FALSE
