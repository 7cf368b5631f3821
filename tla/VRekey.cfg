SPECIFICATION MSpec
CONSTANTS
    Threads = 2
    Jobs = {s1, s2, none}
    ShortJobs = {}
    NoJob = NoJob
    KChunk = 1
    NonceSpace = 2
    HashMod = 1
    MaxGen = 2
    MaxHasherGen = 1
    ThreadsFail = FALSE
    TSO = TRUE
    Seeds = {s1, s2}
    NoSeed = none
    Mixed = Mixed
    NoWorker = NoWorker
    Fast = TRUE
    DatasetThreadsFail = FALSE
    CreateVMFails = FALSE
INVARIANT NoHashDuringRekey
CHECK_DEADLOCK FALSE
