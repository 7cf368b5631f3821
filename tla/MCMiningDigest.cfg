SPECIFICATION MSpec
CONSTANTS
    Threads = 2
    Jobs = {s1, s2, none}
    ShortJobs = {}
    NoJob = NoJob
    KChunk = 1
    NonceSpace = 2
    HashMod = 1
    MaxGen = 3
    MaxHasherGen = 2
    ThreadsFail = TRUE
    TSO = TRUE
    Seeds = {s1, s2}
    NoSeed = none
    Mixed = Mixed
    NoWorker = NoWorker
    Fast = TRUE
    DatasetThreadsFail = TRUE
    CreateVMFails = FALSE
INVARIANTS  MissesAtMostOne CurrentJobDigest DiesOnlyUnseeded
CHECK_DEADLOCK FALSE
SYMMETRY SeedSymmetry
