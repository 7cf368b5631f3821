SPECIFICATION Spec
CONSTANTS
    Threads = 2
    Jobs = {j1}
    ShortJobs = {}
    NoJob = NoJob
    KChunk = 2
    NonceSpace = 6
    HashMod = 3
    MaxGen = 2
    MaxHasherGen = 0
    ThreadsFail = FALSE
    TSO = FALSE
INVARIANT SetWorkRestarts
