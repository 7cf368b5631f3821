SPECIFICATION FairSpec
CONSTANTS
    Threads = 2
    Jobs = {j1, short}
    ShortJobs = {short}
    NoJob = NoJob
    KChunk = 2
    NonceSpace = 6
    HashMod = 3
    MaxGen = 1
    MaxHasherGen = 1
    ThreadsFail = TRUE
    TSO = TRUE
INVARIANTS TypeOK InFlightExact PauseHolds StopDrains DisjointLanes
PROPERTIES PauseReturns StopReturns
