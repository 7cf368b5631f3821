SPECIFICATION Spec
CONSTANTS
    Base = 4
    WordBytes = 2
    Words = 4
    Precision = 6
    BlockLen = 5
    LenLen = 2
    ByteBits = 2
    Den = 64
    MaxNum = 9000
    MaxMsg = 12
    MaxItems = 9
    MaxCount = 20
    MaxXn2 = 3
    MaxBranch = 2
INVARIANTS TargetFaithful MeetsIsOrder TargetsDecode PaddingExact SlicesTile WorkIsNew
CHECK_DEADLOCK FALSE
