SPECIFICATION Spec
CONSTANTS
    LoginPolls = 1
    MaxConns = 2
    MaxId = 6
    MaxInbox = 1
    Posix = TRUE
INVARIANTS TypeOK NoRevivedJob
PROPERTY KeepsContract
CHECK_DEADLOCK FALSE
