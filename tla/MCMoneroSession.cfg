SPECIFICATION FairSpec
CONSTANTS
    LoginPolls = 2
    MaxId = 4
    MaxInbox = 1
    Posix = TRUE
INVARIANTS TypeOK LoggedInIsReal VerdictsCounted
PROPERTIES KeepsContract Recovers
CHECK_DEADLOCK FALSE
