SPECIFICATION Spec
CONSTANTS
    MaxAttempts = 2
    Threshold = 2
    Listed = 2
    MaxCrons = 1
    Expires = TRUE
    StaleReads = FALSE
    HandbackRaces = FALSE
    HandRuns = FALSE
    Drops <- HandbackDrops
CHECK_DEADLOCK FALSE
INVARIANTS
    NeverEndsGreen
