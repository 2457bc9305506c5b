SPECIFICATION Spec
CONSTANTS
    MaxAttempts = 2
    Threshold = 2
    Listed = 2
    MaxCrons = 0
    Expires = TRUE
    StaleReads = FALSE
    HandbackRaces = TRUE
    HandRuns = FALSE
    Drops <- NoDrops
CHECK_DEADLOCK FALSE
INVARIANTS
    NeverEndsGreen
