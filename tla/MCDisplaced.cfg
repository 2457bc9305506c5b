SPECIFICATION Spec
CONSTANTS
    MaxAttempts = 2
    Threshold = 2
    Listed = 2
    MaxCrons = 2
    Expires = TRUE
    StaleReads = FALSE
    HandbackRaces = FALSE
    HandRuns = FALSE
    Drops <- NoDrops
CHECK_DEADLOCK FALSE
PROPERTIES
    NotDisplaced
