SPECIFICATION FairSpec
CONSTANTS
    MaxAttempts = 2
    Threshold = 2
    Listed = 2
    MaxCrons = 1
    Expires = FALSE
    StaleReads = FALSE
    HandbackRaces = FALSE
    HandRuns = TRUE
    Drops <- NoDrops
CHECK_DEADLOCK FALSE
PROPERTIES
    WindowComes
    Cadence
