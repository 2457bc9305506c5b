SPECIFICATION Spec
CONSTANTS
    MaxAttempts = 2
    Threshold = 3
    Listed = 10
    MaxCrons = 6
    Expires = FALSE
    StaleReads = FALSE
    HandbackRaces = FALSE
    HandRuns = FALSE
    Drops <- NoDrops
CHECK_DEADLOCK FALSE
INVARIANTS
    SpinStops
