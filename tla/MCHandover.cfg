SPECIFICATION Spec
CONSTANTS
    MaxAttempts = 2
    Threshold = 3
    Listed = 5
    MaxCrons = 2
    Expires = TRUE
    StaleReads = TRUE
    HandbackRaces = FALSE
    HandRuns = FALSE
    Drops <- ConfirmedOnes
CHECK_DEADLOCK FALSE
INVARIANTS
    Exclusive
    NeverEndsGreen
    LostOnlyInWindow
PROPERTIES
    SpinBounded
