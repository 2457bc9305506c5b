SPECIFICATION FairSpec
CONSTANTS
    Jobs = {a}
    MaxEdits = 2
    Period = 2
    MaxFaults = 1
    NoText = NoText
    NoVector = NoVector
    NoHash = NoHash
    Stale = Stale
    Never = Never
INVARIANTS SkippedIsHeld
PROPERTIES NeverGoesBack EditsArrive
