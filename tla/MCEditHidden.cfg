SPECIFICATION FairSpec
CONSTANTS
    Jobs = {a}
    MaxEdits = 2
    Period = 2
    MaxFaults = 2
    NoText = NoText
    NoVector = NoVector
    NoHash = NoHash
    Stale = Stale
    Never = Never
PROPERTIES EditsArrive
