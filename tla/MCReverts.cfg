SPECIFICATION Spec
CONSTANTS
    Jobs = {a}
    MaxEdits = 1
    Period = 1
    MaxFaults = 1
    NoText = NoText
    NoVector = NoVector
    NoHash = NoHash
    Stale = Stale
    Never = Never
PROPERTIES NeverReverts
