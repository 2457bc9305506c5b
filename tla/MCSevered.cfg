SPECIFICATION Spec
CONSTANTS
    Workers = {a, b}
    Prefers = {}
    Nobody = Nobody
    Attempts = 2
    MaxEarned = 1
    MaxOverruns = 0
PROPERTIES
    SeveredRefunded
