SPECIFICATION FairSpec
CONSTANTS
    Workers = {a, b}
    Prefers = {b}
    Nobody = Nobody
    Attempts = 2
    MaxEarned = 1
    MaxOverruns = 1
INVARIANTS
    SeveredOnlyInGap
PROPERTIES
    OnlyADialPins
    GateReopens
    RequestSettles
