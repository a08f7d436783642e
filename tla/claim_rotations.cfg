\* One recovery attempt allowed; no fault at all.
CONSTANTS
    NumDocs = 1
    NumLegacy = 0
    MaxGen = 3
    Workers = {w1}
    Cleaners = {c1}
    MaxRecovery = 1
    CleanupMax = 1
    BatchLimit = 1
    Faults = {}
SPECIFICATION SafetySpec
INVARIANTS
    RotationsBounded
