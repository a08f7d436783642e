\* A worker may die; recovery and cleanup run fairly and never fail.
CONSTANTS
    NumDocs = 1
    NumLegacy = 0
    MaxGen = 2
    Workers = {w1}
    Cleaners = {c1}
    MaxRecovery = 2
    CleanupMax = 1
    BatchLimit = 2
    Faults = {"worker"}
SPECIFICATION Spec
PROPERTIES
    LeftoversRemoved
