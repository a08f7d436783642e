\* One document, every fault: a worker that outlives two rotations, its
\* successor, and two overlapping cleanups.
CONSTANTS
    NumDocs = 1
    NumLegacy = 0
    MaxGen = 3
    Workers = {w1, w2}
    Cleaners = {c1, c2}
    MaxRecovery = 2
    CleanupMax = 2
    BatchLimit = 2
    Faults = {"worker", "cleaner", "delete"}
SYMMETRY MCSymmetry
SPECIFICATION SafetySpec
INVARIANTS
    TypeOK
    VisibleComplete
    VisibleIsCurrent
    SingleWriter
    CleanerTargetsDead
    CleanedIsEmpty
    StaleIsScheduled
    ClaimsBounded
