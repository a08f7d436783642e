\* A document from before generations beside a new one, recovered one at a
\* time, while workers die and deletions fail; the cleanup process survives.
CONSTANTS
    NumDocs = 2
    NumLegacy = 1
    MaxGen = 2
    Workers = {w1}
    Cleaners = {c1}
    MaxRecovery = 1
    CleanupMax = 2
    BatchLimit = 1
    Faults = {"worker", "delete"}
SPECIFICATION Spec
INVARIANTS
    PendingHasIntent
PROPERTIES
    ImplementsLifecycle
    JobSettles
    StaleIsCleaned
