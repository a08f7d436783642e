\* One save of either form, its status edited or not, against a worker, recovery and
\* reindexing; a job the form left without a lease may stop the system.
CONSTANTS
    NumDocs = 1
    NumLegacy = 0
    MaxGen = 3
    Workers = {w1}
    Cleaners = {}
    MaxRecovery = 2
    CleanupMax = 1
    BatchLimit = 1
    Faults = {"worker"}
    Forms = {"job", "document"}
    Edits = {"FAILURE", "PENDING"}
    MaxSaves = 1
SPECIFICATION AdminSpec
INVARIANTS
    LostNotReplaced
PROPERTIES
    LostActivationIsRepaired
CHECK_DEADLOCK FALSE
