\* Upload to a final status through the outbox, with publishers and workers
\* that die and a broker that fails but keeps what it accepted.
CONSTANTS
    NumDocs = 1
    NumLegacy = 0
    MaxGen = 2
    Workers = {w1}
    Cleaners = {}
    MaxRecovery = 1
    CleanupMax = 1
    BatchLimit = 1
    Faults = {"worker"}
    Publishers = {p1}
    PublishMax = 2
    PublishLimit = 1
    MaxRetries = 0
    OutboxFaults = {"crash", "broker"}
SPECIFICATION SystemSpec
INVARIANTS
    WaitingJobIsCarried
PROPERTIES
    UploadSettles
CHECK_DEADLOCK FALSE
