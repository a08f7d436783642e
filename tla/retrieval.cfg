\* Two users and their documents; the filter may be ignored, a form may lose
\* an activation.
CONSTANTS
    NumDocs = 2
    NumLegacy = 0
    MaxGen = 2
    Workers = {w1}
    Cleaners = {c1}
    MaxRecovery = 1
    CleanupMax = 1
    BatchLimit = 1
    Faults = {}
    Forms = {"document"}
    Edits = {}
    MaxSaves = 1
    Readers = {r1}
    Users = {1, 2}
    Owner <- OwnerIsNumber
    ChromaFaults = {"filter", "store"}
SPECIFICATION RetrievalSpec
INVARIANTS
    SearchedStaysWhole
    AnswerIsVerified
