\* Two requests of one user around midnight, both stages, a failing
\* database, a dying worker and defects after the settlement.
CONSTANTS
    Tickets <- RequestTickets
    Requests = {r1, r2}
    NumDays = 2
    Amounts = {0, 1, 2, 3}
    Bounds = {2}
    QuotaFaults = {"database", "crash"}
    Defects = TRUE
SPECIFICATION RagSafety
INVARIANTS
    RagTypeOK
    NothingLeftOpen
    AnswerReportsCharge
    UsageWithinLimit
    UsageIsExplained
PROPERTIES
    SettledForGood
CHECK_DEADLOCK FALSE
SYMMETRY RequestSymmetry
