\* Two requests with operators writing the same rows and a failing database:
\* nobody waits for ever, and the statements act as one step.
CONSTANTS
    Tickets <- RequestTickets
    Requests = {r1, r2}
    NumDays = 1
    Amounts = {0, 1}
    Bounds = {1}
    QuotaFaults = {"database", "operator"}
    Defects = TRUE
SPECIFICATION RagSpec
INVARIANTS
    QuotaTypeOK
PROPERTIES
    ImplementsBudget
    RequestEnds
CHECK_DEADLOCK FALSE
