\* One row, three publishers that outlive their claims, every fault, one
\* manual retry; safety, and liveness under the fairness of the beat.
CONSTANTS
    Intents = {i1}
    Publishers = {p1, p2, p3}
    PublishMax = 2
    PublishLimit = 1
    MaxRetries = 1
    OutboxFaults = {"crash", "broker", "lose"}
SPECIFICATION OutboxSpec
INVARIANTS
    OutboxTypeOK
    AttemptsBounded
PROPERTIES
    PublishedByItsClaim
    SettledUnlessRetried
    DispatchSettles
CHECK_DEADLOCK FALSE
