--------------------------- MODULE DispatchOutbox ---------------------------
(***************************************************************************)
(* The transactional outbox between the database and the Celery broker     *)
(* (apps/documents/dispatch.py).  A row of the outbox is the intent to     *)
(* deliver one ingestion message.  Publishers claim due rows, hand each    *)
(* to the broker outside any transaction, and then record the outcome with *)
(* an update conditional on the claim token they hold.                     *)
(*                                                                         *)
(* A claim draws a fresh UUID; since every claim also increments the row's *)
(* attempts, the claim is named here by the attempt it started.  Clocks    *)
(* are abstracted: available_at passes, or a claim expires, at any moment. *)
(***************************************************************************)
EXTENDS Naturals, FiniteSets

CONSTANTS Intents,        \* identities of the rows: (job, generation)
          Publishers,     \* processes running publish_due_dispatches
          PublishMax,     \* INGESTION_OUTBOX_MAX_ATTEMPTS
          PublishLimit,   \* the "limit" of one publisher task
          MaxRetries,     \* bound: uses of retry_dispatch per row
          OutboxFaults    \* which of "crash", "broker", "lose" may occur

ASSUME OutboxAssumption ==
    /\ PublishMax \in Nat \ {0}
    /\ PublishLimit \in Nat \ {0}
    /\ MaxRetries \in Nat
    /\ OutboxFaults \subseteq {"crash", "broker", "lose"}

VARIABLES
    row,        \* the IngestionDispatch row of each intent
    publisher,  \* the claims each publisher's loop still holds in memory
    queue,      \* messages at the broker (a set: they may be reordered)
    accepted    \* history: the attempts whose message the broker accepted

outboxVars == <<row, publisher, queue, accepted>>

NoToken == 0

Rows ==
    [status   : {"ABSENT", "PENDING", "PUBLISHING", "PUBLISHED", "DEAD"},
     attempts : Nat,
     token    : Nat,       \* claim_token: NoToken for null
     due      : BOOLEAN,   \* available_at has passed
     expired  : BOOLEAN,   \* claim_expires_at has passed
     retries  : 0..MaxRetries]

Claims ==
    [intent : Intents, attempt : Nat \ {0}, outcome : {"todo", "sent", "failed"}]

OutboxTypeOK ==
    /\ row \in [Intents -> Rows]
    /\ publisher \in [Publishers -> SUBSET Claims]
    /\ queue \subseteq Intents
    /\ accepted \in [Intents -> SUBSET (Nat \ {0})]

AbsentRow == [status |-> "ABSENT", attempts |-> 0, token |-> NoToken,
              due |-> FALSE, expired |-> FALSE, retries |-> 0]

OutboxInit ==
    /\ row = [i \in Intents |-> AbsentRow]
    /\ publisher = [p \in Publishers |-> {}]
    /\ queue = {}
    /\ accepted = [i \in Intents |-> {}]

-----------------------------------------------------------------------------
(* Writers of rows *)

\* create_ingestion_dispatch: PENDING and available at once, for a set of
\* jobs because recovery rotates a batch in one transaction.
CreateDispatches(S) ==
    /\ row' = [i \in Intents |->
                 IF i \in S
                   THEN [AbsentRow EXCEPT !.status = "PENDING", !.due = TRUE]
                   ELSE row[i]]
    /\ UNCHANGED <<publisher, queue, accepted>>

\* retry_dispatch: whatever the row's state, back to PENDING and available;
\* the attempts already made are kept.
RetryDispatch(i) ==
    /\ row[i].status # "ABSENT"
    /\ row[i].retries < MaxRetries
    /\ row' = [row EXCEPT ![i].status = "PENDING", ![i].token = NoToken,
                          ![i].due = TRUE, ![i].expired = FALSE,
                          ![i].retries = @ + 1]
    /\ UNCHANGED <<publisher, queue, accepted>>

\* claim_due_dispatches, one transaction: up to PublishLimit due rows, less
\* those another transaction has locked (SKIP LOCKED).
ClaimedRow(r) == [r EXCEPT !.status = "PUBLISHING", !.attempts = @ + 1,
                           !.token = r.attempts + 1, !.expired = FALSE]

Due(i) == row[i].status = "PENDING" /\ row[i].due

ClaimDue(p, S) ==
    /\ publisher[p] = {}
    /\ S # {} /\ Cardinality(S) <= PublishLimit
    /\ \A i \in S : Due(i)
    /\ row' = [i \in Intents |-> IF i \in S THEN ClaimedRow(row[i]) ELSE row[i]]
    /\ publisher' = [publisher EXCEPT ![p] =
                       {[intent |-> i, attempt |-> row[i].attempts + 1,
                         outcome |-> "todo"] : i \in S}]
    /\ UNCHANGED <<queue, accepted>>

-----------------------------------------------------------------------------
(* The loop of publish_due_dispatches *)

\* enqueue_ingestion, outside any transaction.  An exception does not tell
\* whether the broker took the message.
Enqueue(p, c) ==
    /\ c.outcome = "todo"
    /\ \A d \in publisher[p] : d.outcome = "todo"
    /\ \E taken \in BOOLEAN, raised \in BOOLEAN :
         /\ taken \/ raised
         /\ raised => "broker" \in OutboxFaults
         /\ queue' = IF taken THEN queue \cup {c.intent} ELSE queue
         /\ accepted' = IF taken
                          THEN [accepted EXCEPT ![c.intent] = @ \cup {c.attempt}]
                          ELSE accepted
         /\ publisher' =
              [publisher EXCEPT ![p] =
                 (@ \ {c}) \cup
                 {[c EXCEPT !.outcome = IF raised THEN "failed" ELSE "sent"]}]
    /\ UNCHANGED row

\* Mutants of HoldsClaim: the update forgets the token, or the whole filter.
HoldsAnyClaim(c) == row[c.intent].status = "PUBLISHING"
HoldsNothing(c) == c.intent \in Intents

\* The filter of both conditional updates: the row is still in the claim
\* this publisher was given.
HoldsClaim(c) ==
    /\ row[c.intent].status = "PUBLISHING"
    /\ row[c.intent].token = c.attempt

Forget(p, c) == publisher' = [publisher EXCEPT ![p] = @ \ {c}]

\* The update after the broker took the message.
MarkPublished(p, c) ==
    /\ c.outcome = "sent"
    /\ row' = IF HoldsClaim(c)
                THEN [row EXCEPT ![c.intent].status = "PUBLISHED",
                                 ![c.intent].token = NoToken,
                                 ![c.intent].expired = FALSE]
                ELSE row
    /\ Forget(p, c)
    /\ UNCHANGED <<queue, accepted>>

\* Mutants of StatusAfterFailure: a status the column does not have, and a
\* failure taken for a success.
StatusRetrying(attempts) == IF attempts >= PublishMax THEN "DEAD" ELSE "RETRYING"
StatusAsIfSent(attempts) == IF attempts >= PublishMax THEN "DEAD" ELSE "PUBLISHED"

\* The update in the except branch: DEAD by the attempts of the claim held in
\* memory, else PENDING after the backoff.
StatusAfterFailure(attempts) ==
    IF attempts >= PublishMax THEN "DEAD" ELSE "PENDING"

MarkFailed(p, c) ==
    /\ c.outcome = "failed"
    /\ row' = IF HoldsClaim(c)
                THEN [row EXCEPT ![c.intent].status = StatusAfterFailure(c.attempt),
                                 ![c.intent].token = NoToken,
                                 ![c.intent].due = FALSE,
                                 ![c.intent].expired = FALSE]
                ELSE row
    /\ Forget(p, c)
    /\ UNCHANGED <<queue, accepted>>

-----------------------------------------------------------------------------
(* reset_expired_dispatch_claims: two UPDATE statements *)

\* Mutant of ExpiredClaims: claims are never found expired.
NothingExpires == {}

ExpiredClaims == {i \in Intents : row[i].status = "PUBLISHING" /\ row[i].expired}

\* Every matching row in one statement.
BuryExpiredClaims ==
    LET dead == {i \in ExpiredClaims : row[i].attempts >= PublishMax}
    IN  /\ dead # {}
        /\ row' = [i \in Intents |->
                     IF i \in dead
                       THEN [row[i] EXCEPT !.status = "DEAD", !.token = NoToken,
                                           !.expired = FALSE]
                       ELSE row[i]]
        /\ UNCHANGED <<publisher, queue, accepted>>

ReleaseExpiredClaims ==
    LET open == {i \in ExpiredClaims : row[i].attempts < PublishMax}
    IN  /\ open # {}
        /\ row' = [i \in Intents |->
                     IF i \in open
                       THEN [row[i] EXCEPT !.status = "PENDING", !.token = NoToken,
                                           !.due = TRUE, !.expired = FALSE]
                       ELSE row[i]]
        /\ UNCHANGED <<publisher, queue, accepted>>

-----------------------------------------------------------------------------
(* Time, and failures of the processes around the table *)

BecomesAvailable(i) ==
    /\ row[i].status = "PENDING" /\ ~row[i].due
    /\ row' = [row EXCEPT ![i].due = TRUE]
    /\ UNCHANGED <<publisher, queue, accepted>>

ClaimExpires(i) ==
    /\ row[i].status = "PUBLISHING" /\ ~row[i].expired
    /\ row' = [row EXCEPT ![i].expired = TRUE]
    /\ UNCHANGED <<publisher, queue, accepted>>

\* The task process dies with claims in memory.
PublisherCrash(p) ==
    /\ "crash" \in OutboxFaults
    /\ publisher[p] # {}
    /\ publisher' = [publisher EXCEPT ![p] = {}]
    /\ UNCHANGED <<row, queue, accepted>>

\* A message leaves the broker: acknowledged by a worker on delivery...
TakeMessage(i) ==
    /\ i \in queue
    /\ queue' = queue \ {i}
    /\ UNCHANGED <<row, publisher, accepted>>

\* ...or dropped, when the broker restarts or a worker dies holding it.
LoseMessage(i) ==
    /\ "lose" \in OutboxFaults
    /\ TakeMessage(i)

PublisherStep(p) ==
    \/ \E S \in SUBSET Intents : ClaimDue(p, S)
    \/ \E c \in publisher[p] :
         Enqueue(p, c) \/ MarkPublished(p, c) \/ MarkFailed(p, c)
    \/ PublisherCrash(p)

\* What happens to the outbox besides the creation of rows and the delivery
\* of messages, which belong to the processes around it.
OutboxInternal ==
    \/ \E p \in Publishers : PublisherStep(p)
    \/ BuryExpiredClaims
    \/ ReleaseExpiredClaims
    \/ \E i \in Intents :
         RetryDispatch(i) \/ BecomesAvailable(i) \/ ClaimExpires(i) \/ LoseMessage(i)

\* A row is created once: unique_ingestion_dispatch_per_generation.
OutboxNext ==
    \/ \E i \in Intents : row[i].status = "ABSENT" /\ CreateDispatches({i})
    \/ \E i \in Intents : TakeMessage(i)
    \/ OutboxInternal

\* Beat runs the publisher task every INGESTION_OUTBOX_PUBLISH_INTERVAL_SECONDS
\* (10): expired claims are reset, due rows are claimed, the loop goes on while
\* its process lives; clocks advance.  Nothing is assumed of the broker.
OutboxFairness ==
    /\ \A i \in Intents : WF_outboxVars(\E p \in Publishers, S \in SUBSET Intents :
                                          i \in S /\ ClaimDue(p, S))
    /\ \A p \in Publishers :
         WF_outboxVars(\E c \in publisher[p] :
                         Enqueue(p, c) \/ MarkPublished(p, c) \/ MarkFailed(p, c))
    /\ WF_outboxVars(BuryExpiredClaims)
    /\ WF_outboxVars(ReleaseExpiredClaims)
    /\ \A i \in Intents : WF_outboxVars(BecomesAvailable(i) \/ ClaimExpires(i))

OutboxSafety == OutboxInit /\ [][OutboxNext]_outboxVars

OutboxSpec == OutboxSafety /\ OutboxFairness

-----------------------------------------------------------------------------
(* Properties *)

\* The broker is tried at most INGESTION_OUTBOX_MAX_ATTEMPTS times for a row,
\* and once more for every use of retry_dispatch.  A publisher that outlived
\* its claim must not put the row back in line after a later claim spent the
\* last attempt.
AttemptsBounded ==
    \A i \in Intents : row[i].attempts <= PublishMax + row[i].retries

\* A row is marked PUBLISHED only for the claim it is in, and only when the
\* broker accepted the message of that very claim: the conditional update of
\* a slow publisher must not speak for its successor.
PublishedByItsClaim ==
    [][\A i \in Intents :
         row[i].status = "PUBLISHING" /\ row'[i].status = "PUBLISHED"
           => row[i].token \in accepted[i]]_outboxVars

\* A settled row (PUBLISHED or DEAD) stays settled whatever publishers and
\* resets do late; only retry_dispatch reopens it.
SettledUnlessRetried ==
    [][\A i \in Intents :
         row[i].status \in {"PUBLISHED", "DEAD"}
           => row'[i].status = row[i].status \/ row'[i].retries > row[i].retries]_outboxVars

\* Every row is eventually PUBLISHED or DEAD, through broker failures and
\* publishers dying with claims in memory: no row is left in PENDING or
\* PUBLISHING.
DispatchSettles ==
    \A i \in Intents :
      row[i].status \in {"PENDING", "PUBLISHING"}
        ~> row[i].status \in {"PUBLISHED", "DEAD"}

=============================================================================
