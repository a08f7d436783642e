---------------------------- MODULE SystemProofs ----------------------------
(***************************************************************************)
(* IngestionSystem implements Ingestion: what is proved of documents when  *)
(* messages may arrive at any time holds with the outbox and the broker in *)
(* between, whatever publishers and the queue do.  And no waiting job is   *)
(* forgotten between the table and a broker that keeps its messages.       *)
(***************************************************************************)
EXTENDS IngestionSystem, IngestionProofs

\* Each step contains a step of Ingestion, or leaves its variables alone.
LEMMA SystemStepIsIngestionStep ==
    ASSUME [SystemNext]_systemVars PROVE [Next]_vars
<1>1. CASE \E d \in Docs : UploadDocument(d)
  BY <1>1 DEF UploadDocument, Next
<1>2. CASE \E skipped \in SUBSET Docs : Recover(skipped)
  BY <1>2 DEF Recover, Recovery, Next
<1>3. CASE \E w \in Workers, k \in queue : Deliver(w, k) \/ Discard(w, k)
  <2>1. PICK w \in Workers, k \in queue : Deliver(w, k) \/ Discard(w, k)
    BY <1>3
  <2>2. CASE Deliver(w, k)
    <3>1. Claim(w, k) /\ k \in dispatched
      BY <2>2 DEF Deliver, Claim
    <3> QED
      BY <3>1 DEF Next
  <2>3. CASE Discard(w, k)
    BY <2>3 DEF Discard
  <2> QED
    BY <2>1, <2>2, <2>3
<1>4. CASE WorkOn
  BY <1>4 DEF WorkOn, Next
<1>5. CASE Outbox!OutboxInternal /\ UNCHANGED vars
  BY <1>5
<1>6. CASE UNCHANGED systemVars
  BY <1>6 DEF systemVars
<1> QED
  BY <1>1, <1>2, <1>3, <1>4, <1>5, <1>6 DEF SystemNext

\* Every behaviour of the system is a behaviour of Ingestion.
THEOREM SystemImplementsIngestion == SystemSafety => SafetySpec
<1>1. SystemInit => Init
  BY DEF SystemInit
<1> QED
  BY <1>1, SystemStepIsIngestionStep, PTL DEF SystemSafety, SafetySpec

\* With outbox and broker in between, what chat reads is still complete and
\* current, workers and cleaners keep out of each other's generations, what is
\* to be deleted stays scheduled, and a waiting job still has its intent and an
\* attempt left.
THEOREM SystemIsSafe ==
    SystemSafety => [](/\ VisibleComplete /\ VisibleIsCurrent
                       /\ SingleWriter /\ CleanerTargetsDead /\ CleanedIsEmpty
                       /\ StaleIsScheduled
                       /\ PendingHasIntent /\ ClaimsBounded)
BY SystemImplementsIngestion, VisibleIsComplete, VisibleAgrees, WritersAreAlone,
   CleanerIsHarmless, CleanedStaysEmpty, StaleGenerationsAreScheduled,
   WaitingJobsHaveIntents, ClaimsAreBounded, PTL

\* From upload to activation, through outbox, broker and workers, the owner of
\* a document sees the lifecycle of the abstract specification.
THEOREM SystemImplementsLifecycle == SystemSafety => ImplementsLifecycle
BY SystemImplementsIngestion, IngestionImplementsLifecycle


-----------------------------------------------------------------------------
(* A waiting job is carried, if the broker keeps its messages *)

\* The columns of a row that matter here, whatever the bound on retries.
Records ==
    [status   : {"ABSENT", "PENDING", "PUBLISHING", "PUBLISHED", "DEAD"},
     attempts : Nat, token : Nat, due : BOOLEAN, expired : BOOLEAN, retries : Nat]

CarrierTypeOK ==
    /\ row \in [Keys -> Records]
    /\ publisher \in [Publishers -> SUBSET Outbox!Claims]

\* Rows and claims exist exactly for the keys dispatched, none of which is of
\* a generation still to come.
IntentInv ==
    /\ \A k \in Keys : k \in dispatched <=> row[k].status # "ABSENT"
    /\ \A p \in Publishers : \A c \in publisher[p] : c.intent \in dispatched
    /\ \A k \in dispatched : k[2] <= job[k[1]].gen

\* The broker took a message of this key, and the table or a publisher says so.
Sent(k) ==
    \/ row[k].status = "PUBLISHED"
    \/ \E p \in Publishers : \E c \in publisher[p] :
         c.intent = k /\ c.outcome = "sent"

\* What was sent waits in the queue, until nobody may claim it any more.
SentInv == \A k \in Keys : Sent(k) => k \in queue \/ ~Claimable(k)

CarriedInv == CarrierTypeOK /\ IntentInv /\ SentInv

\* What a step may do to the generation of a job.
LEMMA WalkedGeneration ==
    ASSUME SafetyInv, [Next]_vars, NEW d \in Docs
    PROVE  \/ /\ job'[d].gen = job[d].gen
              /\ job'[d].status = job[d].status \/ job'[d].status # "PENDING"
           \/ job'[d].gen = job[d].gen + 1
<1>1. Walks(d)
  BY NextWalks DEF SafetyInv
<1>2. CASE Appears(d)
  BY <1>2, Zenon DEF Appears, Moves
<1>3. CASE ~Appears(d)
  BY <1>1, <1>3 DEF Walks, Stays, Restarts, Moves
<1> QED
  BY <1>2, <1>3

\* Once a key that was dispatched cannot be claimed it never can be: its job
\* leaves PENDING only for good or for a later generation.
LEMMA NeverClaimableAgain ==
    ASSUME SafetyInv, [Next]_vars, IntentInv,
           NEW k \in dispatched, k \in Keys, ~Claimable(k)
    PROVE  ~Claimable(k)'
<1>1. k[1] \in Docs /\ k[2] \in Nat /\ job[k[1]] \in OpenJobs
  BY DEF SafetyInv, CoreInv, CoreTypeOK, Keys, Docs, Generations
<1>2. \/ /\ job'[k[1]].gen = job[k[1]].gen
         /\ \/ job'[k[1]].status = job[k[1]].status
            \/ job'[k[1]].status # "PENDING"
      \/ job'[k[1]].gen = job[k[1]].gen + 1
  BY <1>1, WalkedGeneration
<1>3. k[2] <= job[k[1]].gen /\ job[k[1]].gen \in Nat
  BY <1>1, IngestionAssumption DEF IntentInv, OpenJobs
<1> QED
  BY <1>1, <1>2, <1>3 DEF Claimable, IsCurrent

\* Generations are only drawn upwards.
LEMMA GenerationsGrow ==
    ASSUME SafetyInv, [Next]_vars, NEW d \in Docs
    PROVE  job[d].gen <= job'[d].gen
<1>1. job[d].gen \in Nat
  BY IngestionAssumption DEF SafetyInv, CoreInv, CoreTypeOK, OpenJobs
<1> QED
  BY <1>1, WalkedGeneration

\* Steps that dispatch nothing keep the intents among the generations drawn.
LEMMA DispatchedStayDrawn ==
    ASSUME SafetyInv, [Next]_vars, IntentInv, NEW k \in dispatched, k \in Keys,
           job' \in [Docs -> OpenJobs]
    PROVE  k[2] <= job'[k[1]].gen
<1>1. k[1] \in Docs /\ k[2] \in Nat
  BY DEF Keys, Docs, Generations
<1>2. job[k[1]].gen \in Nat /\ job'[k[1]].gen \in Nat
  BY <1>1, IngestionAssumption DEF SafetyInv, CoreInv, CoreTypeOK, OpenJobs
<1> QED
  BY <1>1, <1>2, GenerationsGrow DEF IntentInv

\* The new intents of an upload or a recovery are of generations just drawn.
LEMMA NewIntentsAreDrawn ==
    ASSUME SafetyInv, SafetyInv', NEW k \in dispatched' \ dispatched,
           \/ \E d \in Docs : Upload(d)
           \/ \E skipped \in SUBSET Docs :
                RecoverStaleJobs(skipped) \/ ReindexLegacy(skipped)
    PROVE  k[2] <= job'[k[1]].gen
<1>1. job \in [Docs -> OpenJobs]
  BY DEF SafetyInv, CoreInv, CoreTypeOK
<1>2. CASE \E d \in Docs : Upload(d)
  <2>1. PICK d \in Docs : Upload(d)
    BY <1>2
  <2>2. k = <<d, 1>> /\ job'[d].gen = 1
    BY <1>1, <2>1 DEF Upload, OpenJobs
  <2> QED
    BY <2>2
<1>3. ASSUME NEW S \in SUBSET Docs, k \in NewIntents(S),
             \A d \in S : job'[d] = Rotated(job[d])
      PROVE  k[2] <= job'[k[1]].gen
  <2>1. PICK d \in S : k[1] = d /\ k[2] = job[d].gen + 1
    BY <1>3 DEF NewIntents
  <2>2. job'[d].gen = job[d].gen + 1
    <3>1. job[d] \in OpenJobs /\ job'[d] = Rotated(job[d])
      BY <1>1, <1>3
    <3> QED
      BY <3>1 DEF Rotated, OpenJobs
  <2>3. job[d].gen + 1 \in Nat
    BY <1>1, IngestionAssumption DEF OpenJobs
  <2>4. k[2] = job'[k[1]].gen /\ k[2] \in Nat
    BY <2>1, <2>2, <2>3, Zenon
  <2> QED
    BY <2>4
<1>4. ASSUME NEW skipped \in SUBSET Docs, RecoverStaleJobs(skipped)
      PROVE  k[2] <= job'[k[1]].gen
  <2> DEFINE stale  == {e \in Docs : IsStale(e) /\ (Exhausted(e) \/ HasGenerations(e))}
             batch  == Oldest(stale \ skipped)
             given  == {e \in batch : Exhausted(e)}
             rotate == batch \ given
  <2>1. rotate \in SUBSET Docs /\ k \in NewIntents(rotate)
    BY <1>4 DEF RecoverStaleJobs, Oldest
  <2>2. \A d \in rotate : job'[d] = Rotated(job[d])
    BY <1>4, <2>1 DEF RecoverStaleJobs
  <2> HIDE DEF rotate
  <2> QED
    BY <1>3, <2>1, <2>2
<1>5. ASSUME NEW skipped \in SUBSET Docs, ReindexLegacy(skipped)
      PROVE  k[2] <= job'[k[1]].gen
  <2> DEFINE legacy == {d \in Docs : /\ job[d].status = "SUCCESS" /\ active[d] = None
                                     /\ HasGenerations(d)}
             batch  == Oldest(legacy \ skipped)
  <2>1. batch \in SUBSET Docs /\ k \in NewIntents(batch)
    BY <1>5 DEF ReindexLegacy, Oldest
  <2>2. \A d \in batch : job'[d] = Rotated(job[d])
    BY <1>5, <2>1 DEF ReindexLegacy
  <2> HIDE DEF batch
  <2> QED
    BY <1>3, <2>1, <2>2
<1> QED
  BY <1>2, <1>4, <1>5

\* A transaction that creates rows: new keys were never sent, the others keep
\* what was said of them.
LEMMA CreationCarries ==
    ASSUME SafetyInv, SafetyInv', [Next]_vars, CarriedInv,
           NEW S \in SUBSET Keys, Outbox!CreateDispatches(S),
           dispatched' = dispatched \cup S,
           \A k \in dispatched' \ dispatched : k[2] <= job'[k[1]].gen
    PROVE  CarriedInv'
<1>1. dispatched \subseteq Keys /\ job' \in [Docs -> OpenJobs]
  BY DEF SafetyInv, CoreInv, CoreTypeOK
<1>2. /\ publisher' = publisher /\ queue' = queue
      /\ \A k \in Keys : row'[k].status = IF k \in S THEN "PENDING" ELSE row[k].status
  BY DEF Outbox!CreateDispatches, Outbox!AbsentRow
<1>3. CarrierTypeOK'
  <2>1. [Outbox!AbsentRow EXCEPT !.status = "PENDING", !.due = TRUE] \in Records
    BY DEF Outbox!AbsentRow, Outbox!NoToken, Records
  <2> QED
    BY <1>2, <2>1 DEF CarriedInv, CarrierTypeOK, Outbox!CreateDispatches
<1>4. IntentInv'
  <2>1. \A k \in Keys : k \in dispatched' <=> row'[k].status # "ABSENT"
    BY <1>2 DEF CarriedInv, IntentInv
  <2>2. \A k \in dispatched' : k[2] <= job'[k[1]].gen
    BY <1>1, DispatchedStayDrawn DEF CarriedInv
  <2> QED
    BY <1>2, <2>1, <2>2 DEF CarriedInv, IntentInv
<1>5. ASSUME NEW k \in Keys, Sent(k)'
      PROVE  k \in queue' \/ ~Claimable(k)'
  <2>1. Sent(k)
    BY <1>2, <1>5 DEF Sent
  <2>2. k \in dispatched
    BY <2>1 DEF Sent, CarriedInv, IntentInv
  <2> QED
    BY <1>2, <2>1, <2>2, NeverClaimableAgain DEF CarriedInv, SentInv
<1> QED
  BY <1>3, <1>4, <1>5 DEF CarriedInv, SentInv

\* What a step of the outbox alone has to respect.
LEMMA OutboxStepCarries ==
    ASSUME CarriedInv, UNCHANGED vars, CarrierTypeOK', queue \subseteq queue',
           \A k \in Keys : row'[k].status = "ABSENT" <=> row[k].status = "ABSENT",
           \A p \in Publishers : \A c \in publisher'[p] : c.intent \in dispatched,
           \A k \in Keys : Sent(k)' => Sent(k) \/ k \in queue'
    PROVE  CarriedInv'
<1>1. job' = job /\ dispatched' = dispatched
  BY DEF vars
<1>2. IntentInv'
  BY <1>1 DEF CarriedInv, IntentInv
<1>3. SentInv'
  <2> SUFFICES ASSUME NEW k \in Keys, Sent(k)'
               PROVE  k \in queue' \/ ~Claimable(k)'
    BY DEF SentInv
  <2>1. Claimable(k)' <=> Claimable(k)
    BY <1>1 DEF Claimable, IsCurrent
  <2> QED
    BY <2>1 DEF CarriedInv, SentInv
<1> QED
  BY <1>2, <1>3 DEF CarriedInv

\* Steps that change rows alone, and make none PUBLISHED.
LEMMA RowStepCarries ==
    ASSUME CarriedInv, UNCHANGED vars, UNCHANGED <<publisher, queue>>,
           row' \in [Keys -> Records],
           \A k \in Keys :
             /\ row'[k].status = "ABSENT" <=> row[k].status = "ABSENT"
             /\ row'[k].status = "PUBLISHED" => row[k].status = "PUBLISHED"
    PROVE  CarriedInv'
<1>1. CarrierTypeOK'
  BY DEF CarriedInv, CarrierTypeOK
<1>2. \A k \in Keys : Sent(k)' => Sent(k)
  BY DEF Sent
<1> QED
  BY <1>1, <1>2, OutboxStepCarries DEF CarriedInv, IntentInv

\* Resets, retries and the clocks.
LEMMA RowsCarry ==
    ASSUME CarriedInv, UNCHANGED vars,
           \/ Outbox!BuryExpiredClaims \/ Outbox!ReleaseExpiredClaims
           \/ \E k \in Keys : \/ Outbox!RetryDispatch(k)
                              \/ Outbox!BecomesAvailable(k)
                              \/ Outbox!ClaimExpires(k)
    PROVE  CarriedInv'
<1>1. row \in [Keys -> Records]
  BY DEF CarriedInv, CarrierTypeOK
<1>2. CASE Outbox!BuryExpiredClaims
  BY <1>1, <1>2, RowStepCarries
  DEF Outbox!BuryExpiredClaims, Outbox!ExpiredClaims, Outbox!NoToken, Records
<1>3. CASE Outbox!ReleaseExpiredClaims
  BY <1>1, <1>3, RowStepCarries
  DEF Outbox!ReleaseExpiredClaims, Outbox!ExpiredClaims, Outbox!NoToken, Records
<1>4. ASSUME NEW k \in Keys, Outbox!RetryDispatch(k) PROVE CarriedInv'
  <2> DEFINE new == [row[k] EXCEPT !.status = "PENDING", !.token = 0, !.due = TRUE,
                                   !.expired = FALSE, !.retries = @ + 1]
  <2>1. row' = [row EXCEPT ![k] = new]
    BY <1>1, <1>4 DEF Outbox!RetryDispatch, Outbox!NoToken
  <2>2. new \in Records /\ new.status = "PENDING" /\ row[k].status # "ABSENT"
    <3>1. row[k] \in Records
      BY <1>1
    <3>2. row[k].retries + 1 \in Nat
      BY <3>1 DEF Records
    <3> QED
      BY <1>4, <3>1, <3>2 DEF Outbox!RetryDispatch, Records
  <2> HIDE DEF new
  <2>3. row' \in [Keys -> Records]
    BY <1>1, <2>1, <2>2
  <2>4. \A i \in Keys :
          /\ row'[i].status = "ABSENT" <=> row[i].status = "ABSENT"
          /\ row'[i].status = "PUBLISHED" => row[i].status = "PUBLISHED"
    BY <1>1, <2>1, <2>2
  <2>5. UNCHANGED <<publisher, queue>>
    BY <1>4 DEF Outbox!RetryDispatch
  <2> QED
    BY <2>3, <2>4, <2>5, RowStepCarries
<1>5. ASSUME NEW k \in Keys, Outbox!BecomesAvailable(k) PROVE CarriedInv'
  BY <1>1, <1>5, RowStepCarries DEF Outbox!BecomesAvailable, Records
<1>6. ASSUME NEW k \in Keys, Outbox!ClaimExpires(k) PROVE CarriedInv'
  BY <1>1, <1>6, RowStepCarries DEF Outbox!ClaimExpires, Records
<1> QED
  BY <1>2, <1>3, <1>4, <1>5, <1>6

\* A publisher claims rows that exist, and has sent nothing of them yet.
LEMMA ClaimDueCarries ==
    ASSUME CarriedInv, UNCHANGED vars,
           NEW p \in Publishers, NEW S \in SUBSET Keys, Outbox!ClaimDue(p, S)
    PROVE  CarriedInv'
<1>1. row \in [Keys -> Records] /\ publisher \in [Publishers -> SUBSET Outbox!Claims]
  BY DEF CarriedInv, CarrierTypeOK
<1> DEFINE C == {[intent |-> k, attempt |-> row[k].attempts + 1,
                  outcome |-> "todo"] : k \in S}
<1>2. publisher' = [publisher EXCEPT ![p] = C]
  BY DEF Outbox!ClaimDue
<1>3. C \subseteq Outbox!Claims
  BY <1>1 DEF Outbox!Claims, Records
<1>4. \A c \in C : c.intent \in dispatched /\ c.outcome = "todo"
  BY DEF Outbox!ClaimDue, Outbox!Due, CarriedInv, IntentInv
<1> HIDE DEF C
<1>5. row' \in [Keys -> Records]
  <2>1. ASSUME NEW r \in Records PROVE Outbox!ClaimedRow(r) \in Records
    <3>1. r.attempts + 1 \in Nat
      BY DEF Records
    <3> QED
      BY <3>1 DEF Outbox!ClaimedRow, Records
  <2> QED
    BY <1>1, <2>1 DEF Outbox!ClaimDue
<1>6. \A k \in Keys :
        /\ row'[k].status = "ABSENT" <=> row[k].status = "ABSENT"
        /\ row'[k].status = "PUBLISHED" => row[k].status = "PUBLISHED"
  BY <1>1 DEF Outbox!ClaimDue, Outbox!Due, Outbox!ClaimedRow, Records
<1>7. CarrierTypeOK'
  BY <1>1, <1>2, <1>3, <1>5 DEF CarrierTypeOK
<1>8. \A q \in Publishers : \A c \in publisher'[q] :
        c.intent \in dispatched /\ (c \in publisher[q] \/ c.outcome = "todo")
  BY <1>1, <1>2, <1>4 DEF CarriedInv, IntentInv
<1>9. \A k \in Keys : Sent(k)' => Sent(k)
  BY <1>6, <1>8 DEF Sent
<1>10. queue' = queue
  BY DEF Outbox!ClaimDue
<1> QED
  BY <1>6, <1>7, <1>8, <1>9, <1>10, OutboxStepCarries

\* A claim is marked as sent only when the broker took its message.
LEMMA EnqueueCarries ==
    ASSUME CarriedInv, UNCHANGED vars,
           NEW p \in Publishers, NEW c \in publisher[p], Outbox!Enqueue(p, c)
    PROVE  CarriedInv'
<1>1. row \in [Keys -> Records] /\ publisher \in [Publishers -> SUBSET Outbox!Claims]
  BY DEF CarriedInv, CarrierTypeOK
<1>2. c \in Outbox!Claims /\ c.intent \in dispatched
  BY <1>1 DEF CarriedInv, IntentInv
<1>3. PICK outcome \in {"sent", "failed"} :
        /\ publisher' = [publisher EXCEPT ![p] =
                           (@ \ {c}) \cup {[c EXCEPT !.outcome = outcome]}]
        /\ queue \subseteq queue'
        /\ outcome = "sent" => c.intent \in queue'
  BY DEF Outbox!Enqueue
<1> DEFINE new == [c EXCEPT !.outcome = outcome]
<1>4. /\ new \in Outbox!Claims
      /\ new.intent = c.intent
      /\ new.outcome = "sent" => c.intent \in queue'
  BY <1>2, <1>3 DEF Outbox!Claims
<1>5. publisher' = [publisher EXCEPT ![p] = (@ \ {c}) \cup {new}]
  BY <1>3
<1> HIDE DEF new
<1>6. row' = row
  BY DEF Outbox!Enqueue
<1>7. CarrierTypeOK'
  BY <1>1, <1>4, <1>5, <1>6 DEF CarrierTypeOK
<1>8. \A q \in Publishers : \A e \in publisher'[q] : e \in publisher[q] \/ e = new
  BY <1>1, <1>5
<1>9. \A q \in Publishers : \A e \in publisher'[q] : e.intent \in dispatched
  BY <1>2, <1>4, <1>8 DEF CarriedInv, IntentInv
<1>10. \A k \in Keys : Sent(k)' => Sent(k) \/ k \in queue'
  BY <1>4, <1>6, <1>8 DEF Sent
<1> QED
  BY <1>3, <1>6, <1>7, <1>9, <1>10, OutboxStepCarries

\* The updates after the broker call, and a publisher's death.
LEMMA ForgettingCarries ==
    ASSUME CarriedInv, UNCHANGED vars, NEW p \in Publishers,
           \/ Outbox!PublisherCrash(p)
           \/ \E c \in publisher[p] : Outbox!MarkPublished(p, c) \/ Outbox!MarkFailed(p, c)
    PROVE  CarriedInv'
<1>1. row \in [Keys -> Records] /\ publisher \in [Publishers -> SUBSET Outbox!Claims]
  BY DEF CarriedInv, CarrierTypeOK
<1>2. ASSUME row' \in [Keys -> Records], queue' = queue,
             NEW left \in SUBSET publisher[p],
             publisher' = [publisher EXCEPT ![p] = left],
             \A k \in Keys :
               /\ row'[k].status = "ABSENT" <=> row[k].status = "ABSENT"
               /\ row'[k].status = "PUBLISHED" => Sent(k)
      PROVE  CarriedInv'
  <2>1. \A q \in Publishers : publisher'[q] \subseteq publisher[q]
    BY <1>1, <1>2
  <2>2. CarrierTypeOK'
    BY <1>1, <1>2 DEF CarrierTypeOK
  <2>3. \A k \in Keys : Sent(k)' => Sent(k)
    BY <1>2, <2>1 DEF Sent
  <2>4. \A q \in Publishers : \A c \in publisher'[q] : c.intent \in dispatched
    BY <2>1 DEF CarriedInv, IntentInv
  <2> QED
    BY <1>2, <2>2, <2>3, <2>4, OutboxStepCarries
<1>3. CASE Outbox!PublisherCrash(p)
  BY <1>1, <1>2, <1>3 DEF Outbox!PublisherCrash, Sent
<1>4. ASSUME NEW c \in publisher[p], Outbox!MarkPublished(p, c) PROVE CarriedInv'
  <2>1. c \in Outbox!Claims
    BY <1>1
  <2>2. c.intent \in Keys /\ Sent(c.intent)
    BY <1>4, <2>1 DEF Outbox!Claims, Outbox!MarkPublished, Sent
  <2>3. row' \in [Keys -> Records]
    BY <1>1, <1>4 DEF Outbox!MarkPublished, Outbox!NoToken, Records
  <2>4. \A k \in Keys :
          /\ row'[k].status = "ABSENT" <=> row[k].status = "ABSENT"
          /\ row'[k].status = "PUBLISHED" => row[k].status = "PUBLISHED" \/ k = c.intent
    BY <1>1, <1>4, <2>2 DEF Outbox!MarkPublished, Outbox!HoldsClaim, Records
  <2>5. \A k \in Keys : row'[k].status = "PUBLISHED" => Sent(k)
    BY <2>2, <2>4 DEF Sent
  <2>6. queue' = queue /\ publisher' = [publisher EXCEPT ![p] = publisher[p] \ {c}]
    BY <1>4 DEF Outbox!MarkPublished, Outbox!Forget
  <2> QED
    BY <1>2, <2>3, <2>4, <2>5, <2>6
<1>5. ASSUME NEW c \in publisher[p], Outbox!MarkFailed(p, c) PROVE CarriedInv'
  <2>1. c.intent \in Keys
    BY <1>1 DEF Outbox!Claims
  <2> DEFINE status == Outbox!StatusAfterFailure(c.attempt)
             new == [row[c.intent] EXCEPT !.status = status, !.token = 0,
                                          !.due = FALSE, !.expired = FALSE]
  <2>2. status \in {"DEAD", "PENDING"}
    BY DEF Outbox!StatusAfterFailure
  <2>3. row' = IF Outbox!HoldsClaim(c) THEN [row EXCEPT ![c.intent] = new] ELSE row
    BY <1>1, <1>5, <2>1 DEF Outbox!MarkFailed, Outbox!NoToken
  <2> HIDE DEF status
  <2>4. new \in Records /\ new.status = status
    BY <1>1, <2>1, <2>2 DEF Records
  <2> HIDE DEF new
  <2>5. row' \in [Keys -> Records]
    BY <1>1, <2>3, <2>4
  <2>6. \A k \in Keys :
          /\ row'[k].status = "ABSENT" <=> row[k].status = "ABSENT"
          /\ row'[k].status = "PUBLISHED" => row[k].status = "PUBLISHED"
    BY <1>1, <2>1, <2>2, <2>3, <2>4 DEF Outbox!HoldsClaim
  <2>7. queue' = queue /\ publisher' = [publisher EXCEPT ![p] = publisher[p] \ {c}]
    BY <1>5 DEF Outbox!MarkFailed, Outbox!Forget
  <2> QED
    BY <1>2, <2>5, <2>6, <2>7 DEF Sent
<1> QED
  BY <1>3, <1>4, <1>5

\* The outbox on its own, as long as no message is lost.
LEMMA OutboxCarries ==
    ASSUME CarriedInv, UNCHANGED vars, Outbox!OutboxInternal,
           "lose" \notin OutboxFaults
    PROVE  CarriedInv'
<1>1. ASSUME NEW p \in Publishers, Outbox!PublisherStep(p) PROVE CarriedInv'
  BY <1>1, ClaimDueCarries, EnqueueCarries, ForgettingCarries DEF Outbox!PublisherStep
<1>2. CASE Outbox!BuryExpiredClaims \/ Outbox!ReleaseExpiredClaims
  BY <1>2, RowsCarry
<1>3. ASSUME NEW k \in Keys,
             \/ Outbox!RetryDispatch(k) \/ Outbox!BecomesAvailable(k)
             \/ Outbox!ClaimExpires(k) \/ Outbox!LoseMessage(k)
      PROVE  CarriedInv'
  BY <1>3, RowsCarry DEF Outbox!LoseMessage
<1> QED
  BY <1>1, <1>2, <1>3 DEF Outbox!OutboxInternal

\* A worker takes a message: the job is claimed, or could not be.
LEMMA TakingCarries ==
    ASSUME SafetyInv, SafetyInv', [Next]_vars, CarriedInv,
           NEW w \in Workers, NEW k \in queue, Deliver(w, k) \/ Discard(w, k)
    PROVE  CarriedInv'
<1>1. /\ job \in [Docs -> OpenJobs] /\ dispatched \subseteq Keys
      /\ job' \in [Docs -> OpenJobs]
      /\ k \in Keys => k[1] \in Docs
  BY DEF SafetyInv, CoreInv, CoreTypeOK, Keys
<1>2. /\ queue' = queue \ {k} /\ dispatched' = dispatched
      /\ row' = row /\ publisher' = publisher
  BY DEF Deliver, Discard, Claim, Outbox!TakeMessage, vars
<1>3. ~Claimable(k)'
  <2>1. CASE Deliver(w, k)
    BY <1>1, <2>1 DEF Deliver, Claim, Claimable, OpenJobs
  <2>2. CASE Discard(w, k)
    BY <2>2 DEF Discard, Claimable, IsCurrent, vars
  <2> QED
    BY <2>1, <2>2
<1>4. CarrierTypeOK'
  BY <1>2 DEF CarriedInv, CarrierTypeOK
<1>5. IntentInv'
  BY <1>1, <1>2, DispatchedStayDrawn DEF CarriedInv, IntentInv
<1>6. SentInv'
  <2> SUFFICES ASSUME NEW i \in Keys, Sent(i)'
               PROVE  i \in queue' \/ ~Claimable(i)'
    BY DEF SentInv
  <2>1. Sent(i) /\ i \in dispatched
    BY <1>2 DEF Sent, CarriedInv, IntentInv
  <2> QED
    BY <1>2, <1>3, <2>1, NeverClaimableAgain DEF CarriedInv, SentInv
<1> QED
  BY <1>4, <1>5, <1>6 DEF CarriedInv

\* Workers, cleaners and time dispatch nothing and touch no message.
LEMMA WorkCarries ==
    ASSUME SafetyInv, SafetyInv', [Next]_vars, CarriedInv,
           UNCHANGED outbox, dispatched' = dispatched
    PROVE  CarriedInv'
<1>1. job' \in [Docs -> OpenJobs] /\ dispatched \subseteq Keys
  BY DEF SafetyInv, CoreInv, CoreTypeOK
<1>2. queue' = queue /\ row' = row /\ publisher' = publisher
  BY DEF outbox
<1>3. CarrierTypeOK'
  BY <1>2 DEF CarriedInv, CarrierTypeOK
<1>4. IntentInv'
  BY <1>1, <1>2, DispatchedStayDrawn DEF CarriedInv, IntentInv
<1>5. SentInv'
  <2> SUFFICES ASSUME NEW i \in Keys, Sent(i)'
               PROVE  i \in queue' \/ ~Claimable(i)'
    BY DEF SentInv
  <2>1. Sent(i) /\ i \in dispatched
    BY <1>2 DEF Sent, CarriedInv, IntentInv
  <2> QED
    BY <1>2, <2>1, NeverClaimableAgain DEF CarriedInv, SentInv
<1> QED
  BY <1>3, <1>4, <1>5 DEF CarriedInv

LEMMA InitCarries == SystemInit => CarriedInv
<1> SUFFICES ASSUME SystemInit PROVE CarriedInv
  OBVIOUS
<1>1. /\ row = [k \in Keys |-> Outbox!AbsentRow]
      /\ publisher = [p \in Publishers |-> {}]
      /\ dispatched = {}
  BY DEF SystemInit, Init, Outbox!OutboxInit
<1>2. Outbox!AbsentRow \in Records /\ Outbox!AbsentRow.status = "ABSENT"
  BY DEF Outbox!AbsentRow, Outbox!NoToken, Records
<1> QED
  BY <1>1, <1>2 DEF CarriedInv, CarrierTypeOK, IntentInv, SentInv, Sent

LEMMA SystemStepCarries ==
    ASSUME SafetyInv, SafetyInv', CarriedInv, [SystemNext]_systemVars,
           "lose" \notin OutboxFaults
    PROVE  CarriedInv'
<1>1. [Next]_vars
  BY SystemStepIsIngestionStep
<1>2. dispatched \subseteq Keys /\ dispatched' \subseteq Keys
  BY DEF SafetyInv, CoreInv, CoreTypeOK
<1>3. ASSUME NEW d \in Docs, UploadDocument(d) PROVE CarriedInv'
  <2>1. Upload(d) /\ Outbox!CreateDispatches({<<d, 1>>})
    BY <1>3 DEF UploadDocument
  <2>2. dispatched' = dispatched \cup {<<d, 1>>}
    BY <2>1 DEF Upload
  <2>3. {<<d, 1>>} \in SUBSET Keys
    BY <1>2, <2>2
  <2>4. \A k \in dispatched' \ dispatched : k[2] <= job'[k[1]].gen
    BY <2>1, NewIntentsAreDrawn
  <2> QED
    BY <1>1, <2>1, <2>2, <2>3, <2>4, CreationCarries
<1>4. ASSUME NEW skipped \in SUBSET Docs, Recover(skipped) PROVE CarriedInv'
  <2>1. /\ RecoverStaleJobs(skipped) \/ ReindexLegacy(skipped)
        /\ Outbox!CreateDispatches(dispatched' \ dispatched)
    BY <1>4 DEF Recover
  <2>2. dispatched \subseteq dispatched'
    BY <2>1 DEF RecoverStaleJobs, ReindexLegacy
  <2>3. /\ dispatched' \ dispatched \in SUBSET Keys
        /\ dispatched' = dispatched \cup (dispatched' \ dispatched)
    BY <1>2, <2>2
  <2>4. \A k \in dispatched' \ dispatched : k[2] <= job'[k[1]].gen
    BY <2>1, NewIntentsAreDrawn
  <2> QED
    BY <1>1, <2>1, <2>3, <2>4, CreationCarries
<1>5. ASSUME NEW w \in Workers, NEW k \in queue, Deliver(w, k) \/ Discard(w, k)
      PROVE  CarriedInv'
  BY <1>1, <1>5, TakingCarries
<1>6. CASE WorkOn
  <2>1. UNCHANGED outbox
    BY <1>6 DEF WorkOn
  <2>2. dispatched' = dispatched
    BY <1>6
    DEF WorkOn, WorkerStep, CleanerStep, Tick, OpenManifest, WriteChunks, WriteRaises,
        Readback, PipelineRaises, Activate, Reject, Disown, WorkerCrash, ReadLive,
        ReadDue, LookUp, Delete, DeleteRaises, SaveCleaned, SaveFailure, CleanerCrash,
        JobAges, LeaseExpires, CleanupFallsDue
  <2> QED
    BY <1>1, <2>1, <2>2, WorkCarries
<1>7. CASE Outbox!OutboxInternal /\ UNCHANGED vars
  BY <1>7, OutboxCarries
<1>8. CASE UNCHANGED systemVars
  <2>1. UNCHANGED outbox /\ dispatched' = dispatched
    BY <1>8 DEF systemVars, vars
  <2> QED
    BY <1>1, <2>1, WorkCarries
<1> QED
  BY <1>3, <1>4, <1>5, <1>6, <1>7, <1>8 DEF SystemNext

\* If the broker keeps its messages, a job that waits is never forgotten by
\* outbox and broker together: its row is open or DEAD, or its message queued.
THEOREM WaitingJobsAreCarried ==
    ASSUME "lose" \notin OutboxFaults
    PROVE  SystemSafety => []WaitingJobIsCarried
<1>1. SafetyInv /\ SafetyInv' /\ CarriedInv /\ [SystemNext]_systemVars => CarriedInv'
  BY SystemStepCarries
<1>2. SafetyInv /\ CarriedInv => WaitingJobIsCarried
  <2> SUFFICES ASSUME SafetyInv, CarriedInv, NEW d \in Docs,
                      job[d].status = "PENDING", Current(d) \in dispatched
               PROVE  \/ row[Current(d)].status \in {"PENDING", "PUBLISHING", "DEAD"}
                      \/ Current(d) \in queue
    BY DEF WaitingJobIsCarried
  <2>1. Current(d) \in Keys /\ Claimable(Current(d))
    BY DEF SafetyInv, CoreInv, CoreTypeOK, Current, Claimable, IsCurrent
  <2>2. row[Current(d)].status \in
          {"PENDING", "PUBLISHING", "PUBLISHED", "DEAD"}
    BY <2>1 DEF CarriedInv, CarrierTypeOK, IntentInv, Records
  <2> QED
    BY <2>1, <2>2 DEF CarriedInv, SentInv, Sent
<1>3. SystemSafety => []SafetyInv
  BY SystemImplementsIngestion, SafetyInvariant
<1>4. SystemInit => CarriedInv
  BY InitCarries
<1> QED
  BY <1>1, <1>2, <1>3, <1>4, PTL DEF SystemSafety

=============================================================================
