--------------------------- MODULE IngestionSystem ---------------------------
(***************************************************************************)
(* Ingestion joined to the outbox and the broker: a message reaches a      *)
(* worker only after a publisher handed it to the broker, is acknowledged  *)
(* when the worker receives it (Celery's default), and may be lost.  Every *)
(* step is a step of Ingestion, or one of DispatchOutbox that leaves the   *)
(* rows of Ingestion alone, or both at once when they share a transaction. *)
(***************************************************************************)
EXTENDS Ingestion

CONSTANTS Publishers, PublishMax, PublishLimit, MaxRetries, OutboxFaults

VARIABLES row, publisher, queue, accepted

Outbox == INSTANCE DispatchOutbox WITH Intents <- Keys

outbox == <<row, publisher, queue, accepted>>

systemVars == <<vars, outbox>>

SystemInit == Init /\ Outbox!OutboxInit

\* The transaction of the upload.
UploadDocument(d) == Upload(d) /\ Outbox!CreateDispatches({<<d, 1>>})

\* The transactions of recovery: an outbox row for each rotated job.
Recover(skipped) ==
    /\ RecoverStaleJobs(skipped) \/ ReindexLegacy(skipped)
    /\ Outbox!CreateDispatches(dispatched' \ dispatched)

\* A worker receives a message and claims the job.
Deliver(w, k) == Outbox!TakeMessage(k) /\ Claim(w, k)

\* A worker receives a message whose generation it cannot claim.
Discard(w, k) ==
    /\ pc[w] = "idle"
    /\ ~Claimable(k)
    /\ Outbox!TakeMessage(k)
    /\ UNCHANGED vars

\* What Ingestion does without the outbox.
WorkOn ==
    /\ \/ \E w \in Workers : WorkerStep(w) \/ WorkerCrash(w)
       \/ \E c \in Cleaners : CleanerStep(c) \/ CleanerCrash(c)
       \/ Tick
    /\ UNCHANGED outbox

SystemNext ==
    \/ \E d \in Docs : UploadDocument(d)
    \/ \E skipped \in SUBSET Docs : Recover(skipped)
    \/ \E w \in Workers, k \in queue : Deliver(w, k) \/ Discard(w, k)
    \/ WorkOn
    \/ Outbox!OutboxInternal /\ UNCHANGED vars

\* The fairness of both parts; an idle worker takes what waits in the queue.
SystemFairness ==
    /\ \A w \in Workers :
         WF_systemVars(WorkerStep(w) /\ UNCHANGED outbox)
    /\ WF_systemVars(Recover({}))
    /\ \A k \in Keys :
         WF_systemVars(\E w \in Workers : Deliver(w, k) \/ Discard(w, k))
    /\ \A d \in Docs :
         /\ WF_systemVars(JobAges(d) /\ UNCHANGED outbox)
         /\ WF_systemVars(LeaseExpires(d) /\ UNCHANGED outbox)
    /\ \A k \in Keys :
         WF_systemVars(/\ \E p \in Publishers, S \in SUBSET Keys :
                            k \in S /\ Outbox!ClaimDue(p, S)
                       /\ UNCHANGED vars)
    /\ \A p \in Publishers :
         WF_systemVars(/\ \E c \in publisher[p] :
                            \/ Outbox!Enqueue(p, c)
                            \/ Outbox!MarkPublished(p, c)
                            \/ Outbox!MarkFailed(p, c)
                       /\ UNCHANGED vars)
    /\ WF_systemVars(Outbox!BuryExpiredClaims /\ UNCHANGED vars)
    /\ WF_systemVars(Outbox!ReleaseExpiredClaims /\ UNCHANGED vars)
    /\ \A k \in Keys :
         WF_systemVars(/\ Outbox!BecomesAvailable(k) \/ Outbox!ClaimExpires(k)
                       /\ UNCHANGED vars)

SystemSafety == SystemInit /\ [][SystemNext]_systemVars

SystemSpec == SystemSafety /\ SystemFairness

-----------------------------------------------------------------------------
(* Properties *)

\* As long as the broker keeps its messages, a job that waits is never
\* forgotten: the intent for its generation is still open, or its message is
\* queued, or the row is DEAD for an operator to see.  Publishers may die
\* between the broker call and the update, and brokers may accept a message
\* and report a failure.
WaitingJobIsCarried ==
    \A d \in Docs :
      job[d].status = "PENDING" /\ Current(d) \in dispatched
        => \/ row[Current(d)].status \in {"PENDING", "PUBLISHING", "DEAD"}
           \/ Current(d) \in queue

\* What stops a document in the last generation the model grants: its row is
\* DEAD for an operator to see, or its worker died.
OutOfGenerations(d) ==
    /\ job[d].gen = MaxGen
    /\ row[Current(d)].status = "DEAD" \/ job[d].lease = "expired"

\* From upload to a final status through outbox, broker and worker: a document
\* reaches SUCCESS or FAILURE although recovery may overtake the queue and void
\* the message in it, publishers and workers die, and the broker refuses
\* messages or accepts them and reports a failure.
UploadSettles ==
    \A d \in Docs :
      Unfinished(d) ~> job[d].status \in {"SUCCESS", "FAILURE"} \/ OutOfGenerations(d)

=============================================================================
