------------------------------ MODULE Ingestion ------------------------------
(***************************************************************************)
(* The life of a document from upload to visibility: the rows Document,    *)
(* IngestionJob and IngestionGeneration, the Celery workers that run       *)
(* ingest_document, the periodic recovery of stale jobs and the cleanup of *)
(* stale generations (apps/documents: tasks.py, ingestion.py, recovery.py, *)
(* views.py).                                                              *)
(*                                                                         *)
(* Every generation of a job is a fresh UUID, numbered here per document   *)
(* in the order drawn; 0 is null.  A database transaction is one step, the *)
(* calls between transactions are steps of their own.  The wall clock is   *)
(* abstracted: a lease, an age limit or a grace period may run out at any  *)
(* moment after it was set, so a worker may outlive its lease.             *)
(*                                                                         *)
(* The messages are those the outbox has a row for, and never disappear: a *)
(* worker may receive any of them at any time, often or never.  The module *)
(* IngestionSystem replaces this by the outbox and the broker's queue.     *)
(***************************************************************************)
EXTENDS Naturals, FiniteSets

CONSTANTS
    NumDocs,      \* documents, numbered in the order of created_at
    NumLegacy,    \* how many of them predate generations and the outbox
    MaxGen,       \* bound: generations drawn for one document
    Workers,      \* Celery worker processes
    Cleaners,     \* processes running cleanup_due_generations
    MaxRecovery,  \* INGESTION_MAX_RECOVERY_ATTEMPTS
    CleanupMax,   \* INGESTION_CLEANUP_MAX_ATTEMPTS
    BatchLimit,   \* the "limit" of the recovery and cleanup tasks
    Faults        \* which of "worker", "cleaner", "delete" may fail

ASSUME IngestionAssumption ==
    /\ NumDocs \in Nat \ {0}
    /\ NumLegacy \in 0..NumDocs
    /\ MaxGen \in Nat \ {0}
    /\ MaxRecovery \in Nat \ {0}
    /\ CleanupMax \in Nat \ {0}
    /\ BatchLimit \in Nat \ {0}
    /\ Faults \subseteq {"worker", "cleaner", "delete"}

Docs == 1..NumDocs
Legacy == 1..NumLegacy
Generations == 1..MaxGen
Keys == Docs \X Generations
None == 0

VARIABLES
    job,         \* the IngestionJob row of each document
    active,      \* Document.active_generation
    manifest,    \* the IngestionGeneration row of each key
    vectors,     \* the Chroma collection
    dispatched,  \* the keys an IngestionDispatch row was created for
    pc,          \* where each worker is in ingest_document...
    task,        \* ...and the key it was claimed for
    cleaner      \* each cleaner's snapshot and position

vars == <<job, active, manifest, vectors, dispatched, pc, task, cleaner>>

Index == INSTANCE VectorIndex

Jobs ==
    [status   : {"ABSENT", "PENDING", "PROCESSING", "SUCCESS", "FAILURE"},
     gen      : 0..MaxGen,
     attempts : 0..MaxRecovery,
     lease    : {"null", "held", "expired"},   \* lease_expires_at
     old      : BOOLEAN]     \* created_at is INGESTION_STALE_PENDING_SECONDS past

Manifests ==
    [status   : {"ABSENT", "WRITING", "ACTIVE", "STALE", "CLEANED"},
     cleanup  : {"null", "waiting", "due"},    \* cleanup_after
     attempts : 0..CleanupMax]

\* A row of a cleaner's batch: the key and its cleanup_attempts when read.
Rows == [key : Keys, attempts : 0..(CleanupMax - 1)]

Stages == {"idle", "claimed", "writing", "added", "verified", "failed"}

CleanerStates ==
    [at    : {"idle", "scanned", "sweeping", "deleting", "deleted", "failed"},
     live  : SUBSET Keys,
     batch : SUBSET Rows,      \* rows not handled yet
     row   : Rows,             \* the row at hand
     seen  : Index!Contents]   \* what its lookup found

TypeOK ==
    /\ job \in [Docs -> Jobs]
    /\ active \in [Docs -> 0..MaxGen]
    /\ manifest \in [Keys -> Manifests]
    /\ vectors \in [Keys -> Index!Contents]
    /\ dispatched \subseteq Keys
    /\ pc \in [Workers -> Stages]
    /\ task \in [Workers -> Keys]
    /\ cleaner \in [Cleaners -> CleanerStates]

AbsentJob == [status |-> "ABSENT", gen |-> None, attempts |-> 0,
              lease |-> "null", old |-> FALSE]

NoManifest == [status |-> "ABSENT", cleanup |-> "null", attempts |-> 0]

\* The values task and cleaner hold while they mean nothing.
NoTask == <<1, 1>>
NoRow == [key |-> NoTask, attempts |-> 0]
IdleCleaner == [at |-> "idle", live |-> {}, batch |-> {}, row |-> NoRow,
                seen |-> "none"]

\* Migration 0002 gave the older jobs a generation (one UUID for all, but no
\* message ever names it), attempt_count 0 and null for the lease and for the
\* document's active_generation; 0003 created no outbox rows.
LegacyJob(status) == [AbsentJob EXCEPT !.status = status, !.gen = 1, !.old = TRUE]

Init ==
    /\ \E status \in [Legacy -> {"PENDING", "PROCESSING", "SUCCESS", "FAILURE"}] :
         job = [d \in Docs |-> IF d \in Legacy THEN LegacyJob(status[d]) ELSE AbsentJob]
    /\ active = [d \in Docs |-> None]
    /\ manifest = [k \in Keys |-> NoManifest]
    /\ Index!VectorsInit
    /\ dispatched = {}
    /\ pc = [w \in Workers |-> "idle"]
    /\ task = [w \in Workers |-> NoTask]
    /\ cleaner = [c \in Cleaners |-> IdleCleaner]

Current(d) == <<d, job[d].gen>>
IsCurrent(k) == job[k[1]].gen = k[2]
IsActive(k) == active[k[1]] = k[2]
Unfinished(d) == job[d].status \in {"PENDING", "PROCESSING"}

-----------------------------------------------------------------------------
(* Upload *)

\* DocumentUploadView.post: document, job and outbox row in one transaction.
\* Documents are named by the order of created_at.
Upload(d) ==
    /\ job[d].status = "ABSENT"
    /\ \A e \in Docs : e < d => job[e].status # "ABSENT"
    /\ job' = [job EXCEPT ![d].status = "PENDING", ![d].gen = 1]
    /\ dispatched' = dispatched \cup {<<d, 1>>}
    /\ UNCHANGED <<active, manifest, vectors, pc, task, cleaner>>

-----------------------------------------------------------------------------
(* The worker: ingest_document *)

\* Mutant of Claimable: the status is not looked at.
ClaimsAnyStatus(k) == IsCurrent(k)

\* The test of _claim_pending_job under the row lock.
Claimable(k) == job[k[1]].status = "PENDING" /\ IsCurrent(k)

\* A message is received; if it is not claimable the task ends at once and
\* nothing changes.
Claim(w, k) ==
    /\ pc[w] = "idle"
    /\ k \in dispatched
    /\ Claimable(k)
    /\ job' = [job EXCEPT ![k[1]].status = "PROCESSING",
                          ![k[1]].attempts = @ + 1,
                          ![k[1]].lease = "held"]
    /\ pc' = [pc EXCEPT ![w] = "claimed"]
    /\ task' = [task EXCEPT ![w] = k]
    /\ UNCHANGED <<active, manifest, vectors, dispatched, cleaner>>

Goto(w, stage) == pc' = [pc EXCEPT ![w] = stage]

\* run_ingestion_pipeline opens with update_or_create of the manifest.
OpenManifest(w) ==
    /\ pc[w] = "claimed"
    /\ manifest' = [manifest EXCEPT ![task[w]].status = "WRITING"]
    /\ Goto(w, "writing")
    /\ UNCHANGED <<job, active, vectors, dispatched, task, cleaner>>

\* Extraction and chunking succeed and add_texts returns.
WriteChunks(w) ==
    /\ pc[w] = "writing"
    /\ Index!AddTexts(task[w])
    /\ Goto(w, "added")
    /\ UNCHANGED <<job, active, manifest, dispatched, task, cleaner>>

\* add_texts raises: the pipeline ends in its exception.
WriteRaises(w) ==
    /\ pc[w] = "writing"
    /\ Index!AddTextsRaises(task[w])
    /\ Goto(w, "failed")
    /\ UNCHANGED <<job, active, manifest, dispatched, task, cleaner>>

\* The readback confirms every chunk.
Readback(w) ==
    /\ pc[w] = "added"
    /\ Index!ReadbackMatches(task[w])
    /\ Goto(w, "verified")
    /\ UNCHANGED <<job, active, manifest, vectors, dispatched, task, cleaner>>

\* Any other exception of the pipeline: the database or Chroma cannot be
\* reached, the file cannot be parsed or is over a limit, the lookup finds a
\* foreign id, or the readback does not match.
PipelineRaises(w) ==
    /\ pc[w] \in {"claimed", "writing", "added"}
    /\ Goto(w, "failed")
    /\ UNCHANGED <<job, active, manifest, vectors, dispatched, task, cleaner>>

Idle(w) ==
    /\ pc' = [pc EXCEPT ![w] = "idle"]
    /\ task' = [task EXCEPT ![w] = NoTask]

\* Mutant of OwnsAttempt: the fence forgets the generation.
OwnsAnyGeneration(k) == job[k[1]].status = "PROCESSING"

\* The fence of _finalize_success and _finalize_failure under the row lock.
OwnsAttempt(k) == job[k[1]].status = "PROCESSING" /\ IsCurrent(k)

\* update_or_create to STALE with a cleanup date, other columns kept.
Stale(m) == [m EXCEPT !.status = "STALE", !.cleanup = "waiting"]

Finish(k, status) ==
    job' = [job EXCEPT ![k[1]].status = status, ![k[1]].lease = "null"]

\* _finalize_success of the owner: the pointer moves, the job succeeds, the
\* manifest becomes ACTIVE and that of the superseded generation STALE.
Activate(w) ==
    LET k == task[w]  previous == <<k[1], active[k[1]]>>
    IN  /\ pc[w] = "verified"
        /\ OwnsAttempt(k)
        /\ active' = [active EXCEPT ![k[1]] = k[2]]
        /\ Finish(k, "SUCCESS")
        /\ manifest' = [m \in Keys |->
                          IF m = k
                            THEN [manifest[m] EXCEPT !.status = "ACTIVE", !.cleanup = "null"]
                          ELSE IF m = previous THEN Stale(manifest[m]) ELSE manifest[m]]
        /\ Idle(w)
        /\ UNCHANGED <<vectors, dispatched, cleaner>>

\* _finalize_failure of the owner.
Reject(w) ==
    LET k == task[w]
    IN  /\ pc[w] = "failed"
        /\ OwnsAttempt(k)
        /\ Finish(k, "FAILURE")
        /\ manifest' = [manifest EXCEPT ![k] = Stale(@)]
        /\ Idle(w)
        /\ UNCHANGED <<active, vectors, dispatched, cleaner>>

\* Either of them after ownership was lost: _mark_stale_generation.
Disown(w) ==
    /\ pc[w] \in {"verified", "failed"}
    /\ ~OwnsAttempt(task[w])
    /\ manifest' = [manifest EXCEPT ![task[w]] = Stale(@)]
    /\ Idle(w)
    /\ UNCHANGED <<job, active, vectors, dispatched, cleaner>>

\* The process dies, is killed at the time limit, or its closing transaction
\* fails: the message was acknowledged on delivery and is gone.
WorkerCrash(w) ==
    /\ "worker" \in Faults
    /\ pc[w] # "idle"
    /\ Idle(w)
    /\ UNCHANGED <<job, active, manifest, vectors, dispatched, cleaner>>

-----------------------------------------------------------------------------
(* Recovery: recover_stale_ingestion_jobs and reindex_legacy_documents *)

\* Mutants of Exhausted: an off-by-one, or no limit.
ExhaustedLate(d) == job[d].attempts > MaxRecovery
NeverExhausted(d) == job[d].attempts < None

Exhausted(d) == job[d].attempts >= MaxRecovery

\* Mutants of IsStale: one of the two kinds is not looked for.
IsStalePending(d) == job[d].status = "PENDING" /\ job[d].old
IsStaleProcessing(d) == job[d].status = "PROCESSING" /\ job[d].lease = "expired"

\* The filter.  A null lease never compares as expired.
IsStale(d) ==
    \/ job[d].status = "PENDING" /\ job[d].old
    \/ job[d].status = "PROCESSING" /\ job[d].lease = "expired"

\* ORDER BY created_at LIMIT n over the rows no other transaction has locked.
Oldest(S) == {d \in S : Cardinality({e \in S : e < d}) < BatchLimit}

\* A job whose rotation would leave the bound is not offered.
HasGenerations(d) == job[d].gen < MaxGen

\* Mutant of Rotated: the job restarts under the generation it had.
RestartedInPlace(j) == [j EXCEPT !.status = "PENDING", !.lease = "null"]

Rotated(j) == [j EXCEPT !.status = "PENDING", !.gen = @ + 1, !.lease = "null"]

\* Mutant of NewIntents: the rotation forgets the outbox row.
NoIntents(S) == S \cap {}

\* create_ingestion_dispatch for each rotated job, in the same transaction.
NewIntents(S) == {<<d, job[d].gen + 1>> : d \in S}

RecoverStaleJobs(skipped) ==
    LET stale  == {d \in Docs : IsStale(d) /\ (Exhausted(d) \/ HasGenerations(d))}
        batch  == Oldest(stale \ skipped)
        given  == {d \in batch : Exhausted(d)}
        rotate == batch \ given
    IN  /\ batch # {}
        /\ job' = [d \in Docs |->
                     IF d \in given THEN [job[d] EXCEPT !.status = "FAILURE"]
                     ELSE IF d \in rotate THEN Rotated(job[d]) ELSE job[d]]
        /\ dispatched' = dispatched \cup NewIntents(rotate)
        /\ UNCHANGED <<active, manifest, vectors, pc, task, cleaner>>

\* The operator's command for documents indexed before generations existed.
ReindexLegacy(skipped) ==
    LET legacy == {d \in Docs : /\ job[d].status = "SUCCESS" /\ active[d] = None
                                /\ HasGenerations(d)}
        batch  == Oldest(legacy \ skipped)
    IN  /\ batch # {}
        /\ job' = [d \in Docs |-> IF d \in batch THEN Rotated(job[d]) ELSE job[d]]
        /\ dispatched' = dispatched \cup NewIntents(batch)
        /\ UNCHANGED <<active, manifest, vectors, pc, task, cleaner>>

-----------------------------------------------------------------------------
(* Cleanup: cleanup_due_generations, which holds no lock *)

Clean(c, state) == cleaner' = [cleaner EXCEPT ![c] = state]

\* First query: the generations of unfinished jobs.
ReadLive(c) ==
    /\ cleaner[c].at = "idle"
    /\ Clean(c, [IdleCleaner EXCEPT !.at = "scanned",
                    !.live = {Current(d) : d \in {e \in Docs : Unfinished(e)}}])
    /\ UNCHANGED <<job, active, manifest, vectors, dispatched, pc, task>>

\* Mutant of DueForCleanup: any manifest that is not cleaned.
NotYetCleaned(k) ==
    manifest[k].status \in {"WRITING", "ACTIVE", "STALE"} /\ manifest[k].attempts < CleanupMax

DueForCleanup(k) ==
    /\ manifest[k].status = "STALE"
    /\ manifest[k].cleanup = "due"
    /\ manifest[k].attempts < CleanupMax

\* Second query: the due manifests with their documents.  A row of an active
\* or live generation is skipped by the loop, on these two snapshots alone.
ReadDue(c) ==
    LET due  == {k \in Keys : DueForCleanup(k)}
        Kept(k) == ~IsActive(k) /\ k \notin cleaner[c].live
    IN  /\ cleaner[c].at = "scanned"
        /\ \E S \in SUBSET due :
             /\ Cardinality(S) <= BatchLimit
             /\ S = due \/ Cardinality(S) = BatchLimit
             /\ LET batch == {[key |-> k, attempts |-> manifest[k].attempts] :
                                k \in {s \in S : Kept(s)}}
                IN  Clean(c, IF batch = {} THEN IdleCleaner
                             ELSE [IdleCleaner EXCEPT !.at = "sweeping", !.batch = batch])
        /\ UNCHANGED <<job, active, manifest, vectors, dispatched, pc, task>>

\* delete_document_generation, first call.
LookUp(c, r) ==
    /\ cleaner[c].at = "sweeping"
    /\ r \in cleaner[c].batch
    /\ Clean(c, [cleaner[c] EXCEPT !.at = "deleting", !.row = r,
                    !.batch = @ \ {r}, !.seen = vectors[r.key]])
    /\ UNCHANGED <<job, active, manifest, vectors, dispatched, pc, task>>

\* ...and second call.
Delete(c) ==
    /\ cleaner[c].at = "deleting"
    /\ Index!DeleteIds(cleaner[c].seen, cleaner[c].row.key)
    /\ Clean(c, [cleaner[c] EXCEPT !.at = "deleted", !.seen = "none"])
    /\ UNCHANGED <<job, active, manifest, dispatched, pc, task>>

\* Either call raises IngestionError.
DeleteRaises(c) ==
    /\ "delete" \in Faults
    /\ cleaner[c].at = "deleting"
    /\ Index!DeleteIdsRaises(cleaner[c].seen, cleaner[c].row.key)
    /\ Clean(c, [cleaner[c] EXCEPT !.at = "failed", !.seen = "none"])
    /\ UNCHANGED <<job, active, manifest, dispatched, pc, task>>

NextRow(c) ==
    Clean(c, IF cleaner[c].batch = {} THEN IdleCleaner
             ELSE [IdleCleaner EXCEPT !.at = "sweeping", !.batch = cleaner[c].batch])

\* The manifest is saved from the instance read with the batch: its attempts
\* are those of the snapshot, plus one.
SaveCleaned(c) ==
    LET r == cleaner[c].row
    IN  /\ cleaner[c].at = "deleted"
        /\ manifest' = [manifest EXCEPT ![r.key].status = "CLEANED",
                                        ![r.key].attempts = r.attempts + 1]
        /\ NextRow(c)
        /\ UNCHANGED <<job, active, vectors, dispatched, pc, task>>

\* Mutant of CleanupAfterFailure: the backoff is set for ever.
AlwaysBackOff(attempts) == IF attempts \in Nat THEN "waiting" ELSE "null"

\* cleanup_after: null once the attempts are exhausted.
CleanupAfterFailure(attempts) == IF attempts >= CleanupMax THEN "null" ELSE "waiting"

\* Mutant of SaveFailure: the count is raised in the row, as by F() + 1, the
\* date still set by the snapshot.
SaveRaisedCount(c) ==
    LET r == cleaner[c].row
    IN  /\ cleaner[c].at = "failed"
        /\ manifest' = [manifest EXCEPT
                          ![r.key].attempts = @ + 1,
                          ![r.key].cleanup = CleanupAfterFailure(r.attempts + 1)]
        /\ NextRow(c)
        /\ UNCHANGED <<job, active, vectors, dispatched, pc, task>>

SaveFailure(c) ==
    LET r == cleaner[c].row
    IN  /\ cleaner[c].at = "failed"
        /\ manifest' = [manifest EXCEPT
                          ![r.key].attempts = r.attempts + 1,
                          ![r.key].cleanup = CleanupAfterFailure(r.attempts + 1)]
        /\ NextRow(c)
        /\ UNCHANGED <<job, active, vectors, dispatched, pc, task>>

\* The process dies, or another exception leaves the loop.
CleanerCrash(c) ==
    /\ "cleaner" \in Faults
    /\ cleaner[c].at # "idle"
    /\ Clean(c, IdleCleaner)
    /\ UNCHANGED <<job, active, manifest, vectors, dispatched, pc, task>>

-----------------------------------------------------------------------------
(* Time *)

JobAges(d) ==
    /\ job[d].status # "ABSENT" /\ ~job[d].old
    /\ job' = [job EXCEPT ![d].old = TRUE]
    /\ UNCHANGED <<active, manifest, vectors, dispatched, pc, task, cleaner>>

LeaseExpires(d) ==
    /\ job[d].lease = "held"
    /\ job' = [job EXCEPT ![d].lease = "expired"]
    /\ UNCHANGED <<active, manifest, vectors, dispatched, pc, task, cleaner>>

CleanupFallsDue(k) ==
    /\ manifest[k].cleanup = "waiting"
    /\ manifest' = [manifest EXCEPT ![k].cleanup = "due"]
    /\ UNCHANGED <<job, active, vectors, dispatched, pc, task, cleaner>>

-----------------------------------------------------------------------------
(* The specification *)

WorkerStep(w) ==
    \/ OpenManifest(w)
    \/ WriteChunks(w)
    \/ WriteRaises(w)
    \/ Readback(w)
    \/ PipelineRaises(w)
    \/ Activate(w)
    \/ Reject(w)
    \/ Disown(w)

Recovery ==
    \E skipped \in SUBSET Docs : RecoverStaleJobs(skipped) \/ ReindexLegacy(skipped)

CleanerStep(c) ==
    \/ ReadLive(c)
    \/ ReadDue(c)
    \/ \E r \in cleaner[c].batch : LookUp(c, r)
    \/ Delete(c)
    \/ DeleteRaises(c)
    \/ SaveCleaned(c)
    \/ SaveFailure(c)

Tick ==
    \/ \E d \in Docs : JobAges(d) \/ LeaseExpires(d)
    \/ \E k \in Keys : CleanupFallsDue(k)

Next ==
    \/ \E d \in Docs : Upload(d)
    \/ \E w \in Workers, k \in dispatched : Claim(w, k)
    \/ \E w \in Workers : WorkerStep(w) \/ WorkerCrash(w)
    \/ Recovery
    \/ \E c \in Cleaners : CleanerStep(c) \/ CleanerCrash(c)
    \/ Tick

SafetySpec == Init /\ [][Next]_vars

\* A worker that lives goes on; beat runs the recovery task every
\* INGESTION_RECOVERY_INTERVAL_SECONDS, and no row stays locked; clocks
\* advance.  Nothing is assumed of uploads, messages or operators.
Fairness ==
    /\ \A w \in Workers : WF_vars(WorkerStep(w))
    /\ WF_vars(RecoverStaleJobs({}))
    /\ \A c \in Cleaners : WF_vars(CleanerStep(c))
    /\ \A d \in Docs : WF_vars(JobAges(d)) /\ WF_vars(LeaseExpires(d))
    /\ \A k \in Keys : WF_vars(CleanupFallsDue(k))

Spec == SafetySpec /\ Fairness

-----------------------------------------------------------------------------
(* Properties *)

Busy(w) == pc[w] # "idle"

\* The generation chat reads (Document.active_generation) has every one of
\* its chunks in the index: a partial write, a crash, or a cleanup running
\* from stale snapshots never shows through the pointer.
VisibleComplete ==
    \A d \in Docs : active[d] # None => vectors[d, active[d]] = "full"

\* The three rows agree on what is visible: the pointer names the generation
\* of a SUCCESS job whose manifest is ACTIVE.  They are written by tasks that
\* race (the finalizers, recovery, the cleanup), one of them without a lock.
VisibleIsCurrent ==
    \A d \in Docs : active[d] # None =>
      /\ job[d].status = "SUCCESS"
      /\ job[d].gen = active[d]
      /\ manifest[d, active[d]].status = "ACTIVE"

\* However often a message is delivered and however late a worker is, two
\* workers never process the same generation: add_texts and the readback
\* assume that nobody else writes these ids.
SingleWriter ==
    \A v, w \in Workers : v # w /\ Busy(v) /\ Busy(w) => task[v] # task[w]

\* The generation a cleaner is about to delete is not the visible one, not
\* that of an unfinished job, and no worker is writing it, although the
\* cleaner checked only snapshots and holds no lock.
CleanerTargetsDead ==
    \A c \in Cleaners : cleaner[c].at = "deleting" =>
      LET k == cleaner[c].row.key
      IN  /\ ~IsActive(k)
          /\ ~(IsCurrent(k) /\ Unfinished(k[1]))
          /\ \A w \in Workers : Busy(w) => task[w] # k

\* A generation recorded as CLEANED has no chunk left, although the ids to
\* delete were looked up in an earlier call.
CleanedIsEmpty ==
    \A k \in Keys : manifest[k].status = "CLEANED" => vectors[k] = "none"

\* A STALE generation is found by a later cleanup unless its deletions were
\* given up, and given up only with the attempts used up: overlapping cleanups
\* save count and date from snapshots of their own, and one failure may be lost,
\* but no generation keeps attempts without a date, or a date without attempts.
StaleIsScheduled ==
    \A k \in Keys : manifest[k].status = "STALE" =>
      (manifest[k].cleanup = "null" <=> manifest[k].attempts = CleanupMax)

\* A job waiting for a worker has an outbox row for the generation it waits
\* with; only a job migrated as PENDING waits for recovery to create one.
PendingHasIntent ==
    \A d \in Docs :
      job[d].status = "PENDING" /\ ~(d \in Legacy /\ job[d].gen = 1)
        => Current(d) \in dispatched

\* A job is processed at most MaxRecovery times and never waits with its
\* attempts used up, whatever crashes and however often it is recovered.
ClaimsBounded ==
    \A d \in Docs :
      /\ job[d].attempts <= MaxRecovery
      /\ job[d].status = "PENDING" => job[d].attempts < MaxRecovery

\* The abstract specification, under the mapping of rows to what their owner
\* can tell.
Lifecycle == INSTANCE DocumentLifecycle WITH
    status   <- [d \in Docs |-> job[d].status],
    attempt  <- [d \in Docs |-> job[d].gen],
    visible  <- active,
    complete <- {k \in Keys : vectors[k] = "full"}

\* Ingestion implements the lifecycle: no interleaving of late workers,
\* recovery and cleanup makes a job leave its state diagram, resumes a
\* replaced attempt, or takes back what chat can read.
ImplementsLifecycle == Lifecycle!LifecycleSpec

\* A job migrated in PROCESSING: it has no lease that could run out, so
\* neither recovery nor reindexing ever takes it.
WithoutLease(d) == job[d].status = "PROCESSING" /\ job[d].lease = "null"

\* The automatic recovery of a job ends: an unfinished job reaches SUCCESS or
\* FAILURE even when workers die, unless it runs out of the generations the
\* model grants it, or never had a lease.
JobSettles ==
    \A d \in Docs :
      Unfinished(d) /\ ~WithoutLease(d)
        ~> job[d].status \in {"SUCCESS", "FAILURE"} \/ job[d].gen = MaxGen

CleanupExhausted(k) ==
    manifest[k].status = "STALE" /\ manifest[k].cleanup = "null"

\* A stale generation is eventually removed, or given up after CleanupMax
\* failures for an operator to see.
StaleIsCleaned ==
    \A k \in Keys :
      manifest[k].status = "STALE"
        ~> manifest[k].status = "CLEANED" \/ CleanupExhausted(k)

=============================================================================
