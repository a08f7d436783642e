--------------------------- MODULE IngestionProofs ---------------------------
(***************************************************************************)
(* Proofs about Ingestion for any number of documents, generations,        *)
(* workers and cleaners, any limits and any faults: type correctness, the  *)
(* safety invariants of documents, manifests, workers and cleaners, and    *)
(* the lifecycle its documents go through.                                 *)
(***************************************************************************)
EXTENDS Ingestion, TLAPS

-----------------------------------------------------------------------------
(* Type correctness, first without the limit on attempts: an operator's    *)
(* form may take back a pointer and so let a job be processed more often,  *)
(* but what the tasks promise of generations does not depend on it.        *)

OpenJobs ==
    [status   : {"ABSENT", "PENDING", "PROCESSING", "SUCCESS", "FAILURE"},
     gen      : 0..MaxGen,
     attempts : Nat,
     lease    : {"null", "held", "expired"},
     old      : BOOLEAN]

CoreTypeOK ==
    /\ job \in [Docs -> OpenJobs]
    /\ active \in [Docs -> 0..MaxGen]
    /\ manifest \in [Keys -> Manifests]
    /\ vectors \in [Keys -> Index!Contents]
    /\ dispatched \subseteq Keys
    /\ pc \in [Workers -> Stages]
    /\ task \in [Workers -> Keys]
    /\ cleaner \in [Cleaners -> CleanerStates]

\* A generation is a key only because a job has one from its upload on.
GenerationInv ==
    \A d \in Docs : job[d].status = "ABSENT" <=> job[d].gen = None

LEMMA ConstantsTyped ==
    /\ AbsentJob \in OpenJobs
    /\ NoManifest \in Manifests
    /\ NoTask \in Keys
    /\ NoRow \in Rows
    /\ IdleCleaner \in CleanerStates
    /\ 1 \in 0..MaxGen
<1>1. 0 \in 0..MaxGen /\ 1 \in 0..MaxGen /\ 0 \in 0..MaxRecovery /\ 0 \in 0..CleanupMax
  BY IngestionAssumption
<1>2. 1 \in Docs /\ 1 \in Generations /\ 0 \in 0..(CleanupMax - 1)
  BY IngestionAssumption DEF Docs, Generations
<1>3. NoTask \in Keys
  BY <1>2 DEF NoTask, Keys
<1>4. NoRow \in Rows
  BY <1>2, <1>3 DEF NoRow, Rows
<1>5. AbsentJob \in OpenJobs /\ NoManifest \in Manifests
  BY <1>1 DEF AbsentJob, OpenJobs, NoManifest, Manifests, None
<1>6. IdleCleaner \in CleanerStates
  BY <1>4 DEF IdleCleaner, CleanerStates, Index!Contents
<1> QED
  BY <1>1, <1>3, <1>4, <1>5, <1>6

LEMMA LegacyInDocs == Legacy \subseteq Docs
BY IngestionAssumption DEF Legacy, Docs

LEMMA InitTyped == Init => CoreTypeOK /\ GenerationInv
<1> SUFFICES ASSUME Init PROVE CoreTypeOK /\ GenerationInv
  OBVIOUS
<1>1. PICK status \in [Legacy -> {"PENDING", "PROCESSING", "SUCCESS", "FAILURE"}] :
        job = [d \in Docs |-> IF d \in Legacy THEN LegacyJob(status[d]) ELSE AbsentJob]
  BY DEF Init
<1>2. ASSUME NEW d \in Legacy
      PROVE  /\ LegacyJob(status[d]) \in OpenJobs
             /\ LegacyJob(status[d]).gen = 1
             /\ LegacyJob(status[d]).attempts = 0
             /\ LegacyJob(status[d]).status # "ABSENT"
  <2>1. status[d] \in {"PENDING", "PROCESSING", "SUCCESS", "FAILURE"}
    BY <1>1
  <2> QED
    BY <2>1, ConstantsTyped DEF LegacyJob, OpenJobs, AbsentJob
<1>3. job \in [Docs -> OpenJobs]
  BY <1>1, <1>2, ConstantsTyped
<1>4. GenerationInv
  BY <1>1, <1>2, IngestionAssumption DEF GenerationInv, AbsentJob, None
<1>5. active \in [Docs -> 0..MaxGen]
  BY ConstantsTyped, IngestionAssumption DEF Init, None
<1>6. vectors \in [Keys -> Index!Contents]
  BY DEF Init, Index!VectorsInit, Index!Contents
<1> QED
  BY <1>3, <1>4, <1>5, <1>6, ConstantsTyped DEF Init, CoreTypeOK, Stages

LEMMA UploadTyped ==
    ASSUME CoreTypeOK, GenerationInv, NEW d \in Docs, Upload(d)
    PROVE  CoreTypeOK' /\ GenerationInv'
<1>1. <<d, 1>> \in Keys
  BY IngestionAssumption DEF Keys, Generations
<1>2. [job[d] EXCEPT !.status = "PENDING", !.gen = 1] \in OpenJobs /\ job[d] \in OpenJobs
  BY ConstantsTyped DEF CoreTypeOK, OpenJobs
<1> QED
  BY <1>1, <1>2 DEF Upload, CoreTypeOK, GenerationInv, OpenJobs, None

LEMMA ClaimTyped ==
    ASSUME CoreTypeOK, GenerationInv, NEW w \in Workers, NEW k \in dispatched, Claim(w, k)
    PROVE  CoreTypeOK' /\ GenerationInv'
<1>1. k \in Keys /\ k[1] \in Docs
  BY DEF CoreTypeOK, Keys
<1>2. job[k[1]] \in OpenJobs /\ job[k[1]].status = "PENDING"
  BY <1>1 DEF CoreTypeOK, Claim, Claimable
<1>3. job[k[1]].attempts + 1 \in Nat
  BY <1>2 DEF OpenJobs
<1>4. [job[k[1]] EXCEPT !.status = "PROCESSING", !.attempts = @ + 1, !.lease = "held"]
        \in OpenJobs
  BY <1>2, <1>3 DEF OpenJobs
<1>5. job' = [job EXCEPT ![k[1]] =
                [job[k[1]] EXCEPT !.status = "PROCESSING", !.attempts = @ + 1,
                                  !.lease = "held"]]
  BY <1>1, <1>2 DEF Claim, CoreTypeOK, OpenJobs
<1>6. job' \in [Docs -> OpenJobs]
  BY <1>4, <1>5 DEF CoreTypeOK
<1>7. GenerationInv'
  BY <1>1, <1>2, <1>5 DEF GenerationInv, CoreTypeOK, OpenJobs, Claim
<1> QED
  BY <1>1, <1>6, <1>7 DEF Claim, CoreTypeOK, Stages

\* The steps of the pipeline move one worker, and may touch the manifest row
\* or the chunks of its generation.
LEMMA PipelineTyped ==
    ASSUME CoreTypeOK, GenerationInv, NEW w \in Workers,
           \/ OpenManifest(w) \/ WriteChunks(w) \/ WriteRaises(w) \/ Readback(w)
           \/ PipelineRaises(w)
    PROVE  CoreTypeOK' /\ GenerationInv'
<1>1. task[w] \in Keys
  BY DEF CoreTypeOK
<1>2. pc' \in [Workers -> Stages]
  BY DEF OpenManifest, WriteChunks, WriteRaises, Readback, PipelineRaises, Goto,
         CoreTypeOK, Stages
<1>3. UNCHANGED <<job, active, dispatched, task, cleaner>>
  BY DEF OpenManifest, WriteChunks, WriteRaises, Readback, PipelineRaises
<1>4. manifest' \in [Keys -> Manifests]
  BY <1>1 DEF OpenManifest, WriteChunks, WriteRaises, Readback, PipelineRaises,
              CoreTypeOK, Manifests
<1>5. vectors' \in [Keys -> Index!Contents]
  BY <1>1 DEF OpenManifest, WriteChunks, WriteRaises, Readback, PipelineRaises,
              Index!AddTexts, Index!AddTextsRaises, Index!Store, Index!Contents, CoreTypeOK
<1> QED
  BY <1>2, <1>3, <1>4, <1>5 DEF CoreTypeOK, GenerationInv

\* The two finalizers and the death of a worker leave it idle.
LEMMA IdleTyped ==
    ASSUME CoreTypeOK, NEW w \in Workers, Idle(w)
    PROVE  pc' \in [Workers -> Stages] /\ task' \in [Workers -> Keys]
BY ConstantsTyped DEF Idle, CoreTypeOK, Stages

LEMMA StaleTyped ==
    ASSUME NEW m \in Manifests
    PROVE  Stale(m) \in Manifests
BY DEF Stale, Manifests

LEMMA FinishTyped ==
    ASSUME CoreTypeOK, GenerationInv, NEW k \in Keys, NEW status \in {"SUCCESS", "FAILURE"},
           Finish(k, status), job[k[1]].status = "PROCESSING"
    PROVE  job' \in [Docs -> OpenJobs] /\ GenerationInv'
<1>1. k[1] \in Docs /\ job[k[1]] \in OpenJobs /\ k[2] # None
  BY DEF Keys, Generations, None, CoreTypeOK
<1>2. [job[k[1]] EXCEPT !.status = status, !.lease = "null"] \in OpenJobs
  BY <1>1 DEF OpenJobs
<1>3. job' = [job EXCEPT ![k[1]] = [job[k[1]] EXCEPT !.status = status, !.lease = "null"]]
  BY <1>1 DEF Finish, CoreTypeOK, OpenJobs
<1>4. job' \in [Docs -> OpenJobs]
  BY <1>2, <1>3 DEF CoreTypeOK
<1>5. GenerationInv'
  BY <1>1, <1>3 DEF GenerationInv, CoreTypeOK, OpenJobs
<1> QED
  BY <1>4, <1>5

LEMMA FinalizeTyped ==
    ASSUME CoreTypeOK, GenerationInv, NEW w \in Workers, Activate(w) \/ Reject(w)
    PROVE  CoreTypeOK' /\ GenerationInv'
<1> DEFINE k == task[w]
<1>1. k \in Keys /\ k[1] \in Docs /\ k[2] \in Generations
  BY DEF CoreTypeOK, Keys
<1>2. job[k[1]].status = "PROCESSING"
  BY DEF Activate, Reject, OwnsAttempt
<1>3. pc' \in [Workers -> Stages] /\ task' \in [Workers -> Keys]
  BY IdleTyped DEF Activate, Reject
<1>4. manifest' \in [Keys -> Manifests]
  <2>1. \A m \in Keys : manifest[m] \in Manifests /\ Stale(manifest[m]) \in Manifests
    BY StaleTyped DEF CoreTypeOK
  <2>2. [manifest[k] EXCEPT !.status = "ACTIVE", !.cleanup = "null"] \in Manifests
    BY <1>1, <2>1 DEF Manifests
  <2> QED
    BY <1>1, <2>1, <2>2 DEF Activate, Reject, CoreTypeOK
<1>5. CASE Activate(w)
  <2>1. active' = [active EXCEPT ![k[1]] = k[2]] /\ Finish(k, "SUCCESS")
    BY <1>5 DEF Activate
  <2>2. active' \in [Docs -> 0..MaxGen]
    BY <1>1, <2>1 DEF CoreTypeOK, Generations
  <2>3. job' \in [Docs -> OpenJobs] /\ GenerationInv'
    BY <1>1, <1>2, <2>1, FinishTyped
  <2> QED
    BY <1>3, <1>4, <1>5, <2>2, <2>3 DEF Activate, CoreTypeOK
<1>6. CASE Reject(w)
  <2>1. active' = active /\ Finish(k, "FAILURE")
    BY <1>6 DEF Reject
  <2>2. job' \in [Docs -> OpenJobs] /\ GenerationInv'
    BY <1>1, <1>2, <2>1, FinishTyped
  <2> QED
    BY <1>3, <1>4, <1>6, <2>2 DEF Reject, CoreTypeOK
<1> QED
  BY <1>5, <1>6

LEMMA AbandonTyped ==
    ASSUME CoreTypeOK, GenerationInv, NEW w \in Workers, Disown(w) \/ WorkerCrash(w)
    PROVE  CoreTypeOK' /\ GenerationInv'
<1>1. pc' \in [Workers -> Stages] /\ task' \in [Workers -> Keys]
  BY IdleTyped DEF Disown, WorkerCrash
<1>2. manifest' \in [Keys -> Manifests]
  BY StaleTyped DEF Disown, WorkerCrash, CoreTypeOK
<1> QED
  BY <1>1, <1>2 DEF Disown, WorkerCrash, CoreTypeOK, GenerationInv

LEMMA RotationTyped ==
    ASSUME CoreTypeOK, NEW d \in Docs, job[d].gen < MaxGen
    PROVE  Rotated(job[d]) \in OpenJobs /\ <<d, job[d].gen + 1>> \in Keys
<1>1. job[d] \in OpenJobs
  BY DEF CoreTypeOK
<1>2. job[d].gen + 1 \in 0..MaxGen /\ job[d].gen + 1 \in Generations
  BY <1>1, IngestionAssumption DEF OpenJobs, Generations
<1> QED
  BY <1>1, <1>2 DEF Rotated, OpenJobs, Keys

LEMMA RecoverTyped ==
    ASSUME CoreTypeOK, GenerationInv, NEW skipped \in SUBSET Docs, RecoverStaleJobs(skipped)
    PROVE  CoreTypeOK' /\ GenerationInv'
<1> DEFINE stale  == {d \in Docs : IsStale(d) /\ (Exhausted(d) \/ HasGenerations(d))}
           batch  == Oldest(stale \ skipped)
           given  == {d \in batch : Exhausted(d)}
           rotate == batch \ given
<1>1. /\ job' = [d \in Docs |->
                   IF d \in given THEN [job[d] EXCEPT !.status = "FAILURE"]
                   ELSE IF d \in rotate THEN Rotated(job[d]) ELSE job[d]]
      /\ dispatched' = dispatched \cup NewIntents(rotate)
      /\ UNCHANGED <<active, manifest, vectors, pc, task, cleaner>>
  BY DEF RecoverStaleJobs
<1>2. batch \subseteq stale
  BY DEF Oldest
<1>3. \A d \in rotate : d \in Docs /\ job[d].gen < MaxGen
  BY <1>2 DEF HasGenerations
<1>4. \A d \in given : d \in Docs /\ job[d].status \in {"PENDING", "PROCESSING"}
  BY <1>2 DEF IsStale
<1>5. job' \in [Docs -> OpenJobs]
  <2>1. \A d \in given : [job[d] EXCEPT !.status = "FAILURE"] \in OpenJobs
    BY <1>4 DEF CoreTypeOK, OpenJobs
  <2>2. \A d \in rotate : Rotated(job[d]) \in OpenJobs
    BY <1>3, RotationTyped
  <2> HIDE DEF given, rotate
  <2> QED
    BY <1>1, <2>1, <2>2 DEF CoreTypeOK
<1>6. dispatched' \subseteq Keys
  <2>1. \A d \in rotate : <<d, job[d].gen + 1>> \in Keys
    BY <1>3, RotationTyped
  <2> HIDE DEF rotate
  <2> QED
    BY <1>1, <2>1 DEF CoreTypeOK, NewIntents
<1>7. GenerationInv'
  <2> SUFFICES ASSUME NEW d \in Docs
               PROVE  job'[d].status = "ABSENT" <=> job'[d].gen = None
    BY DEF GenerationInv
  <2>1. job[d] \in OpenJobs
    BY DEF CoreTypeOK
  <2>2. CASE d \in given
    <3>1. job'[d] = [job[d] EXCEPT !.status = "FAILURE"]
      BY <1>1, <2>2
    <3> QED
      BY <1>4, <2>1, <2>2, <3>1 DEF GenerationInv, OpenJobs
  <2>3. CASE d \in rotate
    <3>1. job'[d] = Rotated(job[d])
      BY <1>1, <2>3
    <3> QED
      BY <1>3, <2>1, <2>3, <3>1 DEF Rotated, OpenJobs, None
  <2>4. CASE d \notin given /\ d \notin rotate
    <3>1. job'[d] = job[d]
      BY <1>1, <2>4
    <3> QED
      BY <1>1, <3>1 DEF GenerationInv
  <2> QED
    BY <2>2, <2>3, <2>4
<1> QED
  BY <1>1, <1>5, <1>6, <1>7 DEF CoreTypeOK

LEMMA ReindexTyped ==
    ASSUME CoreTypeOK, GenerationInv, NEW skipped \in SUBSET Docs, ReindexLegacy(skipped)
    PROVE  CoreTypeOK' /\ GenerationInv'
<1> DEFINE legacy == {d \in Docs : /\ job[d].status = "SUCCESS" /\ active[d] = None
                                   /\ HasGenerations(d)}
           batch  == Oldest(legacy \ skipped)
<1>1. /\ job' = [d \in Docs |-> IF d \in batch THEN Rotated(job[d]) ELSE job[d]]
      /\ dispatched' = dispatched \cup NewIntents(batch)
      /\ UNCHANGED <<active, manifest, vectors, pc, task, cleaner>>
  BY DEF ReindexLegacy
<1>2. \A d \in batch : d \in Docs /\ job[d].gen < MaxGen
  BY DEF Oldest, HasGenerations
<1> HIDE DEF batch
<1>3. \A d \in batch : Rotated(job[d]) \in OpenJobs /\ <<d, job[d].gen + 1>> \in Keys
  BY <1>2, RotationTyped
<1>4. job' \in [Docs -> OpenJobs] /\ dispatched' \subseteq Keys
  BY <1>1, <1>3 DEF CoreTypeOK, NewIntents
<1>5. GenerationInv'
  <2> SUFFICES ASSUME NEW d \in Docs
               PROVE  job'[d].status = "ABSENT" <=> job'[d].gen = None
    BY DEF GenerationInv
  <2>1. job[d] \in OpenJobs
    BY DEF CoreTypeOK
  <2>2. CASE d \in batch
    <3>1. job'[d] = Rotated(job[d])
      BY <1>1, <2>2
    <3> QED
      BY <1>2, <2>1, <2>2, <3>1, IngestionAssumption DEF Rotated, OpenJobs, None
  <2>3. CASE d \notin batch
    BY <1>1, <2>3 DEF GenerationInv
  <2> QED
    BY <2>2, <2>3
<1> QED
  BY <1>1, <1>4, <1>5 DEF CoreTypeOK

LEMMA TickTyped ==
    ASSUME CoreTypeOK, GenerationInv, Tick
    PROVE  CoreTypeOK' /\ GenerationInv'
<1>1. CASE \E d \in Docs : JobAges(d) \/ LeaseExpires(d)
  <2>1. PICK d \in Docs : JobAges(d) \/ LeaseExpires(d)
    BY <1>1
  <2>2. job[d] \in OpenJobs
    BY DEF CoreTypeOK
  <2>3. PICK j \in {[job[d] EXCEPT !.old = TRUE], [job[d] EXCEPT !.lease = "expired"]} :
          job' = [job EXCEPT ![d] = j]
    BY <2>1 DEF JobAges, LeaseExpires
  <2>4. /\ j \in OpenJobs
        /\ j.status = job[d].status /\ j.gen = job[d].gen /\ j.attempts = job[d].attempts
    BY <2>2 DEF OpenJobs
  <2>5. job' \in [Docs -> OpenJobs] /\ GenerationInv'
    BY <2>1, <2>3, <2>4 DEF JobAges, LeaseExpires, CoreTypeOK, GenerationInv
  <2> QED
    BY <2>1, <2>5 DEF JobAges, LeaseExpires, CoreTypeOK
<1>2. CASE \E k \in Keys : CleanupFallsDue(k)
  <2>1. PICK k \in Keys : CleanupFallsDue(k)
    BY <1>2
  <2>2. manifest' \in [Keys -> Manifests]
    BY <2>1 DEF CleanupFallsDue, CoreTypeOK, Manifests
  <2> QED
    BY <2>1, <2>2 DEF CleanupFallsDue, CoreTypeOK, GenerationInv
<1> QED
  BY <1>1, <1>2 DEF Tick

\* A step of a cleaner is well typed when its next state, and what it writes
\* to the index or the manifests, are.
LEMMA CleanTyped ==
    ASSUME CoreTypeOK, GenerationInv, NEW c \in Cleaners, NEW state \in CleanerStates,
           Clean(c, state),
           manifest' \in [Keys -> Manifests],
           vectors' \in [Keys -> Index!Contents],
           UNCHANGED <<job, active, dispatched, pc, task>>
    PROVE  CoreTypeOK' /\ GenerationInv'
BY DEF CoreTypeOK, GenerationInv, Clean

LEMMA BatchTyped ==
    ASSUME NEW batch \in SUBSET Rows
    PROVE  [IdleCleaner EXCEPT !.at = "sweeping", !.batch = batch] \in CleanerStates
BY ConstantsTyped DEF CleanerStates

LEMMA ReadTyped ==
    ASSUME CoreTypeOK, GenerationInv, NEW c \in Cleaners, ReadLive(c) \/ ReadDue(c)
    PROVE  CoreTypeOK' /\ GenerationInv'
<1>1. CASE ReadLive(c)
  <2> DEFINE live == {Current(d) : d \in {e \in Docs : Unfinished(e)}}
  <2>1. live \subseteq Keys
    <3> SUFFICES ASSUME NEW d \in Docs, Unfinished(d)
                 PROVE  Current(d) \in Keys
      OBVIOUS
    <3>1. job[d] \in OpenJobs /\ job[d].gen # None
      BY DEF Unfinished, GenerationInv, CoreTypeOK
    <3> QED
      BY <3>1, IngestionAssumption DEF Current, Keys, Generations, OpenJobs, None
  <2> DEFINE state == [IdleCleaner EXCEPT !.at = "scanned", !.live = live]
  <2>2. state \in CleanerStates
    BY <2>1, ConstantsTyped DEF CleanerStates
  <2>3. Clean(c, state)
    BY <1>1 DEF ReadLive
  <2> HIDE DEF state
  <2> QED
    BY <1>1, <2>2, <2>3, CleanTyped DEF ReadLive, CoreTypeOK
<1>2. CASE ReadDue(c)
  <2>1. PICK S \in SUBSET {k \in Keys : DueForCleanup(k)} :
          LET batch == {[key |-> k, attempts |-> manifest[k].attempts] :
                          k \in {s \in S : ~IsActive(s) /\ s \notin cleaner[c].live}}
          IN  Clean(c, IF batch = {} THEN IdleCleaner
                       ELSE [IdleCleaner EXCEPT !.at = "sweeping", !.batch = batch])
    BY <1>2 DEF ReadDue
  <2> DEFINE batch == {[key |-> k, attempts |-> manifest[k].attempts] :
                         k \in {s \in S : ~IsActive(s) /\ s \notin cleaner[c].live}}
             state == IF batch = {} THEN IdleCleaner
                      ELSE [IdleCleaner EXCEPT !.at = "sweeping", !.batch = batch]
  <2>2. batch \subseteq Rows
    <3> SUFFICES ASSUME NEW k \in S
                 PROVE  [key |-> k, attempts |-> manifest[k].attempts] \in Rows
      OBVIOUS
    <3>1. k \in Keys /\ manifest[k] \in Manifests /\ manifest[k].attempts < CleanupMax
      BY DEF DueForCleanup, CoreTypeOK
    <3>2. manifest[k].attempts \in 0..(CleanupMax - 1)
      BY <3>1, IngestionAssumption DEF Manifests
    <3> QED
      BY <3>1, <3>2 DEF Rows
  <2>3. Clean(c, state)
    BY <2>1
  <2>4. state \in CleanerStates
    BY <2>2, BatchTyped, ConstantsTyped
  <2> HIDE DEF state
  <2> QED
    BY <1>2, <2>3, <2>4, CleanTyped DEF ReadDue, CoreTypeOK
<1> QED
  BY <1>1, <1>2

\* The row at hand of a cleaner is a key and the attempts of a snapshot.
LEMMA RowTyped ==
    ASSUME CoreTypeOK, NEW c \in Cleaners
    PROVE  /\ cleaner[c] \in CleanerStates
           /\ cleaner[c].row \in Rows
           /\ cleaner[c].row.key \in Keys
           /\ cleaner[c].row.attempts + 1 \in 0..CleanupMax
<1>1. cleaner[c] \in CleanerStates /\ cleaner[c].row \in Rows
  BY DEF CoreTypeOK, CleanerStates
<1> QED
  BY <1>1, IngestionAssumption DEF Rows

LEMMA SweepTyped ==
    ASSUME CoreTypeOK, GenerationInv, NEW c \in Cleaners,
           \/ \E r \in cleaner[c].batch : LookUp(c, r)
           \/ Delete(c)
           \/ DeleteRaises(c)
    PROVE  CoreTypeOK' /\ GenerationInv'
<1>1. cleaner[c] \in CleanerStates /\ cleaner[c].row.key \in Keys
  BY RowTyped
<1>2. CASE \E r \in cleaner[c].batch : LookUp(c, r)
  <2>1. PICK r \in cleaner[c].batch : LookUp(c, r)
    BY <1>2
  <2> DEFINE state == [cleaner[c] EXCEPT !.at = "deleting", !.row = r,
                                         !.batch = @ \ {r}, !.seen = vectors[r.key]]
  <2>2. r \in Rows /\ vectors[r.key] \in Index!Contents
    BY <1>1 DEF CleanerStates, Rows, CoreTypeOK
  <2>3. cleaner[c].batch \ {r} \in SUBSET Rows
    BY <1>1 DEF CleanerStates
  <2>4. state \in CleanerStates
    BY <1>1, <2>2, <2>3 DEF CleanerStates
  <2>5. Clean(c, state)
    BY <1>1, <2>1 DEF LookUp, CleanerStates
  <2> HIDE DEF state
  <2> QED
    BY <2>1, <2>4, <2>5, CleanTyped DEF LookUp, CoreTypeOK
<1>3. CASE Delete(c) \/ DeleteRaises(c)
  <2>1. PICK v \in Index!Contents : Index!Store(cleaner[c].row.key, v)
    <3>1. vectors[cleaner[c].row.key] \in Index!Contents
      BY <1>1 DEF CoreTypeOK
    <3> QED
      BY <1>3, <3>1 DEF Delete, DeleteRaises, Index!DeleteIds, Index!DeleteIdsRaises,
                        Index!AfterDelete, Index!Contents
  <2>2. vectors' \in [Keys -> Index!Contents]
    BY <2>1 DEF Index!Store, CoreTypeOK
  <2>3. PICK at \in {"deleted", "failed"} :
          Clean(c, [cleaner[c] EXCEPT !.at = at, !.seen = "none"])
    BY <1>3 DEF Delete, DeleteRaises
  <2>4. [cleaner[c] EXCEPT !.at = at, !.seen = "none"] \in CleanerStates
    BY <1>1 DEF CleanerStates, Index!Contents
  <2>5. UNCHANGED <<job, active, manifest, dispatched, pc, task>>
    BY <1>3 DEF Delete, DeleteRaises
  <2> QED
    BY <2>2, <2>3, <2>4, <2>5, CleanTyped DEF CoreTypeOK
<1> QED
  BY <1>2, <1>3

LEMMA SaveTyped ==
    ASSUME CoreTypeOK, GenerationInv, NEW c \in Cleaners,
           SaveCleaned(c) \/ SaveFailure(c) \/ CleanerCrash(c)
    PROVE  CoreTypeOK' /\ GenerationInv'
<1> DEFINE r == cleaner[c].row
           next == IF cleaner[c].batch = {} THEN IdleCleaner
                   ELSE [IdleCleaner EXCEPT !.at = "sweeping", !.batch = cleaner[c].batch]
<1>1. /\ cleaner[c] \in CleanerStates
      /\ r.key \in Keys
      /\ r.attempts + 1 \in 0..CleanupMax
      /\ manifest[r.key] \in Manifests
  BY RowTyped DEF CoreTypeOK
<1>2. next \in CleanerStates /\ IdleCleaner \in CleanerStates
  BY <1>1, BatchTyped, ConstantsTyped DEF CleanerStates
<1>3. manifest' \in [Keys -> Manifests]
  <2>1. CASE SaveCleaned(c)
    BY <1>1, <2>1 DEF SaveCleaned, CoreTypeOK, Manifests
  <2>2. CASE SaveFailure(c)
    <3>1. CleanupAfterFailure(r.attempts + 1) \in {"null", "waiting"}
      BY DEF CleanupAfterFailure
    <3> QED
      BY <1>1, <2>2, <3>1 DEF SaveFailure, CoreTypeOK, Manifests
  <2>3. CASE CleanerCrash(c)
    BY <2>3 DEF CleanerCrash, CoreTypeOK
  <2> QED
    BY <2>1, <2>2, <2>3
<1>4. UNCHANGED <<job, active, vectors, dispatched, pc, task>>
  BY DEF SaveCleaned, SaveFailure, CleanerCrash
<1>5. Clean(c, next) \/ Clean(c, IdleCleaner)
  BY DEF SaveCleaned, SaveFailure, CleanerCrash, NextRow
<1> HIDE DEF next
<1> QED
  BY <1>2, <1>3, <1>4, <1>5, CleanTyped DEF CoreTypeOK

\* Every step is well typed.
LEMMA StepTyped ==
    ASSUME CoreTypeOK, GenerationInv, [Next]_vars
    PROVE  CoreTypeOK' /\ GenerationInv'
<1>1. CASE \E d \in Docs : Upload(d)
  BY <1>1, UploadTyped
<1>2. CASE \E w \in Workers, k \in dispatched : Claim(w, k)
  BY <1>2, ClaimTyped
<1>3. CASE \E w \in Workers : WorkerStep(w) \/ WorkerCrash(w)
  BY <1>3, PipelineTyped, FinalizeTyped, AbandonTyped DEF WorkerStep
<1>4. CASE Recovery
  BY <1>4, RecoverTyped, ReindexTyped DEF Recovery
<1>5. CASE \E c \in Cleaners : CleanerStep(c) \/ CleanerCrash(c)
  BY <1>5, ReadTyped, SweepTyped, SaveTyped DEF CleanerStep
<1>6. CASE Tick
  BY <1>6, TickTyped
<1>7. CASE UNCHANGED vars
  BY <1>7 DEF vars, CoreTypeOK, GenerationInv
<1> QED
  BY <1>1, <1>2, <1>3, <1>4, <1>5, <1>6, <1>7 DEF Next

-----------------------------------------------------------------------------
(* The limit on attempts.  A claim counts one, and a job that waits has    *)
(* one left: recovery gives a job up before it waits without, and a job    *)
(* that succeeded without a visible generation was never claimed.          *)

AttemptsInv ==
    \A d \in Docs :
      /\ job[d].attempts <= MaxRecovery
      /\ job[d].status = "PENDING" => job[d].attempts < MaxRecovery
      /\ job[d].status = "SUCCESS" /\ active[d] = None => job[d].attempts = 0
      /\ job[d].status = "ABSENT" => job[d].attempts = 0

\* The steps that change a job leave its attempts within the limit, and do
\* not turn it into a success that nobody sees.
LEMMA AttemptsKept ==
    ASSUME AttemptsInv, CoreTypeOK',
           \A d \in Docs :
             \/ /\ job'[d].attempts = job[d].attempts
                /\ job'[d].status = job[d].status
                /\ active'[d] = active[d]
             \/ /\ job'[d].attempts <= MaxRecovery
                /\ job'[d].status \in {"PROCESSING", "FAILURE"}
             \/ /\ job'[d].attempts < MaxRecovery
                /\ job'[d].status = "PENDING"
             \/ /\ job'[d].attempts <= MaxRecovery
                /\ job'[d].status = "SUCCESS"
                /\ active'[d] # None
    PROVE  AttemptsInv'
<1>1. \A d \in Docs : job'[d].attempts \in Nat
  BY DEF CoreTypeOK, OpenJobs
<1> QED
  BY <1>1, IngestionAssumption DEF AttemptsInv

LEMMA FinishAttempts ==
    ASSUME CoreTypeOK, CoreTypeOK', AttemptsInv, NEW w \in Workers, Activate(w) \/ Reject(w)
    PROVE  AttemptsInv'
<1> DEFINE d == task[w][1]
<1>1. d \in Docs /\ task[w][2] # None /\ job[d] \in OpenJobs
  BY DEF CoreTypeOK, Keys, Generations, None
<1>2. PICK status \in {"SUCCESS", "FAILURE"} :
        /\ job' = [job EXCEPT ![d] = [job[d] EXCEPT !.status = status, !.lease = "null"]]
        /\ status = "SUCCESS" => active'[d] # None
        /\ \A e \in Docs : e # d => active'[e] = active[e]
  <2>1. CASE Activate(w)
    BY <1>1, <2>1 DEF Activate, Finish, CoreTypeOK, OpenJobs
  <2>2. CASE Reject(w)
    BY <1>1, <2>2 DEF Reject, Finish, CoreTypeOK, OpenJobs
  <2> QED
    BY <2>1, <2>2
<1> HIDE DEF d
<1>3. /\ job'[d].status = status /\ job'[d].attempts = job[d].attempts
      /\ \A e \in Docs : e # d => job'[e] = job[e]
  BY <1>1, <1>2 DEF CoreTypeOK, OpenJobs
<1>4. job'[d].attempts <= MaxRecovery
  BY <1>1, <1>3 DEF AttemptsInv
<1> QED
  BY <1>2, <1>3, <1>4, AttemptsKept

LEMMA RecoveryAttempts ==
    ASSUME CoreTypeOK, CoreTypeOK', AttemptsInv, Recovery
    PROVE  AttemptsInv'
<1>1. PICK skipped \in SUBSET Docs : RecoverStaleJobs(skipped) \/ ReindexLegacy(skipped)
  BY DEF Recovery
<1>2. ASSUME NEW d \in Docs, job[d].attempts < MaxRecovery, job'[d] = Rotated(job[d])
      PROVE  job'[d].attempts < MaxRecovery /\ job'[d].status = "PENDING"
  BY <1>2 DEF Rotated, CoreTypeOK, OpenJobs
<1>3. ASSUME NEW d \in Docs, RecoverStaleJobs(skipped)
      PROVE  \/ job'[d] = job[d]
             \/ job'[d].attempts <= MaxRecovery /\ job'[d].status = "FAILURE"
             \/ job'[d] = Rotated(job[d]) /\ job[d].attempts < MaxRecovery
  <2> DEFINE stale  == {e \in Docs : IsStale(e) /\ (Exhausted(e) \/ HasGenerations(e))}
             batch  == Oldest(stale \ skipped)
             given  == {e \in batch : Exhausted(e)}
             rotate == batch \ given
  <2>1. job'[d] = IF d \in given THEN [job[d] EXCEPT !.status = "FAILURE"]
                  ELSE IF d \in rotate THEN Rotated(job[d]) ELSE job[d]
    BY <1>3 DEF RecoverStaleJobs
  <2>2. job[d] \in OpenJobs /\ job[d].attempts <= MaxRecovery
    BY DEF CoreTypeOK, AttemptsInv
  <2>3. d \in rotate => job[d].attempts < MaxRecovery
    BY <2>2, IngestionAssumption DEF Exhausted, OpenJobs
  <2> HIDE DEF given, rotate
  <2> QED
    BY <2>1, <2>2, <2>3 DEF OpenJobs
<1>4. ASSUME NEW d \in Docs, ReindexLegacy(skipped)
      PROVE  \/ job'[d] = job[d]
             \/ job'[d] = Rotated(job[d]) /\ job[d].attempts < MaxRecovery
  <2> DEFINE legacy == {e \in Docs : /\ job[e].status = "SUCCESS" /\ active[e] = None
                                     /\ HasGenerations(e)}
             batch  == Oldest(legacy \ skipped)
  <2>1. job'[d] = IF d \in batch THEN Rotated(job[d]) ELSE job[d]
    BY <1>4 DEF ReindexLegacy
  <2>2. d \in batch => job[d].attempts < MaxRecovery
    BY IngestionAssumption DEF Oldest, AttemptsInv
  <2> QED
    BY <2>1, <2>2
<1>5. active' = active
  BY <1>1 DEF RecoverStaleJobs, ReindexLegacy
<1> QED
  BY <1>1, <1>2, <1>3, <1>4, <1>5, AttemptsKept

LEMMA StepAttempts ==
    ASSUME CoreTypeOK, CoreTypeOK', AttemptsInv, [Next]_vars
    PROVE  AttemptsInv'
<1>1. CASE \E d \in Docs : Upload(d)
  <2>1. PICK d \in Docs : Upload(d)
    BY <1>1
  <2>2. /\ job'[d].status = "PENDING" /\ job'[d].attempts = job[d].attempts
        /\ \A e \in Docs : e # d => job'[e] = job[e]
        /\ active' = active
    BY <2>1 DEF Upload, CoreTypeOK, OpenJobs
  <2>3. job[d].attempts = 0
    BY <2>1 DEF Upload, AttemptsInv
  <2> QED
    BY <2>2, <2>3, AttemptsKept, IngestionAssumption
<1>2. CASE \E w \in Workers, k \in dispatched : Claim(w, k)
  <2>1. PICK w \in Workers, k \in dispatched : Claim(w, k)
    BY <1>2
  <2>2. k[1] \in Docs /\ job[k[1]] \in OpenJobs /\ job[k[1]].attempts < MaxRecovery
    BY <2>1 DEF CoreTypeOK, Keys, Claim, Claimable, AttemptsInv
  <2>3. /\ job'[k[1]].status = "PROCESSING"
        /\ job'[k[1]].attempts = job[k[1]].attempts + 1
        /\ \A e \in Docs : e # k[1] => job'[e] = job[e]
        /\ active' = active
    BY <2>1, <2>2 DEF Claim, CoreTypeOK, OpenJobs
  <2>4. job'[k[1]].attempts <= MaxRecovery
    BY <2>2, <2>3, IngestionAssumption DEF OpenJobs
  <2> QED
    BY <2>2, <2>3, <2>4, AttemptsKept
<1>3. CASE \E w \in Workers : WorkerStep(w) \/ WorkerCrash(w)
  <2>1. PICK w \in Workers : WorkerStep(w) \/ WorkerCrash(w)
    BY <1>3
  <2>2. CASE Activate(w) \/ Reject(w)
    BY <2>2, FinishAttempts
  <2>3. CASE ~(Activate(w) \/ Reject(w))
    BY <2>1, <2>3
    DEF WorkerStep, OpenManifest, WriteChunks, WriteRaises, Readback, PipelineRaises,
        Disown, WorkerCrash, AttemptsInv
  <2> QED
    BY <2>2, <2>3
<1>4. CASE Recovery
  BY <1>4, RecoveryAttempts
<1>5. CASE \E c \in Cleaners : CleanerStep(c) \/ CleanerCrash(c)
  BY <1>5
  DEF CleanerStep, CleanerCrash, ReadLive, ReadDue, LookUp, Delete, DeleteRaises,
      SaveCleaned, SaveFailure, AttemptsInv
<1>6. CASE Tick
  <2>1. active' = active
    BY <1>6 DEF Tick, JobAges, LeaseExpires, CleanupFallsDue
  <2>2. \A d \in Docs :
          job'[d].attempts = job[d].attempts /\ job'[d].status = job[d].status
    BY <1>6 DEF Tick, JobAges, LeaseExpires, CleanupFallsDue, CoreTypeOK, OpenJobs
  <2> QED
    BY <2>1, <2>2, AttemptsKept
<1>7. CASE UNCHANGED vars
  BY <1>7 DEF vars, AttemptsInv
<1> QED
  BY <1>1, <1>2, <1>3, <1>4, <1>5, <1>6, <1>7 DEF Next

JobInv == GenerationInv /\ AttemptsInv

\* Within the limit the two types agree.
LEMMA TypesAgree == AttemptsInv => (CoreTypeOK <=> TypeOK)
<1>1. ASSUME AttemptsInv PROVE job \in [Docs -> Jobs] <=> job \in [Docs -> OpenJobs]
  <2>1. Jobs \subseteq OpenJobs
    BY IngestionAssumption DEF Jobs, OpenJobs
  <2>2. ASSUME job \in [Docs -> OpenJobs] PROVE job \in [Docs -> Jobs]
    <3>1. \A d \in Docs : job[d] \in OpenJobs /\ job[d].attempts <= MaxRecovery
      BY <1>1, <2>2 DEF AttemptsInv
    <3>2. \A d \in Docs : job[d] \in Jobs
      BY <3>1, IngestionAssumption DEF Jobs, OpenJobs
    <3> QED
      BY <2>2, <3>2
  <2> QED
    BY <2>1, <2>2
<1> QED
  BY <1>1 DEF CoreTypeOK, TypeOK

LEMMA InitAttempts == Init => AttemptsInv
<1> SUFFICES ASSUME Init PROVE AttemptsInv
  OBVIOUS
<1>1. PICK status \in [Legacy -> {"PENDING", "PROCESSING", "SUCCESS", "FAILURE"}] :
        job = [d \in Docs |-> IF d \in Legacy THEN LegacyJob(status[d]) ELSE AbsentJob]
  BY DEF Init
<1>2. \A d \in Docs : job[d].attempts = 0
  BY <1>1 DEF LegacyJob, AbsentJob
<1> QED
  BY <1>2, IngestionAssumption DEF AttemptsInv

\* Every value the module gives its variables is well typed, and JobInv holds.
THEOREM TypeCorrect == SafetySpec => [](TypeOK /\ JobInv)
<1>1. Init => CoreTypeOK /\ GenerationInv /\ AttemptsInv
  BY InitTyped, InitAttempts
<1>2. CoreTypeOK /\ GenerationInv /\ AttemptsInv /\ [Next]_vars
        => (CoreTypeOK /\ GenerationInv /\ AttemptsInv)'
  BY StepTyped, StepAttempts
<1>3. CoreTypeOK /\ GenerationInv /\ AttemptsInv => TypeOK /\ JobInv
  BY TypesAgree DEF JobInv
<1> QED
  BY <1>1, <1>2, <1>3, PTL DEF SafetySpec

\* A job is claimed at most MaxRecovery times, and waits only with an attempt
\* left.
THEOREM ClaimsAreBounded == SafetySpec => []ClaimsBounded
<1>1. TypeOK /\ JobInv => ClaimsBounded
  BY DEF JobInv, AttemptsInv, ClaimsBounded
<1> QED
  BY <1>1, TypeCorrect, PTL

-----------------------------------------------------------------------------
(* The intents of waiting jobs *)

\* A step that changes a job only where it leaves or enters PENDING with its
\* intent written keeps the property.
LEMMA IntentsKept ==
    ASSUME PendingHasIntent, dispatched \subseteq dispatched',
           \A d \in Docs :
             job'[d].status = "PENDING" =>
               \/ job[d].status = "PENDING" /\ job'[d].gen = job[d].gen
               \/ <<d, job'[d].gen>> \in dispatched'
    PROVE  PendingHasIntent'
BY DEF PendingHasIntent, Current

LEMMA RotationKeepsIntents ==
    ASSUME TypeOK, PendingHasIntent, NEW S \in SUBSET Docs,
           \A d \in S : job'[d] = Rotated(job[d]),
           \A d \in Docs \ S : job'[d].status = "PENDING" => job'[d] = job[d],
           dispatched' = dispatched \cup NewIntents(S)
    PROVE  PendingHasIntent'
<1>1. ASSUME NEW d \in S PROVE <<d, job'[d].gen>> \in dispatched'
  <2>1. job[d] \in Jobs
    BY DEF TypeOK
  <2>2. job'[d].gen = job[d].gen + 1
    BY <2>1 DEF Rotated, Jobs
  <2> QED
    BY <2>2 DEF NewIntents
<1> QED
  BY <1>1, IntentsKept

LEMMA RecoveryKeepsIntents ==
    ASSUME TypeOK, PendingHasIntent, Recovery
    PROVE  PendingHasIntent'
<1>1. PICK skipped \in SUBSET Docs : RecoverStaleJobs(skipped) \/ ReindexLegacy(skipped)
  BY DEF Recovery
<1>2. CASE RecoverStaleJobs(skipped)
  <2> DEFINE stale  == {d \in Docs : IsStale(d) /\ (Exhausted(d) \/ HasGenerations(d))}
             batch  == Oldest(stale \ skipped)
             given  == {d \in batch : Exhausted(d)}
             rotate == batch \ given
  <2>1. /\ job' = [d \in Docs |->
                     IF d \in given THEN [job[d] EXCEPT !.status = "FAILURE"]
                     ELSE IF d \in rotate THEN Rotated(job[d]) ELSE job[d]]
        /\ dispatched' = dispatched \cup NewIntents(rotate)
    BY <1>2 DEF RecoverStaleJobs
  <2>2. rotate \subseteq Docs /\ given \cap rotate = {}
    BY DEF Oldest
  <2>3. \A d \in given \cap Docs : job'[d].status = "FAILURE"
    <3> HIDE DEF given, rotate
    <3> QED
      BY <2>1 DEF TypeOK, Jobs
  <2> HIDE DEF given, rotate
  <2> QED
    BY <2>1, <2>2, <2>3, RotationKeepsIntents
<1>3. CASE ReindexLegacy(skipped)
  <2> DEFINE legacy == {d \in Docs : /\ job[d].status = "SUCCESS" /\ active[d] = None
                                     /\ HasGenerations(d)}
             batch  == Oldest(legacy \ skipped)
  <2>1. /\ job' = [d \in Docs |-> IF d \in batch THEN Rotated(job[d]) ELSE job[d]]
        /\ dispatched' = dispatched \cup NewIntents(batch)
    BY <1>3 DEF ReindexLegacy
  <2>2. batch \subseteq Docs
    BY DEF Oldest
  <2> HIDE DEF batch
  <2> QED
    BY <2>1, <2>2, RotationKeepsIntents
<1> QED
  BY <1>1, <1>2, <1>3

\* No job waits without a row of the outbox for the generation it waits with:
\* the upload and every rotation write both in one transaction.
THEOREM WaitingJobsHaveIntents == SafetySpec => []PendingHasIntent
<1>1. Init => PendingHasIntent
  <2> SUFFICES ASSUME Init, NEW d \in Docs, job[d].status = "PENDING"
               PROVE  d \in Legacy /\ job[d].gen = 1
    BY DEF PendingHasIntent
  <2>1. PICK status \in [Legacy -> {"PENDING", "PROCESSING", "SUCCESS", "FAILURE"}] :
          job = [e \in Docs |-> IF e \in Legacy THEN LegacyJob(status[e]) ELSE AbsentJob]
    BY DEF Init
  <2>2. d \in Legacy
    BY <2>1 DEF AbsentJob
  <2>3. job[d] = LegacyJob(status[d])
    BY <2>1, <2>2
  <2> QED
    BY <2>2, <2>3 DEF LegacyJob, AbsentJob
<1>2. TypeOK /\ PendingHasIntent /\ [Next]_vars => PendingHasIntent'
  <2> SUFFICES ASSUME TypeOK, PendingHasIntent, [Next]_vars
               PROVE  PendingHasIntent'
    OBVIOUS
  <2> USE DEF TypeOK
  <2>1. CASE \E d \in Docs : Upload(d)
    BY <2>1, IntentsKept DEF Upload, Jobs
  <2>2. CASE \E w \in Workers, k \in dispatched : Claim(w, k)
    BY <2>2, IntentsKept DEF Claim, Jobs
  <2>3. CASE \E w \in Workers : WorkerStep(w) \/ WorkerCrash(w)
    <3>1. PICK w \in Workers : WorkerStep(w) \/ WorkerCrash(w)
      BY <2>3
    <3>2. dispatched' = dispatched
      BY <3>1
      DEF WorkerStep, OpenManifest, WriteChunks, WriteRaises, Readback, PipelineRaises,
          Activate, Reject, Disown, WorkerCrash
    <3>3. CASE Activate(w) \/ Reject(w)
      <4>1. task[w][1] \in Docs
        BY DEF Keys
      <4>2. PICK status \in {"SUCCESS", "FAILURE"} : Finish(task[w], status)
        BY <3>3 DEF Activate, Reject
      <4> QED
        BY <3>2, <4>1, <4>2, IntentsKept DEF Finish, Jobs
    <3>4. CASE ~(Activate(w) \/ Reject(w))
      <4>1. job' = job
        BY <3>1, <3>4
        DEF WorkerStep, OpenManifest, WriteChunks, WriteRaises, Readback, PipelineRaises,
            Disown, WorkerCrash
      <4> QED
        BY <3>2, <4>1, IntentsKept
    <3> QED
      BY <3>3, <3>4
  <2>4. CASE Recovery
    BY <2>4, RecoveryKeepsIntents
  <2>5. CASE \E c \in Cleaners : CleanerStep(c) \/ CleanerCrash(c)
    BY <2>5, IntentsKept
    DEF CleanerStep, CleanerCrash, ReadLive, ReadDue, LookUp, Delete, DeleteRaises,
        SaveCleaned, SaveFailure
  <2>6. CASE Tick
    BY <2>6, IntentsKept DEF Tick, JobAges, LeaseExpires, CleanupFallsDue, Jobs
  <2>7. CASE UNCHANGED vars
    BY <2>7, IntentsKept DEF vars
  <2> QED
    BY <2>1, <2>2, <2>3, <2>4, <2>5, <2>6, <2>7 DEF Next
<1> QED
  BY <1>1, <1>2, TypeCorrect, PTL DEF SafetySpec

-----------------------------------------------------------------------------
(* Safety.  None of the invariants of the runs is inductive alone.  The    *)
(* cleaner holds no lock and checks only snapshots, so it is safe for one  *)
(* reason: once a manifest is STALE its generation is dead for good.  That *)
(* needs the worker of a generation to be gone when its manifest turns     *)
(* STALE (WorkerInv), the job to have failed or moved on to a later        *)
(* generation by then, and a fresh generation to have no manifest          *)
(* (ManifestInv).  CleanerInv carries it from the query to the deletion    *)
(* and on to the save.                                                     *)


Dead == {"STALE", "CLEANED"}

WorkerInv ==
    \A w \in Workers : Busy(w) =>
      /\ task[w][2] <= job[task[w][1]].gen
      /\ IsCurrent(task[w]) => job[task[w][1]].status \in {"PROCESSING", "FAILURE"}
      /\ manifest[task[w]].status \in {"ABSENT", "WRITING"}
      /\ pc[w] = "verified" => vectors[task[w]] = "full"

ManifestInv ==
    \A k \in Keys :
      /\ manifest[k].status # "ABSENT" => k[2] <= job[k[1]].gen
      /\ manifest[k].status # "ABSENT" /\ IsCurrent(k) => job[k[1]].status # "PENDING"
      /\ manifest[k].status \in Dead /\ IsCurrent(k) => job[k[1]].status = "FAILURE"

CleanerInv ==
    \A c \in Cleaners :
      /\ \A r \in cleaner[c].batch : manifest[r.key].status \in Dead
      /\ cleaner[c].at \in {"deleting", "deleted", "failed"}
           => manifest[cleaner[c].row.key].status \in Dead
      /\ cleaner[c].at = "deleting"
           => Index!LookupCovers(cleaner[c].seen, cleaner[c].row.key)
      /\ cleaner[c].at = "deleted" => vectors[cleaner[c].row.key] = "none"

CoreInv ==
    /\ CoreTypeOK
    /\ GenerationInv
    /\ WorkerInv
    /\ SingleWriter
    /\ ManifestInv
    /\ CleanerInv
    /\ VisibleIsCurrent
    /\ VisibleComplete
    /\ CleanedIsEmpty

LEMMA InitSafe == Init => CoreInv
<1> SUFFICES ASSUME Init PROVE CoreInv
  OBVIOUS
<1>1. CoreTypeOK /\ GenerationInv
  BY InitTyped
<1>2. WorkerInv /\ SingleWriter
  BY DEF Init, WorkerInv, SingleWriter, Busy
<1>3. ManifestInv /\ CleanedIsEmpty
  BY DEF Init, ManifestInv, CleanedIsEmpty, NoManifest, Dead
<1>4. CleanerInv
  BY DEF Init, CleanerInv, IdleCleaner
<1>5. VisibleIsCurrent /\ VisibleComplete
  BY DEF Init, VisibleIsCurrent, VisibleComplete
<1> QED
  BY <1>1, <1>2, <1>3, <1>4, <1>5 DEF CoreInv

-----------------------------------------------------------------------------
(* Steps that change jobs only: upload, recovery, reindexing, time *)

JobKept(d) == job'[d].gen = job[d].gen /\ job'[d].status = job[d].status

JobRestarted(d) ==
    /\ job'[d].gen > job[d].gen
    /\ job'[d].status = "PENDING"
    /\ active[d] = None

JobGivenUp(d) ==
    /\ job'[d].gen = job[d].gen
    /\ job[d].status \in {"PENDING", "PROCESSING"}
    /\ job'[d].status = "FAILURE"

LEMMA JobStepsSafe ==
    ASSUME CoreInv, CoreTypeOK', GenerationInv',
           UNCHANGED <<active, manifest, vectors, pc, task, cleaner>>,
           \A d \in Docs : JobKept(d) \/ JobRestarted(d) \/ JobGivenUp(d)
    PROVE  CoreInv'
<1>1. ASSUME NEW d \in Docs
      PROVE  /\ job[d].gen \in Nat /\ job'[d].gen \in Nat
             /\ job[d].gen <= job'[d].gen
  BY DEF CoreInv, CoreTypeOK, OpenJobs, JobKept, JobRestarted, JobGivenUp
\* A generation that was there before is current only if the job kept it.
<1>2. ASSUME NEW k \in Keys, k[2] <= job[k[1]].gen, IsCurrent(k)'
      PROVE  IsCurrent(k) /\ (JobKept(k[1]) \/ JobGivenUp(k[1]))
  <2>1. k[1] \in Docs /\ k[2] \in Nat
    BY DEF Keys, Generations
  <2> QED
    BY <1>1, <1>2, <2>1 DEF IsCurrent, JobKept, JobRestarted, JobGivenUp
<1>3. WorkerInv'
  <2> SUFFICES ASSUME NEW w \in Workers, Busy(w)
               PROVE  /\ task[w][2] <= job'[task[w][1]].gen
                      /\ IsCurrent(task[w])'
                           => job'[task[w][1]].status \in {"PROCESSING", "FAILURE"}
    BY DEF CoreInv, WorkerInv, Busy
  <2>1. task[w] \in Keys /\ task[w][1] \in Docs /\ task[w][2] \in Nat
    BY DEF CoreInv, CoreTypeOK, Keys, Generations
  <2>2. /\ task[w][2] <= job[task[w][1]].gen
        /\ IsCurrent(task[w]) => job[task[w][1]].status \in {"PROCESSING", "FAILURE"}
    BY DEF CoreInv, WorkerInv
  <2>3. task[w][2] <= job'[task[w][1]].gen
    BY <1>1, <2>1, <2>2
  <2>4. ASSUME IsCurrent(task[w])'
        PROVE  job'[task[w][1]].status \in {"PROCESSING", "FAILURE"}
    <3>1. ASSUME NEW k \in Keys, k = task[w] PROVE IsCurrent(k)'
      BY <2>4, <3>1 DEF IsCurrent
    <3>2. IsCurrent(task[w]) /\ (JobKept(task[w][1]) \/ JobGivenUp(task[w][1]))
      BY <1>2, <2>1, <2>2, <3>1
    <3> QED
      BY <2>2, <3>2 DEF JobKept, JobGivenUp
  <2> QED
    BY <2>3, <2>4
<1>4. ManifestInv'
  <2> SUFFICES ASSUME NEW k \in Keys, manifest[k].status # "ABSENT"
               PROVE  /\ k[2] <= job'[k[1]].gen
                      /\ IsCurrent(k)' => job'[k[1]].status # "PENDING"
                      /\ manifest[k].status \in Dead /\ IsCurrent(k)'
                           => job'[k[1]].status = "FAILURE"
    BY DEF ManifestInv, Dead
  <2>1. k[1] \in Docs /\ k[2] \in Nat
    BY DEF Keys, Generations
  <2>2. /\ k[2] <= job[k[1]].gen
        /\ IsCurrent(k) => job[k[1]].status # "PENDING"
        /\ manifest[k].status \in Dead /\ IsCurrent(k) => job[k[1]].status = "FAILURE"
    BY DEF CoreInv, ManifestInv
  <2>3. k[2] <= job'[k[1]].gen
    BY <1>1, <2>1, <2>2
  <2>4. ASSUME IsCurrent(k)' PROVE IsCurrent(k) /\ (JobKept(k[1]) \/ JobGivenUp(k[1]))
    BY <1>2, <2>2, <2>4
  <2> QED
    BY <2>2, <2>3, <2>4 DEF JobKept, JobGivenUp
<1>5. VisibleIsCurrent'
  BY DEF CoreInv, VisibleIsCurrent, JobKept, JobRestarted, JobGivenUp
<1>6. (SingleWriter /\ CleanerInv /\ VisibleComplete /\ CleanedIsEmpty)'
  BY DEF CoreInv, SingleWriter, Busy, CleanerInv, Index!LookupCovers,
         VisibleComplete, CleanedIsEmpty
<1> QED
  BY <1>3, <1>4, <1>5, <1>6 DEF CoreInv

LEMMA UploadSafe ==
    ASSUME CoreInv, CoreTypeOK', GenerationInv', NEW d \in Docs, Upload(d)
    PROVE  CoreInv'
<1>1. job[d] \in OpenJobs /\ job[d].gen = 0 /\ active[d] = None
  BY DEF Upload, CoreInv, CoreTypeOK, GenerationInv, VisibleIsCurrent, None
<1>2. JobRestarted(d)
  BY <1>1 DEF Upload, JobRestarted, CoreInv, CoreTypeOK, OpenJobs
<1>3. \A e \in Docs : e # d => JobKept(e)
  BY DEF Upload, JobKept, CoreInv, CoreTypeOK
<1> QED
  BY <1>2, <1>3, JobStepsSafe DEF Upload

LEMMA RecoverSafe ==
    ASSUME CoreInv, CoreTypeOK', GenerationInv', NEW skipped \in SUBSET Docs,
           RecoverStaleJobs(skipped)
    PROVE  CoreInv'
<1> DEFINE stale  == {d \in Docs : IsStale(d) /\ (Exhausted(d) \/ HasGenerations(d))}
           batch  == Oldest(stale \ skipped)
           given  == {d \in batch : Exhausted(d)}
           rotate == batch \ given
<1>1. job' = [d \in Docs |->
                IF d \in given THEN [job[d] EXCEPT !.status = "FAILURE"]
                ELSE IF d \in rotate THEN Rotated(job[d]) ELSE job[d]]
  BY DEF RecoverStaleJobs
<1>2. UNCHANGED <<active, manifest, vectors, pc, task, cleaner>>
  BY DEF RecoverStaleJobs
<1>3. ASSUME NEW d \in batch
      PROVE  d \in Docs /\ job[d].status \in {"PENDING", "PROCESSING"} /\ active[d] = None
  BY DEF Oldest, IsStale, CoreInv, VisibleIsCurrent
<1>4. ASSUME NEW d \in Docs
      PROVE  JobKept(d) \/ JobRestarted(d) \/ JobGivenUp(d)
  <2>1. job[d] \in OpenJobs
    BY DEF CoreInv, CoreTypeOK
  <2>2. CASE d \in given
    <3>1. job'[d] = [job[d] EXCEPT !.status = "FAILURE"]
      BY <1>1, <2>2
    <3> QED
      BY <1>3, <2>1, <2>2, <3>1 DEF JobGivenUp, OpenJobs
  <2>3. CASE d \in rotate
    <3>1. job'[d] = Rotated(job[d])
      BY <1>1, <2>3
    <3>2. job'[d].gen = job[d].gen + 1 /\ job'[d].status = "PENDING" /\ job[d].gen \in Nat
      BY <2>1, <3>1 DEF Rotated, OpenJobs
    <3> QED
      BY <1>3, <2>3, <3>2 DEF JobRestarted
  <2>4. CASE d \notin given /\ d \notin rotate
    BY <1>1, <2>4 DEF JobKept
  <2> QED
    BY <2>2, <2>3, <2>4
<1> QED
  BY <1>2, <1>4, JobStepsSafe

LEMMA ReindexSafe ==
    ASSUME CoreInv, CoreTypeOK', GenerationInv', NEW skipped \in SUBSET Docs,
           ReindexLegacy(skipped)
    PROVE  CoreInv'
<1> DEFINE legacy == {d \in Docs : /\ job[d].status = "SUCCESS" /\ active[d] = None
                                   /\ HasGenerations(d)}
           batch  == Oldest(legacy \ skipped)
<1>1. job' = [d \in Docs |-> IF d \in batch THEN Rotated(job[d]) ELSE job[d]]
  BY DEF ReindexLegacy
<1>2. UNCHANGED <<active, manifest, vectors, pc, task, cleaner>>
  BY DEF ReindexLegacy
<1>3. \A d \in batch : d \in Docs /\ active[d] = None
  BY DEF Oldest
<1> HIDE DEF batch
<1>4. ASSUME NEW d \in Docs
      PROVE  JobKept(d) \/ JobRestarted(d)
  <2>1. job[d] \in OpenJobs
    BY DEF CoreInv, CoreTypeOK
  <2>2. CASE d \in batch
    <3>1. job'[d] = Rotated(job[d])
      BY <1>1, <2>2
    <3>2. job'[d].gen = job[d].gen + 1 /\ job'[d].status = "PENDING" /\ job[d].gen \in Nat
      BY <2>1, <3>1 DEF Rotated, OpenJobs
    <3> QED
      BY <1>3, <2>2, <3>2 DEF JobRestarted
  <2>3. CASE d \notin batch
    BY <1>1, <2>3 DEF JobKept
  <2> QED
    BY <2>2, <2>3
<1> QED
  BY <1>2, <1>4, JobStepsSafe

LEMMA TickSafe ==
    ASSUME CoreInv, CoreTypeOK', GenerationInv', Tick
    PROVE  CoreInv'
<1>1. CASE \E d \in Docs : JobAges(d) \/ LeaseExpires(d)
  <2>1. \A d \in Docs : JobKept(d)
    BY <1>1 DEF JobAges, LeaseExpires, JobKept, CoreInv, CoreTypeOK, OpenJobs
  <2>2. UNCHANGED <<active, manifest, vectors, pc, task, cleaner>>
    BY <1>1 DEF JobAges, LeaseExpires
  <2> QED
    BY <2>1, <2>2, JobStepsSafe
<1>2. CASE \E k \in Keys : CleanupFallsDue(k)
  \* Only the date of a manifest changes, and no part of the invariant reads it.
  <2>1. \A k \in Keys : manifest'[k].status = manifest[k].status
    BY <1>2 DEF CleanupFallsDue, CoreInv, CoreTypeOK, Manifests
  <2>2. UNCHANGED <<job, active, vectors, pc, task, cleaner>>
    BY <1>2 DEF CleanupFallsDue
  <2>3. \A c \in Cleaners : cleaner[c].row.key \in Keys
                              /\ \A r \in cleaner[c].batch : r.key \in Keys
    BY DEF CoreInv, CoreTypeOK, CleanerStates, Rows
  <2>4. WorkerInv' /\ SingleWriter'
    BY <2>1, <2>2 DEF CoreInv, CoreTypeOK, WorkerInv, SingleWriter, Busy, IsCurrent
  <2>5. ManifestInv' /\ CleanedIsEmpty'
    BY <2>1, <2>2 DEF CoreInv, ManifestInv, CleanedIsEmpty, IsCurrent
  <2>6. CleanerInv'
    BY <2>1, <2>2, <2>3 DEF CoreInv, CleanerInv, Index!LookupCovers
  <2>7. VisibleIsCurrent' /\ VisibleComplete'
    <3>1. \A d \in Docs : active[d] # None => <<d, active[d]>> \in Keys
      BY DEF CoreInv, CoreTypeOK, Keys, Generations, None
    <3> QED
      BY <2>1, <2>2, <3>1 DEF CoreInv, VisibleIsCurrent, VisibleComplete
  <2> QED
    BY <2>4, <2>5, <2>6, <2>7 DEF CoreInv
<1> QED
  BY <1>1, <1>2 DEF Tick

-----------------------------------------------------------------------------
(* Steps of the workers *)

\* What the invariant says of a busy worker's generation: it is not visible,
\* and no cleaner has it in hand.
LEMMA BusyKey ==
    ASSUME CoreInv, NEW w \in Workers, Busy(w)
    PROVE  /\ task[w] \in Keys
           /\ manifest[task[w]].status \notin Dead
           /\ \A d \in Docs : active[d] # None => task[w] # <<d, active[d]>>
           /\ \A c \in Cleaners :
                cleaner[c].at \in {"deleting", "deleted", "failed"}
                  => cleaner[c].row.key # task[w]
           /\ \A c \in Cleaners : \A r \in cleaner[c].batch : r.key # task[w]
<1>1. task[w] \in Keys /\ manifest[task[w]].status \in {"ABSENT", "WRITING"}
  BY DEF CoreInv, CoreTypeOK, WorkerInv
<1>2. \A d \in Docs : active[d] # None => manifest[<<d, active[d]>>].status = "ACTIVE"
  BY DEF CoreInv, VisibleIsCurrent
<1> QED
  BY <1>1, <1>2 DEF CoreInv, CleanerInv, Dead

LEMMA ClaimSafe ==
    ASSUME CoreInv, CoreTypeOK', GenerationInv', NEW w \in Workers, NEW k \in dispatched, Claim(w, k)
    PROVE  CoreInv'
<1>1. k \in Keys /\ k[1] \in Docs /\ k[2] = job[k[1]].gen /\ job[k[1]].status = "PENDING"
  BY DEF CoreInv, CoreTypeOK, Keys, Claim, Claimable, IsCurrent
<1>2. /\ job'[k[1]].status = "PROCESSING"
      /\ \A d \in Docs : d # k[1] => job'[d] = job[d]
      /\ \A d \in Docs : job'[d].gen = job[d].gen
  BY <1>1 DEF Claim, CoreInv, CoreTypeOK, OpenJobs
<1>3. /\ pc' = [pc EXCEPT ![w] = "claimed"] /\ task' = [task EXCEPT ![w] = k]
      /\ pc[w] = "idle"
      /\ UNCHANGED <<active, manifest, vectors, cleaner>>
  BY DEF Claim
<1>4. manifest[k].status = "ABSENT"
  BY <1>1 DEF CoreInv, ManifestInv, IsCurrent
\* Nobody is at the generation yet: its job would not be PENDING.
<1>5. \A v \in Workers : Busy(v) => task[v] # k
  BY <1>1 DEF CoreInv, WorkerInv, IsCurrent
<1>6. SingleWriter'
  BY <1>3, <1>5 DEF CoreInv, SingleWriter, Busy, CoreTypeOK
<1>7. WorkerInv'
  <2> SUFFICES ASSUME NEW v \in Workers, Busy(v)'
               PROVE  /\ task'[v][2] <= job'[task'[v][1]].gen
                      /\ job'[task'[v][1]].gen = task'[v][2]
                           => job'[task'[v][1]].status \in {"PROCESSING", "FAILURE"}
                      /\ manifest'[task'[v]].status \in {"ABSENT", "WRITING"}
                      /\ pc'[v] = "verified" => vectors'[task'[v]] = "full"
    BY DEF WorkerInv, IsCurrent
  <2>1. CASE v = w
    <3>1. task'[v] = k /\ pc'[v] = "claimed"
      BY <1>3, <2>1 DEF CoreInv, CoreTypeOK
    <3>2. k[2] \in Nat /\ k[2] <= job'[k[1]].gen
      BY <1>1, <1>2 DEF Keys, Generations
    <3> QED
      BY <1>2, <1>3, <1>4, <3>1, <3>2
  <2>2. CASE v # w
    <3>1. task'[v] = task[v] /\ pc'[v] = pc[v] /\ Busy(v) /\ task[v] \in Keys
      BY <1>3, <2>2 DEF CoreInv, CoreTypeOK, Busy
    <3>2. task[v][1] \in Docs
      BY <3>1 DEF Keys
    <3> QED
      BY <1>2, <1>3, <3>1, <3>2 DEF CoreInv, WorkerInv, IsCurrent
  <2> QED
    BY <2>1, <2>2
<1>8. ManifestInv'
  BY <1>1, <1>2, <1>3, <1>4 DEF CoreInv, ManifestInv, IsCurrent, Dead, Keys
<1>9. (CleanerInv /\ VisibleComplete /\ CleanedIsEmpty)'
  BY <1>3 DEF CoreInv, CleanerInv, Index!LookupCovers, VisibleComplete, CleanedIsEmpty
<1>10. VisibleIsCurrent'
  BY <1>1, <1>2, <1>3 DEF CoreInv, VisibleIsCurrent
<1> QED
  BY <1>6, <1>7, <1>8, <1>9, <1>10 DEF CoreInv

\* A step of the pipeline moves one worker on, and touches at most the
\* manifest row and the chunks of its own generation.
LEMMA PipelineSafe ==
    ASSUME CoreInv, CoreTypeOK', GenerationInv', NEW w \in Workers,
           \/ OpenManifest(w) \/ WriteChunks(w) \/ WriteRaises(w) \/ Readback(w)
           \/ PipelineRaises(w)
    PROVE  CoreInv'
<1> DEFINE k == task[w]
<1>1. Busy(w) /\ UNCHANGED <<job, active, task, cleaner>>
  BY DEF OpenManifest, WriteChunks, WriteRaises, Readback, PipelineRaises, Busy
<1>2. /\ k \in Keys
      /\ manifest[k].status \notin Dead
      /\ \A d \in Docs : active[d] # None => k # <<d, active[d]>>
      /\ \A c \in Cleaners : cleaner[c].at \in {"deleting", "deleted", "failed"}
                               => cleaner[c].row.key # k
      /\ \A c \in Cleaners : \A r \in cleaner[c].batch : r.key # k
  BY <1>1, BusyKey
<1>3. /\ k[2] <= job[k[1]].gen
      /\ IsCurrent(k) => job[k[1]].status \in {"PROCESSING", "FAILURE"}
      /\ manifest[k].status \in {"ABSENT", "WRITING"}
  BY <1>1 DEF CoreInv, WorkerInv
<1>4. \A m \in Keys : m # k => manifest'[m] = manifest[m] /\ vectors'[m] = vectors[m]
  BY <1>2 DEF OpenManifest, WriteChunks, WriteRaises, Readback, PipelineRaises,
              Index!AddTexts, Index!AddTextsRaises, Index!Store, CoreInv, CoreTypeOK
<1>5. manifest'[k].status \in {"ABSENT", "WRITING"}
  BY <1>2, <1>3 DEF OpenManifest, WriteChunks, WriteRaises, Readback, PipelineRaises,
                    CoreInv, CoreTypeOK, Manifests
<1>6. pc'[w] # "idle" /\ \A v \in Workers : v # w => pc'[v] = pc[v]
  BY DEF OpenManifest, WriteChunks, WriteRaises, Readback, PipelineRaises, Goto,
         CoreInv, CoreTypeOK
<1>7. pc'[w] = "verified" => vectors'[k] = "full"
  BY DEF OpenManifest, WriteChunks, WriteRaises, Readback, PipelineRaises, Goto,
         Index!ReadbackMatches, CoreInv, CoreTypeOK
<1> HIDE DEF k
<1>8. SingleWriter'
  BY <1>1, <1>6 DEF CoreInv, SingleWriter, Busy
<1>9. \A v \in Workers : v # w /\ Busy(v) => task[v] # k /\ task[v] \in Keys
  BY <1>1 DEF CoreInv, SingleWriter, CoreTypeOK, k
<1>10. WorkerInv'
  <2> SUFFICES ASSUME NEW v \in Workers, Busy(v)'
               PROVE  /\ task[v][2] <= job[task[v][1]].gen
                      /\ IsCurrent(task[v])
                           => job[task[v][1]].status \in {"PROCESSING", "FAILURE"}
                      /\ manifest'[task[v]].status \in {"ABSENT", "WRITING"}
                      /\ pc'[v] = "verified" => vectors'[task[v]] = "full"
    BY <1>1 DEF WorkerInv, IsCurrent
  <2>1. CASE v = w
    BY <1>3, <1>5, <1>7, <2>1 DEF k
  <2>2. CASE v # w
    <3>1. Busy(v) /\ pc'[v] = pc[v]
      BY <1>6, <2>2 DEF Busy
    <3> QED
      BY <1>4, <1>9, <2>2, <3>1 DEF CoreInv, WorkerInv
  <2> QED
    BY <2>1, <2>2
<1>11. ManifestInv'
  BY <1>1, <1>3, <1>4, <1>5 DEF CoreInv, ManifestInv, IsCurrent, Dead
<1>12. CleanedIsEmpty'
  BY <1>4, <1>5 DEF CoreInv, CleanedIsEmpty
<1>13. CleanerInv'
  <2>1. \A c \in Cleaners : cleaner[c].row.key \in Keys
                              /\ \A r \in cleaner[c].batch : r.key \in Keys
    BY DEF CoreInv, CoreTypeOK, CleanerStates, Rows
  <2> QED
    BY <1>1, <1>2, <1>4, <2>1 DEF CoreInv, CleanerInv, Index!LookupCovers
<1>14. (VisibleIsCurrent /\ VisibleComplete)'
  <2>1. \A d \in Docs : active[d] # None => <<d, active[d]>> \in Keys
    BY DEF CoreInv, CoreTypeOK, Keys, Generations, None
  <2> QED
    BY <1>1, <1>2, <1>4, <2>1 DEF CoreInv, VisibleIsCurrent, VisibleComplete
<1> QED
  BY <1>8, <1>10, <1>11, <1>12, <1>13, <1>14 DEF CoreInv

\* The end of a task: one worker turns idle, at most its own manifest row
\* changes, and the workers that stay are at other generations.
LEMMA IdleLeavesOthers ==
    ASSUME CoreInv, NEW w \in Workers, Busy(w), Idle(w)
    PROVE  /\ SingleWriter'
           /\ \A v \in Workers : Busy(v)' =>
                /\ v # w /\ Busy(v)
                /\ task'[v] = task[v] /\ pc'[v] = pc[v]
                /\ task[v] \in Keys /\ task[v] # task[w]
<1>1. ASSUME NEW v \in Workers, Busy(v)'
      PROVE  v # w /\ pc'[v] = pc[v] /\ task'[v] = task[v] /\ Busy(v)
  BY <1>1 DEF Idle, Busy, CoreInv, CoreTypeOK
<1>2. SingleWriter'
  BY <1>1 DEF CoreInv, SingleWriter, Busy
<1>3. \A v \in Workers : v # w /\ Busy(v) => task[v] \in Keys /\ task[v] # task[w]
  BY DEF CoreInv, SingleWriter, CoreTypeOK
<1> QED
  BY <1>1, <1>2, <1>3

LEMMA ActivateSafe ==
    ASSUME CoreInv, CoreTypeOK', GenerationInv', NEW w \in Workers, Activate(w)
    PROVE  CoreInv'
<1> DEFINE k == task[w]
<1>1. /\ Busy(w) /\ Idle(w) /\ pc[w] = "verified"
      /\ job[k[1]].status = "PROCESSING" /\ job[k[1]].gen = k[2]
      /\ active' = [active EXCEPT ![k[1]] = k[2]]
      /\ UNCHANGED <<vectors, cleaner>>
  BY DEF Activate, Busy, OwnsAttempt, IsCurrent
<1>2. /\ k \in Keys
      /\ manifest[k].status \notin Dead
      /\ \A c \in Cleaners : cleaner[c].at \in {"deleting", "deleted", "failed"}
                               => cleaner[c].row.key # k
      /\ \A c \in Cleaners : \A r \in cleaner[c].batch : r.key # k
  BY <1>1, BusyKey
<1>3. k[1] \in Docs /\ k[2] \in Nat /\ k[2] # None /\ k = <<k[1], k[2]>>
  BY <1>2 DEF Keys, Generations, None
\* The document of an unfinished job shows nothing, so nothing is superseded.
<1>4. active[k[1]] = None /\ <<k[1], active[k[1]]>> \notin Keys
  <2>1. active[k[1]] = None
    BY <1>1, <1>3 DEF CoreInv, VisibleIsCurrent
  <2>2. None \notin Generations
    BY DEF None, Generations
  <2> QED
    BY <2>1, <2>2 DEF Keys
<1>5. /\ manifest'[k].status = "ACTIVE"
      /\ \A m \in Keys : m # k => manifest'[m] = manifest[m]
  BY <1>2, <1>4 DEF Activate, CoreInv, CoreTypeOK, Manifests
<1>6. /\ job'[k[1]].status = "SUCCESS" /\ job'[k[1]].gen = k[2]
      /\ \A d \in Docs : d # k[1] => job'[d] = job[d]
      /\ \A d \in Docs : job'[d].gen = job[d].gen
  <2>1. job \in [Docs -> OpenJobs] /\ job[k[1]] \in OpenJobs
    BY <1>3 DEF CoreInv, CoreTypeOK
  <2>2. job' = [job EXCEPT ![k[1]] =
                  [job[k[1]] EXCEPT !.status = "SUCCESS", !.lease = "null"]]
    BY <1>3, <2>1 DEF Activate, Finish, OpenJobs
  <2>3. job'[k[1]].status = "SUCCESS" /\ job'[k[1]].gen = job[k[1]].gen
    BY <1>3, <2>1, <2>2 DEF OpenJobs
  <2>4. \A d \in Docs : d # k[1] => job'[d] = job[d]
    BY <2>1, <2>2
  <2> QED
    BY <1>1, <2>3, <2>4
<1>7. vectors[k] = "full"
  BY <1>1 DEF CoreInv, WorkerInv
<1>8. SingleWriter' /\ \A v \in Workers : Busy(v)' =>
        /\ v # w /\ Busy(v)
        /\ task'[v] = task[v] /\ pc'[v] = pc[v]
        /\ task[v] \in Keys /\ task[v] # k
  BY <1>1, IdleLeavesOthers
<1> HIDE DEF k
<1>9. WorkerInv'
  <2> SUFFICES ASSUME NEW v \in Workers, Busy(v)'
               PROVE  /\ task[v][2] <= job'[task[v][1]].gen
                      /\ job'[task[v][1]].gen = task[v][2]
                           => job'[task[v][1]].status \in {"PROCESSING", "FAILURE"}
                      /\ manifest'[task[v]].status \in {"ABSENT", "WRITING"}
                      /\ pc[v] = "verified" => vectors[task[v]] = "full"
    BY <1>1, <1>8 DEF WorkerInv, IsCurrent
  <2>1. /\ task[v] \in Keys /\ task[v][1] \in Docs /\ task[v] # k
        /\ task[v] = <<task[v][1], task[v][2]>>
    BY <1>8 DEF Keys
  <2>2. /\ task[v][2] <= job[task[v][1]].gen
        /\ job[task[v][1]].gen = task[v][2]
             => job[task[v][1]].status \in {"PROCESSING", "FAILURE"}
        /\ manifest[task[v]].status \in {"ABSENT", "WRITING"}
        /\ pc[v] = "verified" => vectors[task[v]] = "full"
    BY <1>8 DEF CoreInv, WorkerInv, IsCurrent
  <2>3. job[task[v][1]].gen = task[v][2] => task[v][1] # k[1]
    BY <1>1, <1>3, <2>1 DEF k
  <2> QED
    BY <1>5, <1>6, <2>1, <2>2, <2>3
<1>10. ManifestInv'
  <2> SUFFICES ASSUME NEW m \in Keys
               PROVE  /\ manifest'[m].status # "ABSENT" => m[2] <= job'[m[1]].gen
                      /\ manifest'[m].status # "ABSENT" /\ job'[m[1]].gen = m[2]
                           => job'[m[1]].status # "PENDING"
                      /\ manifest'[m].status \in Dead /\ job'[m[1]].gen = m[2]
                           => job'[m[1]].status = "FAILURE"
    BY DEF ManifestInv, IsCurrent, Dead
  <2>1. m[1] \in Docs /\ m = <<m[1], m[2]>>
    BY DEF Keys
  <2>2. CASE m = k
    BY <1>3, <1>5, <1>6, <2>2 DEF Dead
  <2>3. CASE m # k
    <3>1. manifest'[m] = manifest[m]
      BY <1>5, <2>3
    <3>2. job[m[1]].gen = m[2] => m[1] # k[1]
      BY <1>1, <1>3, <2>1, <2>3 DEF k
    <3> QED
      BY <1>6, <2>1, <3>1, <3>2 DEF CoreInv, ManifestInv, IsCurrent
  <2> QED
    BY <2>2, <2>3
<1>11. CleanerInv'
  <2>1. \A c \in Cleaners : cleaner[c].row.key \in Keys
                              /\ \A r \in cleaner[c].batch : r.key \in Keys
    BY DEF CoreInv, CoreTypeOK, CleanerStates, Rows
  <2> QED
    BY <1>1, <1>2, <1>5, <2>1 DEF CoreInv, CleanerInv, Index!LookupCovers
<1>12. CleanedIsEmpty'
  BY <1>1, <1>5 DEF CoreInv, CleanedIsEmpty
<1>13. (VisibleIsCurrent /\ VisibleComplete)'
  <2> SUFFICES ASSUME NEW d \in Docs, active'[d] # None
               PROVE  /\ job'[d].status = "SUCCESS"
                      /\ job'[d].gen = active'[d]
                      /\ manifest'[<<d, active'[d]>>].status = "ACTIVE"
                      /\ vectors'[<<d, active'[d]>>] = "full"
    BY DEF VisibleIsCurrent, VisibleComplete
  <2>1. CASE d = k[1]
    <3>1. active'[d] = k[2]
      BY <1>1, <1>3, <2>1 DEF CoreInv, CoreTypeOK, k
    <3> QED
      BY <1>1, <1>3, <1>5, <1>6, <1>7, <2>1, <3>1
  <2>2. CASE d # k[1]
    <3>1. active'[d] = active[d] /\ <<d, active[d]>> \in Keys /\ <<d, active[d]>> # k
      <4>1. active'[d] = active[d]
        BY <1>1, <2>2 DEF CoreInv, CoreTypeOK, k
      <4>2. active[d] \in 0..MaxGen /\ active[d] # None
        BY <4>1 DEF CoreInv, CoreTypeOK
      <4>3. active[d] \in Generations
        BY <4>2, IngestionAssumption DEF Generations, None
      <4> QED
        BY <1>3, <2>2, <4>1, <4>3 DEF Keys
    <3>2. /\ job[d].status = "SUCCESS" /\ job[d].gen = active[d]
          /\ manifest[<<d, active[d]>>].status = "ACTIVE"
          /\ vectors[<<d, active[d]>>] = "full"
      BY <3>1 DEF CoreInv, VisibleIsCurrent, VisibleComplete
    <3> QED
      BY <1>1, <1>5, <1>6, <2>2, <3>1, <3>2
  <2> QED
    BY <2>1, <2>2
<1> QED
  BY <1>8, <1>9, <1>10, <1>11, <1>12, <1>13 DEF CoreInv

\* A failed attempt, an attempt that lost its job, and the death of a worker:
\* the job fails or stays, and the manifest turns STALE or stays.
LEMMA AbandonSafe ==
    ASSUME CoreInv, CoreTypeOK', GenerationInv', NEW w \in Workers,
           Reject(w) \/ Disown(w) \/ WorkerCrash(w)
    PROVE  CoreInv'
<1> DEFINE k == task[w]
<1>1. Busy(w) /\ Idle(w) /\ UNCHANGED <<active, vectors, cleaner>>
  BY DEF Reject, Disown, WorkerCrash, Busy
<1>2. /\ k \in Keys
      /\ manifest[k].status \notin Dead
      /\ \A d \in Docs : active[d] # None => k # <<d, active[d]>>
      /\ \A c \in Cleaners : cleaner[c].at \in {"deleting", "deleted", "failed"}
                               => cleaner[c].row.key # k
      /\ \A c \in Cleaners : \A r \in cleaner[c].batch : r.key # k
  BY <1>1, BusyKey
<1>3. k[1] \in Docs /\ k[2] \in Nat /\ k = <<k[1], k[2]>> /\ k[2] <= job[k[1]].gen
  BY <1>1, <1>2 DEF CoreInv, WorkerInv, Keys, Generations
<1>4. /\ manifest'[k].status = "STALE" \/ manifest'[k] = manifest[k]
      /\ \A m \in Keys : m # k => manifest'[m] = manifest[m]
  <2>1. manifest \in [Keys -> Manifests] /\ Stale(manifest[k]).status = "STALE"
    BY <1>2 DEF Stale, CoreInv, CoreTypeOK, Manifests
  <2>2. manifest' = [manifest EXCEPT ![k] = Stale(manifest[k])] \/ manifest' = manifest
    BY DEF Reject, Disown, WorkerCrash
  <2> QED
    BY <1>2, <2>1, <2>2
<1>5. ASSUME NEW d \in Docs
      PROVE  /\ job'[d].gen = job[d].gen
             /\ \/ job'[d].status = job[d].status
                \/ job[d].status = "PROCESSING" /\ job'[d].status = "FAILURE"
  <2>1. CASE Reject(w)
    BY <1>3, <2>1 DEF Reject, OwnsAttempt, Finish, CoreInv, CoreTypeOK, OpenJobs
  <2>2. CASE Disown(w) \/ WorkerCrash(w)
    BY <2>2 DEF Disown, WorkerCrash
  <2> QED
    BY <2>1, <2>2
\* A manifest turns STALE only when its generation is no longer being tried.
<1>6. manifest'[k].status = "STALE" /\ job'[k[1]].gen = k[2] => job'[k[1]].status = "FAILURE"
  <2>1. CASE Reject(w)
    BY <1>3, <2>1 DEF Reject, Finish, CoreInv, CoreTypeOK, OpenJobs
  <2>2. CASE Disown(w)
    BY <1>1, <2>2 DEF Disown, OwnsAttempt, IsCurrent, CoreInv, WorkerInv
  <2>3. CASE WorkerCrash(w)
    BY <1>2, <2>3 DEF WorkerCrash, Dead
  <2> QED
    BY <2>1, <2>2, <2>3
<1>7. job[k[1]].gen = k[2] => job[k[1]].status \in {"PROCESSING", "FAILURE"}
  BY <1>1 DEF CoreInv, WorkerInv, IsCurrent
<1>8. SingleWriter' /\ \A v \in Workers : Busy(v)' =>
        /\ v # w /\ Busy(v)
        /\ task'[v] = task[v] /\ pc'[v] = pc[v]
        /\ task[v] \in Keys /\ task[v] # k
  BY <1>1, IdleLeavesOthers
<1> HIDE DEF k
<1>9. WorkerInv'
  <2> SUFFICES ASSUME NEW v \in Workers, Busy(v)'
               PROVE  /\ task[v][2] <= job'[task[v][1]].gen
                      /\ job'[task[v][1]].gen = task[v][2]
                           => job'[task[v][1]].status \in {"PROCESSING", "FAILURE"}
                      /\ manifest'[task[v]].status \in {"ABSENT", "WRITING"}
                      /\ pc[v] = "verified" => vectors[task[v]] = "full"
    BY <1>1, <1>8 DEF WorkerInv, IsCurrent
  <2>1. task[v] \in Keys /\ task[v][1] \in Docs /\ task[v] # k
    BY <1>8 DEF Keys
  <2>2. /\ task[v][2] <= job[task[v][1]].gen
        /\ job[task[v][1]].gen = task[v][2]
             => job[task[v][1]].status \in {"PROCESSING", "FAILURE"}
        /\ manifest[task[v]].status \in {"ABSENT", "WRITING"}
        /\ pc[v] = "verified" => vectors[task[v]] = "full"
    BY <1>8 DEF CoreInv, WorkerInv, IsCurrent
  <2> QED
    BY <1>4, <1>5, <2>1, <2>2
<1>10. ManifestInv'
  <2> SUFFICES ASSUME NEW m \in Keys
               PROVE  /\ manifest'[m].status # "ABSENT" => m[2] <= job'[m[1]].gen
                      /\ manifest'[m].status # "ABSENT" /\ job'[m[1]].gen = m[2]
                           => job'[m[1]].status # "PENDING"
                      /\ manifest'[m].status \in Dead /\ job'[m[1]].gen = m[2]
                           => job'[m[1]].status = "FAILURE"
    BY DEF ManifestInv, IsCurrent, Dead
  <2>1. m[1] \in Docs
    BY DEF Keys
  <2>2. CASE m = k
    BY <1>2, <1>3, <1>4, <1>5, <1>6, <1>7, <2>2 DEF Dead
  <2>3. CASE m # k
    BY <1>4, <1>5, <2>1, <2>3 DEF CoreInv, ManifestInv, IsCurrent
  <2> QED
    BY <2>2, <2>3
<1>11. CleanerInv'
  <2>1. \A c \in Cleaners : cleaner[c].row.key \in Keys
                              /\ \A r \in cleaner[c].batch : r.key \in Keys
    BY DEF CoreInv, CoreTypeOK, CleanerStates, Rows
  <2> QED
    BY <1>1, <1>2, <1>4, <2>1 DEF CoreInv, CleanerInv, Index!LookupCovers
<1>12. CleanedIsEmpty'
  BY <1>1, <1>2, <1>4 DEF CoreInv, CleanedIsEmpty, Dead
<1>13. (VisibleIsCurrent /\ VisibleComplete)'
  <2>1. \A d \in Docs : active[d] # None => <<d, active[d]>> \in Keys
    BY DEF CoreInv, CoreTypeOK, Keys, Generations, None
  <2> QED
    BY <1>1, <1>2, <1>4, <1>5, <2>1 DEF CoreInv, VisibleIsCurrent, VisibleComplete
<1> QED
  BY <1>8, <1>9, <1>10, <1>11, <1>12, <1>13 DEF CoreInv

-----------------------------------------------------------------------------
(* Steps of the cleaners *)

\* The steps of a cleaner leave jobs, pointers and workers alone.  They keep
\* the invariant when they touch only dead generations, remove chunks only,
\* and leave the manifests of dead generations dead.
LEMMA CleanersSafe ==
    ASSUME CoreInv, CoreTypeOK', GenerationInv',
           UNCHANGED <<job, active, pc, task>>,
           \A k \in Keys : manifest[k].status \notin Dead
             => manifest'[k].status = manifest[k].status /\ vectors'[k] = vectors[k],
           \A k \in Keys : manifest[k].status \in Dead => manifest'[k].status \in Dead,
           CleanerInv',
           CleanedIsEmpty'
    PROVE  CoreInv'
<1>1. WorkerInv'
  <2> SUFFICES ASSUME NEW w \in Workers, Busy(w)
               PROVE  /\ manifest'[task[w]].status \in {"ABSENT", "WRITING"}
                      /\ pc[w] = "verified" => vectors'[task[w]] = "full"
    BY DEF CoreInv, WorkerInv, Busy, IsCurrent
  <2>1. task[w] \in Keys /\ manifest[task[w]].status \notin Dead
    BY BusyKey
  <2> QED
    BY <2>1 DEF CoreInv, WorkerInv
<1>2. SingleWriter'
  BY DEF CoreInv, SingleWriter, Busy
<1>3. ManifestInv'
  BY DEF CoreInv, ManifestInv, IsCurrent, Dead
<1>4. (VisibleIsCurrent /\ VisibleComplete)'
  <2> SUFFICES ASSUME NEW d \in Docs, active[d] # None
               PROVE  /\ job[d].status = "SUCCESS" /\ job[d].gen = active[d]
                      /\ manifest'[<<d, active[d]>>].status = "ACTIVE"
                      /\ vectors'[<<d, active[d]>>] = "full"
    BY DEF VisibleIsCurrent, VisibleComplete
  <2>1. active[d] \in 0..MaxGen
    BY DEF CoreInv, CoreTypeOK
  <2>2. <<d, active[d]>> \in Keys
    BY <2>1, IngestionAssumption DEF Keys, Generations, None
  <2>3. /\ job[d].status = "SUCCESS" /\ job[d].gen = active[d]
        /\ manifest[<<d, active[d]>>].status = "ACTIVE"
        /\ vectors[<<d, active[d]>>] = "full"
    BY DEF CoreInv, VisibleIsCurrent, VisibleComplete
  <2> QED
    BY <2>2, <2>3 DEF Dead
<1> QED
  BY <1>1, <1>2, <1>3, <1>4 DEF CoreInv

LEMMA ReadSafe ==
    ASSUME CoreInv, CoreTypeOK', GenerationInv', NEW c \in Cleaners,
           \/ ReadLive(c) \/ ReadDue(c) \/ CleanerCrash(c)
           \/ \E r \in cleaner[c].batch : LookUp(c, r)
    PROVE  CoreInv'
<1>1. UNCHANGED <<job, active, manifest, vectors, pc, task>>
  BY DEF ReadLive, ReadDue, CleanerCrash, LookUp
<1>2. \A b \in Cleaners : b # c => cleaner'[b] = cleaner[b]
  BY DEF ReadLive, ReadDue, CleanerCrash, LookUp, Clean, CoreInv, CoreTypeOK
<1>3. cleaner[c] \in CleanerStates /\ cleaner \in [Cleaners -> CleanerStates]
  BY DEF CoreInv, CoreTypeOK
\* What the invariant asks of this cleaner's next state.
<1>4. /\ \A r \in cleaner'[c].batch : manifest[r.key].status \in Dead
      /\ cleaner'[c].at \in {"deleting", "deleted", "failed"}
           => manifest[cleaner'[c].row.key].status \in Dead
      /\ cleaner'[c].at = "deleting"
           => cleaner'[c].seen = vectors[cleaner'[c].row.key]
      /\ cleaner'[c].at # "deleted"
  <2>1. CASE ReadLive(c) \/ CleanerCrash(c)
    <3> DEFINE live == {Current(d) : d \in {e \in Docs : Unfinished(e)}}
    <3>1. \/ Clean(c, IdleCleaner)
          \/ Clean(c, [IdleCleaner EXCEPT !.at = "scanned", !.live = live])
      BY <2>1 DEF ReadLive, CleanerCrash
    <3> HIDE DEF live
    <3>2. \/ cleaner'[c] = IdleCleaner
          \/ cleaner'[c] = [IdleCleaner EXCEPT !.at = "scanned", !.live = live]
      BY <1>3, <3>1 DEF Clean
    <3>3. CASE cleaner'[c] = IdleCleaner
      BY <3>3 DEF IdleCleaner
    <3>4. CASE cleaner'[c] = [IdleCleaner EXCEPT !.at = "scanned", !.live = live]
      <4>1. cleaner'[c].batch = {} /\ cleaner'[c].at = "scanned"
        BY <3>4 DEF IdleCleaner
      <4> QED
        BY <4>1
    <3> QED
      BY <3>2, <3>3, <3>4
  <2>2. CASE ReadDue(c)
    <3>1. PICK S \in SUBSET {k \in Keys : DueForCleanup(k)} :
            LET batch == {[key |-> k, attempts |-> manifest[k].attempts] :
                            k \in {s \in S : ~IsActive(s) /\ s \notin cleaner[c].live}}
            IN  Clean(c, IF batch = {} THEN IdleCleaner
                         ELSE [IdleCleaner EXCEPT !.at = "sweeping", !.batch = batch])
      BY <2>2 DEF ReadDue
    <3> DEFINE batch == {[key |-> k, attempts |-> manifest[k].attempts] :
                           k \in {s \in S : ~IsActive(s) /\ s \notin cleaner[c].live}}
    <3>2. \A r \in batch : manifest[r.key].status \in Dead
      BY DEF DueForCleanup, Dead
    <3>3. cleaner'[c] = IF batch = {} THEN IdleCleaner
                        ELSE [IdleCleaner EXCEPT !.at = "sweeping", !.batch = batch]
      BY <1>3, <3>1 DEF Clean
    <3> HIDE DEF batch
    <3>4. cleaner'[c].at \in {"idle", "sweeping"} /\ cleaner'[c].batch \subseteq batch
      BY <3>3 DEF IdleCleaner
    <3> QED
      BY <3>2, <3>4
  <2>3. CASE \E r \in cleaner[c].batch : LookUp(c, r)
    <3>1. PICK r \in cleaner[c].batch : LookUp(c, r)
      BY <2>3
    <3>2. manifest[r.key].status \in Dead
             /\ \A q \in cleaner[c].batch : manifest[q.key].status \in Dead
      BY DEF CoreInv, CleanerInv
    <3>3. cleaner'[c] = [cleaner[c] EXCEPT !.at = "deleting", !.row = r,
                                           !.batch = @ \ {r}, !.seen = vectors[r.key]]
      BY <1>3, <3>1 DEF LookUp, Clean, CleanerStates
    <3>4. /\ cleaner'[c].at = "deleting" /\ cleaner'[c].row = r
          /\ cleaner'[c].batch = cleaner[c].batch \ {r}
          /\ cleaner'[c].seen = vectors[r.key]
      BY <1>3, <3>3 DEF CleanerStates
    <3> QED
      BY <3>2, <3>4
  <2> QED
    BY <2>1, <2>2, <2>3
<1>5. CleanerInv'
  BY <1>1, <1>2, <1>4 DEF CoreInv, CleanerInv, Index!LookupCovers
<1>6. CleanedIsEmpty'
  BY <1>1 DEF CoreInv, CleanedIsEmpty
<1> QED
  BY <1>1, <1>5, <1>6, CleanersSafe

\* A deletion, complete or not, never adds chunks: what a lookup found still
\* covers what is there, and what is empty stays empty.
LEMMA DeleteSafe ==
    ASSUME CoreInv, CoreTypeOK', GenerationInv', NEW c \in Cleaners, Delete(c) \/ DeleteRaises(c)
    PROVE  CoreInv'
<1> DEFINE k == cleaner[c].row.key
           seen == cleaner[c].seen
<1>1. /\ UNCHANGED <<job, active, manifest, pc, task>>
      /\ cleaner[c].at = "deleting"
  BY DEF Delete, DeleteRaises
<1>2. /\ k \in Keys /\ manifest[k].status \in Dead /\ Index!LookupCovers(seen, k)
      /\ cleaner[c] \in CleanerStates /\ seen \in Index!Contents
      /\ vectors[k] \in Index!Contents
  BY <1>1, RowTyped DEF CoreInv, CleanerInv, CoreTypeOK, CleanerStates
<1>3. \A m \in Keys : m # k => vectors'[m] = vectors[m]
  BY DEF Delete, DeleteRaises, Index!DeleteIds, Index!DeleteIdsRaises, Index!Store,
         CoreInv, CoreTypeOK
<1>4. Index!AfterDelete(seen, k) = "none"
  BY <1>2 DEF Index!AfterDelete, Index!LookupCovers
<1>5. vectors[k] = "none" => vectors'[k] = "none"
  BY <1>2, <1>4 DEF Delete, DeleteRaises, Index!DeleteIds, Index!DeleteIdsRaises,
                    Index!Store, CoreInv, CoreTypeOK
<1>6. vectors'[k] \in {"none", "partial", vectors[k]}
  BY <1>2, <1>4 DEF Delete, DeleteRaises, Index!DeleteIds, Index!DeleteIdsRaises,
                    Index!Store, CoreInv, CoreTypeOK
<1>7. Delete(c) => vectors'[k] = "none"
  BY <1>2, <1>4 DEF Delete, Index!DeleteIds, Index!Store, CoreInv, CoreTypeOK
<1>8. /\ \A b \in Cleaners : b # c => cleaner'[b] = cleaner[b]
      /\ cleaner'[c].batch = cleaner[c].batch
      /\ cleaner'[c].row = cleaner[c].row
      /\ cleaner'[c].at = IF Delete(c) THEN "deleted" ELSE "failed"
  <2>1. CASE Delete(c)
    <3>1. cleaner' = [cleaner EXCEPT ![c] = [cleaner[c] EXCEPT !.at = "deleted",
                                                              !.seen = "none"]]
      BY <2>1 DEF Delete, Clean
    <3> QED
      BY <1>2, <2>1, <3>1 DEF CoreInv, CoreTypeOK, CleanerStates
  <2>2. CASE DeleteRaises(c) /\ ~Delete(c)
    <3>1. cleaner' = [cleaner EXCEPT ![c] = [cleaner[c] EXCEPT !.at = "failed",
                                                              !.seen = "none"]]
      BY <2>2 DEF DeleteRaises, Clean
    <3> QED
      BY <1>2, <2>2, <3>1 DEF CoreInv, CoreTypeOK, CleanerStates
  <2> QED
    BY <2>1, <2>2
<1> HIDE DEF k, seen
<1>9. CleanerInv'
  <2> SUFFICES ASSUME NEW b \in Cleaners
               PROVE  /\ \A r \in cleaner'[b].batch : manifest[r.key].status \in Dead
                      /\ cleaner'[b].at \in {"deleting", "deleted", "failed"}
                           => manifest[cleaner'[b].row.key].status \in Dead
                      /\ cleaner'[b].at = "deleting"
                           => \/ cleaner'[b].seen = "full"
                              \/ vectors'[cleaner'[b].row.key]
                                   \in {"none", cleaner'[b].seen}
                      /\ cleaner'[b].at = "deleted"
                           => vectors'[cleaner'[b].row.key] = "none"
    BY <1>1 DEF CleanerInv, Index!LookupCovers
  <2>1. /\ \A r \in cleaner[b].batch : manifest[r.key].status \in Dead
        /\ cleaner[b].at \in {"deleting", "deleted", "failed"}
             => manifest[cleaner[b].row.key].status \in Dead
        /\ cleaner[b].at = "deleting"
             => \/ cleaner[b].seen = "full"
                \/ vectors[cleaner[b].row.key] \in {"none", cleaner[b].seen}
        /\ cleaner[b].at = "deleted" => vectors[cleaner[b].row.key] = "none"
        /\ cleaner[b].row.key \in Keys /\ cleaner[b].seen \in Index!Contents
    BY RowTyped DEF CoreInv, CleanerInv, Index!LookupCovers, CoreTypeOK, CleanerStates
  <2>2. CASE b = c
    BY <1>1, <1>7, <1>8, <2>1, <2>2 DEF k
  <2>3. CASE b # c /\ cleaner[b].row.key # k
    BY <1>3, <1>8, <2>1, <2>3
  <2>4. CASE b # c /\ cleaner[b].row.key = k
    <3>1. cleaner'[b] = cleaner[b]
      BY <1>8, <2>4
    <3>2. cleaner[b].at = "deleting"
            => \/ cleaner[b].seen = "full"
               \/ vectors'[k] \in {"none", cleaner[b].seen}
      BY <1>2, <1>5, <1>6, <2>1, <2>4 DEF Index!Contents
    <3> QED
      BY <1>5, <2>1, <2>4, <3>1, <3>2
  <2> QED
    BY <2>2, <2>3, <2>4
<1>10. CleanedIsEmpty'
  BY <1>1, <1>3, <1>5 DEF CoreInv, CleanedIsEmpty
<1>11. \A m \in Keys : manifest[m].status \notin Dead => vectors'[m] = vectors[m]
  BY <1>2, <1>3
<1> QED
  BY <1>1, <1>9, <1>10, <1>11, CleanersSafe

\* A save changes one manifest, which was dead and stays dead.
LEMMA SaveSafe ==
    ASSUME CoreInv, CoreTypeOK', GenerationInv', NEW c \in Cleaners, SaveCleaned(c) \/ SaveFailure(c)
    PROVE  CoreInv'
<1> DEFINE k == cleaner[c].row.key
<1>1. UNCHANGED <<job, active, vectors, pc, task>> /\ cleaner[c].at \in {"deleted", "failed"}
  BY DEF SaveCleaned, SaveFailure
<1>2. k \in Keys /\ manifest[k].status \in Dead /\ cleaner[c] \in CleanerStates
  BY <1>1, RowTyped DEF CoreInv, CleanerInv
<1>3. /\ \A m \in Keys : m # k => manifest'[m] = manifest[m]
      /\ manifest'[k].status \in Dead
      /\ manifest'[k].status = "CLEANED" => vectors[k] = "none"
  <2>1. CASE SaveCleaned(c)
    <3>1. vectors[k] = "none"
      BY <2>1 DEF SaveCleaned, CoreInv, CleanerInv
    <3> QED
      BY <1>2, <2>1, <3>1 DEF SaveCleaned, CoreInv, CoreTypeOK, Manifests, Dead
  <2>2. CASE SaveFailure(c)
    <3>1. manifest'[k].status = manifest[k].status
            /\ \A m \in Keys : m # k => manifest'[m] = manifest[m]
      BY <1>2, <2>2 DEF SaveFailure, CoreInv, CoreTypeOK, Manifests
    <3> QED
      BY <1>2, <3>1 DEF CoreInv, CleanedIsEmpty
  <2> QED
    BY <2>1, <2>2
<1>4. /\ \A b \in Cleaners : b # c => cleaner'[b] = cleaner[b]
      /\ cleaner'[c].at \in {"idle", "sweeping"}
      /\ cleaner'[c].batch \subseteq cleaner[c].batch
  <2> DEFINE next == IF cleaner[c].batch = {} THEN IdleCleaner
                     ELSE [IdleCleaner EXCEPT !.at = "sweeping",
                                              !.batch = cleaner[c].batch]
  <2>1. cleaner' = [cleaner EXCEPT ![c] = next] /\ cleaner \in [Cleaners -> CleanerStates]
    BY DEF SaveCleaned, SaveFailure, NextRow, Clean, CoreInv, CoreTypeOK
  <2>2. next.at \in {"idle", "sweeping"} /\ next.batch \subseteq cleaner[c].batch
    BY DEF IdleCleaner
  <2> HIDE DEF next
  <2> QED
    BY <2>1, <2>2
<1> HIDE DEF k
<1>5. \A b \in Cleaners : cleaner[b].row.key \in Keys
                            /\ \A r \in cleaner[b].batch : r.key \in Keys
  BY DEF CoreInv, CoreTypeOK, CleanerStates, Rows
<1>6. CleanerInv'
  BY <1>1, <1>3, <1>4, <1>5 DEF CoreInv, CleanerInv, Index!LookupCovers
<1>7. CleanedIsEmpty'
  BY <1>1, <1>3 DEF CoreInv, CleanedIsEmpty
<1> QED
  BY <1>1, <1>2, <1>3, <1>6, <1>7, CleanersSafe

-----------------------------------------------------------------------------
(* The theorems *)

\* Every step keeps what the tasks promise of generations.
LEMMA StepSafe ==
    ASSUME CoreInv, [Next]_vars
    PROVE  CoreInv'
<1>1. CoreTypeOK' /\ GenerationInv'
  BY StepTyped DEF CoreInv
<1>2. CASE \E d \in Docs : Upload(d)
  BY <1>1, <1>2, UploadSafe
<1>3. CASE \E w \in Workers, k \in dispatched : Claim(w, k)
  BY <1>1, <1>3, ClaimSafe
<1>4. CASE \E w \in Workers : WorkerStep(w) \/ WorkerCrash(w)
  BY <1>1, <1>4, PipelineSafe, ActivateSafe, AbandonSafe DEF WorkerStep
<1>5. CASE Recovery
  BY <1>1, <1>5, RecoverSafe, ReindexSafe DEF Recovery
<1>6. CASE \E c \in Cleaners : CleanerStep(c) \/ CleanerCrash(c)
  BY <1>1, <1>6, ReadSafe, DeleteSafe, SaveSafe DEF CleanerStep
<1>7. CASE Tick
  BY <1>1, <1>7, TickSafe
<1>8. CASE UNCHANGED vars
  BY <1>1, <1>8, JobStepsSafe DEF vars, JobKept
<1> QED
  BY <1>2, <1>3, <1>4, <1>5, <1>6, <1>7, <1>8 DEF Next

SafetyInv == CoreInv /\ AttemptsInv

\* SafetyInv is inductive.
THEOREM SafetyInvariant == SafetySpec => []SafetyInv
<1>1. SafetyInv /\ [Next]_vars => SafetyInv'
  BY StepSafe, StepTyped, StepAttempts DEF SafetyInv, CoreInv
<1> QED
  BY <1>1, InitSafe, InitAttempts, PTL DEF SafetySpec, SafetyInv

\* What chat may read of a document is completely indexed.
THEOREM VisibleIsComplete == SafetySpec => []VisibleComplete
<1>1. SafetyInv => VisibleComplete
  BY DEF SafetyInv, CoreInv
<1> QED
  BY <1>1, SafetyInvariant, PTL

\* The pointer, the job and the manifest of a visible generation agree.
THEOREM VisibleAgrees == SafetySpec => []VisibleIsCurrent
<1>1. SafetyInv => VisibleIsCurrent
  BY DEF SafetyInv, CoreInv
<1> QED
  BY <1>1, SafetyInvariant, PTL

\* Two workers never process the same generation.
THEOREM WritersAreAlone == SafetySpec => []SingleWriter
<1>1. SafetyInv => SingleWriter
  BY DEF SafetyInv, CoreInv
<1> QED
  BY <1>1, SafetyInvariant, PTL

\* A cleaner about to delete has a dead generation in hand.
THEOREM CleanerIsHarmless == SafetySpec => []CleanerTargetsDead
<1>1. SafetyInv => CleanerTargetsDead
  <2> SUFFICES ASSUME SafetyInv, NEW c \in Cleaners, cleaner[c].at = "deleting"
               PROVE  LET k == cleaner[c].row.key
                      IN  /\ ~IsActive(k)
                          /\ ~(IsCurrent(k) /\ Unfinished(k[1]))
                          /\ \A w \in Workers : Busy(w) => task[w] # k
    BY DEF CleanerTargetsDead
  <2> DEFINE k == cleaner[c].row.key
  <2>1. k \in Keys /\ manifest[k].status \in Dead
    BY RowTyped DEF SafetyInv, CoreInv, CleanerInv
  <2>2. k[1] \in Docs /\ k[2] # None /\ k = <<k[1], k[2]>>
    BY <2>1 DEF Keys, Generations, None
  <2>3. ~IsActive(k)
    <3> SUFFICES ASSUME active[k[1]] = k[2] PROVE FALSE
      BY DEF IsActive
    <3>1. manifest[<<k[1], k[2]>>].status = "ACTIVE"
      BY <2>2 DEF SafetyInv, CoreInv, VisibleIsCurrent
    <3> QED
      BY <2>1, <2>2, <3>1 DEF Dead
  <2>4. ~(IsCurrent(k) /\ Unfinished(k[1]))
    BY <2>1 DEF SafetyInv, CoreInv, ManifestInv, Unfinished
  <2>5. \A w \in Workers : Busy(w) => task[w] # k
    BY <2>1, BusyKey DEF SafetyInv
  <2> QED
    BY <2>3, <2>4, <2>5
<1> QED
  BY <1>1, SafetyInvariant, PTL

\* A generation recorded as CLEANED has no chunk left.
THEOREM CleanedStaysEmpty == SafetySpec => []CleanedIsEmpty
<1>1. SafetyInv => CleanedIsEmpty
  BY DEF SafetyInv, CoreInv
<1> QED
  BY <1>1, SafetyInvariant, PTL

-----------------------------------------------------------------------------
(* Count and date of a deletion.  A row that was never STALE has counted   *)
(* nothing, so the date it gets with STALE stands beside a count below the *)
(* limit; from then on only cleaners touch it, each saving both columns    *)
(* from one snapshot, whatever another has saved between.                  *)

\* A manifest row: a date as long as attempts are left.
Scheduled(m) ==
    /\ m.status = "STALE" => (m.cleanup = "null" <=> m.attempts = CleanupMax)
    /\ m.status \notin Dead => m.attempts = 0

ScheduleInv == \A k \in Keys : Scheduled(manifest[k])

LEMMA StaleScheduled ==
    ASSUME NEW m \in Manifests, m.status \notin Dead, Scheduled(m)
    PROVE  Scheduled(Stale(m))
<1>1. Stale(m).cleanup = "waiting" /\ Stale(m).attempts = m.attempts /\ Stale(m).status = "STALE"
  BY DEF Stale, Manifests
<1>2. m.attempts = 0 /\ CleanupMax # 0
  BY IngestionAssumption DEF Scheduled
<1> QED
  BY <1>1, <1>2 DEF Scheduled, Dead

\* The document of an unfinished job shows nothing, so nothing is superseded.
LEMMA ActivationScheduled ==
    ASSUME CoreInv, ScheduleInv, NEW w \in Workers, Activate(w)
    PROVE  Busy(w) /\ ScheduleInv'
<1> DEFINE k == task[w]
<1>1. Busy(w) /\ job[k[1]].status = "PROCESSING" /\ job[k[1]].gen = k[2]
  BY DEF Activate, Busy, OwnsAttempt, IsCurrent
<1>2. k \in Keys /\ manifest[k].status \notin Dead
  BY <1>1, BusyKey
<1>3. k[1] \in Docs
  BY <1>2 DEF Keys
<1>4. <<k[1], active[k[1]]>> \notin Keys
  <2>1. active[k[1]] = None
    BY <1>1, <1>3 DEF CoreInv, VisibleIsCurrent
  <2>2. None \notin Generations
    BY DEF None, Generations
  <2> QED
    BY <2>1, <2>2 DEF Keys
<1>5. /\ manifest'[k].status = "ACTIVE" /\ manifest'[k].attempts = manifest[k].attempts
      /\ \A m \in Keys : m # k => manifest'[m] = manifest[m]
  BY <1>2, <1>4 DEF Activate, CoreInv, CoreTypeOK, Manifests
<1> QED
  BY <1>1, <1>2, <1>5 DEF ScheduleInv, Scheduled, Dead

\* What a worker does to the manifest of its own generation.
LEMMA WorkersSchedule ==
    ASSUME CoreInv, ScheduleInv, NEW w \in Workers, WorkerStep(w)
    PROVE  ScheduleInv'
<1>1. Busy(w)
  <2>1. CASE OpenManifest(w) \/ WriteChunks(w) \/ WriteRaises(w) \/ Readback(w)
               \/ PipelineRaises(w)
    BY <2>1 DEF OpenManifest, WriteChunks, WriteRaises, Readback, PipelineRaises, Busy
  <2>2. CASE Activate(w)
    BY <2>2, ActivationScheduled
  <2>3. CASE Reject(w) \/ Disown(w)
    BY <2>3 DEF Reject, Disown, Busy
  <2> QED
    BY <2>1, <2>2, <2>3 DEF WorkerStep
<1>2. /\ task[w] \in Keys /\ manifest[task[w]].status \notin Dead
      /\ manifest[task[w]] \in Manifests
      /\ manifest \in [Keys -> Manifests]
  BY <1>1, BusyKey DEF CoreInv, CoreTypeOK
<1>3. CASE UNCHANGED manifest
  BY <1>3 DEF ScheduleInv
<1>4. CASE OpenManifest(w)
  <2>1. manifest' = [manifest EXCEPT ![task[w]].status = "WRITING"]
    BY <1>4 DEF OpenManifest
  <2> SUFFICES ASSUME NEW k \in Keys PROVE Scheduled(manifest'[k])
    BY DEF ScheduleInv
  <2>2. Scheduled(manifest[k]) /\ Scheduled(manifest[task[w]])
    BY <1>2 DEF ScheduleInv
  <2> QED
    BY <1>2, <2>1, <2>2 DEF Scheduled, Dead, Manifests
<1>5. CASE Reject(w) \/ Disown(w)
  <2>1. manifest' = [manifest EXCEPT ![task[w]] = Stale(@)]
    BY <1>5 DEF Reject, Disown
  <2>2. Scheduled(Stale(manifest[task[w]]))
    BY <1>2, StaleScheduled DEF ScheduleInv
  <2> QED
    BY <1>2, <2>1, <2>2 DEF ScheduleInv
<1>6. CASE Activate(w)
  BY <1>6, ActivationScheduled
<1> QED
  BY <1>3, <1>4, <1>5, <1>6
  DEF WorkerStep, WriteChunks, WriteRaises, Readback, PipelineRaises

\* A cleaner's row is STALE or CLEANED, so the count it saves is no matter of
\* a generation still in use.
LEMMA CleanersSchedule ==
    ASSUME CoreInv, ScheduleInv, NEW c \in Cleaners, SaveCleaned(c) \/ SaveFailure(c)
    PROVE  ScheduleInv'
<1> DEFINE k == cleaner[c].row.key
           n == cleaner[c].row.attempts + 1
<1>1. k \in Keys /\ n \in 0..CleanupMax /\ manifest \in [Keys -> Manifests]
  BY RowTyped DEF CoreInv, CoreTypeOK
<1>2. manifest[k].status \in Dead
  BY DEF SaveCleaned, SaveFailure, CoreInv, CleanerInv
<1>3. CASE SaveCleaned(c)
  <2>1. manifest' = [manifest EXCEPT ![k].status = "CLEANED", ![k].attempts = n]
    BY <1>3 DEF SaveCleaned
  <2> QED
    BY <1>1, <2>1 DEF ScheduleInv, Scheduled, Dead, Manifests
<1>4. CASE SaveFailure(c)
  <2>1. manifest' = [manifest EXCEPT ![k].attempts = n,
                                     ![k].cleanup = CleanupAfterFailure(n)]
    BY <1>4 DEF SaveFailure
  <2> HIDE DEF n, k
  <2>2. CleanupAfterFailure(n) = "null" <=> n = CleanupMax
    BY <1>1, IngestionAssumption DEF CleanupAfterFailure
  <2> QED
    BY <1>1, <1>2, <2>1, <2>2 DEF ScheduleInv, Scheduled, Dead, Manifests
<1> QED
  BY <1>3, <1>4

LEMMA StepSchedules ==
    ASSUME CoreInv, ScheduleInv, [Next]_vars
    PROVE  ScheduleInv'
<1>1. CASE UNCHANGED manifest
  BY <1>1 DEF ScheduleInv
<1>2. CASE \E w \in Workers : WorkerStep(w)
  BY <1>2, WorkersSchedule
<1>3. CASE \E c \in Cleaners : SaveCleaned(c) \/ SaveFailure(c)
  BY <1>3, CleanersSchedule
<1>4. CASE \E k \in Keys : CleanupFallsDue(k)
  <2>1. PICK k \in Keys : CleanupFallsDue(k)
    BY <1>4
  <2>2. /\ manifest[k].cleanup = "waiting"
        /\ manifest' = [manifest EXCEPT ![k].cleanup = "due"]
        /\ manifest \in [Keys -> Manifests]
    BY <2>1 DEF CleanupFallsDue, CoreInv, CoreTypeOK
  <2> QED
    BY <2>2 DEF ScheduleInv, Scheduled, Manifests
<1>5. CASE \E w \in Workers : WorkerCrash(w)
  BY <1>1, <1>5 DEF WorkerCrash
<1>6. CASE \/ \E d \in Docs : Upload(d) \/ JobAges(d) \/ LeaseExpires(d)
           \/ \E w \in Workers, k \in dispatched : Claim(w, k)
  <2>1. CASE \E d \in Docs : Upload(d) \/ JobAges(d) \/ LeaseExpires(d)
    BY <1>1, <2>1 DEF Upload, JobAges, LeaseExpires
  <2>2. CASE \E w \in Workers, k \in dispatched : Claim(w, k)
    BY <1>1, <2>2 DEF Claim
  <2> QED
    BY <1>6, <2>1, <2>2
<1>7. CASE Recovery
  BY <1>1, <1>7 DEF Recovery, RecoverStaleJobs, ReindexLegacy
<1>8. CASE \E c \in Cleaners : CleanerStep(c) \/ CleanerCrash(c)
  <2>1. PICK c \in Cleaners : CleanerStep(c) \/ CleanerCrash(c)
    BY <1>8
  <2>2. CASE SaveCleaned(c) \/ SaveFailure(c)
    BY <1>3, <2>2
  <2>3. CASE CleanerCrash(c) \/ ReadLive(c) \/ ReadDue(c)
    BY <1>1, <2>3 DEF CleanerCrash, ReadLive, ReadDue
  <2>4. CASE (\E r \in cleaner[c].batch : LookUp(c, r)) \/ Delete(c) \/ DeleteRaises(c)
    BY <1>1, <2>4 DEF LookUp, Delete, DeleteRaises
  <2> QED
    BY <2>1, <2>2, <2>3, <2>4 DEF CleanerStep
<1>9. CASE UNCHANGED vars
  BY <1>1, <1>9 DEF vars
<1> QED
  BY <1>2, <1>4, <1>5, <1>6, <1>7, <1>8, <1>9 DEF Next, Tick

\* A generation waiting for its deletion keeps a date for it until its attempts
\* are used up, and loses it then, although cleanups overlap.
THEOREM StaleGenerationsAreScheduled == SafetySpec => []StaleIsScheduled
<1>1. Init => ScheduleInv
  BY DEF Init, ScheduleInv, Scheduled, NoManifest
<1>2. CoreInv /\ ScheduleInv /\ [Next]_vars => ScheduleInv'
  BY StepSchedules
<1>3. ScheduleInv => StaleIsScheduled
  BY DEF ScheduleInv, Scheduled, StaleIsScheduled
<1>4. SafetyInv => CoreInv
  BY DEF SafetyInv
<1> QED
  BY <1>1, <1>2, <1>3, <1>4, SafetyInvariant, PTL DEF SafetySpec

-----------------------------------------------------------------------------
(* Ingestion implements DocumentLifecycle, under the mapping stated in     *)
(* Ingestion: every step moves each document along the state diagram, and  *)
(* leaves complete what is visible.                                        *)

\* The moves of one document, in the variables of Ingestion.
Stays(d) ==
    job'[d].status = job[d].status /\ job'[d].gen = job[d].gen /\ active'[d] = active[d]

Moves(d, from, to) ==
    job[d].status = from /\ job'[d].status = to /\ job'[d].gen = job[d].gen

Restarts(d) ==
    /\ job[d].status \in {"ABSENT", "PENDING", "PROCESSING", "SUCCESS"}
    /\ job'[d].status = "PENDING"
    /\ job'[d].gen = job[d].gen + 1
    /\ active[d] = None
    /\ active'[d] = None

Appears(d) ==
    /\ Moves(d, "PROCESSING", "SUCCESS")
    /\ active'[d] = job[d].gen
    /\ vectors[d, job[d].gen] = "full"

Walks(d) ==
    \/ Stays(d)
    \/ Restarts(d)
    \/ Moves(d, "PENDING", "PROCESSING") /\ active'[d] = active[d]
    \/ Moves(d, "PROCESSING", "FAILURE") /\ active'[d] = active[d]
    \/ Appears(d)

\* A visible document is a success, so it is neither unfinished nor claimed.
LEMMA UnfinishedIsInvisible ==
    ASSUME CoreInv, NEW d \in Docs, job[d].status # "SUCCESS"
    PROVE  active[d] = None
BY DEF CoreInv, VisibleIsCurrent

LEMMA JobUntouchedWalks ==
    ASSUME UNCHANGED <<job, active>>
    PROVE  \A d \in Docs : Walks(d)
BY DEF Walks, Stays

LEMMA UploadWalks ==
    ASSUME CoreInv, NEW d \in Docs, Upload(d)
    PROVE  \A e \in Docs : Walks(e)
<1> SUFFICES ASSUME NEW e \in Docs PROVE Walks(e)
  OBVIOUS
<1>1. job[e] \in OpenJobs /\ job[d] \in OpenJobs
  BY DEF CoreInv, CoreTypeOK
<1>2. CASE e = d
  <2>1. job[d].status = "ABSENT" /\ job[d].gen = 0
    BY DEF CoreInv, GenerationInv, Upload, None
  <2>2. job'[d].status = "PENDING" /\ job'[d].gen = 1
    BY <1>1 DEF Upload, CoreInv, CoreTypeOK, OpenJobs
  <2>3. active[d] = None /\ active' = active
    BY <2>1, UnfinishedIsInvisible DEF Upload
  <2> QED
    BY <1>2, <2>1, <2>2, <2>3 DEF Walks, Restarts
<1>3. CASE e # d
  BY <1>3 DEF Upload, Walks, Stays, CoreInv, CoreTypeOK
<1> QED
  BY <1>2, <1>3

LEMMA ClaimWalks ==
    ASSUME CoreInv, NEW w \in Workers, NEW k \in dispatched, Claim(w, k)
    PROVE  \A d \in Docs : Walks(d)
<1> SUFFICES ASSUME NEW d \in Docs PROVE Walks(d)
  OBVIOUS
<1>1. job \in [Docs -> OpenJobs] /\ k[1] \in Docs
  BY DEF CoreInv, CoreTypeOK, Keys
<1>2. CASE d = k[1]
  BY <1>1, <1>2 DEF Claim, Claimable, Walks, Moves, OpenJobs
<1>3. CASE d # k[1]
  BY <1>1, <1>3 DEF Claim, Walks, Stays
<1> QED
  BY <1>2, <1>3

LEMMA FinishWalks ==
    ASSUME CoreInv, NEW w \in Workers, Activate(w) \/ Reject(w)
    PROVE  \A d \in Docs : Walks(d)
<1> DEFINE k == task[w]
<1> SUFFICES ASSUME NEW d \in Docs PROVE Walks(d)
  OBVIOUS
<1>1. /\ job \in [Docs -> OpenJobs] /\ active \in [Docs -> 0..MaxGen]
      /\ k = <<k[1], k[2]>> /\ k[1] \in Docs
  BY DEF CoreInv, CoreTypeOK, Keys
<1>2. job[k[1]].status = "PROCESSING" /\ job[k[1]].gen = k[2]
  BY DEF Activate, Reject, OwnsAttempt, IsCurrent
<1>3. CASE Activate(w)
  <2>1. job'[d] = IF d = k[1] THEN [job[d] EXCEPT !.status = "SUCCESS", !.lease = "null"]
                  ELSE job[d]
    BY <1>1, <1>3 DEF Activate, Finish, OpenJobs
  <2>2. active'[d] = IF d = k[1] THEN k[2] ELSE active[d]
    BY <1>1, <1>3 DEF Activate
  <2>3. vectors[k] = "full"
    BY <1>3 DEF CoreInv, WorkerInv, Busy, Activate
  <2> HIDE DEF k
  <2>4. CASE d = k[1]
    BY <1>1, <1>2, <2>1, <2>2, <2>3, <2>4 DEF Walks, Appears, Moves, OpenJobs
  <2>5. CASE d # k[1]
    BY <2>1, <2>2, <2>5 DEF Walks, Stays
  <2> QED
    BY <2>4, <2>5
<1>4. CASE Reject(w)
  <2>1. job'[d] = IF d = k[1] THEN [job[d] EXCEPT !.status = "FAILURE", !.lease = "null"]
                  ELSE job[d]
    BY <1>1, <1>4 DEF Reject, Finish, OpenJobs
  <2>2. active' = active
    BY <1>4 DEF Reject
  <2> HIDE DEF k
  <2> QED
    BY <1>1, <1>2, <2>1, <2>2 DEF Walks, Stays, Moves, OpenJobs
<1> QED
  BY <1>3, <1>4

LEMMA RecoveryWalks ==
    ASSUME CoreInv, AttemptsInv, Recovery
    PROVE  \A d \in Docs : Walks(d)
<1> SUFFICES ASSUME NEW d \in Docs PROVE Walks(d)
  OBVIOUS
<1>1. PICK skipped \in SUBSET Docs : RecoverStaleJobs(skipped) \/ ReindexLegacy(skipped)
  BY DEF Recovery
<1>2. job[d] \in OpenJobs /\ active' = active
  BY <1>1 DEF CoreInv, CoreTypeOK, RecoverStaleJobs, ReindexLegacy
<1>3. ASSUME job'[d] = Rotated(job[d]), active[d] = None,
             job[d].status \in {"PENDING", "PROCESSING", "SUCCESS"}
      PROVE  Walks(d)
  BY <1>2, <1>3 DEF Walks, Restarts, Rotated, OpenJobs
<1>4. CASE RecoverStaleJobs(skipped)
  <2> DEFINE stale  == {e \in Docs : IsStale(e) /\ (Exhausted(e) \/ HasGenerations(e))}
             batch  == Oldest(stale \ skipped)
             given  == {e \in batch : Exhausted(e)}
             rotate == batch \ given
  <2>1. job'[d] = IF d \in given THEN [job[d] EXCEPT !.status = "FAILURE"]
                  ELSE IF d \in rotate THEN Rotated(job[d]) ELSE job[d]
    BY <1>4 DEF RecoverStaleJobs
  <2>2. d \in batch => job[d].status \in {"PENDING", "PROCESSING"}
    BY DEF Oldest, IsStale
  <2>3. d \in given => job[d].status = "PROCESSING"
    <3>1. d \in given => job[d].attempts >= MaxRecovery
      BY DEF Exhausted
    <3>2. job[d].status = "PENDING" => job[d].attempts < MaxRecovery
      BY DEF AttemptsInv
    <3> QED
      BY <1>2, <2>2, <3>1, <3>2, IngestionAssumption DEF OpenJobs
  <2>4. d \in rotate => d \in batch
    OBVIOUS
  <2> HIDE DEF batch, given, rotate
  <2>5. CASE d \in given
    BY <1>2, <2>1, <2>3, <2>5 DEF Walks, Moves, OpenJobs
  <2>6. CASE d \notin given /\ d \in rotate
    BY <1>3, <2>1, <2>2, <2>4, <2>6, UnfinishedIsInvisible
  <2>7. CASE d \notin given /\ d \notin rotate
    BY <1>2, <2>1, <2>7 DEF Walks, Stays
  <2> QED
    BY <2>5, <2>6, <2>7
<1>5. CASE ReindexLegacy(skipped)
  <2> DEFINE legacy == {e \in Docs : /\ job[e].status = "SUCCESS" /\ active[e] = None
                                     /\ HasGenerations(e)}
             batch  == Oldest(legacy \ skipped)
  <2>1. job'[d] = IF d \in batch THEN Rotated(job[d]) ELSE job[d]
    BY <1>5 DEF ReindexLegacy
  <2>2. d \in batch => job[d].status = "SUCCESS" /\ active[d] = None
    BY DEF Oldest
  <2> HIDE DEF batch
  <2> QED
    BY <1>2, <1>3, <2>1, <2>2 DEF Walks, Stays
<1> QED
  BY <1>1, <1>4, <1>5

LEMMA NextWalks ==
    ASSUME CoreInv, AttemptsInv, [Next]_vars
    PROVE  \A d \in Docs : Walks(d)
<1>1. CASE \E d \in Docs : Upload(d)
  BY <1>1, UploadWalks
<1>2. CASE \E w \in Workers, k \in dispatched : Claim(w, k)
  BY <1>2, ClaimWalks
<1>3. CASE \E w \in Workers : WorkerStep(w) \/ WorkerCrash(w)
  <2>1. PICK w \in Workers : WorkerStep(w) \/ WorkerCrash(w)
    BY <1>3
  <2>2. CASE Activate(w) \/ Reject(w)
    BY <2>2, FinishWalks
  <2>3. CASE ~(Activate(w) \/ Reject(w))
    BY <2>1, <2>3, JobUntouchedWalks
    DEF WorkerStep, OpenManifest, WriteChunks, WriteRaises, Readback, PipelineRaises,
        Disown, WorkerCrash
  <2> QED
    BY <2>2, <2>3
<1>4. CASE Recovery
  BY <1>4, RecoveryWalks
<1>5. CASE \E c \in Cleaners : CleanerStep(c) \/ CleanerCrash(c)
  BY <1>5, JobUntouchedWalks
  DEF CleanerStep, CleanerCrash, ReadLive, ReadDue, LookUp, Delete, DeleteRaises,
      SaveCleaned, SaveFailure
<1>6. CASE Tick
  <2>1. active' = active
    BY <1>6 DEF Tick, JobAges, LeaseExpires, CleanupFallsDue
  <2>2. \A d \in Docs : job'[d].status = job[d].status /\ job'[d].gen = job[d].gen
    BY <1>6 DEF Tick, JobAges, LeaseExpires, CleanupFallsDue, CoreInv, CoreTypeOK, OpenJobs
  <2> QED
    BY <2>1, <2>2 DEF Walks, Stays
<1>7. CASE UNCHANGED vars
  BY <1>7, JobUntouchedWalks DEF vars
<1> QED
  BY <1>1, <1>2, <1>3, <1>4, <1>5, <1>6, <1>7 DEF Next

-----------------------------------------------------------------------------
(* The mapping *)

LEMMA InitMaps == Init => Lifecycle!LifecycleInit
<1> SUFFICES ASSUME Init PROVE Lifecycle!LifecycleInit
  OBVIOUS
<1>1. CoreTypeOK
  BY InitTyped
<1>2. PICK status \in [Legacy -> {"PENDING", "PROCESSING", "SUCCESS", "FAILURE"}] :
        job = [d \in Docs |-> IF d \in Legacy THEN LegacyJob(status[d]) ELSE AbsentJob]
  BY DEF Init
<1>3. \A d \in Docs \ Legacy : job[d].status = "ABSENT"
  BY <1>2 DEF AbsentJob
<1>4. \A d \in Docs : job[d].gen = IF d \in Legacy THEN 1 ELSE 0
  BY <1>2 DEF LegacyJob, AbsentJob, None
<1>5. [d \in Docs |-> job[d].status]
        \in [Docs -> {"ABSENT", "PENDING", "PROCESSING", "SUCCESS", "FAILURE"}]
  BY <1>1 DEF CoreTypeOK, OpenJobs
<1>6. {k \in Keys : vectors[k] = "full"} = {}
  BY DEF Init, Index!VectorsInit
<1>7. active = [d \in Docs |-> 0]
  BY DEF Init, None
<1>8. [d \in Docs |-> job[d].gen] = [d \in Docs |-> IF d \in Legacy THEN 1 ELSE 0]
  BY <1>4
<1> QED
  BY <1>3, <1>5, <1>6, <1>7, <1>8 DEF Lifecycle!LifecycleInit

LEMMA WalkMaps ==
    ASSUME CoreInv, NEW d \in Docs, Walks(d)
    PROVE  Lifecycle!DocStep(d)
<1>1. job[d].status # "ABSENT" => <<d, job[d].gen>> \in Keys
  <2>1. job[d] \in OpenJobs
    BY DEF CoreInv, CoreTypeOK
  <2>2. job[d].status # "ABSENT" => job[d].gen # 0
    BY DEF CoreInv, GenerationInv, None
  <2> QED
    BY <2>1, <2>2, IngestionAssumption DEF OpenJobs, Keys, Generations
<1>2. CASE Stays(d)
  BY <1>2 DEF Stays, Lifecycle!DocStep, Lifecycle!Rest
<1>3. CASE Restarts(d)
  BY <1>3 DEF Restarts, None, Lifecycle!DocStep, Lifecycle!Submit, Lifecycle!Restart,
              Lifecycle!Move
<1>4. CASE Moves(d, "PENDING", "PROCESSING") /\ active'[d] = active[d]
  BY <1>4 DEF Moves, Lifecycle!DocStep, Lifecycle!Begin, Lifecycle!Move
<1>5. CASE Moves(d, "PROCESSING", "FAILURE") /\ active'[d] = active[d]
  BY <1>5 DEF Moves, Lifecycle!DocStep, Lifecycle!GiveUp, Lifecycle!Move
<1>6. CASE Appears(d)
  BY <1>1, <1>6 DEF Appears, Moves, Lifecycle!DocStep, Lifecycle!Publish, Lifecycle!Move
<1> QED
  BY <1>2, <1>3, <1>4, <1>5, <1>6 DEF Walks

\* Every step keeps what is visible visible, and complete.
LEMMA StepMaps ==
    ASSUME SafetyInv, CoreInv', [Next]_vars
    PROVE  Lifecycle!LifecycleNext
<1>1. \A d \in Docs : Lifecycle!DocStep(d)
  BY NextWalks, WalkMaps DEF SafetyInv
<1>2. ASSUME NEW d \in Docs, active[d] # 0
      PROVE  <<d, active[d]>> \in Keys /\ vectors'[d, active[d]] = "full"
  <2>1. active[d] \in Generations
    BY <1>2, IngestionAssumption DEF SafetyInv, CoreInv, CoreTypeOK, Generations
  <2>2. active'[d] = active[d]
    <3>1. job[d].status = "SUCCESS" /\ Walks(d)
      BY <1>2, NextWalks DEF SafetyInv, CoreInv, VisibleIsCurrent, None
    <3> QED
      BY <1>2, <3>1 DEF Walks, Stays, Restarts, Moves, Appears, None
  <2> QED
    BY <1>2, <2>1, <2>2 DEF SafetyInv, CoreInv, VisibleComplete, Keys, None
<1>3. Lifecycle!VisibleKept
  BY <1>2 DEF Lifecycle!VisibleKept
<1>4. /\ [d \in Docs |-> job'[d].status]
            \in [Docs -> {"ABSENT", "PENDING", "PROCESSING", "SUCCESS", "FAILURE"}]
      /\ [d \in Docs |-> job'[d].gen] \in [Docs -> 0..MaxGen]
      /\ active' \in [Docs -> 0..MaxGen]
  BY DEF SafetyInv, CoreInv, CoreTypeOK, OpenJobs
<1> QED
  BY <1>1, <1>3, <1>4 DEF Lifecycle!LifecycleNext

\* Whatever late workers, recovery and cleanups do, the owner of a document
\* sees the lifecycle the abstract specification promises.
THEOREM IngestionImplementsLifecycle == SafetySpec => ImplementsLifecycle
<1>1. SafetyInv /\ SafetyInv' /\ [Next]_vars
        => [Lifecycle!LifecycleNext]_Lifecycle!lifecycleVars
  BY StepMaps DEF SafetyInv
<1> QED
  BY <1>1, InitMaps, SafetyInvariant, PTL
  DEF SafetySpec, ImplementsLifecycle, Lifecycle!LifecycleSpec

=============================================================================
