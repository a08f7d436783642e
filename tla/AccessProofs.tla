---------------------------- MODULE AccessProofs ----------------------------
(***************************************************************************)
(* What people see and do beside the tasks, for any number of documents,   *)
(* requests, workers and cleaners and all faults: the operators' forms     *)
(* that write, and the chat requests that read.                            *)
(***************************************************************************)
EXTENDS Retrieval, IngestionProofs

-----------------------------------------------------------------------------
(* What tasks, recovery and time do to one document, read from their       *)
(* guards and assignments alone: this holds in any well-typed state, the   *)
(* ones a form leaves behind included.                                     *)

\* An upload or a rotation: the job waits, and its generation is dispatched.
Waits(d) ==
    /\ job'[d].status = "PENDING"
    /\ <<d, job'[d].gen>> \in dispatched'
    /\ active'[d] = active[d]

\* A claim or a failure.
Changes(d) ==
    /\ job[d].status # "ABSENT"
    /\ job'[d].status \in {"PROCESSING", "FAILURE"}
    /\ job'[d].gen = job[d].gen
    /\ active'[d] = active[d]

\* An activation.
Shows(d) ==
    /\ job[d].status = "PROCESSING"
    /\ job'[d].status = "SUCCESS"
    /\ job'[d].gen = job[d].gen
    /\ active'[d] = job[d].gen

Goes(d) == Stays(d) \/ Waits(d) \/ Changes(d) \/ Shows(d)

LEMMA FinishGoes ==
    ASSUME CoreTypeOK, NEW w \in Workers, Activate(w) \/ Reject(w), NEW d \in Docs
    PROVE  Goes(d)
<1> DEFINE k == task[w]
<1>1. /\ job \in [Docs -> OpenJobs] /\ active \in [Docs -> 0..MaxGen]
      /\ k[1] \in Docs
  BY DEF CoreTypeOK, Keys
<1>2. job[k[1]].status = "PROCESSING" /\ job[k[1]].gen = k[2]
  BY DEF Activate, Reject, OwnsAttempt, IsCurrent
<1>3. CASE Activate(w)
  <2>1. job'[d] = IF d = k[1] THEN [job[d] EXCEPT !.status = "SUCCESS", !.lease = "null"]
                  ELSE job[d]
    BY <1>1, <1>3 DEF Activate, Finish, OpenJobs
  <2>2. active'[d] = IF d = k[1] THEN k[2] ELSE active[d]
    BY <1>1, <1>3 DEF Activate
  <2> HIDE DEF k
  <2> QED
    BY <1>1, <1>2, <2>1, <2>2 DEF Goes, Stays, Shows, OpenJobs
<1>4. CASE Reject(w)
  <2>1. job'[d] = IF d = k[1] THEN [job[d] EXCEPT !.status = "FAILURE", !.lease = "null"]
                  ELSE job[d]
    BY <1>1, <1>4 DEF Reject, Finish, OpenJobs
  <2>2. active' = active
    BY <1>4 DEF Reject
  <2> HIDE DEF k
  <2> QED
    BY <1>1, <1>2, <2>1, <2>2 DEF Goes, Stays, Changes, OpenJobs
<1> QED
  BY <1>3, <1>4

LEMMA RecoveryGoes ==
    ASSUME CoreTypeOK, Recovery, NEW d \in Docs
    PROVE  Goes(d)
<1>1. PICK skipped \in SUBSET Docs : RecoverStaleJobs(skipped) \/ ReindexLegacy(skipped)
  BY DEF Recovery
<1>2. job[d] \in OpenJobs /\ active' = active
  BY <1>1 DEF CoreTypeOK, RecoverStaleJobs, ReindexLegacy
<1>3. ASSUME NEW S, d \in S, job'[d] = Rotated(job[d]),
             dispatched' = dispatched \cup NewIntents(S)
      PROVE  Goes(d)
  <2>1. job'[d].status = "PENDING" /\ job'[d].gen = job[d].gen + 1
    BY <1>2, <1>3 DEF Rotated, OpenJobs
  <2> QED
    BY <1>2, <1>3, <2>1 DEF NewIntents, Goes, Waits
<1>4. CASE RecoverStaleJobs(skipped)
  <2> DEFINE stale  == {e \in Docs : IsStale(e) /\ (Exhausted(e) \/ HasGenerations(e))}
             batch  == Oldest(stale \ skipped)
             given  == {e \in batch : Exhausted(e)}
             rotate == batch \ given
  <2>1. /\ job'[d] = IF d \in given THEN [job[d] EXCEPT !.status = "FAILURE"]
                     ELSE IF d \in rotate THEN Rotated(job[d]) ELSE job[d]
        /\ dispatched' = dispatched \cup NewIntents(rotate)
    BY <1>4 DEF RecoverStaleJobs
  <2>2. d \in given => job[d].status # "ABSENT"
    BY DEF Oldest, IsStale
  <2> HIDE DEF given, rotate
  <2>3. CASE d \in given
    BY <1>2, <2>1, <2>2, <2>3 DEF Goes, Changes, OpenJobs
  <2>4. CASE d \notin given /\ d \in rotate
    BY <1>3, <2>1, <2>4
  <2>5. CASE d \notin given /\ d \notin rotate
    BY <1>2, <2>1, <2>5 DEF Goes, Stays
  <2> QED
    BY <2>3, <2>4, <2>5
<1>5. CASE ReindexLegacy(skipped)
  <2> DEFINE legacy == {e \in Docs : /\ job[e].status = "SUCCESS" /\ active[e] = None
                                     /\ HasGenerations(e)}
             batch  == Oldest(legacy \ skipped)
  <2>1. /\ job'[d] = IF d \in batch THEN Rotated(job[d]) ELSE job[d]
        /\ dispatched' = dispatched \cup NewIntents(batch)
    BY <1>5 DEF ReindexLegacy
  <2> HIDE DEF batch
  <2> QED
    BY <1>2, <1>3, <2>1 DEF Goes, Stays
<1> QED
  BY <1>1, <1>4, <1>5

LEMMA DocumentGoes ==
    ASSUME CoreTypeOK, [Next]_vars, NEW d \in Docs
    PROVE  Goes(d)
<1>1. job \in [Docs -> OpenJobs]
  BY DEF CoreTypeOK
<1>2. ASSUME NEW e \in Docs, Upload(e) PROVE Goes(d)
  BY <1>1, <1>2 DEF Upload, OpenJobs, Goes, Waits, Stays
<1>3. ASSUME NEW w \in Workers, NEW k \in dispatched, Claim(w, k) PROVE Goes(d)
  <2>1. k[1] \in Docs
    BY DEF CoreTypeOK, Keys
  <2> QED
    BY <1>1, <1>3, <2>1 DEF Claim, Claimable, OpenJobs, Goes, Changes, Stays
<1>4. ASSUME NEW w \in Workers, WorkerStep(w) \/ WorkerCrash(w) PROVE Goes(d)
  <2>1. CASE Activate(w) \/ Reject(w)
    BY <2>1, FinishGoes
  <2>2. CASE ~(Activate(w) \/ Reject(w))
    BY <1>4, <2>2
    DEF WorkerStep, OpenManifest, WriteChunks, WriteRaises, Readback, PipelineRaises,
        Disown, WorkerCrash, Goes, Stays
  <2> QED
    BY <2>1, <2>2
<1>5. CASE Recovery
  BY <1>5, RecoveryGoes
<1>6. CASE Tick
  BY <1>1, <1>6 DEF Tick, JobAges, LeaseExpires, CleanupFallsDue, OpenJobs, Goes, Stays
<1>7. CASE \/ \E c \in Cleaners : CleanerStep(c) \/ CleanerCrash(c)
           \/ UNCHANGED vars
  BY <1>7
  DEF CleanerStep, ReadLive, ReadDue, LookUp, Delete, DeleteRaises, SaveCleaned,
      SaveFailure, CleanerCrash, vars, Goes, Stays
<1> QED
  BY <1>2, <1>3, <1>4, <1>5, <1>6, <1>7 DEF Next

\* No intent is taken back.
LEMMA IntentsStay ==
    ASSUME [Next]_vars
    PROVE  dispatched \subseteq dispatched'
BY DEF Next, Upload, Claim, WorkerStep, OpenManifest, WriteChunks, WriteRaises, Readback,
       PipelineRaises, Activate, Reject, Disown, WorkerCrash, Recovery,
       RecoverStaleJobs, ReindexLegacy, CleanerStep, ReadLive, ReadDue, LookUp, Delete,
       DeleteRaises, SaveCleaned, SaveFailure, CleanerCrash, Tick, JobAges,
       LeaseExpires, CleanupFallsDue, vars

-----------------------------------------------------------------------------
(* Forms, whatever is edited and however often one is saved.  A save may   *)
(* undo what a task did in between, so little of SafetyInv survives, the   *)
(* bound on attempts included: what is kept is the types, and that every   *)
(* generation a job or a loaded form holds was dispatched.                 *)

FormRecords ==
    [at     : {"closed", "open", "loaded"},
     of     : {"document", "job"},
     doc    : Docs,
     status : {"ABSENT", "PENDING", "PROCESSING", "SUCCESS", "FAILURE"},
     job    : OpenJobs,
     active : 0..MaxGen]

\* A form is open for an uploaded document, and posts a status; the row it
\* loads has a generation.
FormTyped ==
    /\ form \in FormRecords
    /\ form.at # "closed" => job[form.doc].status # "ABSENT"
    /\ form.at # "closed" /\ form.of = "job" => form.status # "ABSENT"
    /\ form.at = "loaded" /\ form.of = "job" => form.job.gen # None

AdminTyped == CoreTypeOK /\ GenerationInv /\ FormTyped

LEMMA NoFormTyped == NoForm \in FormRecords /\ NoForm.at = "closed"
<1>1. 1 \in Docs /\ 0 \in 0..MaxGen
  BY IngestionAssumption DEF Docs
<1>2. AbsentJob \in OpenJobs
  BY <1>1 DEF AbsentJob, OpenJobs, None
<1> QED
  BY <1>1, <1>2 DEF NoForm, FormRecords, None

LEMMA OpenTyped ==
    ASSUME AdminTyped, NEW which \in Forms, NEW d \in Docs, OpenForm(which, d)
    PROVE  /\ AdminTyped' /\ UNCHANGED <<vars, saves>>
           /\ form'.at = "open" /\ form'.of = which /\ form'.doc = d
           /\ which = "job" => form'.status = job[d].status
<1>1. job[d] \in OpenJobs /\ job[d].status # "ABSENT" /\ which \in {"document", "job"}
  BY AdminAssumption DEF OpenForm, AdminTyped, CoreTypeOK
<1>2. UNCHANGED <<vars, saves>>
  BY DEF OpenForm
<1>3. PICK status \in {"ABSENT", "PENDING", "PROCESSING", "SUCCESS", "FAILURE"} :
        /\ form' = [NoForm EXCEPT !.at = "open", !.of = which, !.doc = d,
                                  !.status = status]
        /\ which = "job" => status = job[d].status
  <2>1. CASE which = "job"
    BY <1>1, <2>1 DEF OpenForm, OpenJobs
  <2>2. CASE which # "job"
    BY <2>2 DEF OpenForm, NoForm
  <2> QED
    BY <2>1, <2>2
<1>4. /\ form' \in FormRecords /\ form'.at = "open" /\ form'.of = which /\ form'.doc = d
      /\ form'.status = status
  BY <1>1, <1>3, NoFormTyped DEF FormRecords
<1>5. FormTyped'
  BY <1>1, <1>2, <1>3, <1>4 DEF FormTyped, vars
<1> QED
  BY <1>2, <1>3, <1>4, <1>5 DEF AdminTyped, CoreTypeOK, GenerationInv, vars

LEMMA SubmitTyped ==
    ASSUME AdminTyped, SubmitForm
    PROVE  /\ AdminTyped' /\ UNCHANGED <<vars, saves>>
           /\ form.at = "open" /\ form'.at = "loaded"
           /\ form'.of = form.of /\ form'.doc = form.doc
           /\ form.of = "job" => /\ form'.job = job[form.doc]
                                 /\ form'.status \in Edits \cup {form.status}
           /\ form.of = "document" => form'.active = active[form.doc]
<1>1. /\ form.at = "open" /\ form \in FormRecords /\ form.doc \in Docs
      /\ job[form.doc] \in OpenJobs /\ job[form.doc].status # "ABSENT"
      /\ active[form.doc] \in 0..MaxGen
  BY DEF SubmitForm, AdminTyped, FormTyped, FormRecords, CoreTypeOK
<1>2. UNCHANGED <<vars, saves>>
  BY DEF SubmitForm
<1>3. CASE form.of = "job"
  <2>1. PICK status \in Edits \cup {form.status} :
          form' = [form EXCEPT !.at = "loaded", !.status = status, !.job = job[form.doc]]
    BY <1>3 DEF SubmitForm
  <2>2. status \in {"PENDING", "PROCESSING", "SUCCESS", "FAILURE"}
    BY <1>1, <1>3, AdminAssumption DEF AdminTyped, FormTyped, FormRecords
  <2>3. /\ form' \in FormRecords /\ form'.at = "loaded" /\ form'.of = form.of
        /\ form'.doc = form.doc /\ form'.status = status /\ form'.job = job[form.doc]
    BY <1>1, <2>1, <2>2 DEF FormRecords
  <2>4. job[form.doc].gen # None
    BY <1>1 DEF AdminTyped, GenerationInv
  <2>5. FormTyped'
    BY <1>1, <1>2, <2>2, <2>3, <2>4 DEF FormTyped, vars
  <2> QED
    BY <1>1, <1>2, <1>3, <2>3, <2>5 DEF AdminTyped, CoreTypeOK, GenerationInv, vars
<1>4. CASE form.of = "document"
  <2>1. form' = [form EXCEPT !.at = "loaded", !.active = active[form.doc]]
    BY <1>4 DEF SubmitForm
  <2>2. /\ form' \in FormRecords /\ form'.at = "loaded" /\ form'.of = form.of
        /\ form'.doc = form.doc /\ form'.active = active[form.doc]
    BY <1>1, <2>1 DEF FormRecords
  <2>3. FormTyped'
    BY <1>1, <1>2, <1>4, <2>2 DEF FormTyped, vars
  <2> QED
    BY <1>1, <1>2, <1>4, <2>2, <2>3 DEF AdminTyped, CoreTypeOK, GenerationInv, vars
<1> QED
  BY <1>1, <1>3, <1>4 DEF FormRecords

\* What a save writes: one job, or one pointer.
LEMMA SaveFormTyped ==
    ASSUME AdminTyped, SaveForm
    PROVE  /\ AdminTyped'
           /\ form.at = "loaded" /\ form.doc \in Docs /\ form' = NoForm /\ saves' = saves + 1
           /\ UNCHANGED <<manifest, vectors, dispatched, pc, task, cleaner>>
           /\ form.of = "job" =>
                /\ active' = active
                /\ job'[form.doc].status = form.status
                /\ job'[form.doc].gen = form.job.gen
                /\ \A d \in Docs : d # form.doc => job'[d] = job[d]
           /\ form.of = "document" =>
                job' = job /\ active' = [active EXCEPT ![form.doc] = form.active]
<1> DEFINE d == form.doc
<1>1. /\ form.at = "loaded" /\ form \in FormRecords /\ d \in Docs
      /\ job \in [Docs -> OpenJobs] /\ active \in [Docs -> 0..MaxGen]
      /\ job[d].status # "ABSENT"
  BY DEF SaveForm, AdminTyped, FormTyped, FormRecords, CoreTypeOK
<1>2. /\ form' = NoForm /\ saves' = saves + 1
      /\ UNCHANGED <<manifest, vectors, dispatched, pc, task, cleaner>>
  BY DEF SaveForm
<1>3. FormTyped'
  BY <1>2, NoFormTyped DEF FormTyped
<1>4. CASE form.of = "job"
  <2> DEFINE new == [form.job EXCEPT !.status = form.status, !.old = job[d].old]
  <2>1. job' = [job EXCEPT ![d] = new] /\ active' = active
    BY <1>4 DEF SaveForm, SavedJob
  <2>2. form.job \in OpenJobs /\ job[d].old \in BOOLEAN
    BY <1>1 DEF FormRecords, OpenJobs
  <2>3. /\ new \in OpenJobs /\ new.gen = form.job.gen /\ new.status = form.status
    BY <1>1, <2>2 DEF FormRecords, OpenJobs
  <2>4. form.status # "ABSENT" /\ form.job.gen # None
    BY <1>1, <1>4 DEF AdminTyped, FormTyped
  <2> HIDE DEF new, d
  <2>5. \A e \in Docs : job'[e] = IF e = d THEN new ELSE job[e]
    BY <1>1, <2>1
  <2>6. CoreTypeOK'
    BY <1>1, <1>2, <2>1, <2>3 DEF AdminTyped, CoreTypeOK
  <2>7. GenerationInv'
    BY <2>3, <2>4, <2>5 DEF AdminTyped, GenerationInv
  <2> QED
    BY <1>1, <1>2, <1>3, <1>4, <2>1, <2>3, <2>5, <2>6, <2>7 DEF AdminTyped, d
<1>5. CASE form.of = "document"
  <2>1. job' = job /\ active' = [active EXCEPT ![d] = form.active]
    BY <1>5 DEF SaveForm, SavedActive
  <2>2. active' \in [Docs -> 0..MaxGen]
    BY <1>1, <2>1 DEF FormRecords
  <2>3. CoreTypeOK' /\ GenerationInv'
    BY <1>2, <2>1, <2>2 DEF AdminTyped, CoreTypeOK, GenerationInv
  <2> QED
    BY <1>1, <1>2, <1>3, <1>5, <2>1, <2>3 DEF AdminTyped
<1> QED
  BY <1>1, <1>4, <1>5 DEF FormRecords

\* The other two steps of a form change no row.
LEMMA CloseTyped ==
    ASSUME AdminTyped, CloseForm
    PROVE  AdminTyped' /\ UNCHANGED <<vars, saves>> /\ form' = NoForm
BY NoFormTyped DEF CloseForm, AdminTyped, CoreTypeOK, GenerationInv, FormTyped, vars

LEMMA LoadedLeaseTyped ==
    ASSUME AdminTyped, LoadedLeaseExpires
    PROVE  /\ AdminTyped' /\ UNCHANGED <<vars, saves>>
           /\ form'.at = form.at /\ form'.of = form.of /\ form'.doc = form.doc
           /\ form'.status = form.status /\ form'.job.gen = form.job.gen
           /\ form'.active = form.active
<1>1. form \in FormRecords /\ form.job \in OpenJobs
  BY DEF AdminTyped, FormTyped, FormRecords
<1>2. form' = [form EXCEPT !.job = [form.job EXCEPT !.lease = "expired"]]
      /\ UNCHANGED <<vars, saves>>
  BY <1>1 DEF LoadedLeaseExpires, FormRecords
<1>3. /\ [form.job EXCEPT !.lease = "expired"] \in OpenJobs
      /\ [form.job EXCEPT !.lease = "expired"].gen = form.job.gen
  BY <1>1 DEF OpenJobs
<1>4. /\ form' \in FormRecords
      /\ form'.at = form.at /\ form'.of = form.of /\ form'.doc = form.doc
      /\ form'.status = form.status /\ form'.job.gen = form.job.gen
      /\ form'.active = form.active
  BY <1>1, <1>2, <1>3 DEF FormRecords
<1>5. FormTyped'
  BY <1>2, <1>4 DEF AdminTyped, FormTyped, vars
<1> QED
  BY <1>2, <1>4, <1>5 DEF AdminTyped, CoreTypeOK, GenerationInv, vars

LEMMA TaskKeepsTypes ==
    ASSUME AdminTyped, [Next]_vars, UNCHANGED form
    PROVE  AdminTyped'
<1>1. CoreTypeOK' /\ GenerationInv'
  BY StepTyped DEF AdminTyped
<1>2. form.doc \in Docs
  BY DEF AdminTyped, FormTyped, FormRecords
<1>3. job[form.doc].status # "ABSENT" => job'[form.doc].status # "ABSENT"
  BY <1>2, DocumentGoes DEF AdminTyped, Goes, Stays, Waits, Changes, Shows
<1> QED
  BY <1>1, <1>3 DEF AdminTyped, FormTyped

LEMMA AdminStepTyped ==
    ASSUME AdminTyped, [AdminNext]_adminVars
    PROVE  AdminTyped'
<1>1. CASE AdminStep
  BY <1>1, OpenTyped, SubmitTyped, SaveFormTyped, CloseTyped, LoadedLeaseTyped DEF AdminStep
<1>2. CASE [Next]_vars /\ UNCHANGED form
  BY <1>2, TaskKeepsTypes
<1> QED
  BY <1>1, <1>2 DEF AdminNext, adminVars

LEMMA AdminStartTyped == AdminInit => AdminTyped
<1> SUFFICES ASSUME AdminInit PROVE AdminTyped
  OBVIOUS
<1>1. CoreTypeOK /\ GenerationInv
  BY InitTyped DEF AdminInit
<1> QED
  BY <1>1, NoFormTyped DEF AdminInit, AdminTyped, FormTyped

\* However forms are used, every row keeps its type, the count of attempts
\* apart, and exactly the uploaded documents have a generation.
THEOREM FormsKeepTypes == AdminSafety => [](CoreTypeOK /\ GenerationInv)
<1>1. AdminTyped => CoreTypeOK /\ GenerationInv
  BY DEF AdminTyped
<1> QED
  BY <1>1, AdminStartTyped, AdminStepTyped, PTL DEF AdminSafety

-----------------------------------------------------------------------------
(* The intents under forms: what a form loads was dispatched, and is saved *)
(* as it was loaded.                                                       *)

Intended(d, g) == <<d, g>> \in dispatched \/ (d \in Legacy /\ g = 1)

JobsIntended ==
    \A d \in Docs : job[d].status # "ABSENT" => Intended(d, job[d].gen)

FormIntended ==
    form.at = "loaded" /\ form.of = "job" => Intended(form.doc, form.job.gen)

IntendedInv == JobsIntended /\ FormIntended

LEMMA TaskKeepsIntended ==
    ASSUME AdminTyped, IntendedInv, [Next]_vars, UNCHANGED form
    PROVE  IntendedInv'
<1>1. \A d, g : Intended(d, g) => <<d, g>> \in dispatched' \/ (d \in Legacy /\ g = 1)
  BY IntentsStay DEF Intended
<1>2. ASSUME NEW d \in Docs, job'[d].status # "ABSENT"
      PROVE  \/ <<d, job'[d].gen>> \in dispatched'
             \/ d \in Legacy /\ job'[d].gen = 1
  <2>1. Goes(d)
    BY DocumentGoes DEF AdminTyped
  <2>2. CASE Waits(d)
    BY <2>2 DEF Waits
  <2>3. CASE Stays(d) \/ Changes(d) \/ Shows(d)
    <3>1. job[d].status # "ABSENT" /\ job'[d].gen = job[d].gen
      BY <1>2, <2>3 DEF Stays, Changes, Shows
    <3> QED
      BY <1>1, <3>1 DEF IntendedInv, JobsIntended
  <2> QED
    BY <2>1, <2>2, <2>3 DEF Goes
<1>3. JobsIntended'
  BY <1>2 DEF JobsIntended, Intended
<1>4. FormIntended'
  BY <1>1 DEF IntendedInv, FormIntended, Intended
<1> QED
  BY <1>3, <1>4 DEF IntendedInv

LEMMA FormKeepsIntended ==
    ASSUME AdminTyped, IntendedInv, AdminStep
    PROVE  IntendedInv'
<1>1. ASSUME UNCHANGED vars, FormIntended' PROVE IntendedInv'
  BY <1>1 DEF IntendedInv, JobsIntended, Intended, vars
<1>2. ASSUME NEW which \in Forms, NEW d \in Docs, OpenForm(which, d) PROVE IntendedInv'
  BY <1>1, <1>2, OpenTyped DEF FormIntended
<1>3. CASE SubmitForm
  <2>1. /\ UNCHANGED vars /\ form.at = "open"
        /\ form'.of = form.of /\ form'.doc = form.doc
        /\ form.of = "job" => form'.job = job[form.doc]
    BY <1>3, SubmitTyped
  <2>2. Intended(form.doc, job[form.doc].gen)
    BY <2>1 DEF IntendedInv, JobsIntended, AdminTyped, FormTyped, FormRecords
  <2> QED
    BY <1>1, <2>1, <2>2 DEF FormIntended, Intended, vars
<1>4. CASE SaveForm
  <2>1. /\ form.at = "loaded" /\ form.doc \in Docs /\ form' = NoForm
        /\ UNCHANGED dispatched
        /\ form.of = "job" => /\ job'[form.doc].gen = form.job.gen
                              /\ \A d \in Docs : d # form.doc => job'[d] = job[d]
        /\ form.of = "document" => job' = job
        /\ form.of \in {"document", "job"}
    BY <1>4, SaveFormTyped DEF AdminTyped, FormTyped, FormRecords
  <2>2. JobsIntended'
    BY <2>1 DEF IntendedInv, JobsIntended, FormIntended, Intended
  <2>3. FormIntended'
    BY <2>1 DEF FormIntended, NoForm
  <2> QED
    BY <2>2, <2>3 DEF IntendedInv
<1>5. CASE CloseForm
  BY <1>1, <1>5, CloseTyped DEF FormIntended, NoForm
<1>6. CASE LoadedLeaseExpires
  BY <1>1, <1>6, LoadedLeaseTyped DEF IntendedInv, FormIntended, Intended, vars
<1> QED
  BY <1>2, <1>3, <1>4, <1>5, <1>6 DEF AdminStep

\* However often operators save stale pages over the work of tasks, no job
\* waits with a generation no row of the outbox was created for.
THEOREM FormsKeepIntents == AdminSafety => []PendingHasIntent
<1>1. AdminInit => IntendedInv
  <2> SUFFICES ASSUME AdminInit PROVE IntendedInv
    OBVIOUS
  <2>1. Init /\ form = NoForm
    BY DEF AdminInit
  <2>2. PICK status \in [Legacy -> {"PENDING", "PROCESSING", "SUCCESS", "FAILURE"}] :
          job = [e \in Docs |-> IF e \in Legacy THEN LegacyJob(status[e]) ELSE AbsentJob]
    BY <2>1 DEF Init
  <2>3. \A d \in Docs : job[d].status # "ABSENT" => d \in Legacy /\ job[d].gen = 1
    BY <2>2 DEF LegacyJob, AbsentJob
  <2> QED
    BY <2>1, <2>3 DEF IntendedInv, JobsIntended, FormIntended, Intended, NoForm
<1>2. AdminTyped /\ IntendedInv /\ [AdminNext]_adminVars => IntendedInv'
  BY TaskKeepsIntended, FormKeepsIntended DEF AdminNext, adminVars
<1>3. IntendedInv => PendingHasIntent
  BY DEF IntendedInv, JobsIntended, Intended, PendingHasIntent, Current
<1> QED
  BY <1>1, <1>2, <1>3, AdminStartTyped, AdminStepTyped, PTL DEF AdminSafety

-----------------------------------------------------------------------------
(* The pointer.  A generation once visible is never replaced by the tasks, *)
(* so the form of a document saves the pointer it loaded over the same     *)
(* pointer, or over a newer one with null: a pointer may be lost, but the  *)
(* rest of what is known of generations stays.                             *)

LEMMA PointerStays ==
    ASSUME CoreInv, [Next]_vars, NEW d \in Docs, active[d] # None
    PROVE  active'[d] = active[d]
<1>1. Goes(d) /\ job[d].status = "SUCCESS"
  BY DocumentGoes DEF CoreInv, VisibleIsCurrent
<1> QED
  BY <1>1 DEF Goes, Stays, Waits, Changes, Shows

\* A pointer taken away leaves every generation what it is.
LEMMA PointerLost ==
    ASSUME CoreInv, CoreTypeOK', UNCHANGED <<job, manifest, vectors, pc, task, cleaner>>,
           \A d \in Docs : active'[d] \in {None, active[d]}
    PROVE  CoreInv'
<1>1. \A d \in Docs : active'[d] # None => active'[d] = active[d]
  OBVIOUS
<1>2. VisibleIsCurrent' /\ VisibleComplete'
  BY <1>1 DEF CoreInv, VisibleIsCurrent, VisibleComplete
<1>3. GenerationInv' /\ WorkerInv' /\ SingleWriter' /\ ManifestInv'
  BY DEF CoreInv, GenerationInv, WorkerInv, SingleWriter, Busy, ManifestInv, IsCurrent
<1>4. CleanerInv' /\ CleanedIsEmpty'
  BY DEF CoreInv, CleanerInv, Index!LookupCovers, CleanedIsEmpty
<1> QED
  BY <1>2, <1>3, <1>4 DEF CoreInv

\* What a form of a document has loaded is the pointer, or was null.
PointerLoaded ==
    form.at = "loaded" /\ form.of = "document" => form.active \in {None, active[form.doc]}

LEMMA TaskKeepsLoaded ==
    ASSUME AdminTyped, CoreInv, PointerLoaded, [Next]_vars, UNCHANGED form
    PROVE  PointerLoaded'
BY PointerStays DEF PointerLoaded, AdminTyped, FormTyped, FormRecords

LEMMA FormKeepsLoaded ==
    ASSUME AdminTyped, PointerLoaded, AdminStep
    PROVE  PointerLoaded'
<1>1. ASSUME NEW which \in Forms, NEW d \in Docs, OpenForm(which, d) PROVE PointerLoaded'
  BY <1>1, OpenTyped DEF PointerLoaded
<1>2. CASE SubmitForm
  BY <1>2, SubmitTyped DEF PointerLoaded, vars
<1>3. CASE SaveForm \/ CloseForm
  BY <1>3 DEF SaveForm, CloseForm, NoForm, PointerLoaded
<1>4. CASE LoadedLeaseExpires
  BY <1>4, LoadedLeaseTyped DEF PointerLoaded, vars
<1> QED
  BY <1>1, <1>2, <1>3, <1>4 DEF AdminStep

\* Only a save of the form of a job touches what CoreInv says.
LEMMA FormKeepsCore ==
    ASSUME AdminTyped, CoreInv, PointerLoaded, AdminStep,
           SaveForm => form.of = "document"
    PROVE  CoreInv' /\ UNCHANGED <<manifest, vectors>>
<1>1. CASE UNCHANGED vars
  <2>1. \A d \in Docs : active'[d] \in {None, active[d]}
    BY <1>1 DEF vars
  <2>2. CoreTypeOK'
    BY <1>1 DEF CoreInv, CoreTypeOK, vars
  <2> QED
    BY <1>1, <2>1, <2>2, PointerLost DEF vars
<1>2. CASE SaveForm
  <2>1. /\ CoreTypeOK' /\ UNCHANGED <<job, manifest, vectors, pc, task, cleaner>>
        /\ form.at = "loaded" /\ form.doc \in Docs
        /\ active' = [active EXCEPT ![form.doc] = form.active]
    BY <1>2, SaveFormTyped DEF AdminTyped
  <2>2. \A d \in Docs : active'[d] \in {None, active[d]}
    BY <1>2, <2>1 DEF PointerLoaded, CoreInv, CoreTypeOK
  <2> QED
    BY <2>1, <2>2, PointerLost
<1> QED
  BY <1>1, <1>2 DEF AdminStep, OpenForm, SubmitForm, CloseForm, LoadedLeaseExpires

\* An operator who uses only the form of documents.
PointerInv ==
    /\ AdminTyped /\ CoreInv /\ PointerLoaded
    /\ form.at # "closed" => form.of = "document"

LEMMA PointerStart == AdminInit => PointerInv
<1> SUFFICES ASSUME AdminInit PROVE PointerInv
  OBVIOUS
<1>1. form = NoForm /\ Init
  BY DEF AdminInit
<1> QED
  BY <1>1, InitSafe, AdminStartTyped DEF PointerInv, PointerLoaded, NoForm

LEMMA PointerStep ==
    ASSUME PointerInv, Forms \subseteq {"document"}, [AdminNext]_adminVars
    PROVE  PointerInv' /\ ([Next]_vars \/ UNCHANGED <<manifest, vectors>>)
<1>1. AdminTyped'
  BY AdminStepTyped DEF PointerInv
<1>2. CASE AdminStep
  <2>1. SaveForm => form.of = "document"
    BY DEF SaveForm, PointerInv
  <2>2. CoreInv' /\ UNCHANGED <<manifest, vectors>>
    BY <1>2, <2>1, FormKeepsCore DEF PointerInv
  <2>3. PointerLoaded'
    BY <1>2, FormKeepsLoaded DEF PointerInv
  <2>4. form'.at # "closed" => form'.of = "document"
    <3>1. ASSUME NEW which \in Forms, NEW d \in Docs, OpenForm(which, d)
          PROVE  form'.of = "document"
      BY <3>1, OpenTyped DEF PointerInv
    <3>2. CASE SubmitForm
      BY <3>2, SubmitTyped DEF PointerInv
    <3>3. CASE SaveForm \/ CloseForm
      BY <3>3 DEF SaveForm, CloseForm, NoForm
    <3>4. CASE LoadedLeaseExpires
      BY <3>4, LoadedLeaseTyped DEF PointerInv
    <3> QED
      BY <1>2, <3>1, <3>2, <3>3, <3>4 DEF AdminStep
  <2> QED
    BY <1>1, <2>2, <2>3, <2>4 DEF PointerInv
<1>3. CASE [Next]_vars /\ UNCHANGED form
  BY <1>1, <1>3, StepSafe, TaskKeepsLoaded DEF PointerInv
<1> QED
  BY <1>2, <1>3 DEF AdminNext, adminVars

\* However often the form of a document is saved over the work of tasks, what
\* chat may read is complete and current: a save may only take it away.
THEOREM DocumentFormsAreSafe ==
    ASSUME Forms \subseteq {"document"}
    PROVE  AdminSafety => [](VisibleComplete /\ VisibleIsCurrent /\ LostNotReplaced)
<1>1. PointerInv /\ [AdminNext]_adminVars => PointerInv'
  BY PointerStep
<1>2. PointerInv => VisibleComplete /\ VisibleIsCurrent
  BY DEF PointerInv, CoreInv
<1>3. VisibleIsCurrent => LostNotReplaced
  BY DEF VisibleIsCurrent, LostNotReplaced
<1> QED
  BY <1>1, <1>2, <1>3, PointerStart, PTL DEF AdminSafety

-----------------------------------------------------------------------------
(* One save of either form.  Until it happens CoreInv holds, and without   *)
(* legacy documents every success is visible.  A page rendered for a       *)
(* visible success then saves the row it found, whatever tasks do: there   *)
(* is nothing they may still change.  After the save only LostNotReplaced  *)
(* is kept, by the tasks, which write status and pointer together.         *)

SuccessIsVisible == \A d \in Docs : job[d].status = "SUCCESS" => active[d] # None

LEMMA NewSuccess ==
    ASSUME CoreTypeOK, GenerationInv, [Next]_vars, NEW d \in Docs,
           job'[d].status = "SUCCESS"
    PROVE  \/ /\ job[d].status = "SUCCESS"
              /\ job'[d].gen = job[d].gen
              /\ active'[d] = active[d]
           \/ active'[d] = job'[d].gen /\ active'[d] # None
BY DocumentGoes DEF GenerationInv, Goes, Stays, Waits, Changes, Shows

\* The page of a finished job, and the row loaded for it.
SuccessLoaded ==
    form.at # "closed" /\ form.of = "job" /\ form.status = "SUCCESS" =>
      /\ active[form.doc] # None
      /\ form.at = "loaded" => form.job.gen = active[form.doc]

UnsavedInv == CoreInv /\ SuccessIsVisible /\ SuccessLoaded /\ PointerLoaded

OneSaveInv ==
    /\ AdminTyped
    /\ saves \in Nat
    /\ LostNotReplaced
    /\ saves = 0 => UnsavedInv
    /\ saves # 0 => form.at = "closed"

LEMMA OneSaveStart ==
    ASSUME NumLegacy = 0, AdminInit
    PROVE  OneSaveInv
<1>1. Init /\ form = NoForm /\ saves = 0
  BY DEF AdminInit
<1>2. Legacy = {}
  BY DEF Legacy
<1>3. \A d \in Docs : job[d].status = "ABSENT"
  BY <1>1, <1>2 DEF Init, AbsentJob
<1> QED
  BY <1>1, <1>3, InitSafe, AdminStartTyped
  DEF OneSaveInv, UnsavedInv, SuccessIsVisible, SuccessLoaded, PointerLoaded,
      LostNotReplaced, NoForm

LEMMA OneSaveTask ==
    ASSUME OneSaveInv, [Next]_vars, UNCHANGED <<form, saves>>
    PROVE  OneSaveInv'
<1>1. AdminTyped'
  BY TaskKeepsTypes DEF OneSaveInv
<1>2. LostNotReplaced'
  BY NewSuccess DEF OneSaveInv, AdminTyped, LostNotReplaced
<1>3. ASSUME saves = 0 PROVE UnsavedInv'
  <2>1. UnsavedInv
    BY <1>3 DEF OneSaveInv
  <2>2. CoreInv' /\ PointerLoaded'
    BY <2>1, StepSafe, TaskKeepsLoaded DEF OneSaveInv, UnsavedInv
  <2>3. SuccessIsVisible'
    BY <2>1, NewSuccess DEF OneSaveInv, AdminTyped, UnsavedInv, SuccessIsVisible
  <2>4. SuccessLoaded'
    BY <2>1, PointerStays
    DEF OneSaveInv, AdminTyped, FormTyped, FormRecords, UnsavedInv, SuccessLoaded
  <2> QED
    BY <2>2, <2>3, <2>4 DEF UnsavedInv
<1> QED
  BY <1>1, <1>2, <1>3 DEF OneSaveInv

\* Steps of a form before the save.
LEMMA UnsavedForm ==
    ASSUME AdminTyped, UnsavedInv, "SUCCESS" \notin Edits, AdminStep, ~SaveForm
    PROVE  UnsavedInv'
<1>1. UNCHANGED vars /\ PointerLoaded'
  BY FormKeepsLoaded
  DEF UnsavedInv, AdminStep, OpenForm, SubmitForm, CloseForm, LoadedLeaseExpires
<1>2. CoreInv' /\ SuccessIsVisible'
  BY <1>1, FormKeepsCore DEF UnsavedInv, SuccessIsVisible, vars
<1>3. SuccessLoaded'
  <2>1. ASSUME NEW which \in Forms, NEW d \in Docs, OpenForm(which, d) PROVE SuccessLoaded'
    BY <1>1, <2>1, OpenTyped DEF UnsavedInv, SuccessIsVisible, SuccessLoaded, vars
  <2>2. CASE SubmitForm
    <3>1. /\ form.at = "open" /\ form'.of = form.of /\ form'.doc = form.doc
          /\ form.of = "job" => /\ form'.job = job[form.doc]
                                /\ form'.status \in Edits \cup {form.status}
          /\ form.doc \in Docs
      BY <2>2, SubmitTyped DEF AdminTyped, FormTyped, FormRecords
    <3>2. active[form.doc] # None => job[form.doc].gen = active[form.doc]
      BY <3>1 DEF UnsavedInv, CoreInv, VisibleIsCurrent
    <3> QED
      BY <1>1, <3>1, <3>2 DEF UnsavedInv, SuccessLoaded, vars
  <2>3. CASE CloseForm
    BY <2>3 DEF CloseForm, NoForm, SuccessLoaded
  <2>4. CASE LoadedLeaseExpires
    BY <1>1, <2>4, LoadedLeaseTyped DEF UnsavedInv, SuccessLoaded, vars
  <2> QED
    BY <2>1, <2>2, <2>3, <2>4 DEF AdminStep
<1> QED
  BY <1>1, <1>2, <1>3 DEF UnsavedInv

LEMMA OneSaveForm ==
    ASSUME OneSaveInv, MaxSaves <= 1, "SUCCESS" \notin Edits, AdminStep
    PROVE  OneSaveInv'
<1>1. AdminTyped'
  BY AdminStepTyped DEF OneSaveInv, AdminNext
<1>2. CASE saves = 0 /\ ~SaveForm
  <2>1. UNCHANGED <<vars, saves>>
    BY <1>2 DEF AdminStep, OpenForm, SubmitForm, CloseForm, LoadedLeaseExpires
  <2> QED
    BY <1>1, <1>2, <2>1, UnsavedForm DEF OneSaveInv, LostNotReplaced, vars
<1>3. CASE saves = 0 /\ SaveForm
  <2>1. /\ form.at = "loaded" /\ form.doc \in Docs
        /\ form'.at = "closed" /\ saves' = 1
        /\ form.of \in {"document", "job"}
        /\ form.of = "job" =>
             /\ active' = active
             /\ job'[form.doc].status = form.status
             /\ job'[form.doc].gen = form.job.gen
             /\ \A d \in Docs : d # form.doc => job'[d] = job[d]
        /\ form.of = "document" =>
             job' = job /\ active' = [active EXCEPT ![form.doc] = form.active]
    BY <1>3, SaveFormTyped, NoFormTyped DEF OneSaveInv, AdminTyped, FormTyped, FormRecords
  <2>2. LostNotReplaced /\ SuccessLoaded /\ PointerLoaded
    BY <1>3 DEF OneSaveInv, UnsavedInv
  <2>3. active \in [Docs -> 0..MaxGen]
    BY DEF OneSaveInv, AdminTyped, CoreTypeOK
  <2>4. ASSUME form.of = "job" PROVE LostNotReplaced'
    BY <2>1, <2>2, <2>4 DEF LostNotReplaced, SuccessLoaded
  <2>5. ASSUME form.of = "document" PROVE LostNotReplaced'
    <3>1. \A d \in Docs : active'[d] \in {None, active[d]}
      BY <2>1, <2>2, <2>3, <2>5 DEF PointerLoaded
    <3> QED
      BY <2>1, <2>2, <2>5, <3>1 DEF LostNotReplaced
  <2>6. LostNotReplaced'
    BY <2>1, <2>4, <2>5
  <2> QED
    BY <1>1, <2>1, <2>6 DEF OneSaveInv
\* There is no second form.
<1>4. CASE saves # 0
  <2>1. form.at = "closed" /\ ~(saves < MaxSaves)
    BY <1>4, AdminAssumption DEF OneSaveInv
  <2>2. LoadedLeaseExpires
    BY <2>1 DEF AdminStep, OpenForm, SubmitForm, SaveForm, CloseForm
  <2>3. form'.at = "closed" /\ UNCHANGED <<vars, saves>>
    BY <2>1, <2>2, LoadedLeaseTyped DEF OneSaveInv
  <2> QED
    BY <1>1, <1>4, <2>3 DEF OneSaveInv, LostNotReplaced, vars
<1> QED
  BY <1>2, <1>3, <1>4

\* One save of either form, over whatever tasks did since its page was opened,
\* may lose a visible generation but never shows another than that of the job.
\* Three conditions are needed: a second save, a status SUCCESS chosen by hand,
\* or a success migrated without a generation may each bring back an old one.
THEOREM OneSaveLosesWhole ==
    ASSUME MaxSaves <= 1, NumLegacy = 0, "SUCCESS" \notin Edits
    PROVE  AdminSafety => []LostNotReplaced
<1>1. AdminInit => OneSaveInv
  BY OneSaveStart
<1>2. OneSaveInv /\ [AdminNext]_adminVars => OneSaveInv'
  <2> SUFFICES ASSUME OneSaveInv, [AdminNext]_adminVars PROVE OneSaveInv'
    OBVIOUS
  <2>1. CASE AdminStep
    BY <2>1, OneSaveForm
  <2>2. CASE [Next]_vars /\ UNCHANGED <<form, saves>>
    BY <2>2, OneSaveTask
  <2> QED
    BY <2>1, <2>2 DEF AdminNext, adminVars
<1>3. OneSaveInv => LostNotReplaced
  BY DEF OneSaveInv
<1> QED
  BY <1>1, <1>2, <1>3, PTL DEF AdminSafety

-----------------------------------------------------------------------------
(* Requests, beside forms of documents.  A request holds no lock and looks *)
(* twice, and Chroma may ignore its filter; it is safe for one reason: a   *)
(* generation that is ACTIVE stays ACTIVE and complete for good, even when *)
(* a form has taken away the pointer to it.                                *)

Active(k) == k \in Keys /\ manifest[k].status = "ACTIVE" /\ vectors[k] = "full"

\* No worker, finalizer, recovery or cleaner touches an active generation.
LEMMA ActiveStays ==
    ASSUME CoreInv, [Next]_vars, NEW k \in Keys, Active(k)
    PROVE  Active(k)'
<1>1. /\ manifest \in [Keys -> Manifests] /\ manifest[k].status = "ACTIVE"
      /\ vectors \in [Keys -> Index!Contents] /\ vectors[k] = "full"
      /\ task \in [Workers -> Keys]
      /\ cleaner \in [Cleaners -> CleanerStates]
  BY DEF CoreInv, CoreTypeOK, Active
<1>2. \A w \in Workers : Busy(w) => task[w] # k
  BY <1>1 DEF CoreInv, WorkerInv
<1>3. \A c \in Cleaners :
        cleaner[c].at \in {"deleting", "deleted", "failed"} => cleaner[c].row.key # k
  BY <1>1 DEF CoreInv, CleanerInv, Dead
<1>4. CASE UNCHANGED <<manifest, vectors>>
  BY <1>4 DEF Active
<1>5. ASSUME NEW w \in Workers, WorkerStep(w) PROVE Active(k)'
  <2>1. task[w] # k /\ task[w] \in Keys
    BY <1>1, <1>2, <1>5
    DEF WorkerStep, OpenManifest, WriteChunks, WriteRaises, Readback, PipelineRaises,
        Activate, Reject, Disown, Busy
  <2>2. CASE OpenManifest(w)
    BY <1>1, <2>1, <2>2 DEF OpenManifest, Active
  <2>3. CASE WriteChunks(w)
    BY <1>1, <2>1, <2>3 DEF WriteChunks, Index!AddTexts, Index!Store, Active
  <2>4. CASE WriteRaises(w)
    BY <1>1, <2>1, <2>4 DEF WriteRaises, Index!AddTextsRaises, Index!Store, Active
  <2>5. CASE Readback(w) \/ PipelineRaises(w)
    BY <2>5, <1>4 DEF Readback, PipelineRaises
  <2>6. CASE Activate(w)
    <3> DEFINE own == task[w]
               previous == <<own[1], active[own[1]]>>
    <3>1. active[own[1]] = None
      <4>1. own[1] \in Docs
        BY <2>1 DEF Keys
      <4> QED
        BY <2>6, <4>1, UnfinishedIsInvisible DEF Activate, OwnsAttempt
    <3>2. k # previous
      BY <3>1 DEF Keys, Generations, None
    <3>3. manifest'[k] = manifest[k] /\ vectors' = vectors
      BY <2>1, <2>6, <3>2 DEF Activate
    <3> QED
      BY <3>3 DEF Active
  <2>7. CASE Reject(w) \/ Disown(w)
    BY <1>1, <2>1, <2>7 DEF Reject, Disown, Active
  <2> QED
    BY <1>5, <2>2, <2>3, <2>4, <2>5, <2>6, <2>7 DEF WorkerStep
<1>6. ASSUME NEW c \in Cleaners, CleanerStep(c) PROVE Active(k)'
  <2>1. CASE ReadLive(c) \/ ReadDue(c) \/ \E r \in cleaner[c].batch : LookUp(c, r)
    BY <2>1, <1>4 DEF ReadLive, ReadDue, LookUp
  <2>2. CASE Delete(c)
    BY <1>1, <1>3, <2>2 DEF Delete, Index!DeleteIds, Index!Store, Active
  <2>3. CASE DeleteRaises(c)
    BY <1>1, <1>3, <2>3 DEF DeleteRaises, Index!DeleteIdsRaises, Index!Store, Active
  <2>4. CASE SaveCleaned(c)
    BY <1>1, <1>3, <2>4 DEF SaveCleaned, Active
  <2>5. CASE SaveFailure(c)
    BY <1>1, <1>3, <2>5 DEF SaveFailure, Active
  <2> QED
    BY <1>6, <2>1, <2>2, <2>3, <2>4, <2>5 DEF CleanerStep
<1>7. CASE Tick
  <2>1. ASSUME NEW m \in Keys, CleanupFallsDue(m) PROVE Active(k)'
    BY <1>1, <2>1 DEF CleanupFallsDue, Manifests, Active
  <2>2. CASE \E d \in Docs : JobAges(d) \/ LeaseExpires(d)
    BY <2>2, <1>4 DEF JobAges, LeaseExpires
  <2> QED
    BY <1>7, <2>1, <2>2 DEF Tick
<1>8. CASE \/ \E d \in Docs : Upload(d)
           \/ \E w \in Workers, m \in dispatched : Claim(w, m)
           \/ \E w \in Workers : WorkerCrash(w)
           \/ Recovery
           \/ \E c \in Cleaners : CleanerCrash(c)
           \/ UNCHANGED vars
  BY <1>8, <1>4
  DEF Upload, Claim, WorkerCrash, Recovery, RecoverStaleJobs, ReindexLegacy,
      CleanerCrash, vars
<1> QED
  BY <1>5, <1>6, <1>7, <1>8 DEF Next

ReaderInv ==
    /\ reader \in [Readers -> ReaderStates]
    /\ \A r \in Readers :
         /\ reader[r].at = "idle" => reader[r].answer = {}
         /\ reader[r].at = "searching" => \A k \in reader[r].pairs : Active(k)
         /\ reader[r].at = "answered" =>
              \A k \in reader[r].answer : Active(k) /\ Owner[k[1]] = reader[r].user

LEMMA ReadersStart == RetrievalInit => ReaderInv
<1> SUFFICES ASSUME RetrievalInit PROVE ReaderInv
  OBVIOUS
<1>1. reader \in [Readers -> [at : {"idle"}, user : Users, pairs : {{}}, answer : {{}}]]
  BY DEF RetrievalInit
<1> QED
  BY <1>1 DEF ReaderInv, ReaderStates

\* What a request reads as active is active.
LEMMA PairsAreActive ==
    ASSUME CoreInv, NEW u \in Users
    PROVE  ActivePairs(u) \in SUBSET Keys /\ \A k \in ActivePairs(u) : Active(k)
<1> SUFFICES ASSUME NEW d \in Docs, active[d] # None PROVE Active(<<d, active[d]>>)
  BY DEF ActivePairs, Active
<1>1. active[d] \in Generations
  BY IngestionAssumption DEF CoreInv, CoreTypeOK, Generations, None
<1> QED
  BY <1>1 DEF CoreInv, VisibleIsCurrent, VisibleComplete, Active, Keys

LEMMA ReaderStepKeeps ==
    ASSUME CoreInv, ReaderInv, NEW r \in Readers, UNCHANGED adminVars,
           NEW state \in ReaderStates, Read(r, state),
           state.at = "idle" => state.answer = {},
           state.at = "searching" => \A k \in state.pairs : Active(k),
           state.at = "answered" =>
             \A k \in state.answer : Active(k) /\ Owner[k[1]] = state.user
    PROVE  ReaderInv'
<1>1. \A q \in Readers : reader'[q] = IF q = r THEN state ELSE reader[q]
  BY DEF ReaderInv, Read
<1>2. \A k : Active(k)' <=> Active(k)
  BY DEF adminVars, vars, Active
<1>3. reader' \in [Readers -> ReaderStates]
  BY DEF ReaderInv, Read
<1> QED
  BY <1>1, <1>2, <1>3 DEF ReaderInv

LEMMA RequestsKeepReaders ==
    ASSUME CoreInv, ReaderInv, NEW r \in Readers,
           ReadPairs(r) \/ Search(r) \/ SearchRaises(r) \/ AskAgain(r)
    PROVE  ReaderInv'
<1>1. reader[r] \in ReaderStates
  BY DEF ReaderInv
<1>2. CASE ReadPairs(r)
  <2> DEFINE pairs == ActivePairs(reader[r].user)
             at == IF pairs = {} THEN "answered" ELSE "searching"
             state == [reader[r] EXCEPT !.pairs = pairs, !.at = at]
  <2>1. pairs \in SUBSET Keys /\ \A k \in pairs : Active(k)
    BY <1>1, PairsAreActive DEF ReaderStates
  <2>2. reader[r].answer = {}
    BY <1>2 DEF ReadPairs, ReaderInv
  <2>3. Read(r, state) /\ UNCHANGED adminVars
    BY <1>2 DEF ReadPairs
  <2>4. at \in {"answered", "searching"}
    OBVIOUS
  <2> HIDE DEF pairs, at
  <2>5. /\ state \in ReaderStates /\ state.at = at /\ state.pairs = pairs
        /\ state.answer = {}
    BY <1>1, <2>1, <2>2, <2>4 DEF ReaderStates
  <2> HIDE DEF state
  <2> QED
    BY <2>1, <2>3, <2>4, <2>5, ReaderStepKeeps
<1>3. CASE Search(r)
  <2>1. PICK found \in SUBSET Searched(r) :
          Read(r, IF \E k \in found : Untrusted(r, k)
                    THEN [reader[r] EXCEPT !.at = "failed"]
                    ELSE [reader[r] EXCEPT !.at = "answered", !.answer = found])
    BY <1>3 DEF Search
  <2>2. UNCHANGED adminVars /\ \A k \in reader[r].pairs : Active(k)
    BY <1>3 DEF Search, ReaderInv
  <2>3. CASE \E k \in found : Untrusted(r, k)
    <3>1. Read(r, [reader[r] EXCEPT !.at = "failed"])
      BY <2>1, <2>3
    <3>2. /\ [reader[r] EXCEPT !.at = "failed"] \in ReaderStates
          /\ [reader[r] EXCEPT !.at = "failed"].at = "failed"
      BY <1>1 DEF ReaderStates
    <3> QED
      BY <2>2, <3>1, <3>2, ReaderStepKeeps
  <2>4. CASE ~\E k \in found : Untrusted(r, k)
    <3> DEFINE state == [reader[r] EXCEPT !.at = "answered", !.answer = found]
    <3>1. Read(r, state)
      BY <2>1, <2>4
    <3>2. \A k \in found : k \in reader[r].pairs /\ Owner[k[1]] = reader[r].user
      BY <2>4 DEF Untrusted, InSnapshot
    <3>3. found \in SUBSET Keys
      BY <1>1, <3>2 DEF ReaderStates
    <3>4. /\ state \in ReaderStates /\ state.at = "answered" /\ state.answer = found
          /\ state.user = reader[r].user
      BY <1>1, <3>3 DEF ReaderStates
    <3> HIDE DEF state
    <3> QED
      BY <2>2, <3>1, <3>2, <3>4, ReaderStepKeeps
  <2> QED
    BY <2>3, <2>4
<1>4. CASE SearchRaises(r)
  <2>1. /\ [reader[r] EXCEPT !.at = "failed"] \in ReaderStates
        /\ [reader[r] EXCEPT !.at = "failed"].at = "failed"
    BY <1>1 DEF ReaderStates
  <2> QED
    BY <1>4, <2>1, ReaderStepKeeps DEF SearchRaises
<1>5. CASE AskAgain(r)
  <2> DEFINE state == [reader[r] EXCEPT !.at = "idle", !.pairs = {}, !.answer = {}]
  <2>1. state \in ReaderStates /\ state.at = "idle" /\ state.answer = {}
    BY <1>1 DEF ReaderStates
  <2>2. Read(r, state) /\ UNCHANGED adminVars
    BY <1>5 DEF AskAgain
  <2> HIDE DEF state
  <2> QED
    BY <2>1, <2>2, ReaderStepKeeps
<1> QED
  BY <1>2, <1>3, <1>4, <1>5

\* Tasks and forms go on beside the requests.
LEMMA OthersKeepReaders ==
    ASSUME CoreInv, ReaderInv, UNCHANGED reader,
           [Next]_vars \/ UNCHANGED <<manifest, vectors>>
    PROVE  ReaderInv'
<1>1. \A k : Active(k) => Active(k)'
  BY ActiveStays DEF Active
<1> QED
  BY <1>1 DEF ReaderInv

LEMMA RetrievalStep ==
    ASSUME PointerInv, ReaderInv, Forms \subseteq {"document"},
           [RetrievalNext]_retrievalVars
    PROVE  PointerInv' /\ ReaderInv'
<1>1. CASE \E r \in Readers : ReadPairs(r) \/ Search(r) \/ SearchRaises(r) \/ AskAgain(r)
  <2>1. UNCHANGED adminVars
    BY <1>1 DEF ReadPairs, Search, SearchRaises, AskAgain
  <2>2. PointerInv'
    BY <2>1, PointerStep
  <2>3. ReaderInv'
    BY <1>1, RequestsKeepReaders DEF PointerInv
  <2> QED
    BY <2>2, <2>3
<1>2. CASE [AdminNext]_adminVars /\ UNCHANGED reader
  <2>1. PointerInv' /\ ([Next]_vars \/ UNCHANGED <<manifest, vectors>>)
    BY <1>2, PointerStep
  <2> QED
    BY <1>2, <2>1, OthersKeepReaders DEF PointerInv
<1> QED
  BY <1>1, <1>2 DEF RetrievalNext, retrievalVars

RetrievalInv == PointerInv /\ ReaderInv

LEMMA RetrievalInvariant ==
    ASSUME Forms \subseteq {"document"}
    PROVE  RetrievalSpec => []RetrievalInv
<1>1. RetrievalInit => RetrievalInv
  BY ReadersStart, PointerStart DEF RetrievalInit, RetrievalInv
<1>2. RetrievalInv /\ [RetrievalNext]_retrievalVars => RetrievalInv'
  BY RetrievalStep DEF RetrievalInv
<1> QED
  BY <1>1, <1>2, PTL DEF RetrievalSpec

\* However often operators save forms of documents, what a request searches
\* stays whole while it searches.
THEOREM SearchedIsWhole ==
    ASSUME Forms \subseteq {"document"}
    PROVE  RetrievalSpec => []SearchedStaysWhole
<1>1. RetrievalInv => SearchedStaysWhole
  BY DEF RetrievalInv, ReaderInv, Active, SearchedStaysWhole
<1> QED
  BY <1>1, RetrievalInvariant, PTL

\* And its answer draws only on generations of its user that were verified and
\* activated, even from a Chroma that ignores the filter.
THEOREM AnswersAreVerified ==
    ASSUME Forms \subseteq {"document"}
    PROVE  RetrievalSpec => []AnswerIsVerified
<1>1. RetrievalInv => AnswerIsVerified
  BY DEF RetrievalInv, ReaderInv, Active, AnswerIsVerified
<1> QED
  BY <1>1, RetrievalInvariant, PTL

=============================================================================
