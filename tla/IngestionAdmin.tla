---------------------------- MODULE IngestionAdmin ----------------------------
(***************************************************************************)
(* The operator's forms over Document and IngestionJob                     *)
(* (apps/documents/admin.py).  Django's change view shows a page, later    *)
(* loads the row without a lock, overwrites the fields that may be edited  *)
(* with what the page posted, and saves every column: those shown as       *)
(* read-only, the generation and the active generation among them, are     *)
(* written back as they were loaded.                                       *)
(***************************************************************************)
EXTENDS Ingestion

CONSTANTS
    Forms,    \* which of "document", "job" the operator uses
    Edits,    \* statuses the operator may choose in the form of a job
    MaxSaves  \* bound: forms saved

ASSUME AdminAssumption ==
    /\ Forms \subseteq {"document", "job"}
    /\ Edits \subseteq {"PENDING", "PROCESSING", "SUCCESS", "FAILURE"}
    /\ MaxSaves \in Nat

VARIABLES form, saves

adminVars == <<vars, form, saves>>

NoForm == [at |-> "closed", of |-> "job", doc |-> 1, status |-> "ABSENT",
           job |-> AbsentJob, active |-> None]

AdminInit == Init /\ form = NoForm /\ saves = 0

\* The page of a job is rendered with the status the job has.
OpenForm(which, d) ==
    /\ form.at = "closed" /\ saves < MaxSaves
    /\ job[d].status # "ABSENT"
    /\ form' = [NoForm EXCEPT !.at = "open", !.of = which, !.doc = d,
                   !.status = IF which = "job" THEN job[d].status ELSE @]
    /\ UNCHANGED <<vars, saves>>

\* The page comes back, its status edited or not, and the row is loaded.
SubmitForm ==
    /\ form.at = "open"
    /\ \/ /\ form.of = "job"
          /\ \E status \in Edits \cup {form.status} :
               form' = [form EXCEPT !.at = "loaded", !.status = status,
                                    !.job = job[form.doc]]
       \/ /\ form.of = "document"
          /\ form' = [form EXCEPT !.at = "loaded", !.active = active[form.doc]]
    /\ UNCHANGED <<vars, saves>>

\* The columns of the saved rows; created_at never changes.
SavedActive(d) == form.active
SavedJob(d) == [form.job EXCEPT !.status = form.status, !.old = job[d].old]

SaveForm ==
    LET d == form.doc
    IN  /\ form.at = "loaded"
        /\ IF form.of = "job"
             THEN job' = [job EXCEPT ![d] = SavedJob(d)] /\ UNCHANGED active
             ELSE active' = [active EXCEPT ![d] = SavedActive(d)] /\ UNCHANGED job
        /\ form' = NoForm
        /\ saves' = saves + 1
        /\ UNCHANGED <<manifest, vectors, dispatched, pc, task, cleaner>>

\* The operator leaves the page, or its values do not validate.
CloseForm ==
    /\ form.at # "closed"
    /\ form' = NoForm
    /\ UNCHANGED <<vars, saves>>

\* The expiry date the form has loaded passes like any other.
LoadedLeaseExpires ==
    /\ form.job.lease = "held"
    /\ form' = [form EXCEPT !.job.lease = "expired"]
    /\ UNCHANGED <<vars, saves>>

AdminStep ==
    \/ \E which \in Forms, d \in Docs : OpenForm(which, d)
    \/ SubmitForm
    \/ SaveForm
    \/ CloseForm
    \/ LoadedLeaseExpires

AdminNext == AdminStep \/ (Next /\ UNCHANGED <<form, saves>>)

AdminSafety == AdminInit /\ [][AdminNext]_adminVars

\* The operator also runs reindex_legacy_documents again and again, and an
\* idle worker takes a message that is there, as in SystemFairness.
AdminFairness ==
    /\ \A w \in Workers :
         WF_adminVars(WorkerStep(w) /\ UNCHANGED <<form, saves>>)
    /\ \A k \in Keys :
         WF_adminVars((\E w \in Workers : Claim(w, k)) /\ UNCHANGED <<form, saves>>)
    /\ WF_adminVars(RecoverStaleJobs({}) /\ UNCHANGED <<form, saves>>)
    /\ WF_adminVars(ReindexLegacy({}) /\ UNCHANGED <<form, saves>>)
    /\ \A d \in Docs :
         /\ WF_adminVars(JobAges(d) /\ UNCHANGED <<form, saves>>)
         /\ WF_adminVars(LeaseExpires(d) /\ UNCHANGED <<form, saves>>)

AdminSpec == AdminSafety /\ AdminFairness

-----------------------------------------------------------------------------
(* Properties *)

\* One save may lose an activation, because it writes back the pointer or the
\* job it loaded, but then it loses it whole: a document that is done is shown
\* with the generation of its job or not at all, never with one that workers,
\* recovery and cleanup have left behind.  (A second save may break this, a
\* status SUCCESS chosen by hand, or a success migrated without a generation.)
LostNotReplaced ==
    \A d \in Docs :
      job[d].status = "SUCCESS" => active[d] \in {None, job[d].gen}

\* What stops a document in the last generation the model grants: it would have
\* to be reindexed once more, or its worker died.
NoGenerationLeft(d) ==
    job[d].gen = MaxGen /\ (job[d].status = "SUCCESS" \/ job[d].lease = "expired")

\* A document whose activation was lost is repaired by the command for legacy
\* documents: it is indexed again, or its job ends in FAILURE, unless it is
\* stopped because the generations the model grants ran out.
LostActivationIsRepaired ==
    \A d \in Docs :
      job[d].status = "SUCCESS" /\ active[d] = None
        ~> active[d] # None \/ job[d].status = "FAILURE" \/ NoGenerationLeft(d)

=============================================================================
