----------------------------- MODULE UploadFiles -----------------------------
(***************************************************************************)
(* The uploaded files beside the database (apps/documents/views.py, the    *)
(* file field of models.py and its admin form, and the operator's command  *)
(* reconcile_orphan_uploads).  A file is written before the transaction    *)
(* that names it commits, and no transaction undoes the writing: the       *)
(* handler deletes the file of a failed upload, the command those that no  *)
(* row names.                                                              *)
(*                                                                         *)
(* A file is <<document, version>>: version 1 is written by the upload,    *)
(* version 2 by an operator who replaces it in the admin form; a name that *)
(* a deletion frees is not taken again.  The clock is abstracted: a file   *)
(* grows older than INGESTION_ORPHAN_UPLOAD_GRACE_SECONDS at any moment,   *)
(* but, unless Slow says otherwise, not before its request is over, and    *)
(* not before a command that read the rows earlier has fixed its cutoff.   *)
(***************************************************************************)
EXTENDS Naturals, FiniteSets

CONSTANTS
    Documents,     \* uploads, by the public_id they draw
    Replaced,      \* documents whose file an operator may replace
    Sweepers,      \* processes running reconcile_orphan_uploads
    SweepLimit,    \* its --limit
    Fragile,       \* those of them that may die or meet a failing call
    UploadFaults,  \* which of "storage", "database", "crash" may happen
    Slow           \* which of "request", "query" may outlast the grace period

ASSUME UploadAssumption ==
    /\ Replaced \subseteq Documents
    /\ SweepLimit \in Nat \ {0}
    /\ Fragile \subseteq Sweepers
    /\ UploadFaults \subseteq {"storage", "database", "crash"}
    /\ Slow \subseteq {"request", "query"}

Files == Documents \X {1} \cup Replaced \X {2}

VARIABLES
    request,   \* where the request that writes each file is
    row,       \* the version the committed Document row names, 0 for no row
    file,      \* what the media volume holds
    old,       \* the files whose mtime is past the grace period
    sweeper,   \* each command's snapshot and position
    doubtful   \* history: commits whose outcome the handler did not learn

uploadVars == <<request, row, file, old, sweeper, doubtful>>

SweeperStates ==
    [at         : {"idle", "read", "sweeping", "deleting"},
     referenced : SUBSET Files,
     todo       : SUBSET Files,      \* listed, old at the cutoff, not examined
     victim     : SUBSET Files,      \* the file about to be unlinked
     left       : 0..SweepLimit]

UploadTypeOK ==
    /\ request \in [Files -> {"new", "storing", "stored", "inserted", "undo", "ended"}]
    /\ row \in [Documents -> 0..2]
    /\ file \in [Files -> {"none", "partial", "whole"}]
    /\ old \subseteq Files
    /\ sweeper \in [Sweepers -> SweeperStates]
    /\ doubtful \subseteq Files

IdleSweeper ==
    [at |-> "idle", referenced |-> {}, todo |-> {}, victim |-> {}, left |-> 0]

UploadInit ==
    /\ request = [f \in Files |-> "new"]
    /\ row = [d \in Documents |-> 0]
    /\ file = [f \in Files |-> "none"]
    /\ old = {}
    /\ sweeper = [s \in Sweepers |-> IdleSweeper]
    /\ doubtful = {}

Named(f) == row[f[1]] = f[2]

IsUpload(f) == f[2] = 1

Becomes(f, stage) == request' = [request EXCEPT ![f] = stage]

Holds(f, content) == file' = [file EXCEPT ![f] = content]

-----------------------------------------------------------------------------
(* A request that writes a file *)

\* Validation fails: nothing was stored.
Decline(f) ==
    /\ request[f] = "new"
    /\ Becomes(f, "ended")
    /\ UNCHANGED <<row, file, old, sweeper, doubtful>>

\* FileField.pre_save writes the file before the row is written.  An operator
\* can only change a row there is.
Store(f) ==
    /\ request[f] = "new"
    /\ IsUpload(f) \/ row[f[1]] # 0
    /\ Becomes(f, "storing")
    /\ Holds(f, "partial")
    /\ UNCHANGED <<row, old, sweeper, doubtful>>

Stored(f) ==
    /\ request[f] = "storing"
    /\ Becomes(f, "stored")
    /\ Holds(f, "whole")
    /\ old' = old \ {f}
    /\ UNCHANGED <<row, sweeper, doubtful>>

\* Document.objects.create raises, in the storage or in its INSERT: the
\* handler's `document` is still None, and what was written stays.
CreateRaises(f) ==
    /\ \/ request[f] = "storing" /\ "storage" \in UploadFaults
       \/ request[f] = "stored" /\ "database" \in UploadFaults
    /\ Becomes(f, "ended")
    /\ UNCHANGED <<row, file, old, sweeper, doubtful>>

\* The row is written in the transaction, then those of job and dispatch.
Insert(f) ==
    /\ request[f] = "stored"
    /\ Becomes(f, "inserted")
    /\ UNCHANGED <<row, file, old, sweeper, doubtful>>

Commit(f) ==
    /\ request[f] = "inserted"
    /\ Becomes(f, "ended")
    /\ row' = [row EXCEPT ![f[1]] = f[2]]
    /\ UNCHANGED <<file, old, sweeper, doubtful>>

\* Only the upload has a handler that deletes the file.
AfterError(f) == IF IsUpload(f) THEN "undo" ELSE "ended"

\* A later statement or the commit fails, and the rows are rolled back.
RollBack(f) ==
    /\ "database" \in UploadFaults
    /\ request[f] = "inserted"
    /\ Becomes(f, AfterError(f))
    /\ UNCHANGED <<row, file, old, sweeper, doubtful>>

\* The commit is done, but its answer is lost.
CommitUnknown(f) ==
    /\ "database" \in UploadFaults
    /\ request[f] = "inserted"
    /\ Becomes(f, AfterError(f))
    /\ row' = [row EXCEPT ![f[1]] = f[2]]
    /\ doubtful' = doubtful \cup {f}
    /\ UNCHANGED <<file, old, sweeper>>

\* document.file.delete(save=False)
Undo(f) ==
    /\ request[f] = "undo"
    /\ Becomes(f, "ended")
    /\ Holds(f, "none")
    /\ old' = old \ {f}
    /\ UNCHANGED <<row, sweeper, doubtful>>

UndoRaises(f) ==
    /\ "storage" \in UploadFaults
    /\ request[f] = "undo"
    /\ Becomes(f, "ended")
    /\ UNCHANGED <<row, file, old, sweeper, doubtful>>

\* The web worker dies.
RequestCrash(f) ==
    /\ "crash" \in UploadFaults
    /\ request[f] \notin {"new", "ended"}
    /\ Becomes(f, "ended")
    /\ UNCHANGED <<row, file, old, sweeper, doubtful>>

-----------------------------------------------------------------------------
(* reconcile_orphan_uploads *)

Sweep(s, state) == sweeper' = [sweeper EXCEPT ![s] = state]

\* First the names the rows hold...
ReadReferenced(s) ==
    /\ sweeper[s].at = "idle"
    /\ Sweep(s, [IdleSweeper EXCEPT !.at = "read",
                                    !.referenced = {f \in Files : Named(f)}])
    /\ UNCHANGED <<request, row, file, old, doubtful>>

\* Mutant of Aged: the grace period is forgotten.
AgedOrNot(f) == f \in Files

\* The modification time is not past the cutoff.
Aged(f) == f \in old

\* Mutant of Allowance: the limit is compared too late.
OneMore == SweepLimit + 1

\* How many files the command may delete.
Allowance == SweepLimit

\* ...then the cutoff, and the list of the files.
ListFiles(s) ==
    /\ sweeper[s].at = "read"
    /\ Sweep(s, [sweeper[s] EXCEPT !.at = "sweeping", !.left = Allowance,
                                   !.todo = {f \in Files : Aged(f) /\ file[f] # "none"}])
    /\ UNCHANGED <<request, row, file, old, doubtful>>

Removable(s, f) ==
    /\ file[f] # "none"
    /\ f \notin sweeper[s].referenced
    /\ Aged(f)

\* Mutant of LeftAfter: files that are kept count against the limit too.
EveryFileCounts(s, f) == sweeper[s].left - 1

\* Only deletions count against the limit.
LeftAfter(s, f) ==
    IF Removable(s, f) THEN sweeper[s].left - 1 ELSE sweeper[s].left

\* The next path, in an order that says nothing: names begin with a UUID.
Examine(s, f) ==
    /\ sweeper[s].at = "sweeping"
    /\ sweeper[s].left > 0
    /\ f \in sweeper[s].todo
    /\ Sweep(s, [sweeper[s] EXCEPT
                   !.todo = @ \ {f},
                   !.left = LeftAfter(s, f),
                   !.at = IF Removable(s, f) THEN "deleting" ELSE @,
                   !.victim = IF Removable(s, f) THEN {f} ELSE {}])
    /\ UNCHANGED <<request, row, file, old, doubtful>>

\* unlink raises, and ends the command, if another one was faster.
Unlink(s) ==
    /\ sweeper[s].at = "deleting"
    /\ \E f \in sweeper[s].victim :
         IF file[f] = "none"
           THEN Sweep(s, IdleSweeper) /\ UNCHANGED <<file, old>>
           ELSE /\ Sweep(s, [sweeper[s] EXCEPT !.at = "sweeping", !.victim = {}])
                /\ Holds(f, "none")
                /\ old' = old \ {f}
    /\ UNCHANGED <<request, row, doubtful>>

Finish(s) ==
    /\ sweeper[s].at = "sweeping"
    /\ sweeper[s].todo = {} \/ sweeper[s].left = 0
    /\ Sweep(s, IdleSweeper)
    /\ UNCHANGED <<request, row, file, old, doubtful>>

\* The command dies, or a call on the file system raises.
SweeperCrash(s) ==
    /\ s \in Fragile
    /\ sweeper[s].at # "idle"
    /\ Sweep(s, IdleSweeper)
    /\ UNCHANGED <<request, row, file, old, doubtful>>

-----------------------------------------------------------------------------
(* Time *)

\* A command read the rows before the one that names f was committed, and has
\* not fixed its cutoff.
ReadBefore(f) ==
    \E s \in Sweepers :
      sweeper[s].at = "read" /\ Named(f) /\ f \notin sweeper[s].referenced

FileAges(f) ==
    /\ file[f] # "none" /\ f \notin old
    /\ request[f] = "ended" \/ "request" \in Slow
    /\ ReadBefore(f) => "query" \in Slow
    /\ old' = old \cup {f}
    /\ UNCHANGED <<request, row, file, sweeper, doubtful>>

-----------------------------------------------------------------------------

RequestStep(f) ==
    \/ Store(f) \/ Stored(f) \/ Insert(f) \/ Commit(f) \/ Undo(f)

RequestFault(f) ==
    \/ Decline(f) \/ CreateRaises(f) \/ RollBack(f) \/ CommitUnknown(f)
    \/ UndoRaises(f) \/ RequestCrash(f)

SweeperStep(s) ==
    \/ ReadReferenced(s)
    \/ ListFiles(s)
    \/ \E f \in sweeper[s].todo : Examine(s, f)
    \/ Unlink(s)
    \/ Finish(s)

UploadNext ==
    \/ \E f \in Files : RequestStep(f) \/ RequestFault(f) \/ FileAges(f)
    \/ \E s \in Sweepers : SweeperStep(s) \/ SweeperCrash(s)

UploadSafety == UploadInit /\ [][UploadNext]_uploadVars

\* A request in progress goes on; the operator runs the command again and
\* again, and if not all processes are fragile not every run dies; files grow
\* old.
UploadFairness ==
    /\ \A f \in Files : WF_uploadVars(request[f] # "new" /\ RequestStep(f))
    /\ \A f \in Files : WF_uploadVars(FileAges(f))
    /\ \A s \in Sweepers : WF_uploadVars(SweeperStep(s))

UploadSpec == UploadSafety /\ UploadFairness

-----------------------------------------------------------------------------
(* Properties *)

\* The file a document's row names is there, whole, for the worker to read,
\* whatever uploads, replacements and commands overlap and wherever they die;
\* the exception is a commit whose answer was lost, after which the handler
\* deletes the file of a document that exists.
NamedFileIsWhole ==
    \A d \in Documents :
      row[d] # 0 /\ <<d, row[d]>> \notin doubtful => file[<<d, row[d]>>] = "whole"

\* A file no row names does not stay: that of a failed or killed request, and
\* that of a replaced version, although runs of the command overlap, one of
\* them may end the other, and some may die.
OrphansRemoved ==
    \A f \in Files :
      request[f] = "ended" /\ file[f] # "none" /\ ~Named(f) ~> file[f] = "none"

=============================================================================
