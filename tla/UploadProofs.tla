---------------------------- MODULE UploadProofs ----------------------------
(***************************************************************************)
(* No upload, replacement or sweep takes away a file that a row names, for *)
(* any number of them and all faults, if requests and the query of a sweep *)
(* are over within the grace period (Slow = {}).                           *)
(*                                                                         *)
(* A file is old only after its request ended, and a request that ended    *)
(* makes no row name its file any more.  So a file that a command finds    *)
(* old and that its snapshot does not name is named by no row for good     *)
(* (DoomedInv): the snapshot may be as old as it likes.                    *)
(***************************************************************************)
EXTENDS UploadFiles, TLAPS

\* What no row names, and no request will make a row name.
Unwanted(f) == request[f] = "ended" /\ ~Named(f)

RequestInv ==
    \A f \in Files :
      /\ Named(f) => request[f] = "ended" \/ (request[f] = "undo" /\ f \in doubtful)
      /\ request[f] \in {"stored", "inserted"} => file[f] = "whole"
      /\ f \in old => request[f] = "ended"

DoomedInv ==
    \A s \in Sweepers :
      /\ sweeper[s].at = "read" =>
           \A f \in old \ sweeper[s].referenced : Unwanted(f)
      /\ \A f \in sweeper[s].todo \ sweeper[s].referenced : Unwanted(f)
      /\ \A f \in sweeper[s].victim : Unwanted(f)

FilesInv == UploadTypeOK /\ RequestInv /\ DoomedInv /\ NamedFileIsWhole

LEMMA FilesAreKeys ==
    ASSUME NEW f \in Files
    PROVE  f[1] \in Documents /\ f[2] \in {1, 2} /\ f = <<f[1], f[2]>>
BY UploadAssumption DEF Files

LEMMA UploadsStart == UploadInit => FilesInv
<1> SUFFICES ASSUME UploadInit PROVE FilesInv
  OBVIOUS
<1>1. \A f \in Files : ~Named(f)
  BY FilesAreKeys DEF UploadInit, Named
<1>2. UploadTypeOK
  BY UploadAssumption DEF UploadInit, UploadTypeOK, SweeperStates, IdleSweeper
<1> QED
  BY <1>1, <1>2
  DEF UploadInit, FilesInv, RequestInv, DoomedInv, NamedFileIsWhole, IdleSweeper

-----------------------------------------------------------------------------
(* Requests *)

\* A step of the request of one file that changes no row: what a row names is
\* touched only after a commit whose answer was lost.
LEMMA QuietRequestKeeps ==
    ASSUME FilesInv, NEW f \in Files, request[f] # "ended",
           NEW stage \in {"storing", "stored", "inserted", "undo", "ended"},
           NEW content \in {"none", "partial", "whole"},
           Becomes(f, stage), Holds(f, content),
           request[f] = "undo" => stage = "ended",
           stage \in {"stored", "inserted"} => content = "whole",
           old' \in {old, old \ {f}},
           UNCHANGED <<row, sweeper, doubtful>>
    PROVE  FilesInv'
<1>1. /\ request \in [Files ->
                        {"new", "storing", "stored", "inserted", "undo", "ended"}]
      /\ file \in [Files -> {"none", "partial", "whole"}]
      /\ old \subseteq Files
  BY DEF FilesInv, UploadTypeOK
<1>2. \A g \in Files :
        /\ request'[g] = IF g = f THEN stage ELSE request[g]
        /\ file'[g] = IF g = f THEN content ELSE file[g]
        /\ Named(g)' <=> Named(g)
  BY <1>1 DEF Becomes, Holds, Named
<1>3. Named(f) => f \in doubtful /\ stage = "ended"
  BY DEF FilesInv, RequestInv
<1>4. UploadTypeOK'
  BY <1>1 DEF FilesInv, UploadTypeOK, Becomes, Holds
<1>5. RequestInv'
  BY <1>1, <1>2, <1>3 DEF FilesInv, RequestInv
<1>6. \A g \in Files : Unwanted(g) => Unwanted(g)'
  BY <1>2 DEF Unwanted
<1>7. DoomedInv'
  BY <1>1, <1>6 DEF FilesInv, DoomedInv, UploadTypeOK, SweeperStates
<1>8. NamedFileIsWhole'
  <2> SUFFICES ASSUME NEW d \in Documents, row[d] # 0, <<d, row[d]>> \notin doubtful
               PROVE  file'[<<d, row[d]>>] = "whole"
    BY DEF NamedFileIsWhole
  <2>1. file[<<d, row[d]>>] = "whole"
    BY DEF FilesInv, NamedFileIsWhole
  <2>2. <<d, row[d]>> # f
    BY <1>3 DEF Named
  <2> QED
    BY <1>1, <2>1, <2>2 DEF Holds
<1> QED
  BY <1>4, <1>5, <1>7, <1>8 DEF FilesInv

\* The row names the file from now on; the file was whole.
LEMMA CommitKeeps ==
    ASSUME FilesInv, NEW f \in Files, request[f] = "inserted",
           NEW stage \in {"undo", "ended"}, Becomes(f, stage),
           row' = [row EXCEPT ![f[1]] = f[2]],
           doubtful' \in {doubtful, doubtful \cup {f}},
           stage = "undo" => f \in doubtful',
           UNCHANGED <<file, old, sweeper>>
    PROVE  FilesInv'
<1>1. /\ request \in [Files ->
                        {"new", "storing", "stored", "inserted", "undo", "ended"}]
      /\ row \in [Documents -> 0..2]
      /\ f[1] \in Documents /\ f[2] \in {1, 2} /\ f = <<f[1], f[2]>>
  BY FilesAreKeys DEF FilesInv, UploadTypeOK
<1>2. \A g \in Files :
        /\ request'[g] = IF g = f THEN stage ELSE request[g]
        /\ Named(g)' => Named(g) \/ g = f
  <2> SUFFICES ASSUME NEW g \in Files, Named(g)', ~Named(g) PROVE g = f
    BY <1>1 DEF Becomes
  <2>1. g[1] \in Documents /\ g = <<g[1], g[2]>>
    BY FilesAreKeys
  <2>2. g[1] = f[1] /\ g[2] = f[2]
    BY <1>1, <2>1 DEF Named
  <2> QED
    BY <1>1, <2>1, <2>2
<1>3. UploadTypeOK'
  BY <1>1 DEF FilesInv, UploadTypeOK, Becomes
<1>4. RequestInv'
  BY <1>2 DEF FilesInv, RequestInv
<1>5. \A g \in Files : Unwanted(g) => Unwanted(g)'
  BY <1>2 DEF Unwanted
<1>6. DoomedInv'
  BY <1>5 DEF FilesInv, DoomedInv, UploadTypeOK, SweeperStates
<1>7. NamedFileIsWhole'
  BY <1>1 DEF FilesInv, RequestInv, NamedFileIsWhole
<1> QED
  BY <1>3, <1>4, <1>6, <1>7 DEF FilesInv

LEMMA RequestsKeep ==
    ASSUME FilesInv, NEW f \in Files, RequestStep(f) \/ RequestFault(f)
    PROVE  FilesInv'
<1>1. /\ file \in [Files -> {"none", "partial", "whole"}]
      /\ request \in [Files ->
                        {"new", "storing", "stored", "inserted", "undo", "ended"}]
  BY DEF FilesInv, UploadTypeOK
<1>2. file[f] \in {"none", "partial", "whole"} /\ [file EXCEPT ![f] = file[f]] = file
  BY <1>1
<1>3. request[f] \in {"stored", "inserted"} => file[f] = "whole"
  BY DEF FilesInv, RequestInv
<1>4. CASE Decline(f) \/ CreateRaises(f) \/ UndoRaises(f) \/ RequestCrash(f)
  <2>1. /\ Becomes(f, "ended") /\ request[f] # "ended"
        /\ UNCHANGED <<row, file, old, sweeper, doubtful>>
    BY <1>1, <1>4 DEF Decline, CreateRaises, UndoRaises, RequestCrash
  <2> QED
    BY <1>2, <2>1, QuietRequestKeeps DEF Holds
<1>5. CASE Store(f)
  BY <1>5, QuietRequestKeeps DEF Store
<1>6. CASE Stored(f)
  BY <1>6, QuietRequestKeeps DEF Stored
<1>7. CASE Insert(f)
  BY <1>2, <1>3, <1>7, QuietRequestKeeps DEF Insert, Holds
<1>8. CASE Undo(f)
  BY <1>8, QuietRequestKeeps DEF Undo
<1>9. CASE RollBack(f)
  <2>1. AfterError(f) \in {"undo", "ended"}
    BY DEF AfterError
  <2> QED
    BY <1>2, <1>9, <2>1, QuietRequestKeeps DEF RollBack, Holds
<1>10. CASE Commit(f)
  BY <1>10, CommitKeeps DEF Commit
<1>11. CASE CommitUnknown(f)
  <2>1. AfterError(f) \in {"undo", "ended"}
    BY DEF AfterError
  <2> QED
    BY <1>11, <2>1, CommitKeeps DEF CommitUnknown
<1> QED
  BY <1>4, <1>5, <1>6, <1>7, <1>8, <1>9, <1>10, <1>11 DEF RequestStep, RequestFault

-----------------------------------------------------------------------------
(* Commands and the clock *)

\* A step of a command that changes no file.
LEMMA SweepKeeps ==
    ASSUME FilesInv, NEW s \in Sweepers, NEW state \in SweeperStates,
           Sweep(s, state), UNCHANGED <<request, row, file, old, doubtful>>,
           state.at = "read" => \A f \in old \ state.referenced : Unwanted(f),
           \A f \in state.todo \ state.referenced : Unwanted(f),
           \A f \in state.victim : Unwanted(f)
    PROVE  FilesInv'
<1>1. \A t \in Sweepers : sweeper'[t] = IF t = s THEN state ELSE sweeper[t]
  BY DEF FilesInv, UploadTypeOK, Sweep
<1>2. UploadTypeOK'
  BY DEF FilesInv, UploadTypeOK, Sweep
<1>3. \A f : Unwanted(f)' <=> Unwanted(f)
  BY DEF Unwanted, Named
<1>4. RequestInv' /\ NamedFileIsWhole'
  BY DEF FilesInv, RequestInv, NamedFileIsWhole, Named
<1>5. DoomedInv'
  BY <1>1, <1>3 DEF FilesInv, DoomedInv
<1> QED
  BY <1>2, <1>4, <1>5 DEF FilesInv

LEMMA IdleKeeps ==
    ASSUME FilesInv, NEW s \in Sweepers, Sweep(s, IdleSweeper),
           UNCHANGED <<request, row, file, old, doubtful>>
    PROVE  FilesInv'
<1>1. /\ IdleSweeper \in SweeperStates /\ IdleSweeper.at = "idle"
      /\ IdleSweeper.todo = {} /\ IdleSweeper.victim = {}
  BY UploadAssumption DEF IdleSweeper, SweeperStates
<1> QED
  BY <1>1, SweepKeeps

\* What is old has ended, so what the snapshot does not name is unwanted.
LEMMA ReadReferencedKeeps ==
    ASSUME FilesInv, NEW s \in Sweepers, ReadReferenced(s)
    PROVE  FilesInv'
<1> DEFINE names == {f \in Files : Named(f)}
           state == [IdleSweeper EXCEPT !.at = "read", !.referenced = names]
<1>1. /\ state \in SweeperStates /\ state.at = "read" /\ state.referenced = names
      /\ state.todo = {} /\ state.victim = {}
  <2>1. names \in SUBSET Files
    OBVIOUS
  <2>2. IdleSweeper \in SweeperStates
    BY UploadAssumption DEF IdleSweeper, SweeperStates
  <2>3. IdleSweeper.todo = {} /\ IdleSweeper.victim = {}
    BY DEF IdleSweeper
  <2> HIDE DEF names
  <2> QED
    BY <2>1, <2>2, <2>3 DEF SweeperStates
<1>2. \A f \in old \ names : Unwanted(f)
  BY DEF FilesInv, UploadTypeOK, RequestInv, Unwanted
<1>3. Sweep(s, state) /\ UNCHANGED <<request, row, file, old, doubtful>>
  BY DEF ReadReferenced
<1> HIDE DEF state
<1> QED
  BY <1>1, <1>2, <1>3, SweepKeeps

LEMMA ListFilesKeeps ==
    ASSUME FilesInv, NEW s \in Sweepers, ListFiles(s)
    PROVE  FilesInv'
<1> DEFINE listed == {f \in Files : Aged(f) /\ file[f] # "none"}
           state == [sweeper[s] EXCEPT !.at = "sweeping", !.left = Allowance,
                                       !.todo = listed]
<1>1. sweeper[s] \in SweeperStates /\ sweeper[s].at = "read"
  BY DEF FilesInv, UploadTypeOK, ListFiles
<1>2. Allowance \in 0..SweepLimit /\ listed \in SUBSET Files
  BY UploadAssumption DEF Allowance
<1>3. /\ state \in SweeperStates /\ state.at = "sweeping"
      /\ state.referenced = sweeper[s].referenced
      /\ state.todo = listed /\ state.victim = sweeper[s].victim
  BY <1>1, <1>2 DEF SweeperStates
<1>4. listed \subseteq old
  BY DEF Aged
<1>5. /\ \A f \in old \ sweeper[s].referenced : Unwanted(f)
      /\ \A f \in sweeper[s].victim : Unwanted(f)
  BY <1>1 DEF FilesInv, DoomedInv
<1>6. Sweep(s, state) /\ UNCHANGED <<request, row, file, old, doubtful>>
  BY DEF ListFiles
<1> HIDE DEF state, listed
<1> QED
  BY <1>3, <1>4, <1>5, <1>6, SweepKeeps

LEMMA ExamineKeeps ==
    ASSUME FilesInv, NEW s \in Sweepers, NEW f \in sweeper[s].todo, Examine(s, f)
    PROVE  FilesInv'
<1> DEFINE left == LeftAfter(s, f)
           todo == sweeper[s].todo \ {f}
           victim == IF Removable(s, f) THEN {f} ELSE {}
           at == IF Removable(s, f) THEN "deleting" ELSE sweeper[s].at
           state == [sweeper[s] EXCEPT !.todo = todo, !.left = left, !.at = at,
                                       !.victim = victim]
<1>1. /\ sweeper[s] \in SweeperStates /\ sweeper[s].at = "sweeping"
      /\ sweeper[s].left > 0
  BY DEF FilesInv, UploadTypeOK, Examine
<1>2. left \in 0..SweepLimit
  BY <1>1, UploadAssumption DEF LeftAfter, SweeperStates
<1>3. /\ todo \in SUBSET Files /\ victim \in SUBSET Files
      /\ at \in {"deleting", "sweeping"}
  BY <1>1 DEF SweeperStates
<1>4. victim \subseteq sweeper[s].todo \ sweeper[s].referenced
  BY DEF Removable
<1>5. todo \subseteq sweeper[s].todo
  OBVIOUS
<1>6. Sweep(s, state) /\ UNCHANGED <<request, row, file, old, doubtful>>
  BY DEF Examine
<1> HIDE DEF left, todo, victim, at
<1>7. /\ state \in SweeperStates /\ state.at # "read"
      /\ state.referenced = sweeper[s].referenced
      /\ state.todo = todo /\ state.victim = victim
  BY <1>1, <1>2, <1>3 DEF SweeperStates
<1>8. \A g \in sweeper[s].todo \ sweeper[s].referenced : Unwanted(g)
  BY DEF FilesInv, DoomedInv
<1> HIDE DEF state
<1> QED
  BY <1>4, <1>5, <1>6, <1>7, <1>8, SweepKeeps

\* What is unlinked is named by no row.
LEMMA UnlinkKeeps ==
    ASSUME FilesInv, NEW s \in Sweepers, Unlink(s)
    PROVE  FilesInv'
<1>1. PICK f \in sweeper[s].victim :
        IF file[f] = "none"
          THEN Sweep(s, IdleSweeper) /\ UNCHANGED <<file, old>>
          ELSE /\ Sweep(s, [sweeper[s] EXCEPT !.at = "sweeping", !.victim = {}])
               /\ Holds(f, "none")
               /\ old' = old \ {f}
  BY DEF Unlink
<1>2. CASE file[f] = "none"
  BY <1>1, <1>2, IdleKeeps DEF Unlink
<1>3. CASE file[f] # "none"
  <2> DEFINE state == [sweeper[s] EXCEPT !.at = "sweeping", !.victim = {}]
  <2>1. /\ sweeper[s] \in SweeperStates /\ f \in Files
        /\ file \in [Files -> {"none", "partial", "whole"}]
        /\ sweeper \in [Sweepers -> SweeperStates]
    BY DEF FilesInv, UploadTypeOK, SweeperStates
  <2>2. /\ sweeper' = [sweeper EXCEPT ![s] = state]
        /\ file' = [file EXCEPT ![f] = "none"]
        /\ old' = old \ {f}
        /\ UNCHANGED <<request, row, doubtful>>
    BY <1>1, <1>3 DEF Unlink, Sweep, Holds
  <2>3. /\ state \in SweeperStates /\ state.at = "sweeping" /\ state.victim = {}
        /\ state.referenced = sweeper[s].referenced /\ state.todo = sweeper[s].todo
    BY <2>1 DEF SweeperStates
  <2> HIDE DEF state
  <2>4. request[f] = "ended" /\ ~Named(f)
    BY DEF FilesInv, DoomedInv, Unwanted
  <2>5. UploadTypeOK'
    BY <2>1, <2>2, <2>3 DEF FilesInv, UploadTypeOK
  <2>6. \A g : (Unwanted(g)' <=> Unwanted(g)) /\ (Named(g)' <=> Named(g))
    BY <2>2 DEF Unwanted, Named
  <2>7. RequestInv'
    BY <2>1, <2>2, <2>4, <2>6 DEF FilesInv, RequestInv
  <2>8. DoomedInv'
    BY <2>1, <2>2, <2>3, <2>6 DEF FilesInv, DoomedInv
  <2>9. NamedFileIsWhole'
    <3> SUFFICES ASSUME NEW d \in Documents, row[d] # 0, <<d, row[d]>> \notin doubtful
                 PROVE  file'[<<d, row[d]>>] = "whole"
      BY <2>2 DEF NamedFileIsWhole
    <3>1. file[<<d, row[d]>>] = "whole"
      BY DEF FilesInv, NamedFileIsWhole
    <3>2. <<d, row[d]>> # f
      BY <2>4 DEF Named
    <3> QED
      BY <2>1, <2>2, <3>1, <3>2
  <2> QED
    BY <2>5, <2>7, <2>8, <2>9 DEF FilesInv
<1> QED
  BY <1>2, <1>3

\* A file grows old after its request, and not under a query that overlooked
\* the row that names it.
LEMMA AgingKeeps ==
    ASSUME FilesInv, Slow = {}, NEW f \in Files, FileAges(f)
    PROVE  FilesInv'
<1>1. /\ request[f] = "ended" /\ ~ReadBefore(f)
      /\ old' = old \cup {f}
      /\ UNCHANGED <<request, row, file, sweeper, doubtful>>
  BY DEF FileAges
<1>2. UploadTypeOK'
  BY <1>1 DEF FilesInv, UploadTypeOK
<1>3. RequestInv' /\ NamedFileIsWhole'
  BY <1>1 DEF FilesInv, RequestInv, NamedFileIsWhole, Named
<1>4. \A g : Unwanted(g)' <=> Unwanted(g)
  BY <1>1 DEF Unwanted, Named
<1>5. ASSUME NEW s \in Sweepers, sweeper[s].at = "read", f \notin sweeper[s].referenced
      PROVE  Unwanted(f)
  BY <1>1, <1>5 DEF ReadBefore, Unwanted
<1>6. DoomedInv'
  BY <1>1, <1>4, <1>5 DEF FilesInv, DoomedInv
<1> QED
  BY <1>2, <1>3, <1>6 DEF FilesInv

\* The file a row names is whole, whatever overlaps and dies, except after a
\* commit whose answer the upload did not learn.
THEOREM NamedFilesAreWhole ==
    ASSUME Slow = {}
    PROVE  UploadSafety => []NamedFileIsWhole
<1>1. FilesInv /\ [UploadNext]_uploadVars => FilesInv'
  <2> SUFFICES ASSUME FilesInv, [UploadNext]_uploadVars PROVE FilesInv'
    OBVIOUS
  <2>1. ASSUME NEW f \in Files, RequestStep(f) \/ RequestFault(f) \/ FileAges(f)
        PROVE  FilesInv'
    BY <2>1, RequestsKeep, AgingKeeps
  <2>2. ASSUME NEW s \in Sweepers, SweeperStep(s) PROVE FilesInv'
    BY <2>2, ReadReferencedKeeps, ListFilesKeeps, ExamineKeeps, UnlinkKeeps, IdleKeeps
    DEF SweeperStep, Finish
  <2>3. ASSUME NEW s \in Sweepers, SweeperCrash(s) PROVE FilesInv'
    BY <2>3, IdleKeeps DEF SweeperCrash
  <2>4. CASE UNCHANGED uploadVars
    BY <2>4 DEF uploadVars, FilesInv, UploadTypeOK, RequestInv, DoomedInv,
                NamedFileIsWhole, Unwanted, Named
  <2> QED
    BY <2>1, <2>2, <2>3, <2>4 DEF UploadNext
<1>2. FilesInv => NamedFileIsWhole
  BY DEF FilesInv
<1> QED
  BY <1>1, <1>2, UploadsStart, PTL DEF UploadSafety

-----------------------------------------------------------------------------
(* Types, for requests and queries of any length *)

\* A command's snapshot, its list and what is left of its allowance; never
\* below zero.
LEMMA SweeperTyped ==
    ASSUME UploadTypeOK, NEW s \in Sweepers, SweeperStep(s) \/ SweeperCrash(s)
    PROVE  UploadTypeOK'
<1>0. IdleSweeper \in SweeperStates /\ sweeper[s] \in SweeperStates
  BY UploadAssumption DEF UploadTypeOK, IdleSweeper, SweeperStates
<1>1. ASSUME NEW state \in SweeperStates, Sweep(s, state),
             UNCHANGED <<request, row, doubtful>>,
             \/ UNCHANGED <<file, old>>
             \/ \E f \in Files : Holds(f, "none") /\ old' = old \ {f}
      PROVE  UploadTypeOK'
  BY <1>1 DEF UploadTypeOK, Sweep, Holds
<1>2. CASE ReadReferenced(s)
  <2> DEFINE names == {f \in Files : Named(f)}
             state == [IdleSweeper EXCEPT !.at = "read", !.referenced = names]
  <2>1. names \in SUBSET Files
    OBVIOUS
  <2> HIDE DEF names
  <2>2. state \in SweeperStates
    BY <1>0, <2>1 DEF SweeperStates
  <2> HIDE DEF state
  <2> QED
    BY <1>1, <1>2, <2>2 DEF ReadReferenced, names, state
<1>3. CASE ListFiles(s)
  <2> DEFINE listed == {f \in Files : Aged(f) /\ file[f] # "none"}
             state == [sweeper[s] EXCEPT !.at = "sweeping", !.left = Allowance,
                                         !.todo = listed]
  <2>1. listed \in SUBSET Files /\ Allowance \in 0..SweepLimit
    BY UploadAssumption DEF Allowance
  <2> HIDE DEF listed
  <2>2. state \in SweeperStates
    BY <1>0, <2>1 DEF SweeperStates
  <2> HIDE DEF state
  <2> QED
    BY <1>1, <1>3, <2>2 DEF ListFiles, listed, state
<1>4. ASSUME NEW f \in sweeper[s].todo, Examine(s, f) PROVE UploadTypeOK'
  <2> DEFINE left == LeftAfter(s, f)
             todo == sweeper[s].todo \ {f}
             victim == IF Removable(s, f) THEN {f} ELSE {}
             at == IF Removable(s, f) THEN "deleting" ELSE sweeper[s].at
             state == [sweeper[s] EXCEPT !.todo = todo, !.left = left, !.at = at,
                                         !.victim = victim]
  <2>1. left \in 0..SweepLimit
    <3>1. sweeper[s].left \in 0..SweepLimit /\ sweeper[s].left > 0
      BY <1>0, <1>4 DEF Examine, SweeperStates
    <3> QED
      BY <3>1, UploadAssumption DEF LeftAfter
  <2>2. /\ todo \in SUBSET Files /\ victim \in SUBSET Files
        /\ at \in {"deleting", "sweeping"}
    BY <1>0, <1>4 DEF SweeperStates, Examine
  <2>3. Sweep(s, state) /\ UNCHANGED <<request, row, file, old, doubtful>>
    BY <1>4 DEF Examine
  <2> HIDE DEF left, todo, victim, at
  <2>4. state \in SweeperStates
    BY <1>0, <2>1, <2>2 DEF SweeperStates
  <2> HIDE DEF state
  <2> QED
    BY <1>1, <2>3, <2>4
<1>5. CASE Unlink(s)
  <2> DEFINE state == [sweeper[s] EXCEPT !.at = "sweeping", !.victim = {}]
  <2>1. state \in SweeperStates
    BY <1>0 DEF SweeperStates
  <2>2. sweeper[s].victim \subseteq Files
    BY <1>0 DEF SweeperStates
  <2> HIDE DEF state
  <2> QED
    BY <1>0, <1>1, <1>5, <2>1, <2>2 DEF Unlink, state
<1>6. CASE Finish(s) \/ SweeperCrash(s)
  BY <1>0, <1>1, <1>6 DEF Finish, SweeperCrash
<1> QED
  BY <1>2, <1>3, <1>4, <1>5, <1>6 DEF SweeperStep

LEMMA RequestTyped ==
    ASSUME UploadTypeOK, NEW f \in Files,
           RequestStep(f) \/ RequestFault(f) \/ FileAges(f)
    PROVE  UploadTypeOK'
<1>1. /\ f[1] \in Documents /\ f[2] \in 0..2 /\ AfterError(f) \in {"undo", "ended"}
  BY FilesAreKeys DEF AfterError
<1>2. ASSUME NEW stage \in {"storing", "stored", "inserted", "undo", "ended"},
             Becomes(f, stage), UNCHANGED sweeper,
             row' \in {row, [row EXCEPT ![f[1]] = f[2]]},
             UNCHANGED file \/ \E c \in {"none", "partial", "whole"} : Holds(f, c),
             old' \in {old, old \ {f}}, doubtful' \in {doubtful, doubtful \cup {f}}
      PROVE  UploadTypeOK'
  BY <1>1, <1>2 DEF UploadTypeOK, Becomes, Holds
<1>3. CASE RequestStep(f)
  BY <1>2, <1>3 DEF RequestStep, Store, Stored, Insert, Commit, Undo
<1>4. CASE RequestFault(f)
  BY <1>1, <1>2, <1>4
  DEF RequestFault, Decline, CreateRaises, RollBack, CommitUnknown, UndoRaises,
      RequestCrash
<1>5. CASE FileAges(f)
  BY <1>5 DEF FileAges, UploadTypeOK
<1> QED
  BY <1>3, <1>4, <1>5

\* Every variable keeps its type; a command never deletes more than its limit.
THEOREM UploadTypeCorrect == UploadSafety => []UploadTypeOK
<1>1. UploadInit => UploadTypeOK
  BY UploadsStart DEF FilesInv
<1>2. UploadTypeOK /\ [UploadNext]_uploadVars => UploadTypeOK'
  <2> SUFFICES ASSUME UploadTypeOK, [UploadNext]_uploadVars PROVE UploadTypeOK'
    OBVIOUS
  <2>1. CASE UNCHANGED uploadVars
    BY <2>1 DEF uploadVars, UploadTypeOK
  <2> QED
    BY <2>1, RequestTyped, SweeperTyped DEF UploadNext
<1> QED
  BY <1>1, <1>2, PTL DEF UploadSafety

=============================================================================
