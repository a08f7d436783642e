-------------------------- MODULE DocumentLifecycle --------------------------
(***************************************************************************)
(* What ingestion promises the owner of a document, and nothing of how:    *)
(* the job moves along the state diagram of the durability plan, an        *)
(* attempt is never resumed once it has been replaced, and what chat may   *)
(* read of a document appears in one step, complete, and then stays.       *)
(* Workers, leases, messages, manifests and cleanup do not appear.         *)
(***************************************************************************)
EXTENDS Naturals

CONSTANTS Docs, Legacy, MaxGen

VARIABLES
    status,    \* of the job of each document
    attempt,   \* the attempt (generation) the job is at; 0 before the upload
    visible,   \* the attempt whose chunks chat may read; 0 for none
    complete   \* the (document, attempt) pairs whose chunks are all indexed

lifecycleVars == <<status, attempt, visible, complete>>

LifecycleInit ==
    /\ status \in [Docs -> {"ABSENT", "PENDING", "PROCESSING", "SUCCESS", "FAILURE"}]
    /\ \A d \in Docs \ Legacy : status[d] = "ABSENT"
    /\ attempt = [d \in Docs |-> IF d \in Legacy THEN 1 ELSE 0]
    /\ visible = [d \in Docs |-> 0]
    /\ complete = {}

\* The moves of one document.  Several documents may move in one step:
\* recovery rotates a batch in one transaction.
Move(d, from, to, fresh) ==
    /\ status[d] \in from
    /\ status'[d] = to
    /\ attempt'[d] = IF fresh THEN attempt[d] + 1 ELSE attempt[d]

Submit(d) == Move(d, {"ABSENT"}, "PENDING", TRUE) /\ visible'[d] = visible[d]

Begin(d) == Move(d, {"PENDING"}, "PROCESSING", FALSE) /\ visible'[d] = visible[d]

Publish(d) ==
    /\ Move(d, {"PROCESSING"}, "SUCCESS", FALSE)
    /\ visible'[d] = attempt[d]
    /\ <<d, attempt[d]>> \in complete

GiveUp(d) ==
    Move(d, {"PROCESSING"}, "FAILURE", FALSE) /\ visible'[d] = visible[d]

\* Recovery of an unfinished attempt, or reindexing a success nobody can see.
Restart(d) ==
    /\ Move(d, {"PENDING", "PROCESSING", "SUCCESS"}, "PENDING", TRUE)
    /\ visible[d] = 0
    /\ visible'[d] = 0

Rest(d) ==
    status'[d] = status[d] /\ attempt'[d] = attempt[d] /\ visible'[d] = visible[d]

DocStep(d) == Submit(d) \/ Begin(d) \/ Publish(d) \/ GiveUp(d) \/ Restart(d) \/ Rest(d)

\* The index may change at any time, but never under what is visible.
VisibleKept == \A d \in Docs : visible[d] # 0 => <<d, visible[d]>> \in complete'

LifecycleNext ==
    /\ status' \in [Docs -> {"ABSENT", "PENDING", "PROCESSING", "SUCCESS", "FAILURE"}]
    /\ attempt' \in [Docs -> 0..MaxGen]
    /\ visible' \in [Docs -> 0..MaxGen]
    /\ \A d \in Docs : DocStep(d)
    /\ VisibleKept

LifecycleSpec == LifecycleInit /\ [][LifecycleNext]_lifecycleVars

=============================================================================
