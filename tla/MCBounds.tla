------------------------------ MODULE MCBounds ------------------------------
(***************************************************************************)
(* Instances for TLC of the three parts that keep within configured        *)
(* limits: a document (ExtractionLimits), a prompt (PromptContext) and a   *)
(* task (LeaseTiming).  They share nothing, so a behaviour runs one of     *)
(* them while the others have come to their end.                           *)
(***************************************************************************)
EXTENDS ExtractionLimits, PromptContext, LeaseTiming

\* Settings from too short to generous; Validated chooses.
SmallSettings == [timeLimit : 1..2, safety : {0, 2}, stale : 0..5]

BoundsSymmetry == Permutations(Workers)

LimitsOver ==
    /\ at = "rejected" /\ size = 0 /\ left = 0 /\ parts = 0
    /\ text = 0 /\ covered = 0 /\ kept = 0

ContextOver ==
    /\ lengths = <<>> /\ limit = 1 /\ remaining = 1
    /\ chunks = <<>> /\ context = <<>> /\ stopped = TRUE

TimingOver ==
    /\ settings = [timeLimit |-> 1, safety |-> 2, stale |-> 3]
    /\ now = Horizon
    /\ record = [status |-> "done", gen |-> 0, lease |-> 0]
    /\ worker = [w \in Workers |-> Free]

BoundsInit ==
    \/ LimitsInit /\ ContextOver /\ TimingOver
    \/ LimitsOver /\ ContextInit /\ TimingOver
    \/ LimitsOver /\ ContextOver /\ TimingInit

BoundsNext ==
    \/ LimitsNext /\ UNCHANGED <<contextVars, timingVars>>
    \/ ContextNext /\ UNCHANGED <<limitVars, timingVars>>
    \/ TimingNext /\ UNCHANGED <<limitVars, contextVars>>

BoundsSpec == BoundsInit /\ [][BoundsNext]_<<limitVars, contextVars, timingVars>>

=============================================================================
