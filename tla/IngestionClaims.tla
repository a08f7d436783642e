--------------------------- MODULE IngestionClaims ---------------------------
(***************************************************************************)
(* Statements of the repository's documentation about recovery and cleanup *)
(* that the modelled code does not keep.  Each has a run of its own in     *)
(* which TLC finds the behaviour that contradicts it.                      *)
(***************************************************************************)
EXTENDS Ingestion

\* README: INGESTION_MAX_RECOVERY_ATTEMPTS is the "maximum automatic
\* generation rotations before manual intervention".  Recovery compares
\* attempt_count, which only a worker's claim increments, so a job that no
\* worker reaches is rotated for ever.
RotationsBounded == \A d \in Docs : job[d].gen - 1 <= MaxRecovery

\* Chunks in the index that nobody will ever read: the generation is neither
\* visible nor that of an unfinished job, and its worker is gone.
Leftover(k) ==
    /\ vectors[k] # "none"
    /\ ~IsActive(k)
    /\ ~(IsCurrent(k) /\ Unfinished(k[1]))
    /\ \A w \in Workers : Busy(w) => task[w] # k

\* The plan and the architecture leave inactive chunks to the exact-manifest
\* cleanup.  It reads STALE manifests only, and only the worker itself turns
\* WRITING into STALE: what a dead worker wrote stays.
LeftoversRemoved ==
    \A k \in Keys : Leftover(k) ~> vectors[k] = "none" \/ CleanupExhausted(k)

=============================================================================
