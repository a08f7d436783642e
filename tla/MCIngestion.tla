----------------------------- MODULE MCIngestion -----------------------------
(* Instances of Ingestion for TLC. *)
EXTENDS Ingestion, TLC

\* Workers and cleaners are interchangeable: sound for safety only.
MCSymmetry == Permutations(Workers) \cup Permutations(Cleaners)

=============================================================================
