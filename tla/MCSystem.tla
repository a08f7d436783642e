------------------------------ MODULE MCSystem ------------------------------
(* Instances of IngestionSystem for TLC. *)
EXTENDS IngestionSystem

=============================================================================
