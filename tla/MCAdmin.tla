------------------------------ MODULE MCAdmin ------------------------------
(* Instances of IngestionAdmin for TLC. *)
EXTENDS IngestionAdmin

=============================================================================
