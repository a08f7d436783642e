------------------------------ MODULE MCOutbox ------------------------------
(* Instances of DispatchOutbox for TLC. *)
EXTENDS DispatchOutbox

=============================================================================
