----------------------------- MODULE MCRetrieval -----------------------------
(* Instances of Retrieval for TLC. *)
EXTENDS Retrieval

\* Every document has an owner of its own, user d being that of document d.
OwnerIsNumber == [d \in Docs |-> d]

=============================================================================
