-------------------------------- MODULE MCRag --------------------------------
(* Instances of RagQuery for TLC. *)
EXTENDS RagQuery, TLC

RequestTickets == Requests \X Stages

RequestSymmetry == Permutations(Requests)

=============================================================================
