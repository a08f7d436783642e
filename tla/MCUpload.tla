------------------------------ MODULE MCUpload ------------------------------
(* Instances of UploadFiles for TLC. *)
EXTENDS UploadFiles, TLC

\* Documents are not interchangeable, only one can be replaced.
SweeperSymmetry == Permutations(Sweepers)

=============================================================================
