--------------------------- MODULE MCDataPartition ---------------------------
(* Small instances of DataPartition. *)
EXTENDS DataPartition, TLC

PathSymmetry == Permutations(Paths)
===============================================================================
