------------------------------ MODULE MCDirChain ------------------------------
(* Small instances of DirChain. *)
EXTENDS DirChain, TLC

NameSymmetry == Permutations(Names)
===============================================================================
