---------------------------- MODULE MCPartitions ----------------------------
(* A small instance of Partitions: moves by less and by more than the length of
   what is moved. *)
EXTENDS Partitions
==============================================================================
