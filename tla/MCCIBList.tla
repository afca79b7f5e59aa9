------------------------------ MODULE MCCIBList ------------------------------
(* Small instances of CIBList. *)
EXTENDS CIBList
===============================================================================
