----------------------------- MODULE MCFreeList -----------------------------
(* A small instance of FreeList: a buffer of two slots, so that it wraps and
   spills into the linked list within a few steps. *)
EXTENDS FreeList
==============================================================================
