------------------------------ MODULE BlockPool ------------------------------
(***************************************************************************)
(* What the metadata free list promises to its callers, with no trace of   *)
(* how it keeps its books: every node block is either free or in use; a    *)
(* request hands out a free block; the partition is enlarged only when     *)
(* nothing is free; a released block becomes free again.                   *)
(***************************************************************************)

CONSTANT Blocks      \* the block ids there can ever be

VARIABLES free,      \* blocks a request may hand out
          used       \* blocks the cib-nodes own

poolVars == <<free, used>>

PoolInit == free \in SUBSET Blocks /\ used = {}

(* FreeListRequestNodeBlock when a free block exists. *)
Allocate(b) ==
    /\ b \in free
    /\ free' = free \ {b}
    /\ used' = used \cup {b}

(* FreeListRequestNodeBlock when it has to enlarge the partition. *)
Enlarge(b) ==
    /\ free = {}
    /\ b \notin used
    /\ used' = used \cup {b}
    /\ UNCHANGED free

(* FreeListInsertNodeBlock. *)
Release(b) ==
    /\ b \in used
    /\ used' = used \ {b}
    /\ free' = free \cup {b}

PoolNext == \E b \in Blocks : Allocate(b) \/ Enlarge(b) \/ Release(b)

PoolSpec == PoolInit /\ [][PoolNext]_poolVars
==============================================================================
