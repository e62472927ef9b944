----------------------------- MODULE MC_EmmLocks -----------------------------
(***************************************************************************)
(* Two threads over the reserve heap of MC_ReserveHeap: its request sizes *)
(* make emalloc use the free lists, the bump area and add_chunks, and     *)
(* the USER range runs out at the third chunk.                             *)
(***************************************************************************)
EXTENDS EmmLocks, MC_ReserveHeap
=============================================================================
