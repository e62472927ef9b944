-------------------------------- MODULE MC_Emm --------------------------------
(***************************************************************************)
(* Model values for Emm.  ELRANGE is pages 1..13: RTS 1..4 and 13, USER    *)
(* 5..12.  The loader has placed a text segment and a thread context in    *)
(* RTS, which take two of the three EMA nodes of the first reserve chunk, *)
(* so the second alloc of a caller already makes emalloc call add_chunks. *)
(* A chunk is one page with a one-page guard on each side, all of it      *)
(* committed, as add_chunks(INIT_MEM_SIZE) does with the first increment.  *)
(***************************************************************************)
EXTENDS Emm

MCLoaderRegions ==
  << [addr |-> 1, len |-> 2, kind |-> "SYSTEM",
      info |-> [typ |-> "Reg", prot |-> {"R", "X"}]],
     [addr |-> NumPages - 1, len |-> 1, kind |-> "SYSTEM",
      info |-> [typ |-> "Reg", prot |-> {"R", "W"}]] >>

(* Hints: RTS page 3, free; USER page 5, the first chunk's lower guard,   *)
(* which clear_reserved_emas refuses to hand to a Reserve alloc; USER page *)
(* 9, free until a chunk or a caller takes it.                             *)
MCHints == [t \in {"Rts", "User"} |-> IF t = "Rts" THEN {3} ELSE {5, 9}]

MCProts == {{"R", "W"}}

(* The RTS range is never full: find_free_region in the RTS list never     *)
(* falls through to its before-the-first-EMA candidate (MC_VmMgrBeforeFirst *)
(* shows that one), so that a broken order in the USER list is the stale   *)
(* cursor of a re-entered alloc.                                           *)
RtsHeadroom ==
  V!InRange(V!End(lists["Rts"][Len(lists["Rts"])]), 2, "Rts")
  \/ \E i \in 1..(Len(lists["Rts"]) - 1) : V!GapFits(lists["Rts"], i, 2, "Rts")

(* lastCall only records what a step did: states that differ only in it  *)
(* are one.                                                                *)
StateView == <<lists, epc, nodes, chunks, panicked>>
=============================================================================
