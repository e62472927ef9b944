------------------------------ MODULE MC_VmMgr ------------------------------
(***************************************************************************)
(* Model values for VmMgr.  ELRANGE is pages 1..9: RTS below the USER      *)
(* range (1..3), USER 4..6, RTS above it 7..9.  The loader has placed a    *)
(* text segment and a thread context in RTS.                               *)
(***************************************************************************)
EXTENDS VmMgr

MCLoaderRegions ==
  << [addr |-> 1, len |-> 2, kind |-> "SYSTEM",
      info |-> [typ |-> "Reg", prot |-> {"R", "X"}]],
     [addr |-> 7, len |-> 1, kind |-> "SYSTEM",
      info |-> [typ |-> "Reg", prot |-> {"R", "W"}]] >>

(* Alloc hints that keep [hint, hint+len) inside the range of the call.    *)
MCHints == [t \in {"Rts", "User"} |-> IF t = "Rts" THEN {1, 8} ELSE {4, 5}]

(* Bound of the passing runs: a range is never full, i.e. the model only   *)
(* goes on from states in which the pages after the last EMA of each list  *)
(* can still take the longest request.  find_free_region then never falls *)
(* through to its before-the-first-EMA candidate; MC_VmMgrBeforeFirst.cfg *)
(* drops this bound to show what that candidate does.                      *)
Headroom ==
  \A t \in RangeTypes :
     lists[t] # <<>> => InRange(End(lists[t][Len(lists[t])]), Max(Lens), t)

(* The node counters only grow when clear_reserved_emas leaks a node or a  *)
(* failed call keeps its splits; the static and reserve heaps are bounded  *)
(* in the code, and MaxNodes stands for that capacity here.                *)
MaxNodes == 6

NodeBound == \A t \in AllocTypes : nodes[t] <= MaxNodes

(* lastCall only records what a step did, for the action properties: it   *)
(* never steers a later step, so states that differ only in it are one.   *)
StateView == <<lists, epc, nodes>>

MCProts == {{"R"}, {"R", "W"}}

(* Hints a caller may pass that run past the end of its range: RTS page 3  *)
(* with two pages reaches USER page 4; USER page 6 with two pages would    *)
(* reach RTS page 7, but Headroom drops every state with a USER EMA that   *)
(* ends at 7, so only the RTS case can be reached under that bound.        *)
MCHintsCrossing ==
  [t \in {"Rts", "User"} |-> IF t = "Rts" THEN {3} ELSE {6}]
=============================================================================
