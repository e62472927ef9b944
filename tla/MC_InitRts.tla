------------------------------ MODULE MC_InitRts ------------------------------
(***************************************************************************)
(* Model values for InitRts.  ELRANGE is pages 1..15, the image starts at  *)
(* page 1: RTS 1..3 below the USER range 4..6 and RTS 7..15 above it.      *)
(*   page 1     text segment (R X, made RWX for its relocations first)     *)
(*   page 2     data segment (R W), its first page also PT_GNU_RELRO       *)
(*   page 3     RSRV_MIN, EADDed RWX, made read-only by change_perm        *)
(*   4..6       USER_REGION, skipped                                       *)
(*   7, 8, 9    guard, stack (POST_ADD), TCS of the first thread           *)
(*   10..12     the same three, repeated by a group at offset 3            *)
(*   13..14     a POST_REMOVE region, registered and then freed            *)
(* Each entry is one page and the POST_REMOVE one two, lengths the callers *)
(* of the VmMgr calls after the initialisation pass too.                   *)
(***************************************************************************)
EXTENDS InitRts

\* The RTS list is built by the initialisation, not given.
MCNoRegions == << >>

MCPhdrs ==
  << [typ |-> "Load", vaddr |-> 0, len |-> 1, read |-> TRUE, write |-> FALSE, exec |-> TRUE],
     [typ |-> "Load", vaddr |-> 1, len |-> 1, read |-> TRUE, write |-> TRUE, exec |-> FALSE],
     [typ |-> "GnuRelro", vaddr |-> 1, len |-> 1, read |-> TRUE, write |-> FALSE, exec |-> FALSE] >>

Entry(id, rva, pages, flags, attrs) ==
  [grp |-> FALSE, id |-> id, rva |-> rva, pages |-> pages, flags |-> flags, attrs |-> attrs]

Group(count, times, step) ==
  [grp |-> TRUE, count |-> count, times |-> times, step |-> step]

RegRW == {"R", "W", "REG"}

\* One thread context: guard, stack, TCS.
MCThread ==
  << Entry("GUARD", 6, 1, {}, {}),
     Entry("STACK_MAX", 7, 1, RegRW, {"POST_ADD"}),
     Entry("TCS", 8, 1, {"TCS"}, {"EADD"}) >>

MCTable ==
  << Entry("RSRV_MIN", 2, 1, {"R", "W", "X", "REG"}, {"EADD"}),
     Entry("USER_REGION", 3, 3, RegRW, {}) >>
  \o MCThread \o
  << Group(3, 1, 3),
     Entry("RSRV_INIT", 12, 2, RegRW, {"EADD", "POST_REMOVE"}) >>

(* A layout of dynamic threads: the TCS the loader measures for the first *)
(* thread is a template, POST_REMOVE, so the walk frees page 9 before the *)
(* group repeats the thread at offset 3, whose stack is POST_ADD at 11.    *)
MCThreadTable ==
  << Entry("RSRV_MIN", 2, 1, {"R", "W", "X", "REG"}, {"EADD"}),
     Entry("USER_REGION", 3, 3, RegRW, {}),
     Entry("GUARD", 6, 1, {}, {}),
     Entry("STACK_MAX", 7, 1, RegRW, {"POST_ADD"}),
     Entry("TCS", 8, 1, {"TCS"}, {"EADD", "POST_REMOVE"}),
     Group(3, 1, 3) >>

(* Hints and addresses of the callers' calls after the initialisation: the *)
(* text page, the USER pages, the first stack and the freed region.        *)
MCHints == [t \in {"Rts", "User"} |-> IF t = "Rts" THEN {13} ELSE {4, 5}]

MCProts == {{"R"}, {"R", "W"}}

(* As in MC_VmMgr: once the initialisation is over, a range is never full *)
(* (find_free_region never falls through to its before-the-first-EMA      *)
(* candidate, which MC_VmMgrBeforeFirst shows).                            *)
BootHeadroom ==
  Booted =>
    \A t \in RangeTypes :
       lists[t] # <<>> => InRange(End(lists[t][Len(lists[t])]), Max(Lens), t)

MaxNodes == 13

NodeBound == \A t \in AllocTypes : nodes[t] <= MaxNodes

(* lastCall only records what a step did: states that differ only in it  *)
(* are one.                                                                *)
BootView == <<lists, epc, nodes, boot, initErr>>
=============================================================================
