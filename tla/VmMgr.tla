------------------------------- MODULE VmMgr -------------------------------
(***************************************************************************)
(* The EMM virtual-memory manager of sgx_trts/src/emm/vmmgr.rs.            *)
(*                                                                         *)
(* VmMgr keeps two intrusive lists of Enclave Memory Areas (EMAs), one     *)
(* for the RTS range and one for the USER range.  Every public call takes  *)
(* the VMMGR lock for its whole duration, so each call is one atomic step  *)
(* here.  Addresses and lengths are counted in pages (SE_PAGE_SIZE), so    *)
(* page alignment holds by construction and round_to!/trim_to! with a      *)
(* page alignment are the identity.                                        *)
(*                                                                         *)
(* Next to the lists the model keeps the EPC: what the hardware has        *)
(* accepted for each page.  An EMA's eaccept bitmap is meant to mirror it. *)
(* The EMA methods (ema.rs: split, commit, uncommit, modify_perm,          *)
(* change_to_tcs, dealloc, the *_check functions) and the range predicates *)
(* of enclave.rs are not among the sources; they are modelled from the     *)
(* specification (section 4.3) and marked so in PROJECT.json.              *)
(***************************************************************************)
EXTENDS Integers, Sequences, FiniteSets, SequencesExt, TLC

CONSTANTS
  NumPages,        \* addresses are 0 .. NumPages-1, counted in pages
  EnclaveBase,     \* ELRANGE is [EnclaveBase, EnclaveEnd)
  EnclaveEnd,
  UserBase,        \* the USER range is [UserBase, UserEnd); RTS is the rest
  UserEnd,
  Lens,            \* lengths that callers pass
  Addrs,           \* addresses that callers pass
  Hints,           \* [RangeTypes -> addresses] passed as EmaOptions.addr to alloc
  Prots,           \* protections that callers pass to mm_modify_perms
  Tags,            \* heaps (AllocType) that callers name in EmaOptions.alloc
  LoaderRegions,   \* the EmaOptions init_rts_emas passes to init_static_region
  HostFaults,      \* TRUE: the untrusted host may make an out-call fail
  MaxEmas,         \* bound: alloc only runs on a list with fewer EMAs
  NONE             \* no address given / no EPC page

ASSUME EnclaveBase <= UserBase /\ UserBase < UserEnd /\ UserEnd <= EnclaveEnd
ASSUME EnclaveEnd <= NumPages
ASSUME \A a \in Addrs \cup Hints["Rts"] \cup Hints["User"], l \in Lens :
         a + l <= NumPages /\ l > 0

VARIABLES
  lists,     \* [RangeTypes -> Seq(Ema)]: VmMgr.rts and VmMgr.user
  epc,       \* [Pages -> PageInfos \cup {NONE}]: what the hardware accepted
  nodes,     \* [AllocTypes -> Nat]: EMA nodes allocated from each heap
  lastCall,  \* the last public call, its arguments and its result
  pview      \* auxiliary: the lists seen page by page (PageMap), for PV

vars == <<lists, epc, nodes, lastCall, pview>>

Pages      == 0..(NumPages - 1)
RangeTypes == {"Rts", "User"}
AllocTypes == {"Static", "Reserve"}
Kinds      == {"RESERVED", "COMMIT_NOW", "COMMIT_ON_DEMAND", "SYSTEM"}
PageTypes  == {"None", "Reg", "Tcs"}
ProtBits   == {"R", "W", "X"}
PageInfos  == [typ : PageTypes, prot : SUBSET ProtBits]
Errors     == {"EINVAL", "EEXIST", "EPERM", "ENOMEM", "EFAULT"}

Emas == [start : Pages, len : 1..NumPages, kind : Kinds, info : PageInfos,
         alloc : AllocTypes, eaccept : SUBSET Pages]

-----------------------------------------------------------------------------
(* Range predicates of enclave.rs (is_within_enclave, is_within_rts_range, *)
(* is_within_user_range).                                                  *)
InEnclave(a, l) == EnclaveBase <= a /\ a + l <= EnclaveEnd
InUser(a, l)    == UserBase <= a /\ a + l <= UserEnd
InRts(a, l)     == InEnclave(a, l) /\ (a + l <= UserBase \/ a >= UserEnd)
InRange(a, l, typ) == IF typ = "Rts" THEN InRts(a, l) ELSE InUser(a, l)

(* VmMgr::check: the range a call names, or EINVAL.                        *)
CheckAddr(addr, len) ==
  IF (addr > 0 /\ ~InEnclave(addr, len)) \/ len = 0 THEN "EINVAL"
  ELSE IF InRts(addr, len) THEN "Rts"
  ELSE IF InUser(addr, len) THEN "User"
  ELSE "EINVAL"

-----------------------------------------------------------------------------
(* EMA helpers of ema.rs.                                                  *)
End(e)              == e.start + e.len
PagesOf(e)          == e.start..(End(e) - 1)
LowerThanAddr(e, a) == End(e) <= a
HigherThanAddr(e, a) == e.start >= a

NewEma(start, len, kind, info, alloc) ==
  [start |-> start, len |-> len, kind |-> kind, info |-> info,
   alloc |-> alloc, eaccept |-> {}]

(* Ema::split: [start, a) stays, [a, end) is a new node from the same heap; *)
(* each half keeps its slice of the bitmap.                                *)
SplitAt(l, i, a) ==
  LET e == l[i]
      left  == [e EXCEPT !.len = a - e.start, !.eaccept = @ \cap (e.start..(a - 1))]
      right == [e EXCEPT !.start = a, !.len = End(e) - a,
                         !.eaccept = @ \cap (a..(End(e) - 1))]
  IN SubSeq(l, 1, i - 1) \o <<left, right>> \o SubSeq(l, i + 1, Len(l))

\* No EMA node boxed: a search_ema_range without splits.
NoGrowth == [t \in AllocTypes |-> 0]
AddNodes(n, g) == [t \in AllocTypes |-> n[t] + g[t]]

-----------------------------------------------------------------------------
(* search_ema_range: skip the EMAs wholly below start, count the EMAs up   *)
(* to the first one wholly above end, fail on a gap between two of them    *)
(* when continuous, and split the first at start and the last at end when  *)
(* split.  The result carries the list after the splits, the index of the  *)
(* first EMA inside [start, end), their number, and the nodes the splits   *)
(* allocated.                                                              *)
NoRange == [found |-> FALSE]

(* The splits: the first EMA at start, then the last one at end.          *)
SplitLast(l, first, num, end, grown) ==
  LET li   == first + num - 1
      cutE == End(l[li]) > end
  IN [found |-> TRUE, first |-> first, num |-> num,
      list  |-> IF cutE THEN SplitAt(l, li, end) ELSE l,
      grown |-> [t \in AllocTypes |->
                   grown[t] + (IF cutE /\ l[li].alloc = t THEN 1 ELSE 0)]]

(* Slip: split the first EMA also when it starts exactly at start.        *)
SplitRangeAtStart(l, i0, num, start, end) ==
  LET cutS == l[i0].start <= start
  IN SplitLast(IF cutS THEN SplitAt(l, i0, start) ELSE l,
               IF cutS THEN i0 + 1 ELSE i0, num, end,
               [t \in AllocTypes |-> IF cutS /\ l[i0].alloc = t THEN 1 ELSE 0])

SplitRange(l, i0, num, start, end) ==
  LET cutS == l[i0].start < start
  IN SplitLast(IF cutS THEN SplitAt(l, i0, start) ELSE l,
               IF cutS THEN i0 + 1 ELSE i0, num, end,
               [t \in AllocTypes |-> IF cutS /\ l[i0].alloc = t THEN 1 ELSE 0])

(* From the first EMA not below start (i0) and the number num of EMAs up   *)
(* to the first one wholly above end.                                      *)
SearchCount(l, i0, num, start, end, continuous, split) ==
  IF \/ HigherThanAddr(l[i0], end)
     \/ continuous /\ \E k \in (i0 + 1)..(i0 + num - 1) : End(l[k - 1]) # l[k].start
  THEN NoRange
  ELSE IF ~split
  THEN [found |-> TRUE, list |-> l, first |-> i0, num |-> num, grown |-> NoGrowth]
  ELSE SplitRange(l, i0, num, start, end)

SearchFrom(l, i0, start, end, continuous, split) ==
  IF i0 = 0 THEN NoRange
  ELSE SearchCount(l, i0, Cardinality({k \in i0..Len(l) :
                            \A m \in i0..k : ~HigherThanAddr(l[m], end)}),
                   start, end, continuous, split)

SearchEmaRange(l, start, end, continuous, split) ==
  SearchFrom(l, SelectInSeq(l, LAMBDA e : ~LowerThanAddr(e, start)),
             start, end, continuous, split)

ClearFound(l, s, alloc) ==
  IF ~s.found THEN [ok |-> FALSE, list |-> l, grown |-> NoGrowth]
  ELSE IF \E k \in s.first..(s.first + s.num - 1) :
              s.list[k].kind # "RESERVED" \/ s.list[k].alloc # alloc
  THEN [ok |-> FALSE, list |-> s.list, grown |-> s.grown]
  ELSE [ok |-> TRUE, idx |-> s.first, grown |-> s.grown,
        list |-> SubSeq(s.list, 1, s.first - 1)
                 \o SubSeq(s.list, s.first + s.num, Len(s.list))]

ClearReservedEmas(l, start, end, alloc) ==
  ClearFound(l, SearchEmaRange(l, start, end, TRUE, TRUE), alloc)

(* find_free_region_at: the position before which [addr, addr+len) can be  *)
(* inserted, or 0 when the range meets an EMA.                             *)
FindFreeRegionAt(l, addr, len) ==
  LET k == SelectInSeq(l, LAMBDA e : addr < End(e))
  IN IF k = 0 THEN Len(l) + 1
     ELSE IF l[k].start >= addr + len THEN k ELSE 0

(* find_free_region with a page alignment: an empty list gets a range-     *)
(* specific address; otherwise the first gap between neighbours that is   *)
(* large enough, then the end of the last EMA, then the start of the first *)
(* EMA (trim_to!(start_first, align), exactly as the code computes it).    *)
NoRegion == [found |-> FALSE]
Region(a, i) == [found |-> TRUE, addr |-> a, idx |-> i]

(* Slips in the gap test: no size check, and no RTS range check.          *)
GapFitsAnySize(l, i, len, typ) ==
  /\ End(l[i]) <= l[i + 1].start
  /\ (typ = "User" \/ InRts(End(l[i]), len))
GapFitsAnyRange(l, i, len, typ) ==
  /\ End(l[i]) <= l[i + 1].start
  /\ l[i + 1].start - End(l[i]) >= len

(* The gap after the i-th EMA takes len pages: the EMAs are in order, the *)
(* gap is large enough, and in the RTS list the pages are RTS pages.      *)
GapFits(l, i, len, typ) ==
  /\ End(l[i]) <= l[i + 1].start
  /\ l[i + 1].start - End(l[i]) >= len
  /\ (typ = "User" \/ InRts(End(l[i]), len))

FindFreeRegion(l, len, typ) ==
  IF l = <<>> THEN
     IF typ = "Rts"
     THEN IF UserBase >= len
          THEN IF InEnclave(UserBase - len, len) THEN Region(UserBase - len, 1)
               ELSE NoRegion
          ELSE IF InEnclave(UserEnd, len) THEN Region(UserEnd, 1) ELSE NoRegion
     ELSE IF InUser(UserBase, len) THEN Region(UserBase, 1) ELSE NoRegion
  ELSE
    LET gaps == {i \in 1..(Len(l) - 1) : GapFits(l, i, len, typ)}
        tail == End(l[Len(l)])
        head == l[1].start
    IN IF gaps # {} THEN Region(End(l[Min(gaps)]), Min(gaps) + 1)
       ELSE IF InEnclave(tail, len) /\ InRange(tail, len, typ)
            THEN Region(tail, Len(l) + 1)
       ELSE IF head < len THEN NoRegion
       ELSE IF InRange(head, len, typ) THEN Region(head, 1)
       ELSE NoRegion


-----------------------------------------------------------------------------
(* The hardware side of the EMA methods.  EACCEPT of a fresh page needs    *)
(* the page to be pending (not yet in the EPC); TRIM, EMODPR/EMODPE and    *)
(* EMODT need it to be there.  With HostFaults the untrusted host may also *)
(* refuse the out-call that precedes any of them (ocall.rs: EFAULT).       *)
AcceptOk(P)    == \A p \in P : epc[p] = NONE
AcceptFails(P) == (HostFaults /\ P # {}) \/ ~AcceptOk(P)
ModifyOk(P)    == \A p \in P : epc[p] # NONE
ModifyFails(P) == (HostFaults /\ P # {}) \/ ~ModifyOk(P)

(* ema.rs commit/uncommit of the part of e inside [a, b).                  *)
CommitPages(e, a, b) ==
  {p \in Max({a, e.start})..(Min({b, End(e)}) - 1) : p \notin e.eaccept}
UncommitPages(e, a, b) ==
  {p \in Max({a, e.start})..(Min({b, End(e)}) - 1) : p \in e.eaccept}

(* ema.rs commit_check / uncommit_check / modify_perm_check.               *)
\* Slip: modify_perm_check without its page-type test.
ModifyPermCheckAnyType(e) == e.kind # "RESERVED"
CommitCheck(e)     == e.kind # "RESERVED"
UncommitCheck(e)   == e.kind # "RESERVED"
ModifyPermCheck(e) == e.kind # "RESERVED" /\ e.info.typ = "Reg"
(* ema.rs change_to_tcs precondition: a committed regular page.            *)
ChangeToTcsCheck(e) ==
  e.kind # "RESERVED" /\ e.info.typ = "Reg" /\ e.eaccept = PagesOf(e)

(* The command an operation runs on each EMA of [c.a, c.b): its check, the *)
(* pages its out-call and EACCEPT/TRIM/EMODPR touch, whether that succeeds *)
(* or may fail, the EMA after it and the page info it leaves in the EPC.   *)
CmdCheck(c, e) ==
  CASE c.op = "commit"       -> CommitCheck(e)
    [] c.op = "uncommit"     -> UncommitCheck(e)
    [] c.op = "modify_perms" -> ModifyPermCheck(e)
    [] c.op = "dealloc"      -> TRUE

CmdPages(c, e) ==
  CASE c.op = "commit"   -> CommitPages(e, c.a, c.b)
    [] c.op = "uncommit" -> UncommitPages(e, c.a, c.b)
    [] OTHER             -> e.eaccept

CmdOk(c, e) ==
  IF c.op = "commit" THEN AcceptOk(CmdPages(c, e)) ELSE ModifyOk(CmdPages(c, e))

CmdFails(c, e) ==
  CASE c.op = "commit"       -> AcceptFails(CmdPages(c, e))
    [] c.op = "modify_perms" -> \/ HostFaults /\ e.eaccept # {} /\ c.prot # e.info.prot
                               \/ ~ModifyOk(e.eaccept)
    [] OTHER                 -> ModifyFails(CmdPages(c, e))

CmdEma(c, e) ==
  CASE c.op = "commit"       -> [e EXCEPT !.eaccept = @ \cup CmdPages(c, e)]
    [] c.op = "uncommit"     -> [e EXCEPT !.eaccept = @ \ CmdPages(c, e)]
    [] c.op = "modify_perms" -> [e EXCEPT !.info.prot = c.prot]
    [] c.op = "dealloc"      -> e

CmdInfo(c, e) ==
  CASE c.op = "commit"       -> e.info
    [] c.op = "modify_perms" -> [e.info EXCEPT !.prot = c.prot]
    [] OTHER                 -> NONE

(* The loop "commands(&mut cursor)?" stops at the first failing EMA: the   *)
(* possible numbers k of EMAs it completes.                                *)
Completed(l, first, num, c) ==
  {k \in 0..num : /\ \A j \in first..(first + k - 1) : CmdOk(c, l[j])
                  /\ k < num => CmdFails(c, l[first + k])}

(* The lists and the EPC after the command ran on the k EMAs from first.   *)
Applied(l, first, k, c) ==
  [i \in 1..Len(l) |-> IF i \in first..(first + k - 1) THEN CmdEma(c, l[i])
                       ELSE l[i]]

EpcAfter(l, first, k, c) ==
  [p \in Pages |->
     IF \E j \in first..(first + k - 1) : p \in CmdPages(c, l[j])
     THEN CmdInfo(c, l[CHOOSE j \in first..(first + k - 1) : p \in CmdPages(c, l[j])])
     ELSE epc[p]]

-----------------------------------------------------------------------------
Returns(op, addr, len, fixed, ret, res) ==
  lastCall' = [op |-> op, addr |-> addr, len |-> len, fixed |-> fixed,
               ret |-> ret, res |-> res]

Fail(op, addr, len, err) ==
  /\ UNCHANGED <<lists, epc, nodes>>
  /\ Returns(op, addr, len, FALSE, err, NONE)

(* apply_commands: check every EMA of [addr, addr+len) (located            *)
(* continuously, split when asked), then run the command on each.          *)
ApplyToRange(c, addr, len, typ, s) ==
  IF ~s.found THEN Fail(c.op, addr, len, "EINVAL")
  ELSE
  /\ nodes' = AddNodes(nodes, s.grown)
  /\ IF \E i \in s.first..(s.first + s.num - 1) : ~CmdCheck(c, s.list[i])
     THEN /\ lists' = [lists EXCEPT ![typ] = s.list]
          /\ UNCHANGED epc
          /\ Returns(c.op, addr, len, FALSE, "EINVAL", NONE)
     ELSE \E k \in Completed(s.list, s.first, s.num, c) :
          /\ lists' = [lists EXCEPT ![typ] = Applied(s.list, s.first, k, c)]
          /\ epc' = EpcAfter(s.list, s.first, k, c)
          /\ Returns(c.op, addr, len, FALSE,
                     IF k = s.num THEN "OK" ELSE "EFAULT", NONE)

ApplyCommands(c, addr, len, split) ==
  LET typ == CheckAddr(addr, len) IN
  IF typ \notin RangeTypes THEN Fail(c.op, addr, len, typ)
  ELSE ApplyToRange(c, addr, len, typ,
                    SearchEmaRange(lists[typ], addr, addr + len, TRUE, split))

Command(op, addr, len, prot) == [op |-> op, a |-> addr, b |-> addr + len, prot |-> prot]

(* VmMgr::commit: accept the pages of [addr, addr+len) not yet accepted.   *)
Commit(addr, len) ==
  ApplyCommands(Command("commit", addr, len, {}), addr, len, FALSE)

(* VmMgr::uncommit: trim the accepted pages of [addr, addr+len).           *)
Uncommit(addr, len) ==
  ApplyCommands(Command("uncommit", addr, len, {}), addr, len, FALSE)

(* VmMgr::modify_perms: X without R is refused before anything else.      *)
ModifyPerms(addr, len, prot) ==
  IF "X" \in prot /\ "R" \notin prot THEN Fail("modify_perms", addr, len, "EINVAL")
  ELSE ApplyCommands(Command("modify_perms", addr, len, prot), addr, len, TRUE)

(* VmMgr::modify_type: only a one-page change to Tcs; change_to_tcs does   *)
(* the host MODIFY and the EACCEPT.                                        *)
ChangeType(addr, len, typ, s) ==
  IF ~s.found THEN Fail("modify_type", addr, len, "EINVAL")
  ELSE
  LET e   == s.list[s.first]
      tcs == [e EXCEPT !.info.typ = "Tcs"]
  IN /\ nodes' = AddNodes(nodes, s.grown)
     /\ \/ /\ ChangeToTcsCheck(e) /\ ModifyOk(e.eaccept)
           /\ lists' = [lists EXCEPT ![typ] = [s.list EXCEPT ![s.first] = tcs]]
           /\ epc' = [p \in Pages |-> IF p \in e.eaccept THEN tcs.info ELSE epc[p]]
           /\ Returns("modify_type", addr, len, FALSE, "OK", NONE)
        \/ /\ ~ChangeToTcsCheck(e) \/ ModifyFails(e.eaccept)
           /\ lists' = [lists EXCEPT ![typ] = s.list]
           /\ UNCHANGED epc
           /\ Returns("modify_type", addr, len, FALSE,
                      IF ChangeToTcsCheck(e) THEN "EFAULT" ELSE "EPERM", NONE)

ModifyType(addr, len, newTyp) ==
  LET typ == CheckAddr(addr, len) IN
  IF typ \notin RangeTypes THEN Fail("modify_type", addr, len, typ)
  ELSE IF newTyp # "Tcs" THEN Fail("modify_type", addr, len, "EPERM")
  ELSE IF len # 1 THEN Fail("modify_type", addr, len, "EINVAL")
  ELSE ChangeType(addr, len, typ,
                  SearchEmaRange(lists[typ], addr, addr + 1, TRUE, TRUE))

(* Slip in dealloc: unlink the EMAs without trimming their pages.         *)
DeallocNoTrim(addr, len, typ, s) ==
  IF ~s.found THEN Fail("dealloc", addr, len, "EINVAL")
  ELSE /\ lists' = [lists EXCEPT ![typ] = SubSeq(s.list, 1, s.first - 1)
                          \o SubSeq(s.list, s.first + s.num, Len(s.list))]
       /\ nodes' = AddNodes(nodes, s.grown)
       /\ UNCHANGED epc
       /\ Returns("dealloc", addr, len, FALSE, "OK", NONE)

(* VmMgr::dealloc: locate [addr, addr+len) with splits but without asking  *)
(* for continuity; unlink each EMA, run its dealloc (trim what it has      *)
(* accepted), then give its node back.  An EMA whose dealloc fails is      *)
(* already unlinked and its node is not given back.                        *)
DeallocRange(addr, len, typ, s) ==
  LET c == Command("dealloc", addr, len, {}) IN
  IF ~s.found THEN Fail("dealloc", addr, len, "EINVAL")
  ELSE \E k \in Completed(s.list, s.first, s.num, c) :
    LET gone  == Min({k + 1, s.num})
        freed == s.first..(s.first + k - 1)
    IN /\ lists' = [lists EXCEPT ![typ] = SubSeq(s.list, 1, s.first - 1)
                          \o SubSeq(s.list, s.first + gone, Len(s.list))]
       /\ epc' = EpcAfter(s.list, s.first, k, c)
       /\ nodes' = [t \in AllocTypes |-> nodes[t] + s.grown[t]
                      - Cardinality({i \in freed : s.list[i].alloc = t})]
       /\ Returns("dealloc", addr, len, FALSE,
                  IF k = s.num THEN "OK" ELSE "EFAULT", NONE)

Dealloc(addr, len) ==
  LET typ == CheckAddr(addr, len) IN
  IF typ \notin RangeTypes THEN Fail("dealloc", addr, len, typ)
  ELSE DeallocRange(addr, len, typ,
                    SearchEmaRange(lists[typ], addr, addr + len, FALSE, TRUE))

(* The page info Ema::allocate gives a new EMA (EmaOptions defaults).      *)
AllocInfo(kind) ==
  IF kind = "RESERVED" THEN [typ |-> "None", prot |-> {}]
  ELSE [typ |-> "Reg", prot |-> {"R", "W"}]

(* The address hint of VmMgr::alloc: a range that meets EMAs may take the  *)
(* place of RESERVED ones (clear_reserved_emas) or fails when FIXED; a     *)
(* range that meets none is looked up with find_free_region_at, whose      *)
(* cursor is then dropped.                                                 *)
HintCleared(c, hint, fixed) ==
  [list |-> c.list, grown |-> c.grown,
   err  |-> IF ~c.ok /\ fixed THEN "EEXIST" ELSE NONE,
   at   |-> IF c.ok THEN Region(hint, c.idx) ELSE NoRegion]

AllocAtHint(l, hint, len, fixed, alloc) ==
  IF hint = NONE
  THEN [list |-> l, grown |-> NoGrowth, err |-> NONE, at |-> NoRegion]
  ELSE IF SearchEmaRange(l, hint, hint + len, FALSE, FALSE).found
  THEN HintCleared(ClearReservedEmas(l, hint, hint + len, alloc), hint, fixed)
  ELSE [list |-> l, grown |-> NoGrowth,
        err  |-> IF FindFreeRegionAt(l, hint, len) = 0 /\ fixed
                 THEN "EPERM" ELSE NONE,
        at   |-> NoRegion]

(* A failed alloc returns err and keeps what the hint step did to the list *)
(* (splits and removed RESERVED EMAs), with the nodes it allocated.        *)
AllocFails(typ, pre, hint, len, fixed, err) ==
  /\ lists' = [lists EXCEPT ![typ] = pre.list]
  /\ nodes' = AddNodes(nodes, pre.grown)
  /\ UNCHANGED epc
  /\ Returns("alloc", hint, len, fixed, err, NONE)

(* VmMgr::alloc, with Ema::allocate(options, true): a node from the        *)
(* requested heap, the alloc out-call for a committed or on-demand EMA and *)
(* the EACCEPT of every page of a COMMIT_NOW one.                          *)
AllocAt(typ, hint, len, kind, fixed, alloc, pre, at) ==
  LET e == NewEma(at.addr, len, kind, AllocInfo(kind), alloc)
      P == IF kind = "COMMIT_NOW" THEN PagesOf(e) ELSE {}
  IN
  IF ~at.found THEN AllocFails(typ, pre, hint, len, fixed, "ENOMEM")
  ELSE \/ /\ kind = "RESERVED" \/ AcceptOk(P)
          /\ lists' = [lists EXCEPT ![typ] =
                         InsertAt(pre.list, at.idx, [e EXCEPT !.eaccept = P])]
          /\ epc' = [p \in Pages |-> IF p \in P THEN e.info ELSE epc[p]]
          /\ nodes' = [AddNodes(nodes, pre.grown) EXCEPT ![alloc] = @ + 1]
          /\ Returns("alloc", hint, len, fixed, "OK", at.addr)
       \/ /\ kind # "RESERVED" /\ (HostFaults \/ ~AcceptOk(P))
          /\ AllocFails(typ, pre, hint, len, fixed, "EFAULT")

AllocFrom(typ, hint, len, kind, fixed, alloc, pre) ==
  IF pre.err # NONE THEN AllocFails(typ, pre, hint, len, fixed, pre.err)
  ELSE AllocAt(typ, hint, len, kind, fixed, alloc, pre,
               IF pre.at.found THEN pre.at ELSE FindFreeRegion(pre.list, len, typ))

Alloc(typ, hint, len, kind, fixed, alloc) ==
  /\ Len(lists[typ]) < MaxEmas
  /\ AllocFrom(typ, hint, len, kind, fixed, alloc,
               AllocAtHint(lists[typ], hint, len, fixed, alloc))

-----------------------------------------------------------------------------
(* VmMgr::init_static_region as init_rts_emas calls it: the loader region  *)
(* must be free in the RTS list; a region that is not RESERVED was added   *)
(* and measured by the loader, so its bitmap is full without any EACCEPT.  *)
InitStaticRegion(l, o) ==
  LET k == FindFreeRegionAt(l, o.addr, o.len)
      e == NewEma(o.addr, o.len, o.kind, o.info, "Reserve")
  IN IF k = 0 THEN l
     ELSE InsertAt(l, k, IF o.kind = "RESERVED" THEN e
                         ELSE [e EXCEPT !.eaccept = PagesOf(e)])

(* init_rts_emas: the loader's regions, one after another, in its order.  *)
RECURSIVE LoadRegions(_, _)
LoadRegions(l, i) ==
  IF i > Len(LoaderRegions) THEN l
  ELSE LoadRegions(InitStaticRegion(l, LoaderRegions[i]), i + 1)

Loaded == LoadRegions(<<>>, 1)

ASSUME Len(Loaded) = Len(LoaderRegions)

(* Each page seen through the EMA of either list that covers it (the lists *)
(* are disjoint where EmasDisjoint holds), with the EMA's kind, info and   *)
(* heap, and its bit in the EMA's bitmap.  Spec keeps it in pview, which   *)
(* no step reads.                                                          *)
PageMap(ls) ==
  [p \in Pages |->
     IF \E t \in RangeTypes : \E e \in ToSet(ls[t]) : p \in PagesOf(e)
     THEN LET e == CHOOSE e \in UNION {ToSet(ls[t]) : t \in RangeTypes} : p \in PagesOf(e)
          IN [kind |-> e.kind, info |-> e.info, alloc |-> e.alloc, acc |-> p \in e.eaccept]
     ELSE NONE]

Init ==
  /\ lists = [t \in RangeTypes |-> IF t = "Rts" THEN Loaded ELSE <<>>]
  /\ epc = [p \in Pages |->
              IF \E e \in ToSet(Loaded) : p \in e.eaccept
              THEN (CHOOSE e \in ToSet(Loaded) : p \in e.eaccept).info
              ELSE NONE]
  /\ nodes = [t \in AllocTypes |-> IF t = "Reserve" THEN Len(Loaded) ELSE 0]
  /\ lastCall = [op |-> "init", addr |-> NONE, len |-> 0, fixed |-> FALSE,
                 ret |-> "OK", res |-> NONE]
  /\ pview = PageMap(lists)

(* Every public entry point with every small input.  Callers pass options *)
(* that name an address whenever they ask for FIXED (EmaOptions::check      *)
(* refuses the others with EINVAL before any state is read).               *)
Next ==
  \/ \E typ \in RangeTypes : \E hint \in Hints[typ] \cup {NONE}, len \in Lens,
        kind \in Kinds \ {"SYSTEM"}, alloc \in Tags :
        \E fixed \in IF hint = NONE THEN {FALSE} ELSE BOOLEAN :
           Alloc(typ, hint, len, kind, fixed, alloc)
  \/ \E a \in Addrs, len \in Lens : Dealloc(a, len)
  \/ \E a \in Addrs, len \in Lens : Commit(a, len)
  \/ \E a \in Addrs, len \in Lens : Uncommit(a, len)
  \/ \E a \in Addrs, len \in Lens, prot \in Prots : ModifyPerms(a, len, prot)
  \/ \E a \in Addrs : ModifyType(a, 1, "Tcs")

Spec ==
  /\ Init
  /\ [][Next /\ pview' = PageMap(lists')]_vars

-----------------------------------------------------------------------------
(***************************************************************************)
(* Properties.                                                             *)
(***************************************************************************)
TypeOK ==
  /\ lists \in [RangeTypes -> Seq(Emas)]
  /\ epc \in [Pages -> PageInfos \cup {NONE}]
  /\ nodes \in [AllocTypes -> Nat]
  /\ lastCall.ret \in Errors \cup {"OK"}

(* Within each list the EMAs are sorted by start and never overlap: what   *)
(* find_free_region, find_free_region_at, clear_reserved_emas and the      *)
(* splits of search_ema_range must preserve across any sequence of calls. *)
EmasDisjoint ==
  \A t \in RangeTypes : \A i \in 1..(Len(lists[t]) - 1) :
     End(lists[t][i]) <= lists[t][i + 1].start

(* Every EMA lies inside the range of its list: find_free_region and the    *)
(* hint path of alloc place RTS EMAs in RTS pages and USER EMAs in USER    *)
(* pages, so that VmMgr::check, which picks the list from the address,     *)
(* finds them again.                                                       *)
EmasWithinRange ==
  \A t \in RangeTypes : \A i \in DOMAIN lists[t] :
     InRange(lists[t][i].start, lists[t][i].len, t)

(* Every EMA node taken from a heap is linked in a list, and every linked  *)
(* one was taken: Box::new_in in Ema::allocate and split, and              *)
(* Box::from_raw_in when dealloc or clear_reserved_emas unlinks one.      *)
NodesAccounted ==
  \A a \in AllocTypes :
     nodes[a] = Cardinality(UNION {{<<t, i>> : i \in {j \in DOMAIN lists[t] :
                                                        lists[t][j].alloc = a}} :
                                   t \in RangeTypes})

(* The bitmaps agree with the hardware: a page of an EMA is marked         *)
(* accepted exactly when the EPC holds it, with the EMA's page info, and   *)
(* every page the EPC holds belongs to an EMA that marks it.  Broken if a  *)
(* commit, trim, permission or type change reaches one side only, or if    *)
(* an EMA leaves the list while its pages stay accepted.                   *)
EpcMatchesBitmaps ==
  /\ \A t \in RangeTypes : \A e \in ToSet(lists[t]) : \A p \in PagesOf(e) :
        IF p \in e.eaccept THEN epc[p] = e.info ELSE epc[p] = NONE
  /\ \A p \in Pages : epc[p] # NONE =>
        \E t \in RangeTypes : \E e \in ToSet(lists[t]) : p \in e.eaccept

(* What each page looks like through the lists, whatever EMA boundaries    *)
(* the splits have drawn.                                                  *)
View(ls) ==
  [p \in Pages |->
     UNION {{[typ |-> t, kind |-> e.kind, info |-> e.info, alloc |-> e.alloc,
              acc |-> p \in e.eaccept] : e \in {x \in ToSet(ls[t]) : p \in PagesOf(x)}} :
            t \in RangeTypes}]

-----------------------------------------------------------------------------
(***************************************************************************)
(* VmMgr implements PageView, with pages mapped to pview.                  *)
(***************************************************************************)
\* The range each page lies in, as VmMgr::check attributes a one-page call.
PageRanges == [p \in Pages |-> IF InRts(p, 1) THEN "Rts"
                               ELSE IF InUser(p, 1) THEN "User" ELSE "Out"]

PV == INSTANCE PageView WITH
        pages   <- pview,
        RangeOf <- PageRanges,
        Loaded  <- PageMap([t \in RangeTypes |-> IF t = "Rts" THEN Loaded ELSE <<>>])

(* Every sequence of public calls, seen page by page, is one that PageView *)
(* allows: a call changes only the pages of its range, in the way its      *)
(* operation promises, whatever splits, merges of cleared RESERVED EMAs   *)
(* and placement decisions the lists go through.                           *)
PageViewSpec == PV!Spec
=============================================================================
