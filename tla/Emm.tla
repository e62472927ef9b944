--------------------------------- MODULE Emm ---------------------------------
(***************************************************************************)
(* The VM manager composed with the heaps its EMA nodes come from.         *)
(*                                                                         *)
(* Ema::allocate takes the node of a Reserve-tagged EMA from the reserve   *)
(* heap.  When the heap's chunks are full, emalloc calls add_chunks, which *)
(* re-enters VMMGR (the lock is re-entrant) in the middle of the outer     *)
(* alloc: a RESERVED Static EMA for the chunk and its guards in the USER   *)
(* range, a FIXED COMMIT_ON_DEMAND Static EMA over its middle (through     *)
(* clear_reserved_emas, whose splits take two Static nodes and whose       *)
(* unlinked middle node leaks), and a commit of its first rsize pages.     *)
(* The outer alloc then inserts its EMA before the cursor it took from     *)
(* find_free_region or clear_reserved_emas before the re-entry.            *)
(*                                                                         *)
(* The reserve heap is reduced to the number of EMA nodes its chunks hold  *)
(* (ReserveHeap models its blocks); the static heap to its node capacity.  *)
(* Pages stand for bytes: a chunk is ChunkPages pages with GuardPages on   *)
(* each side, and add_chunks commits RsizePages of it.                     *)
(***************************************************************************)
EXTENDS Integers, Sequences, FiniteSets, SequencesExt

CONSTANTS
  NumPages, EnclaveBase, EnclaveEnd, UserBase, UserEnd, Lens, Addrs, Hints,
  Prots, Tags, LoaderRegions, HostFaults, MaxEmas, NONE,
  ChunkPages,      \* the increment of add_chunks, in pages
  GuardPages,      \* GUARD_SIZE, in pages
  RsizePages,      \* the part of a new chunk add_chunks commits
  NodesPerChunk,   \* EMA nodes a chunk of the reserve heap holds
  StaticNodes      \* EMA nodes the 64 KiB static heap holds

ASSUME RsizePages <= ChunkPages /\ NodesPerChunk > 0

VARIABLES
  lists, epc, nodes, lastCall,   \* as in VmMgr
  chunks,                        \* base pages of the reserve heap's chunks
  panicked                       \* a split's unwrap() has panicked

V == INSTANCE VmMgr WITH pview <- NONE   \* the page view is not used here
\* The same operators read with the EPC ep that add_chunks has left.
VE(ep) == INSTANCE VmMgr WITH epc <- ep, pview <- NONE

vars == <<lists, epc, nodes, lastCall, chunks, panicked>>

ChunkLen == ChunkPages + 2 * GuardPages

\* Nodes left in the reserve heap's chunks once n nodes are taken.
Slots(n) == NodesPerChunk * Cardinality(chunks) - n

-----------------------------------------------------------------------------
(* add_chunks, run on the USER list ul with sn Static nodes in use and the *)
(* EPC ep, as a record of its outcome.  fault names the out-call the host *)
(* fails: the alloc_ocall of the COMMIT_ON_DEMAND EMA or the commit.      *)

\* The first n pages of an EMA.
FirstPages(e, n) == e.start..(e.start + n - 1)

AddChunksFailed(err, l, ep, g) ==
  [ok |-> FALSE, panic |-> FALSE, err |-> err, list |-> l, epc |-> ep, statics |-> g]

\* vmmgr.commit(base, rsize) on the new COMMIT_ON_DEMAND EMA at index i.
CommitChunk(l, i, ep, g, fault) ==
  IF fault = "commit" \/ ~(\A p \in FirstPages(l[i], RsizePages) : ep[p] = NONE)
  THEN AddChunksFailed("EFAULT", l, ep, g)
  ELSE [ok |-> TRUE, panic |-> FALSE, err |-> NONE, statics |-> g, base |-> l[i].start,
        list |-> [l EXCEPT ![i].eaccept = FirstPages(l[i], RsizePages)],
        epc |-> [p \in DOMAIN ep |->
                   IF p \in FirstPages(l[i], RsizePages) THEN l[i].info ELSE ep[p]]]

\* The second vmmgr.alloc: COMMIT_ON_DEMAND | FIXED at base, Static.  h is
\* the hint step of alloc, which clears the RESERVED EMA just made.
AddChunksFixed(base, h, ep, sn, fault) ==
  IF sn + h.grown["Static"] > StaticNodes
  THEN [ok |-> FALSE, panic |-> TRUE]                 \* split(..).unwrap()
  ELSE IF h.err # NONE \/ ~h.at.found
  THEN AddChunksFailed("EEXIST", h.list, ep, sn + h.grown["Static"])
  ELSE IF sn + h.grown["Static"] = StaticNodes \/ fault = "alloc"
  THEN AddChunksFailed("ENOMEM", h.list, ep, sn + h.grown["Static"])
  ELSE CommitChunk(InsertAt(h.list, h.at.idx,
                      V!NewEma(base, ChunkPages, "COMMIT_ON_DEMAND",
                               V!AllocInfo("COMMIT_ON_DEMAND"), "Static")),
                   h.at.idx, ep, sn + h.grown["Static"] + 1, fault)

\* Slip: the FIXED alloc at the base of the reservation, not past its guard.
AddChunksAtNoGuard(ul, r, ep, sn, fault) ==
  IF ~r.found \/ sn >= StaticNodes
  THEN AddChunksFailed("ENOMEM", ul, ep, sn)
  ELSE AddChunksFixed(r.addr,
         V!AllocAtHint(InsertAt(ul, r.idx,
                         V!NewEma(r.addr, ChunkLen, "RESERVED",
                                  V!AllocInfo("RESERVED"), "Static")),
                       r.addr, ChunkPages, TRUE, "Static"),
         ep, sn + 1, fault)

\* The first vmmgr.alloc: RESERVED, Static, ChunkLen pages anywhere in USER.
AddChunksAt(ul, r, ep, sn, fault) ==
  IF ~r.found \/ sn >= StaticNodes
  THEN AddChunksFailed("ENOMEM", ul, ep, sn)
  ELSE AddChunksFixed(r.addr + GuardPages,
         V!AllocAtHint(InsertAt(ul, r.idx,
                         V!NewEma(r.addr, ChunkLen, "RESERVED",
                                  V!AllocInfo("RESERVED"), "Static")),
                       r.addr + GuardPages, ChunkPages, TRUE, "Static"),
         ep, sn + 1, fault)

\* Slip: the reservation looked up in the RTS range.
AddChunksInRts(ul, ep, sn, fault) ==
  AddChunksAt(ul, V!FindFreeRegion(ul, ChunkLen, "Rts"), ep, sn, fault)

AddChunks(ul, ep, sn, fault) ==
  AddChunksAt(ul, V!FindFreeRegion(ul, ChunkLen, "User"), ep, sn, fault)

-----------------------------------------------------------------------------
(* The outer VmMgr::alloc of a Reserve-tagged EMA.                         *)

\* The position before the node the outer cursor points at, found again in
\* the list l after add_chunks; past the end when the cursor was null.
StaleIdx(l, pl, idx) ==
  IF idx > Len(pl) THEN Len(l) + 1 ELSE SelectInSeq(l, LAMBDA e : e = pl[idx])

\* The pages Ema::allocate EACCEPTs for a new EMA.
NowPages(kind, a, len) == IF kind = "COMMIT_NOW" THEN a..(a + len - 1) ELSE {}

\* Ema::allocate and insert_before with the node taken, on the list l of
\* typ and the USER list ul after any re-entry, the EPC ep and the Static
\* nodes sn; a failing out-call drops the node again.
Place(typ, hint, len, kind, fixed, pre, at, l, ul, ep, sn, idx) ==
  \/ /\ kind = "RESERVED" \/ \A p \in NowPages(kind, at.addr, len) : ep[p] = NONE
     /\ lists' = [lists EXCEPT !["User"] = ul, ![typ] =
                    InsertAt(l, idx,
                      [V!NewEma(at.addr, len, kind, V!AllocInfo(kind), "Reserve")
                         EXCEPT !.eaccept = NowPages(kind, at.addr, len)])]
     /\ epc' = [p \in DOMAIN ep |->
                  IF p \in NowPages(kind, at.addr, len) THEN V!AllocInfo(kind) ELSE ep[p]]
     /\ nodes' = [t \in V!AllocTypes |->
                    IF t = "Static" THEN sn ELSE nodes[t] + pre.grown[t] + 1]
     /\ V!Returns("alloc", hint, len, fixed, "OK", at.addr)
  \/ /\ kind # "RESERVED"
     /\ HostFaults \/ ~\A p \in NowPages(kind, at.addr, len) : ep[p] = NONE
     /\ lists' = [lists EXCEPT !["User"] = ul, ![typ] = l]
     /\ epc' = ep
     /\ nodes' = [t \in V!AllocTypes |->
                    IF t = "Static" THEN sn ELSE nodes[t] + pre.grown[t]]
     /\ V!Returns("alloc", hint, len, fixed, "EFAULT", NONE)

\* emalloc found no room: add_chunks re-enters VMMGR before the node exists.
Grow(typ, hint, len, kind, fixed, pre, at, a) ==
  IF a.panic
  THEN panicked' = TRUE /\ UNCHANGED <<lists, epc, nodes, lastCall, chunks>>
  ELSE IF ~a.ok
  THEN /\ lists' = [lists EXCEPT ![typ] = pre.list, !["User"] = a.list]
       /\ epc' = a.epc
       /\ nodes' = [t \in V!AllocTypes |->
                      IF t = "Static" THEN a.statics ELSE nodes[t] + pre.grown[t]]
       /\ V!Returns("alloc", hint, len, fixed, "ENOMEM", NONE)
       /\ UNCHANGED <<chunks, panicked>>
  ELSE /\ Place(typ, hint, len, kind, fixed, pre, at,
                 IF typ = "User" THEN a.list ELSE pre.list, a.list, a.epc, a.statics,
                 StaleIdx(IF typ = "User" THEN a.list ELSE pre.list, pre.list, at.idx))
       /\ chunks' = chunks \cup {a.base}
       /\ UNCHANGED panicked

AllocAt(typ, hint, len, kind, fixed, pre, at) ==
  IF ~at.found
  THEN V!AllocFails(typ, pre, hint, len, fixed, "ENOMEM") /\ UNCHANGED <<chunks, panicked>>
  ELSE IF Slots(nodes["Reserve"] + pre.grown["Reserve"]) > 0
  THEN /\ Place(typ, hint, len, kind, fixed, pre, at, pre.list,
                 IF typ = "User" THEN pre.list ELSE lists["User"], epc,
                 nodes["Static"] + pre.grown["Static"], at.idx)
       /\ UNCHANGED <<chunks, panicked>>
  ELSE \E fault \in IF HostFaults THEN {"none", "alloc", "commit"} ELSE {"none"} :
         Grow(typ, hint, len, kind, fixed, pre, at,
              AddChunks(IF typ = "User" THEN pre.list ELSE lists["User"], epc,
                        nodes["Static"] + pre.grown["Static"], fault))

AllocFrom(typ, hint, len, kind, fixed, pre) ==
  IF pre.err # NONE
  THEN V!AllocFails(typ, pre, hint, len, fixed, pre.err) /\ UNCHANGED <<chunks, panicked>>
  ELSE AllocAt(typ, hint, len, kind, fixed, pre,
               IF pre.at.found THEN pre.at ELSE V!FindFreeRegion(pre.list, len, typ))

\* VmMgr::alloc with the Reserve tag.  The splits of its hint step take
\* their nodes from the heap as it is (a re-entry from a split of the hint
\* step is not modelled): it runs when they fit.
Alloc(typ, hint, len, kind, fixed) ==
  /\ Len(lists[typ]) < MaxEmas
  /\ Slots(nodes["Reserve"] +
           V!AllocAtHint(lists[typ], hint, len, fixed, "Reserve").grown["Reserve"]) >= 0
  /\ AllocFrom(typ, hint, len, kind, fixed,
               V!AllocAtHint(lists[typ], hint, len, fixed, "Reserve"))

-----------------------------------------------------------------------------
(* The caller's VmMgr::dealloc, whose search_ema_range splits the EMAs at  *)
(* the ends of the range.  The count of EMAs is taken before the splits;   *)
(* each split takes the node of its right half from the EMA's heap (all    *)
(* Reserve: the caller owns the range), and a split that finds the chunks  *)
(* full runs add_chunks inside split().  The node is taken before the EMA  *)
(* shrinks, so add_chunks sees the range as it was.  The split's unwrap()  *)
(* panics when add_chunks fails.  s is the search without splits.          *)

\* The index of the EMA e in the list l, found again by its node.
At(l, e) == SelectInSeq(l, LAMBDA x : x = e)

CutStart(s, addr) == s.list[s.first].start < addr
CutEnd(s, end)    == V!End(s.list[s.first + s.num - 1]) > end

\* The node the returned cursor points at: the right half of a split first EMA.
RealStart(s, addr) ==
  IF CutStart(s, addr) THEN V!SplitAt(s.list, s.first, addr)[s.first + 1]
  ELSE s.list[s.first]

\* The EMA split at end: end_ema_ptr, or the real start when emas_num = 1.
EndEma(s, addr) ==
  IF s.num = 1 THEN RealStart(s, addr) ELSE s.list[s.first + s.num - 1]

SplitStart(l, s, addr) ==
  IF CutStart(s, addr) THEN V!SplitAt(l, At(l, s.list[s.first]), addr) ELSE l

SplitEnd(l, s, addr, end) ==
  IF CutEnd(s, end) THEN V!SplitAt(l, At(l, EndEma(s, addr)), end) ELSE l

\* The nodes the splits take from the reserve heap.
SplitNodes(s, addr, end) ==
  (IF CutStart(s, addr) THEN 1 ELSE 0) + (IF CutEnd(s, end) THEN 1 ELSE 0)

\* The splits and dealloc's loop on the list m of typ after any split at
\* start, with the USER list, EPC and Static nodes add_chunks left: split
\* the end, remove s.num EMAs from the real start, run each one's dealloc
\* and give its node back to its heap.
DeallocSplit(addr, len, typ, s, m, a) ==
  LET c     == V!Command("dealloc", addr, len, {})
      first == At(m, RealStart(s, addr))
      l     == SplitEnd(m, s, addr, addr + len)
  IN \E k \in VE(a.epc)!Completed(l, first, s.num, c) :
     LET gone  == Min({k + 1, s.num})
         freed == first..(first + k - 1)
         rest  == SubSeq(l, 1, first - 1) \o SubSeq(l, first + gone, Len(l))
     IN /\ lists' = [lists EXCEPT !["User"] = a.list, ![typ] = rest]
        /\ epc' = VE(a.epc)!EpcAfter(l, first, k, c)
        /\ nodes' = [t \in V!AllocTypes |->
                       (IF t = "Static" THEN a.statics
                        ELSE nodes[t] + SplitNodes(s, addr, addr + len))
                       - Cardinality({i \in freed : l[i].alloc = t})]
        /\ V!Returns("dealloc", addr, len, FALSE,
                     IF k = s.num THEN "OK" ELSE "EFAULT", NONE)

\* add_chunks ran inside the split at start (atStart) or at end.
DeallocGrow(addr, len, typ, s, atStart, a) ==
  IF a.panic \/ ~a.ok
  THEN panicked' = TRUE /\ UNCHANGED <<lists, epc, nodes, lastCall, chunks>>
  ELSE LET ul == IF atStart THEN SplitStart(a.list, s, addr) ELSE a.list
       IN /\ DeallocSplit(addr, len, typ, s,
                IF typ = "User" THEN ul ELSE SplitStart(lists[typ], s, addr),
                [a EXCEPT !.list = IF typ = "User" THEN ul ELSE a.list])
          /\ chunks' = chunks \cup {a.base}
          /\ UNCHANGED panicked

Dealloc(addr, len) ==
  LET typ == V!CheckAddr(addr, len)
      s   == V!SearchEmaRange(lists[typ], addr, addr + len, FALSE, FALSE)
      f   == Slots(nodes["Reserve"])
  IN IF typ \notin V!RangeTypes \/ ~s.found \/ SplitNodes(s, addr, addr + len) <= f
     THEN V!Dealloc(addr, len) /\ UNCHANGED <<chunks, panicked>>
     ELSE \E fault \in IF HostFaults THEN {"none", "alloc", "commit"} ELSE {"none"} :
          LET atStart == CutStart(s, addr) /\ f = 0
              ul == IF atStart \/ typ # "User" THEN lists["User"]
                    ELSE SplitStart(lists["User"], s, addr)
          IN DeallocGrow(addr, len, typ, s, atStart,
                         AddChunks(ul, epc, nodes["Static"], fault))

-----------------------------------------------------------------------------
(* init_emm: init_vmmgr, init_static_alloc, then init_reserve_alloc, whose *)
(* Reserve::new runs add_chunks(INIT_MEM_SIZE).unwrap() on the empty USER  *)
(* list; init_rts_emas later adds the loader's regions to the RTS list.    *)
(* The EPC already holds the pages the loader added and measured.          *)
LoaderEpc ==
  [p \in V!Pages |->
     IF \E e \in ToSet(V!Loaded) : p \in e.eaccept
     THEN (CHOOSE e \in ToSet(V!Loaded) : p \in e.eaccept).info
     ELSE NONE]

FirstChunk == AddChunks(<<>>, LoaderEpc, 0, "none")

ASSUME FirstChunk.ok /\ Len(V!Loaded) <= NodesPerChunk

Init ==
  /\ lists = [t \in V!RangeTypes |-> IF t = "Rts" THEN V!Loaded ELSE FirstChunk.list]
  /\ epc = FirstChunk.epc
  /\ nodes = [t \in V!AllocTypes |->
                IF t = "Static" THEN FirstChunk.statics ELSE Len(V!Loaded)]
  /\ lastCall = [op |-> "init", addr |-> NONE, len |-> 0, fixed |-> FALSE,
                 ret |-> "OK", res |-> NONE]
  /\ chunks = {FirstChunk.base}
  /\ panicked = FALSE

\* A range the caller owns: every EMA it meets was allocated by a caller
\* (Reserve), none is the reserve heap's own chunk or guard (Static).
CallerOwned(a, len) ==
  \A t \in V!RangeTypes : \A e \in ToSet(lists[t]) :
     e.start < a + len /\ a < V!End(e) => e.alloc = "Reserve"

(* The callers' alloc and dealloc, until a panic stops the enclave.  A     *)
(* dealloc gives its nodes back to the heaps; the reserve heap keeps its   *)
(* chunks (efree never returns one to VMMGR).                              *)
Next ==
  /\ ~panicked
  /\ \/ \E typ \in V!RangeTypes : \E hint \in Hints[typ] \cup {NONE}, len \in Lens,
           kind \in V!Kinds \ {"SYSTEM"} :
           \E fixed \in IF hint = NONE THEN {FALSE} ELSE BOOLEAN :
              Alloc(typ, hint, len, kind, fixed)
     \/ \E a \in Addrs, len \in Lens : CallerOwned(a, len) /\ Dealloc(a, len)

Spec == Init /\ [][Next]_vars

-----------------------------------------------------------------------------
(***************************************************************************)
(* Properties.                                                             *)
(***************************************************************************)
TypeOK ==
  /\ V!TypeOK
  /\ chunks \in SUBSET (UserBase..(UserEnd - 1))
  /\ panicked \in BOOLEAN

(* Every chunk of the reserve heap is a COMMIT_ON_DEMAND EMA from the     *)
(* static heap in the USER list, between two RESERVED guard EMAs of        *)
(* GUARD_SIZE from the static heap next to it, and the rsize bytes         *)
(* add_chunks committed are accepted in the EPC with the chunk's page      *)
(* info: whatever the callers' allocs and deallocs, their re-entries into  *)
(* add_chunks and the failures of its out-calls do to the USER list.       *)
HeapGuarded ==
  LET l == lists["User"] IN
  \A c \in chunks : \E i \in DOMAIN l :
     /\ l[i].start = c /\ l[i].kind = "COMMIT_ON_DEMAND" /\ l[i].alloc = "Static"
     /\ 1 < i /\ i < Len(l)
     /\ \A g \in {l[i - 1], l[i + 1]} :
           g.kind = "RESERVED" /\ g.alloc = "Static" /\ g.len = GuardPages
     /\ V!End(l[i - 1]) = l[i].start /\ V!End(l[i]) = l[i + 1].start
     /\ \A p \in FirstPages(l[i], RsizePages) : p \in l[i].eaccept /\ epc[p] = l[i].info

(* The EMAs of each list stay sorted and disjoint when a caller's USER     *)
(* alloc runs out of reserve nodes and add_chunks, re-entering VMMGR,      *)
(* places a chunk in the USER list between the outer alloc's choice of a   *)
(* free region (and of the cursor to insert before) and its insert.        *)
EmasDisjoint == V!EmasDisjoint

(* A split's Box::new_in(.., StaticAlloc).unwrap() never panics.           *)
NoPanic == ~panicked
====
