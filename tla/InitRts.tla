------------------------------- MODULE InitRts -------------------------------
(***************************************************************************)
(* The RTS EMAs built at enclave start (sgx_trts/src/emm/init.rs), run on  *)
(* the VM manager of VmMgr.                                                *)
(*                                                                         *)
(* init_rts_emas registers each loadable ELF segment (init_segment_emas),  *)
(* then walks the loader's layout table (init_rts_contexts_emas), whose    *)
(* group entries repeat the entries before them at growing offsets.  Each  *)
(* entry becomes zero to three VMMGR calls (build_rts_context_emas):       *)
(* init_static_region, mm_dealloc of a POST_REMOVE entry, the FIXED        *)
(* mm_alloc_rts of a POST_ADD one.  change_perm then narrows the           *)
(* protections with mm_modify_perms.  Every call runs under the VMMGR lock *)
(* as one step; the first error ends the initialisation (the ? of each     *)
(* call).  The calls are computed from the layout as the queue boot, and   *)
(* once it is empty the callers' calls of VmMgr follow.                    *)
(*                                                                         *)
(* The ELF program headers and the layout table are constants: records     *)
(* with page-counted addresses and sizes, so trim_to_page!/round_to_page!  *)
(* are the identity.  The EPC starts with every page the loader added,     *)
(* holding the page info the registration of its region names.            *)
(***************************************************************************)
EXTENDS VmMgr

CONSTANTS
  ImageBase,   \* MmLayout::image_base(), in pages
  Phdrs,       \* the ELF program headers: [typ, vaddr, len, read, write, exec]
  TextRelo,    \* parse::has_text_relo()
  Table        \* the layout table: entries [grp |-> FALSE, id, rva, pages,
               \* flags, attrs] and groups [grp |-> TRUE, count, times, step]

VARIABLES
  boot,        \* the VMMGR calls of the initialisation still to run
  initErr      \* a call of the initialisation has failed

bootVars == <<vars, boot, initErr>>

ASSUME \A i \in DOMAIN Table : Table[i].grp => Table[i].count < i

Call(op, addr, len, kind, info, prot) ==
  [op |-> op, addr |-> addr, len |-> len, kind |-> kind, info |-> info, prot |-> prot]

NoInfo == [typ |-> "None", prot |-> {}]

-----------------------------------------------------------------------------
(* init_segment_emas: a SYSTEM region for each PT_LOAD header, readable,   *)
(* writable when the segment is or the text has relocations, executable   *)
(* when the segment is.                                                    *)
Loads == SelectSeq(Phdrs, LAMBDA h : h.typ = "Load")

SegmentPerm(h) ==
  {"R"} \cup (IF h.write \/ TextRelo THEN {"W"} ELSE {})
        \cup (IF h.exec THEN {"X"} ELSE {})

SegmentCalls ==
  [i \in DOMAIN Loads |->
     Call("static", ImageBase + Loads[i].vaddr, Loads[i].len, "SYSTEM",
          [typ |-> "Reg", prot |-> SegmentPerm(Loads[i])], {})]

(* init_rts_contexts_emas: the entries of table t from index i on, each    *)
(* placed at ImageBase + offset + rva.  A group repeats the count entries  *)
(* before it load_times times, at offsets step, 2*step, ...: the offset of *)
(* the walk that met the group is not added.  USER_REGION is skipped.     *)
RECURSIVE ContextEntries(_, _, _)
ContextEntries(t, offset, i) ==
  IF i > Len(t) THEN <<>>
  ELSE (IF t[i].grp
        THEN FlattenSeq([k \in 1..t[i].times |->
                           ContextEntries(SubSeq(t, i - t[i].count, i - 1),
                                          k * t[i].step, 1)])
        ELSE IF t[i].id = "USER_REGION" THEN <<>>
        ELSE << [e |-> t[i], addr |-> ImageBase + offset + t[i].rva] >>)
       \o ContextEntries(t, offset, i + 1)

Placed == ContextEntries(Table, 0, 1)

\* The kinds of entry build_rts_context_emas tells apart.
Reserved(e)   == e.flags = {} \/ "EREMOVE" \in e.attrs
PostRemove(e) == "POST_REMOVE" \in e.attrs
PostAdd(e)    == "POST_ADD" \in e.attrs
StaticMin(e)  == "EADD" \in e.attrs /\ ~PostRemove(e)

EntryInfo(e) ==
  IF e.id = "TCS" THEN [typ |-> "Tcs", prot |-> {}]
  ELSE [typ |-> "Reg", prot |-> e.flags \cap ProtBits]

\* Slip: a POST_REMOVE entry registered but never deallocated.
EntryCallsKeepRemoved(x) ==
  LET e == x.e IN
  IF Reserved(e) THEN << Call("static", x.addr, e.pages, "RESERVED", NoInfo, {}) >>
  ELSE (IF PostRemove(e)
        THEN << Call("static", x.addr, e.pages, "SYSTEM",
                     [typ |-> "None", prot |-> {"R", "W"}], {}) >>
        ELSE <<>>)
       \o (IF PostAdd(e) THEN << Call("alloc_rts", x.addr, e.pages, NONE, NONE, {}) >>
           ELSE IF StaticMin(e)
           THEN << Call("static", x.addr, e.pages, "SYSTEM", EntryInfo(e), {}) >>
           ELSE <<>>)

(* build_rts_context_emas for an entry placed at x.addr.                   *)
EntryCalls(x) ==
  LET e == x.e IN
  IF Reserved(e) THEN << Call("static", x.addr, e.pages, "RESERVED", NoInfo, {}) >>
  ELSE (IF PostRemove(e)
        THEN << Call("static", x.addr, e.pages, "SYSTEM",
                     [typ |-> "None", prot |-> {"R", "W"}], {}),
                Call("dealloc", x.addr, e.pages, NONE, NONE, {}) >>
        ELSE <<>>)
       \o (IF PostAdd(e) THEN << Call("alloc_rts", x.addr, e.pages, NONE, NONE, {}) >>
           ELSE IF StaticMin(e)
           THEN << Call("static", x.addr, e.pages, "SYSTEM", EntryInfo(e), {}) >>
           ELSE <<>>)

ContextCalls == FlattenSeq([i \in DOMAIN Placed |-> EntryCalls(Placed[i])])

(* change_perm: with text relocations each read-only PT_LOAD segment gets *)
(* its own R/X back; each PT_GNU_RELRO range becomes read-only; the first *)
(* RSRV_MIN entry that is RWX and not empty becomes read-only.             *)
PhdrPermCalls(h) ==
  (IF h.typ = "Load" /\ TextRelo /\ ~h.write
   THEN << Call("modify_perms", ImageBase + h.vaddr, h.len, NONE, NONE,
                (IF h.read THEN {"R"} ELSE {}) \cup (IF h.exec THEN {"X"} ELSE {})) >>
   ELSE <<>>)
  \o (IF h.typ = "GnuRelro" /\ h.len > 0
      THEN << Call("modify_perms", ImageBase + h.vaddr, h.len, NONE, NONE, {"R"}) >>
      ELSE <<>>)

RsrvRwx == SelectSeq(Table, LAMBDA e : ~e.grp /\ e.id = "RSRV_MIN"
                                       /\ e.flags = {"R", "W", "X", "REG"} /\ e.pages > 0)

ChangePermCalls ==
  FlattenSeq([i \in DOMAIN Phdrs |-> PhdrPermCalls(Phdrs[i])])
  \o (IF RsrvRwx = <<>> THEN <<>>
      ELSE << Call("modify_perms", ImageBase + RsrvRwx[1].rva, RsrvRwx[1].pages,
                   NONE, NONE, {"R"}) >>)

BootCalls == SegmentCalls \o ContextCalls \o ChangePermCalls

-----------------------------------------------------------------------------
(* VmMgr::init_static_region as an action: the region must be free in the *)
(* RTS list; its node comes from the reserve heap (Ema::allocate).         *)
InitStatic(c) ==
  IF FindFreeRegionAt(lists["Rts"], c.addr, c.len) = 0
  THEN Fail("init_static", c.addr, c.len, "EINVAL")
  ELSE /\ lists' = [lists EXCEPT !["Rts"] = InitStaticRegion(@, c)]
       /\ nodes' = [nodes EXCEPT !["Reserve"] = @ + 1]
       /\ UNCHANGED epc
       /\ Returns("init_static", c.addr, c.len, FALSE, "OK", NONE)

(* The next call of the initialisation; an error empties the queue.        *)
BootStep ==
  /\ boot # <<>>
  /\ \/ Head(boot).op = "static" /\ InitStatic(Head(boot))
     \/ Head(boot).op = "dealloc" /\ Dealloc(Head(boot).addr, Head(boot).len)
     \/ /\ Head(boot).op = "alloc_rts"
        /\ Alloc("Rts", Head(boot).addr, Head(boot).len, "COMMIT_ON_DEMAND", TRUE, "Reserve")
     \/ /\ Head(boot).op = "modify_perms"
        /\ ModifyPerms(Head(boot).addr, Head(boot).len, Head(boot).prot)
  /\ boot' = IF lastCall'.ret = "OK" THEN Tail(boot) ELSE <<>>
  /\ initErr' = (lastCall'.ret # "OK")

Booted == boot = <<>> /\ ~initErr

\* The pages the loader added: those of every region registered as SYSTEM.
LoaderEpc ==
  [p \in Pages |->
     LET S == {c \in ToSet(BootCalls) :
                 c.op = "static" /\ c.kind = "SYSTEM" /\ p \in c.addr..(c.addr + c.len - 1)}
     IN IF S = {} THEN NONE ELSE (CHOOSE c \in S : TRUE).info]

BootInit ==
  /\ lists = [t \in RangeTypes |-> <<>>]
  /\ epc = LoaderEpc
  /\ nodes = [t \in AllocTypes |-> 0]
  /\ lastCall = [op |-> "init", addr |-> NONE, len |-> 0, fixed |-> FALSE,
                 ret |-> "OK", res |-> NONE]
  /\ pview = PageMap(lists)
  /\ boot = BootCalls
  /\ initErr = FALSE

(* The initialisation, then every public call of VmMgr.                    *)
BootNext ==
  \/ BootStep
  \/ Booted /\ Next /\ UNCHANGED <<boot, initErr>>

BootSpec ==
  /\ BootInit
  /\ [][BootNext /\ pview' = PageMap(lists')]_bootVars

-----------------------------------------------------------------------------
(***************************************************************************)
(* Properties.                                                             *)
(***************************************************************************)
Calls == [op : {"static", "dealloc", "alloc_rts", "modify_perms"},
          addr : Pages, len : Nat, kind : Kinds \cup {NONE},
          info : PageInfos \cup {NONE}, prot : SUBSET ProtBits]

BootTypeOK ==
  /\ TypeOK
  /\ boot \in Seq(Calls)
  /\ initErr \in BOOLEAN

(* Once the initialisation is over, the bitmaps agree with the hardware    *)
(* (EpcMatchesBitmaps): every page the loader added is described by an    *)
(* EMA that marks it accepted with the page info the EPC holds, or was    *)
(* trimmed by the dealloc of its POST_REMOVE entry.                        *)
EpcMatchesOnceBooted == Booted => EpcMatchesBitmaps

(* What each placed layout entry must look like, page by page, once       *)
(* build_rts_context_emas has run for it: a guard or EREMOVE entry is      *)
(* RESERVED; a POST_ADD entry is COMMIT_ON_DEMAND and not yet accepted;    *)
(* a POST_REMOVE entry is free; an EADD entry is an accepted SYSTEM region *)
(* of its page type; any other entry is left free.                         *)
Intended(e) ==
  IF Reserved(e) THEN [kind |-> "RESERVED", acc |-> FALSE, typ |-> "None"]
  ELSE IF PostAdd(e) THEN [kind |-> "COMMIT_ON_DEMAND", acc |-> FALSE, typ |-> "Reg"]
  ELSE IF StaticMin(e) THEN [kind |-> "SYSTEM", acc |-> TRUE, typ |-> EntryInfo(e).typ]
  ELSE NONE

EntryEstablished(x) ==
  \A p \in x.addr..(x.addr + x.e.pages - 1) :
     IF Intended(x.e) = NONE THEN pview[p] = NONE /\ epc[p] = NONE
     ELSE /\ pview[p] # NONE
          /\ pview[p].kind = Intended(x.e).kind
          /\ pview[p].acc = Intended(x.e).acc
          /\ pview[p].info.typ = Intended(x.e).typ

(* When init_rts_emas and change_perm have returned Ok, every copy of     *)
(* every layout entry (groups unrolled) lies at ImageBase + offset + rva   *)
(* as the entry asks: the FIXED mm_alloc_rts of a POST_ADD entry has put   *)
(* its EMA at the entry's address, not wherever find_free_region found    *)
(* room, and nothing is left of a POST_REMOVE entry.                       *)
LayoutEstablished ==
  [][boot # <<>> /\ boot' = <<>> /\ ~initErr'
       => \A i \in DOMAIN Placed : EntryEstablished(Placed[i])']_bootVars

(* The initialisation and the calls after it, page by page, are steps     *)
(* PageView allows, from an ELRANGE where nothing is registered yet.       *)
PVB == INSTANCE PageView WITH
         pages   <- pview,
         RangeOf <- PageRanges,
         Loaded  <- [p \in Pages |-> NONE]

BootPageViewSpec == PVB!Spec
=============================================================================
