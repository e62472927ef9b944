------------------------------ MODULE PageView ------------------------------
(***************************************************************************)
(* What the EMM promises about each page of ELRANGE, whatever EMAs and     *)
(* splits it uses to keep track of them: a page is free or belongs to one  *)
(* allocation, with its kind, page info, heap tag and whether it has been  *)
(* accepted.  Each public call either fails and changes no page, or:       *)
(*   alloc     maps len contiguous pages of the requested range, each of   *)
(*             them free or RESERVED by the same heap, as one allocation;  *)
(*   dealloc   frees the mapped pages of a range;                          *)
(*   commit    accepts the mapped pages of a range, which must follow one  *)
(*             another without a free page between them and not be        *)
(*             merely RESERVED;                                            *)
(*   uncommit  un-accepts them, under the same condition;                  *)
(*   modify_perms sets the protection of such pages, all of them regular;  *)
(*   modify_type  turns one accepted regular page into a TCS page;         *)
(*   init_static_region registers free pages as one RESERVED or SYSTEM     *)
(*             region of the loader.                                       *)
(* VmMgr is checked to implement this module (VmMgr!PageViewSpec).         *)
(***************************************************************************)
EXTENDS Integers

CONSTANTS
  Pages,      \* the page numbers
  RangeOf,    \* [Pages -> {"Rts", "User", "Out"}]: the range a page lies in
  Lens,       \* lengths callers pass
  Loaded,     \* [Pages -> ...]: the pages the loader registered, as mapped
  NONE        \* a free page

VARIABLE pages   \* [Pages -> [kind, info, alloc, acc] \cup {NONE}]

\* The pages [a, a + len), when they are all page numbers.
Span(a, len) == {p \in Pages : a <= p /\ p < a + len}

Spans == {Span(a, len) : a \in Pages, len \in Lens}

\* The pages of P that are mapped: those a range operation acts on.
MappedIn(P) == {p \in P : pages[p] # NONE}

\* A range operation needs the mapped pages of its range to be one run:
\* no free page between two mapped ones.
Gapless(M) == M # {} /\ \A p, q \in M : \A m \in p..q : m \in M

\* None of the pages of M is merely RESERVED.
Usable(M) == \A p \in M : pages[p].kind # "RESERVED"

\* Only the pages of P change, each to the value v[p].
ChangeOnly(P, v) == pages' = [p \in Pages |-> IF p \in P THEN v[p] ELSE pages[p]]

Init == pages = Loaded

Alloc(P, r) ==
  /\ P # {} /\ \A p \in P : RangeOf[p] = r
  /\ \E q \in P :
       LET v == pages'[q] IN
       /\ v # NONE
       /\ v.kind \in {"RESERVED", "COMMIT_NOW", "COMMIT_ON_DEMAND"}
       /\ v.acc = (v.kind = "COMMIT_NOW")
       /\ \A p \in P : \/ pages[p] = NONE
                       \/ pages[p].kind = "RESERVED" /\ pages[p].alloc = v.alloc
       /\ ChangeOnly(P, [p \in P |-> v])

\* init_static_region: free pages become one RESERVED or SYSTEM region,
\* accepted unless RESERVED (the loader added and measured them).
InitStatic(P) ==
  /\ P # {} /\ \A p \in P : pages[p] = NONE
  /\ \E q \in P :
       LET v == pages'[q] IN
       /\ v # NONE
       /\ v.kind \in {"RESERVED", "SYSTEM"}
       /\ v.acc = (v.kind = "SYSTEM")
       /\ ChangeOnly(P, [p \in P |-> v])

Dealloc(P) == ChangeOnly(P, [p \in P |-> NONE])

Commit(P) ==
  LET M == MappedIn(P) IN
  /\ Gapless(M) /\ Usable(M)
  /\ ChangeOnly(M, [p \in M |-> [pages[p] EXCEPT !.acc = TRUE]])

Uncommit(P) ==
  LET M == MappedIn(P) IN
  /\ Gapless(M) /\ Usable(M)
  /\ ChangeOnly(M, [p \in M |-> [pages[p] EXCEPT !.acc = FALSE]])

ModifyPerms(P) ==
  LET M == MappedIn(P) IN
  /\ Gapless(M) /\ Usable(M)
  /\ \A p \in M : pages[p].info.typ = "Reg"
  /\ \E prot \in SUBSET {"R", "W", "X"} :
       /\ "X" \in prot => "R" \in prot
       /\ ChangeOnly(M, [p \in M |-> [pages[p] EXCEPT !.info.prot = prot]])

ModifyType(p) ==
  /\ pages[p] # NONE
  /\ pages[p].kind # "RESERVED" /\ pages[p].info.typ = "Reg" /\ pages[p].acc
  /\ ChangeOnly({p}, [q \in {p} |-> [pages[p] EXCEPT !.info.typ = "Tcs"]])

\* The pages a step changes all lie in P (each action below implies it; it
\* is stated first so that only the spans that can explain a step are tried).
Within(P) == \A p \in Pages : pages'[p] # pages[p] => p \in P

Next ==
  \E P \in Spans :
   /\ Within(P)
   /\ \/ \E r \in {"Rts", "User"} : Alloc(P, r)
      \/ InitStatic(P)
      \/ Dealloc(P)
      \/ Commit(P)
      \/ Uncommit(P)
      \/ ModifyPerms(P)
      \/ \E p \in P : ModifyType(p)

Spec == Init /\ [][Next]_pages
=============================================================================
