---------------------------- MODULE AbstractHeap ----------------------------
(***************************************************************************)
(* What an allocator promises its callers, and nothing about how it keeps  *)
(* its memory: a request for n bytes returns a payload of at least n bytes *)
(* that overlaps no other live payload, or it fails and changes nothing    *)
(* the caller can see; a free gives back exactly one live payload.         *)
(*                                                                         *)
(* The allocator picks the address, so Malloc names the new payload        *)
(* through heap' rather than enumerating the address space.  The module is *)
(* checked only as the target of a refinement (ReserveHeap implements it). *)
(***************************************************************************)
EXTENDS Integers

CONSTANT Requests          \* the request sizes callers pass, in bytes

VARIABLE heap    \* live payload address -> [asked: bytes requested, size: usable bytes]

\* [p, p + size) is the memory the caller of Malloc may use.
Overlap(p, sp, q, sq) == p < q + sq /\ q < p + sp

Init == heap = [p \in {} |-> [asked |-> 0, size |-> 0]]

Malloc(n) ==
    \E p \in DOMAIN heap' :
        /\ p \notin DOMAIN heap
        /\ DOMAIN heap' = DOMAIN heap \cup {p}
        /\ heap'[p].asked = n
        /\ heap'[p].size >= n
        /\ \A q \in DOMAIN heap : heap'[q] = heap[q]
                                  /\ ~Overlap(p, heap'[p].size, q, heap[q].size)

Free(p) ==
    /\ p \in DOMAIN heap
    /\ heap' = [q \in DOMAIN heap \ {p} |-> heap[q]]

Next == (\E n \in Requests : Malloc(n)) \/ (\E p \in DOMAIN heap : Free(p))

Spec == Init /\ [][Next]_heap
=============================================================================
