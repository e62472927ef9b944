----------------------------- MODULE ReserveHeap -----------------------------
(***************************************************************************)
(* The reserve heap of alloc.rs (struct Reserve) at block level: 256 exact *)
(* free lists, the large free list with best fit, and bump-pointer chunks  *)
(* taken from the USER range by add_chunks.  emalloc and efree are each    *)
(* one step: RsrvAlloc holds the RSRV_ALLOCATOR lock around each of them.  *)
(*                                                                         *)
(* Addresses and sizes are bytes, with the code's constants.  hdr is the   *)
(* size word in front of every live or free block (ALLOC_MASK set while    *)
(* the block is in use); words of memory nobody reads again are dropped.   *)
(*                                                                         *)
(* add_chunks asks vmmgr.alloc for a RESERVED region of the USER range.    *)
(* Here the USER range holds only the heap's own regions, which are never  *)
(* freed, so first fit returns the address just above the last of them    *)
(* (top).  The FIXED COMMIT_ON_DEMAND alloc and the commit that follow can *)
(* fail with EFAULT when HostFaults is TRUE.                               *)
(***************************************************************************)
EXTENDS Integers, Sequences, FiniteSets, SequencesExt

CONSTANTS
    Sizes,        \* request sizes passed to emalloc, in bytes
    MaxLive,      \* bound on the payloads a caller holds at once
    UserBase,     \* first byte of the USER range
    UserEnd,      \* one past its last byte
    HostFaults    \* whether the host may fail the out-calls of add_chunks

ASSUME Sizes \subseteq Nat /\ MaxLive \in Nat /\ HostFaults \in BOOLEAN

VARIABLES
    chunks,       \* sequence of [base, size, used]; the front is the newest
    exact,        \* exact_blocks: list index -> sequence of block addresses
    large,        \* large_blocks: sequence of block addresses
    hdr,          \* block address -> its size word
    live,         \* payload addresses handed out and not yet freed
    asked,        \* live payload -> the size its caller passed to emalloc
    incr,         \* incr_size
    top,          \* end of the USER memory vmmgr.alloc has handed out
    regions       \* bases of the reservations add_chunks has made

vars == <<chunks, exact, large, hdr, live, asked, incr, top, regions>>

-----------------------------------------------------------------------------
(* The code's constants (alloc.rs:43-52, 163-168, 183-187).                         *)

INIT_MEM_SIZE == 65536
GUARD_SIZE == 32768
MAX_EMALLOC_SIZE == 268435456
ALLOC_MASK == 1
NUM_EXACT_LIST == 256
HEADER_SIZE == 8
EXACT_MATCH_INCREMENT == 8
MIN_BLOCK_SIZE == 16
MAX_EXACT_SIZE == MIN_BLOCK_SIZE + EXACT_MATCH_INCREMENT * (NUM_EXACT_LIST - 1)
CHUNK_SIZE == 32                     \* size_of::<Chunk>(): base, size, used, link

ListIdxs == 0..(NUM_EXACT_LIST - 1)

RoundTo(x, a) == ((x + a - 1) \div a) * a

\* size & SIZE_MASK
BlockSize(word) == word - (word % EXACT_MATCH_INCREMENT)

\* Reserve::get_list_idx
ListIdx(size) ==
    IF size < MIN_BLOCK_SIZE THEN 0
    ELSE (size - MIN_BLOCK_SIZE) \div EXACT_MATCH_INCREMENT

\* Mutant: the header word left out of the block size.
BSizeNoHeader(size) ==
    Max({RoundTo(size, EXACT_MATCH_INCREMENT), MIN_BLOCK_SIZE})

\* The block size emalloc computes for a request.
BSize(size) ==
    Max({RoundTo(size + HEADER_SIZE, EXACT_MATCH_INCREMENT), MIN_BLOCK_SIZE})

FreeBlocks ==
    UNION {ToSet(exact[i]) : i \in ListIdxs} \cup ToSet(large)

-----------------------------------------------------------------------------
(* Taking a block.                                                         *)

\* block_to_payload: the free block becomes used and its payload is returned.
Handout(b) ==
    /\ hdr' = [hdr EXCEPT ![b] = BlockSize(@) + ALLOC_MASK]
    /\ live' = live \cup {b + HEADER_SIZE}

\* alloc_from_chunks writes a fresh block at the bump address, then
\* block_to_payload marks it used.
NewBlock(b, bsize) ==
    /\ hdr' = (b :> bsize + ALLOC_MASK) @@ hdr
    /\ live' = live \cup {b + HEADER_SIZE}

\* get_exact_block: pop the head of the list of that size.
TakeExact(idx) ==
    /\ exact[idx] # <<>>
    /\ Handout(Head(exact[idx]))
    /\ exact' = [exact EXCEPT ![idx] = Tail(@)]
    /\ UNCHANGED <<large, chunks, incr, top, regions>>

\* The indices of large blocks big enough for bsize (raw size word compared).
Fits(bsize) == {i \in DOMAIN large : hdr[large[i]] >= bsize}

\* The block get_free_block picks: the first of the smallest that fit.
SuitIdx(fits) ==
    Min({i \in fits : \A j \in fits :
            BlockSize(hdr[large[j]]) >= BlockSize(hdr[large[i]])})

TakeLarge(i) ==
    /\ Handout(large[i])
    /\ large' = RemoveAt(large, i)
    /\ UNCHANGED <<exact, chunks, incr, top, regions>>

\* Mutant: the room test compares the whole chunk, not what is left of it.
RoomInIgnoresUsed(bsize) == SelectInSeq(chunks, LAMBDA c : c.size >= bsize)

\* The first chunk alloc_from_chunks finds room in, or 0.
RoomIn(bsize) == SelectInSeq(chunks, LAMBDA c : c.size - c.used >= bsize)

\* Mutant: chunk.used += bsize forgotten.
BumpNoAdvance(k, bsize) ==
    /\ NewBlock(chunks[k].base + chunks[k].used, bsize)
    /\ UNCHANGED <<chunks, exact, large, incr, top, regions>>

Bump(k, bsize) ==
    /\ NewBlock(chunks[k].base + chunks[k].used, bsize)
    /\ chunks' = [chunks EXCEPT ![k].used = @ + bsize]
    /\ UNCHANGED <<exact, large, incr, top, regions>>

\* add_chunks(rsize) with increment = max(incr_size, rsize), followed by
\* the retry of alloc_from_chunks, which takes the new chunk at the front.
AddChunks(bsize, increment) ==
    \/ /\ top + increment + 2 * GUARD_SIZE > UserEnd      \* alloc: ENOMEM
       /\ UNCHANGED vars
    \/ /\ top + increment + 2 * GUARD_SIZE <= UserEnd
       /\ regions' = regions \cup {top}
       /\ top' = top + increment + 2 * GUARD_SIZE
       /\ \/ /\ HostFaults       \* FIXED COMMIT_ON_DEMAND alloc or commit fails
             /\ UNCHANGED <<chunks, exact, large, hdr, live, incr>>
          \/ /\ chunks' = <<[base |-> top + GUARD_SIZE + CHUNK_SIZE,
                             size |-> increment - CHUNK_SIZE,
                             used |-> bsize]>> \o chunks
             /\ NewBlock(top + GUARD_SIZE + CHUNK_SIZE, bsize)
             /\ incr' = Min({incr * 2, MAX_EMALLOC_SIZE})
             /\ UNCHANGED <<exact, large>>

NoFreeBlock(bsize) ==
    IF bsize <= MAX_EXACT_SIZE THEN exact[ListIdx(bsize)] = <<>>
    ELSE Fits(bsize) = {}

\* Reserve::emalloc for a block of bsize bytes.
EmallocBlock(bsize) ==
    \/ bsize <= MAX_EXACT_SIZE /\ TakeExact(ListIdx(bsize))
    \/ bsize > MAX_EXACT_SIZE /\ Fits(bsize) # {} /\ TakeLarge(SuitIdx(Fits(bsize)))
    \/ NoFreeBlock(bsize) /\ RoomIn(bsize) # 0 /\ Bump(RoomIn(bsize), bsize)
    \/ /\ NoFreeBlock(bsize) /\ RoomIn(bsize) = 0
       /\ AddChunks(bsize, Max({incr, RoundTo(bsize + CHUNK_SIZE, INIT_MEM_SIZE)}))

\* The caller's record of what it asked for: the history the refinement
\* to AbstractHeap needs; the heap itself keeps only block sizes.
Asked(size) == [p \in live' |-> IF p \in live THEN asked[p] ELSE size]

Emalloc(size) ==
    /\ Cardinality(live) < MaxLive
    /\ EmallocBlock(BSize(size))
    /\ asked' = Asked(size)

-----------------------------------------------------------------------------
(* Giving a block back.                                                    *)

\* find_chunk_with_block: the first chunk whose used part holds the block.
ChunkWith(b, size) ==
    IF size = 0 THEN 0
    ELSE SelectInSeq(chunks, LAMBDA c : b >= c.base /\ b + size <= c.base + c.used)

\* put_free_block: push onto the exact list of its size or the large list.
PutFreeBlock(b, size) ==
    /\ hdr' = [hdr EXCEPT ![b] = size]
    /\ IF size <= MAX_EXACT_SIZE
       THEN exact' = [exact EXCEPT ![ListIdx(size)] = <<b>> \o @]
            /\ UNCHANGED large
       ELSE large' = <<b>> \o large /\ UNCHANGED exact

\* Mutant: any block that ends inside the used part counts as the top.
FreeInBelowTop(b, size, k) ==
    /\ k # 0
    /\ chunks' = [chunks EXCEPT ![k].used = @ - size]
    /\ hdr' = [a \in DOMAIN hdr \ {b} |-> hdr[a]]
    /\ UNCHANGED <<exact, large, incr, top, regions>>

\* efree with the block found in chunk k: a block at the top of the bump
\* area is given back to the chunk; any other goes onto a free list.
FreeIn(b, size, k) ==
    /\ k # 0                               \* otherwise panic!()
    /\ \/ /\ b + size - chunks[k].base = chunks[k].used
          /\ chunks' = [chunks EXCEPT ![k].used = @ - size]
          /\ hdr' = [a \in DOMAIN hdr \ {b} |-> hdr[a]]
          /\ UNCHANGED <<exact, large>>
       \/ /\ b + size - chunks[k].base # chunks[k].used
          /\ PutFreeBlock(b, size)
          /\ UNCHANGED chunks
    /\ UNCHANGED <<incr, top, regions>>

EfreeBlock(b, size) ==
    /\ live' = live \ {b + HEADER_SIZE}
    /\ FreeIn(b, size, ChunkWith(b, size))

Efree(p) ==
    /\ EfreeBlock(p - HEADER_SIZE, BlockSize(hdr[p - HEADER_SIZE]))
    /\ asked' = [q \in live' |-> asked[q]]

-----------------------------------------------------------------------------

\* Reserve::new(INIT_MEM_SIZE): add_chunks must succeed or the enclave panics.
Init ==
    /\ chunks = <<[base |-> UserBase + GUARD_SIZE + CHUNK_SIZE,
                   size |-> INIT_MEM_SIZE - CHUNK_SIZE, used |-> 0]>>
    /\ exact = [i \in ListIdxs |-> <<>>]
    /\ large = <<>>
    /\ hdr = [a \in {} |-> 0]
    /\ live = {}
    /\ asked = [p \in {} |-> 0]
    /\ incr = 2 * INIT_MEM_SIZE
    /\ top = UserBase + INIT_MEM_SIZE + 2 * GUARD_SIZE
    /\ regions = {UserBase}

Next ==
    \/ \E size \in Sizes : Emalloc(size)
    \/ \E p \in live : Efree(p)

Spec == Init /\ [][Next]_vars

-----------------------------------------------------------------------------
(* Properties.                                                             *)

Chunks == [base : Nat, size : Nat, used : Nat]

TypeOK ==
    /\ chunks \in Seq(Chunks)
    /\ \A k \in DOMAIN chunks : chunks[k].used <= chunks[k].size
    /\ exact \in [ListIdxs -> Seq(Nat)]
    /\ large \in Seq(Nat)
    /\ live \subseteq Nat /\ Cardinality(live) <= MaxLive
    /\ asked \in [live -> Sizes]
    /\ {p - HEADER_SIZE : p \in live} \cup FreeBlocks \subseteq DOMAIN hdr
    /\ incr \in INIT_MEM_SIZE..MAX_EMALLOC_SIZE
    /\ top \in UserBase..UserEnd

\* The block of a live payload.
LiveBlocks == {p - HEADER_SIZE : p \in live}

InUsedPart(k, b, size) ==
    b >= chunks[k].base /\ b + size <= chunks[k].base + chunks[k].used

\* Every live payload's block lies in the used part of exactly one chunk
\* (spec section 8, invariant 3), so find_chunk_with_block finds it and
\* efree never reaches its panic!() (alloc.rs:490).
LiveBlockInOneChunk ==
    \A b \in LiveBlocks :
        Cardinality({k \in DOMAIN chunks :
                        InUsedPart(k, b, BlockSize(hdr[b]))}) = 1

\* No two blocks, live or on a free list, overlap, and every free block is
\* still inside the used part of a chunk: efree's top-of-chunk coalescing
\* (alloc.rs:497-502) never gives back to the bump area memory that a free
\* list still holds or a live block still occupies.
BlocksDisjoint ==
    /\ LiveBlocks \cap FreeBlocks = {}
    /\ \A a, b \in LiveBlocks \cup FreeBlocks :
           a # b => a + BlockSize(hdr[a]) <= b \/ b + BlockSize(hdr[b]) <= a
    /\ \A b \in FreeBlocks :
           \E k \in DOMAIN chunks : InUsedPart(k, b, BlockSize(hdr[b]))

\* Every reservation add_chunks makes in the USER range carries a chunk:
\* no USER memory is taken by the heap and then left unused.
ChunksCoverReservations ==
    \A r \in regions :
        \E k \in DOMAIN chunks : chunks[k].base = r + GUARD_SIZE + CHUNK_SIZE

\* The reserve heap implements the allocator contract of AbstractHeap: an
\* emalloc(n) returns a payload of at least n bytes, disjoint from every
\* other live payload; an efree removes exactly that payload.
AH == INSTANCE AbstractHeap
        WITH Requests <- Sizes,
             heap <- [p \in live |->
                        [asked |-> asked[p],
                         size |-> BlockSize(hdr[p - HEADER_SIZE]) - HEADER_SIZE]]

AbstractHeapSpec == AH!Spec
=============================================================================
