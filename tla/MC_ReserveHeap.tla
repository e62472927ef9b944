---------------------------- MODULE MC_ReserveHeap ----------------------------
(***************************************************************************)
(* Model values for ReserveHeap.  The USER range starts at 16 MiB and has  *)
(* room for the initial chunk's reservation and one more of 128 KiB, so a  *)
(* third add_chunks runs out of address space.                             *)
(***************************************************************************)
EXTENDS ReserveHeap

\* 0 gives the smallest exact block (16 bytes), 2049 the smallest large
\* one (2064, one past MAX_EXACT_SIZE), 40000 a large block of which only
\* one fits in the initial chunk, and 100000 one that only a new chunk can
\* hold, so that add_chunks also meets a USER range with no room left.
MCSizes == {0, 2049, 40000, 100000}

MCUserBase == 16777216

\* The initial reservation (64 KiB + two guards) and one of 128 KiB.
MCUserEnd == MCUserBase + (65536 + 65536) + (131072 + 65536)
=============================================================================
