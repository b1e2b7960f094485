------------------------- MODULE MC_BucketAllocator -------------------------
(* The allocator alone, with callers that get and release in any order.    *)
EXTENDS BucketAllocator, FiniteSetsExt

(* Places where pages of 5 and 4 bytes touch each other on either side. *)
MCBases == {0, 4, 5}

(***************************************************************************)
(* usedMemory and remainingMemory, which decide when the cache is cleaned, *)
(* report the bytes in the callers' hands and the bytes still available.   *)
(***************************************************************************)
CountersExact ==
  /\ m_usedMemory = MapThenSumSet(LAMBDA b : b.size, live)
  /\ m_freeMemory = MapThenSumSet(LAMBDA b : b.size, m_freeSpace)
  /\ Conservation
=============================================================================
