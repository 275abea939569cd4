----------------------------- MODULE MCHashMap -----------------------------
(***************************************************************************)
(* HashMap with a first capacity of 4 instead of 16, so that the map grows *)
(* twice (to 8 and to 16) with few hashes.  The hashes collide at every    *)
(* capacity: 15 and 31 share the last slot of four, eight and sixteen, so  *)
(* probes wrap around; 3 joins them at four, where 4 is what they run into.*)
(***************************************************************************)
EXTENDS HashMap

\* 0 is the hash that is counted and yet claims no slot.
MCHashes == {0, 3, 4, 15, 31}
=============================================================================
