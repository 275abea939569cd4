------------------------------ MODULE MCPool ------------------------------
(***************************************************************************)
(* Pool with few objects and small buckets.  With as many buckets as       *)
(* objects need in the worst case (one object alive in each old bucket)    *)
(* the model never runs out of them.                                       *)
(***************************************************************************)
EXTENDS Pool, TLC

Symmetry == Permutations(PoolObjects) \cup Permutations(Buckets \ {First})

=============================================================================
