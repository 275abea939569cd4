------------------------------- MODULE Pool -------------------------------
(***************************************************************************)
(* The bucket allocator of src/src/common.c from which values, scopes and  *)
(* statements are taken.  A bucket is filled from the front; a released    *)
(* object only lowers the count of the bucket its header names, and        *)
(* pool_release recycles whole buckets: those on the old list whose count  *)
(* has reached 0.  The bucket being filled is never recycled.              *)
(*                                                                         *)
(* Lists of buckets are sets here: which free bucket is used next is left  *)
(* open, the code takes the one recycled last.                             *)
(***************************************************************************)
EXTENDS Integers, FiniteSets

CONSTANTS
    PoolObjects,   \* the objects of the program
    Buckets,   \* the Bucket structures calloc can return
    First,     \* the bucket pool_init makes
    Slots,     \* objects that fit in a bucket with their headers
    Nowhere,   \* no address
    Wrap       \* size_t counts modulo Wrap

ASSUME PoolAssumption ==
    /\ IsFiniteSet(PoolObjects) /\ IsFiniteSet(Buckets)
    /\ First \in Buckets
    /\ Slots \in Nat /\ Slots > 0
    /\ Wrap \in Nat /\ Wrap > 1
    /\ Nowhere \notin Buckets \X (0..(Slots - 1))

VARIABLES
    current,   \* current_bucket
    free, old, \* free_buckets and old_buckets
    used,      \* objects handed out of each bucket since it was last emptied
    count,     \* objects of each bucket not yet released
    buckets,   \* the pool's counter of buckets
    at         \* the address of every object in use: a bucket and a slot

pool_vars == <<current, free, old, used, count, buckets, at>>

Addresses == Buckets \X (0..(Slots - 1))
InUse == {o \in PoolObjects : at[o] # Nowhere}
Made == {current} \cup free \cup old

PoolInit ==
    /\ current = First
    /\ free = {} /\ old = {}
    /\ used = [b \in Buckets |-> 0]
    /\ count = [b \in Buckets |-> 0]
    /\ buckets = 1
    /\ at = [o \in PoolObjects |-> Nowhere]

-----------------------------------------------------------------------------
\* Hands out the next slot of bucket b, writing b in the header before it.
Take(o, b) ==
    /\ at' = [at EXCEPT ![o] = <<b, used[b]>>]
    /\ used' = [used EXCEPT ![b] = @ + 1]
    /\ count' = [count EXCEPT ![b] = @ + 1]
    /\ current' = b

\* pool_alloc while the current bucket has room.
alloc_here(o) ==
    /\ at[o] = Nowhere
    /\ used[current] < Slots
    /\ Take(o, current)
    /\ UNCHANGED <<free, old, buckets>>

\* Faulty variants stand before the definition they are variants of; PoolSpec does
\* not use them, they show that a property can fail.
alloc_recycled_leaving_it_free(o) ==
    /\ at[o] = Nowhere
    /\ used[current] >= Slots
    /\ \E b \in free : Take(o, b)
    /\ old' = old \cup {current}
    /\ UNCHANGED <<free, buckets>>

\* pool_alloc when it is full and a free bucket is at hand.
alloc_recycled(o) ==
    /\ at[o] = Nowhere
    /\ used[current] >= Slots
    /\ \E b \in free : Take(o, b) /\ free' = free \ {b}
    /\ old' = old \cup {current}
    /\ UNCHANGED buckets

\* pool_alloc when there is none: __pool_make_bucket.
alloc_made(o) ==
    /\ at[o] = Nowhere
    /\ used[current] >= Slots
    /\ free = {}
    /\ \E b \in Buckets \ Made : Take(o, b)
    /\ old' = old \cup {current}
    /\ buckets' = (buckets + 1) % Wrap
    /\ UNCHANGED free

pool_alloc(o) == alloc_here(o) \/ alloc_recycled(o) \/ alloc_made(o)

Recycled_with_current(c) == {b \in old \cup {current} : c[b] = 0}

Recycled_skipping_one(c) ==
    LET idle == {b \in old : c[b] = 0}
    IN {b \in idle : b # CHOOSE i \in idle : TRUE}

Recycled_one_early(c) == {b \in old : c[b] <= 1}

\* The buckets the scan of pool_release moves from the old to the free list.
Recycled(c) == {b \in old : c[b] = 0}

pool_release_without_reset(o) ==
    /\ at[o] # Nowhere
    /\ count' = [count EXCEPT ![at[o][1]] = @ - 1]
    /\ LET recycled == Recycled(count')
       IN /\ old' = old \ recycled
          /\ free' = free \cup recycled
          /\ buckets' = (buckets - Cardinality(recycled)) % Wrap
    /\ at' = [at EXCEPT ![o] = Nowhere]
    /\ UNCHANGED <<used, current>>

pool_release(o) ==
    /\ at[o] # Nowhere
    /\ count' = [count EXCEPT ![at[o][1]] = @ - 1]
    /\ LET recycled == Recycled(count')
       IN /\ old' = old \ recycled
          /\ free' = free \cup recycled
          /\ used' = [b \in Buckets |-> IF b \in recycled THEN 0 ELSE used[b]]
          /\ buckets' = (buckets - Cardinality(recycled)) % Wrap
    /\ at' = [at EXCEPT ![o] = Nowhere]
    /\ UNCHANGED current

PoolNext == \E o \in PoolObjects : pool_alloc(o) \/ pool_release(o)

PoolSpec == PoolInit /\ [][PoolNext]_pool_vars

-----------------------------------------------------------------------------
(***************************************************************************)
(* Properties.                                                             *)
(***************************************************************************)
\* A count never passes below zero: an object is counted where it was taken.
PoolTypeOK ==
    /\ current \in Buckets
    /\ free \subseteq Buckets /\ old \subseteq Buckets
    /\ used \in [Buckets -> 0..Slots]
    /\ count \in [Buckets -> 0..Slots]
    /\ buckets \in 0..(Wrap - 1)
    /\ at \in [PoolObjects -> Addresses \cup {Nowhere}]

\* Two objects in use never share memory, whichever buckets pool_release
\* recycles between their allocations.
NoSharedMemory ==
    \A o, p \in InUse : at[o] = at[p] => o = p

\* A bucket is on one list, or is the current one, so that its single `next`
\* link serves; what waits on the free list is empty, and holds no object.
BucketsApart ==
    /\ current \notin free \cup old /\ free \cap old = {}
    /\ \A b \in free : used[b] = 0 /\ \A o \in InUse : at[o][1] # b

\* pool_release looks at the old list alone, so a bucket that lost its last
\* object while it was current stays behind when the next one is begun; the next
\* release finds it.  There is never a second one: retired memory is reused.
OneIdleBucket ==
    \A b, c \in old : count[b] = 0 /\ count[c] = 0 => b = c

-----------------------------------------------------------------------------
(***************************************************************************)
(* The inductive invariant.  The counts are the numbers of objects in use, *)
(* so a bucket with count 0 may be recycled; and while a retired bucket is *)
(* idle nothing has been released since it was retired, so the current one *)
(* cannot become the second.                                               *)
(***************************************************************************)
In(b) == {o \in InUse : at[o][1] = b}

Counted == \A b \in Buckets : count[b] = Cardinality(In(b))

Placed == \A o \in InUse : at[o][2] < used[at[o][1]]

Filled ==
    /\ \A b \in Buckets : count[b] <= used[b]
    /\ \A b \in Buckets \ (old \cup {current}) : used[b] = 0

IdleIsRecent ==
    \A b \in old : count[b] = 0 => count[current] = used[current]

PoolIInv ==
    /\ PoolTypeOK /\ NoSharedMemory /\ BucketsApart /\ OneIdleBucket
    /\ Counted /\ Placed /\ Filled /\ IdleIsRecent

=============================================================================
