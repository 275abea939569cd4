------------------------------ MODULE HashMap ------------------------------
(***************************************************************************)
(* The open-addressing map of src/src/common.c that holds the symbols of a *)
(* scope and the entries of a table.  Keys are not stored: an entry is     *)
(* found by its 64-bit hash alone, so hashes stand for keys here.          *)
(*                                                                         *)
(* A slot whose hash is 0 counts as empty, which makes 0 a hash like no    *)
(* other: map_put_hash writes its value into the first empty slot, counts  *)
(* it in len, and leaves the slot empty.                                   *)
(***************************************************************************)
EXTENDS Integers, FiniteSets

CONSTANTS
    Hashes,     \* hashes the program uses, possibly 0
    Values,
    NullValue,  \* the null pointer
    MinCap,     \* capacity of the first allocation; 16 in the code
    MaxCap      \* bound of the model: no put that would grow the map beyond it

\* IS_POW2's bit test: the only odd divisor is 1.
IsPow2(n) == n # 0 /\ \A d \in 1..n : n % d = 0 => d = 1 \/ d % 2 = 0

ASSUME HashAssumption == Hashes \subseteq Nat
ASSUME ValueAssumption == NullValue \notin Values
ASSUME CapAssumption == MinCap \in Nat /\ MinCap > 1 /\ IsPow2(MinCap) /\ MaxCap \in Nat

VARIABLES
    map,     \* entries, len and cap
    answer   \* the last call's hash, and the value it stored or returned

map_vars == <<map, answer>>

Entry == [hash : Hashes \cup {0}, val : Values \cup {NullValue}]
Empty == [hash |-> 0, val |-> NullValue]

NewMap(cap) == [entries |-> [i \in 0..(cap - 1) |-> Empty], len |-> 0, cap |-> cap]

MapInit == map = NewMap(0) /\ answer = << >>

-----------------------------------------------------------------------------
(***************************************************************************)
(* Probing.                                                                *)
(***************************************************************************)
\* The slot where the loops of map_get and map_put_hash stop: the first, from
\* the hash's home on and around the end, that is empty or holds the hash.
Stops(m, h, i) == m.entries[i].hash \in {0, h}

Distance(m, h, i) == (i + m.cap - (h % m.cap)) % m.cap

SlotOf(m, h) ==
    CHOOSE i \in DOMAIN m.entries :
        /\ Stops(m, h, i)
        /\ \A j \in DOMAIN m.entries :
              Stops(m, h, j) => Distance(m, h, i) <= Distance(m, h, j)

\* Faulty variants stand before the definition they are variants of; MapSpec does
\* not use them, they show that a property can fail.
Insert_without_value(m, h, v) ==
    LET i == SlotOf(m, h) IN
    IF m.entries[i].hash = 0 THEN [m EXCEPT !.entries[i].hash = h, !.len = @ + 1]
    ELSE [m EXCEPT !.entries[i].val = v]

Insert_counting_always(m, h, v) ==
    [m EXCEPT !.entries[SlotOf(m, h)] = [hash |-> h, val |-> v], !.len = @ + 1]

Insert_when_absent(m, h, v) ==
    LET i == SlotOf(m, h) IN
    IF m.entries[i].hash = h /\ h # 0 THEN m
    ELSE [m EXCEPT !.entries[i] = [hash |-> h, val |-> v], !.len = @ + 1]

\* map_put_hash once there is room.
Insert(m, h, v) ==
    LET i == SlotOf(m, h) IN
    [m EXCEPT !.entries[i] = [hash |-> h, val |-> v],
              !.len = IF m.entries[i].hash = 0 THEN @ + 1 ELSE @]

map_grow_keeping_slots(m, atLeast) ==
    LET newCap == IF atLeast < MinCap THEN MinCap ELSE atLeast
    IN [m EXCEPT !.entries = [i \in 0..(newCap - 1) |-> IF i < m.cap THEN m.entries[i] ELSE Empty],
                 !.cap = newCap]

\* Re-inserts every claimed slot, in slot order, into a larger map; the nested
\* calls of map_put_hash find room (LoadBounded).
map_grow(m, atLeast) ==
    LET newCap == IF atLeast < MinCap THEN MinCap ELSE atLeast
        upto[i \in 0..m.cap] ==
            IF i = 0 THEN NewMap(newCap)
            ELSE LET e == m.entries[i - 1]
                 IN IF e.hash = 0 THEN upto[i - 1] ELSE Insert(upto[i - 1], e.hash, e.val)
    IN upto[m.cap]

Full_when_no_slot_is_left(m) == m.len >= m.cap

Full(m) == 2 * m.len >= m.cap

map_put_hash(m, h, v) == Insert(IF Full(m) THEN map_grow(m, 2 * m.cap) ELSE m, h, v)

\* Faulty: an empty slot's value may be one stored under the hash 0.
map_get_from_any_slot(m, h) == IF m.len = 0 THEN NullValue ELSE m.entries[SlotOf(m, h)].val

map_get(m, h) ==
    IF m.len # 0 /\ m.entries[SlotOf(m, h)].hash = h THEN m.entries[SlotOf(m, h)].val ELSE NullValue

-----------------------------------------------------------------------------
put(h, v) ==
    /\ Full(map) => 2 * map.cap <= MaxCap
    /\ map' = map_put_hash(map, h, v)
    /\ answer' = <<h, v>>

get(h) ==
    /\ answer' = <<h, map_get(map, h)>>
    /\ UNCHANGED map

\* The owner is released with its map, and pool_alloc hands the memory out
\* zeroed: the next owner starts with an empty map.
map_free ==
    /\ map' = NewMap(0)
    /\ UNCHANGED answer

MapNext ==
    \/ \E h \in Hashes, v \in Values : put(h, v)
    \/ \E h \in Hashes : get(h)
    \/ map_free

MapSpec == MapInit /\ [][MapNext]_map_vars

-----------------------------------------------------------------------------
(***************************************************************************)
(* Properties.                                                             *)
(***************************************************************************)
\* The collector dereferences the value of every claimed slot without a test.
MapTypeOK ==
    /\ map.len \in Nat /\ map.cap \in Nat
    /\ map.entries \in [0..(map.cap - 1) -> Entry]
    /\ \A i \in DOMAIN map.entries : map.entries[i].hash # 0 => map.entries[i].val # NullValue
    /\ answer \in (Hashes \X (Values \cup {NullValue})) \cup {<< >>}

Claimed == {i \in DOMAIN map.entries : map.entries[i].hash # 0}

\* The assertions of map_get and map_put_hash hold and every probe ends: the
\* capacity is a power of two, and at least half of the slots are empty, however
\* often the hash 0 is counted and the map grows.
LoadBounded ==
    /\ map.cap = 0 \/ IsPow2(map.cap)
    /\ Cardinality(Claimed) <= map.len
    /\ 2 * map.len <= map.cap

\* len() returns the counter, not the number of entries.  The two stay as far
\* apart as they are, or come together again when the map grows or is freed,
\* whatever is stored, overwritten or moved: only stores under the hash 0 count
\* for nothing, so a map without that hash has the right length.
Excess == map.len - Cardinality(Claimed)

LenExact == [][Excess' \in {Excess, 0} \/ \E v \in Values : put(0, v)]_map_vars

\* Every claimed slot is where a probe for its hash stops: there is no gap on
\* the way to it, not even across the end of the table, and no second slot with
\* the same hash.  Stores under 0, which write to a slot without claiming it,
\* leave no gap behind either.
EveryEntryFound ==
    \A i \in Claimed : SlotOf(map, map.entries[i].hash) = i

\* The slots of a map in use, as every lookup and every growth relies on them.
MapInv == MapTypeOK /\ LoadBounded /\ EveryEntryFound

\* What gc_mark_scope and gc_mark_value scan, plus what a lookup of 0 finds.
Zero == IF 0 \in Hashes /\ map_get(map, 0) # NullValue THEN {0} ELSE {}

Content ==
    [h \in {map.entries[i].hash : i \in Claimed} \cup Zero |->
        IF h = 0 THEN map_get(map, 0)
        ELSE map.entries[CHOOSE i \in Claimed : map.entries[i].hash = h].val]

\* The map implements a partial function: a lookup returns what was stored last,
\* stores and growth lose nothing else, and what the collector meets when it
\* scans the slots is all of it.  Only a value stored under 0 may be lost.
Abstract == INSTANCE AbstractMap WITH
    content <- Content, None <- NullValue, Forgettable <- {0}

RefinesAbstractMap == Abstract!Spec

=============================================================================
