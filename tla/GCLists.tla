------------------------------ MODULE GCLists ------------------------------
(***************************************************************************)
(* The three intrusive lists of the collector (src/src/ir.c), pointer by   *)
(* pointer: every object carries a colour and `next` and `prev` links, and *)
(* Ir holds the heads of the white, the grey and the black list.           *)
(*                                                                         *)
(* alloc_value, alloc_stmt and alloc_scope push on the grey list without   *)
(* linking the old head back; gc_do_greys pops the head by hand and        *)
(* gc_add_to_black then unlinks the same object a second time.  The module *)
(* shows that the lists stay exact all the same.  Which objects an object  *)
(* refers to is left open: after marking one, any live objects are shaded. *)
(***************************************************************************)
EXTENDS Naturals, FiniteSets

CONSTANTS Objects, Null

ASSUME NullAssumption == Null \notin Objects
ASSUME FiniteAssumption == IsFiniteSet(Objects)   \* they have addresses

VARIABLES
    mem,    \* color, next, prev and the heads: what the C code writes to
    pc      \* where gc_do_greys is, or "mutate" outside it

vars == <<mem, pc>>

Lists == {"white", "grey", "black"}
Pointers == Objects \cup {Null}

Memory == [color : [Objects -> Lists \cup {"free"}],
           next : [Objects -> Pointers],
           prev : [Objects -> Pointers],
           head : [Lists -> Pointers]]

Init ==
    /\ mem = [color |-> [o \in Objects |-> "free"],
              next |-> [o \in Objects |-> Null],
              prev |-> [o \in Objects |-> Null],
              head |-> [l \in Lists |-> Null]]
    /\ pc = "mutate"

-----------------------------------------------------------------------------
(***************************************************************************)
(* List operations.  Writing through a null pointer would be a crash; each *)
(* write is guarded as in the code.                                        *)
(***************************************************************************)
SetPrev(m, o, p) == IF o = Null THEN m ELSE [m EXCEPT !.prev[o] = p]

\* Faulty variants stand before the definition they are variants of; Spec does
\* not use them, they show that a property can fail.
unlink_forgetting_prev(m, l, o) ==
    LET n == m.next[o]
        p == m.prev[o]
        m1 == IF p # Null THEN [m EXCEPT !.next[p] = n]
              ELSE SetPrev([m EXCEPT !.head[l] = n], n, Null)
    IN [m1 EXCEPT !.next[o] = Null, !.prev[o] = Null]

unlink_keeping_links(m, l, o) ==
    LET n == m.next[o]
        p == m.prev[o]
    IN IF p # Null THEN SetPrev([m EXCEPT !.next[p] = n], n, p)
       ELSE SetPrev([m EXCEPT !.head[l] = n], n, Null)

gc_remove_from_specific_list(m, l, o) ==
    LET n == m.next[o]
        p == m.prev[o]
        m1 == IF p # Null
              THEN SetPrev([m EXCEPT !.next[p] = n], n, p)
              ELSE LET h == [m EXCEPT !.head[l] = n]
                   IN IF n = Null THEN h
                      ELSE SetPrev(SetPrev(h, n, Null), h.next[n], n)
    IN [m1 EXCEPT !.next[o] = Null, !.prev[o] = Null]

gc_remove_from_list(m, o) == gc_remove_from_specific_list(m, m.color[o], o)

\* The tail of gc_add_to_grey and gc_add_to_black, and the sweep's push on white.
Push(m, l, o) ==
    LET m1 == [m EXCEPT !.color[o] = l, !.next[o] = m.head[l], !.prev[o] = Null]
    IN [SetPrev(m1, m.head[l], o) EXCEPT !.head[l] = o]

gc_add_to_grey_without_unlinking(m, o) ==
    IF m.color[o] \in {"black", "grey"} THEN m ELSE Push(m, "grey", o)

gc_add_to_grey(m, o) ==
    IF m.color[o] \in {"black", "grey"} THEN m
    ELSE Push(gc_remove_from_list(m, o), "grey", o)

gc_add_to_black(m, o) == Push(gc_remove_from_list(m, o), "black", o)

-----------------------------------------------------------------------------
(***************************************************************************)
(* Steps.                                                                  *)
(***************************************************************************)
\* alloc_value, alloc_stmt, alloc_scope: prev of the old head is not set.
alloc(o) ==
    /\ pc = "mutate" /\ mem.color[o] = "free"
    /\ mem' = [mem EXCEPT !.color[o] = "grey", !.next[o] = mem.head["grey"],
                          !.prev[o] = Null, !.head["grey"] = o]
    /\ UNCHANGED pc

gc_do_greys ==
    /\ pc = "mutate" /\ pc' = "mark"
    /\ UNCHANGED mem

\* The loop takes the head off the list; gc_mark_value and the like then return
\* at once if it is black already and move it to the black list otherwise.
mark_next ==
    /\ pc = "mark"
    /\ mem.head["grey"] # Null
    /\ LET o == mem.head["grey"]
           popped == [mem EXCEPT !.head["grey"] = mem.next[o]]
       IN mem' = IF mem.color[o] = "black" THEN popped ELSE gc_add_to_black(popped, o)
    /\ pc' = "refs"

shade(o) ==
    /\ pc \in {"refs", "roots"} /\ mem.color[o] # "free"
    /\ mem' = gc_add_to_grey(mem, o)
    /\ UNCHANGED pc

refs_done ==
    /\ pc = "refs" /\ pc' = "mark"
    /\ UNCHANGED mem

mark_done_sweeping_early ==
    /\ pc = "mark" /\ pc' = "free"
    /\ UNCHANGED mem

\* The loop ends when the list or the work is used up.
mark_done ==
    /\ pc = "mark"
    /\ pc' = IF mem.head["grey"] = Null THEN "free" ELSE "mutate"
    /\ UNCHANGED mem

free_next ==
    /\ pc = "free"
    /\ mem.head["white"] # Null
    /\ LET o == mem.head["white"]
       IN mem' = [gc_remove_from_list(mem, o) EXCEPT !.color[o] = "free"]
    /\ UNCHANGED pc

free_done ==
    /\ pc = "free" /\ mem.head["white"] = Null /\ pc' = "whiten"
    /\ UNCHANGED mem

whiten_next_without_unlinking ==
    /\ pc = "whiten"
    /\ mem.head["black"] # Null
    /\ mem' = Push(mem, "white", mem.head["black"])
    /\ UNCHANGED pc

whiten_next ==
    /\ pc = "whiten"
    /\ mem.head["black"] # Null
    /\ LET o == mem.head["black"]
       IN mem' = Push(gc_remove_from_list(mem, o), "white", o)
    /\ UNCHANGED pc

whiten_done ==
    /\ pc = "whiten" /\ mem.head["black"] = Null /\ pc' = "roots"
    /\ UNCHANGED mem

gc_mark_done ==
    /\ pc = "roots" /\ pc' = "mutate"
    /\ UNCHANGED mem

Collect ==
    \/ mark_next \/ refs_done \/ mark_done
    \/ free_next \/ free_done \/ whiten_next \/ whiten_done \/ gc_mark_done

Next ==
    \/ gc_do_greys \/ Collect
    \/ \E o \in Objects : alloc(o) \/ shade(o)

\* gc_do_greys runs to its end once called: an object has finitely many
\* references, and the loops are not left before their lists are empty.
Spec == Init /\ [][Next]_vars /\ WF_vars(Collect)

-----------------------------------------------------------------------------
(***************************************************************************)
(* Properties.                                                             *)
(***************************************************************************)
\* A released object keeps no link into a list: pool_alloc may hand it out again.
TypeOK ==
    /\ mem \in Memory
    /\ \A o \in Objects : mem.color[o] = "free" => mem.next[o] = Null /\ mem.prev[o] = Null
    /\ pc \in {"mutate", "mark", "refs", "free", "whiten", "roots"}

OfColour(l) == {o \in Objects : mem.color[o] = l}

\* The objects met when following `next` from the head, by position; Null past the end.
Walk(l) ==
    LET at[i \in 0..Cardinality(Objects)] ==
            IF i = 0 THEN mem.head[l]
            ELSE IF at[i-1] = Null THEN Null ELSE mem.next[at[i-1]]
    IN at

\* Following `next` from a head meets every object of that colour, once, and
\* ends: unlinking from the middle, pushing and popping never lose an object,
\* close a cycle or leave an object on two lists (gc_remove_from_specific_list,
\* gc_add_to_grey, gc_add_to_black and the inlined pops and pushes).
ListsExact ==
    \A l \in Lists :
        LET at == Walk(l)
            size == Cardinality(OfColour(l))
        IN /\ {at[i] : i \in 0..(size - 1)} = OfColour(l)
           /\ at[size] = Null

\* gc_remove_from_specific_list tells the head from an inner object by its null
\* `prev`.  That is right although allocation leaves `prev` of the second grey
\* object null, since only a head is ever unlinked from the grey list; the white
\* list, from which shading unlinks anywhere, is linked both ways.
PrevLinksUsable ==
    \A l \in Lists :
        LET at == Walk(l)
            size == Cardinality(OfColour(l))
        IN /\ mem.head[l] # Null => mem.prev[mem.head[l]] = Null
           /\ \A i \in 1..(size - 1) :
                 mem.prev[at[i]] = at[i-1] \/ (l = "grey" /\ mem.prev[at[i]] = Null)

\* The objects of T, which are all of one list, have an order in which the head
\* comes first, `next` leads from each to the following one and from the last to
\* null, and `prev` back again, or nowhere on the grey list.
Listed(m, l, T) ==
    LET n == Cardinality(T)
    IN \E order \in [1..n -> T] :
          /\ \A o \in T : \E i \in 1..n : order[i] = o
          /\ m.head[l] = IF n = 0 THEN Null ELSE order[1]
          /\ \A i \in 1..n :
                /\ m.next[order[i]] = IF i = n THEN Null ELSE order[i + 1]
                /\ \/ m.prev[order[i]] = IF i = 1 THEN Null ELSE order[i - 1]
                   \/ l = "grey" /\ m.prev[order[i]] = Null

\* ListsExact and PrevLinksUsable without their walk along the list.
Linked == \A l \in Lists : Listed(mem, l, OfColour(l))

\* The three lists as they are between any two steps: nothing released is on
\* one, each is exact, and each can be unlinked from where that is done.
Inv == TypeOK /\ Linked /\ ListsExact /\ PrevLinksUsable

\* The lists implement the three sets: in particular the sweep's loops, which
\* stop at a null head, stop exactly when the set is empty, and shading an
\* object that is already grey or black changes nothing.
Sets == INSTANCE TriColour WITH
    white <- OfColour("white"), grey <- OfColour("grey"), black <- OfColour("black"),
    phase <- pc

RefinesTriColour == Sets!Spec

\* A sweep that has begun ends: the program gets to run again.
SweepEnds == (pc \in {"free", "whiten", "roots"}) ~> (pc = "mutate")

=============================================================================
