----------------------------- MODULE TriColour -----------------------------
(***************************************************************************)
(* What the lists of the collector are meant to be: three disjoint sets of *)
(* objects.  An object is born grey, is marked from grey to black, is      *)
(* shaded from white to grey, and is reclaimed only when it is white and   *)
(* nothing is grey.  GCLists shows that the intrusive lists of             *)
(* src/src/ir.c implement this.                                            *)
(***************************************************************************)
CONSTANT Objects

VARIABLES white, grey, black, phase

vars == <<white, grey, black, phase>>

Phases == {"mutate", "mark", "refs", "free", "whiten", "roots"}

TypeOK ==
    /\ white \subseteq Objects /\ grey \subseteq Objects /\ black \subseteq Objects
    /\ phase \in Phases

Init ==
    /\ white = {} /\ grey = {} /\ black = {}
    /\ phase = "mutate"

Allocate(o) ==
    /\ phase = "mutate" /\ o \notin white \cup grey \cup black
    /\ grey' = grey \cup {o}
    /\ UNCHANGED <<white, black, phase>>

Shade(o) ==
    /\ phase \in {"refs", "roots"} /\ o \in white
    /\ white' = white \ {o} /\ grey' = grey \cup {o}
    /\ UNCHANGED <<black, phase>>

Blacken(o) ==
    /\ phase = "mark" /\ o \in grey
    /\ grey' = grey \ {o} /\ black' = black \cup {o}
    /\ phase' = "refs"
    /\ UNCHANGED white

Reclaim(o) ==
    /\ phase = "free" /\ o \in white
    /\ white' = white \ {o}
    /\ UNCHANGED <<grey, black, phase>>

Whiten(o) ==
    /\ phase = "whiten" /\ o \in black
    /\ black' = black \ {o} /\ white' = white \cup {o}
    /\ UNCHANGED <<grey, phase>>

\* A loop is left only when the set it empties is empty.
Advance ==
    /\ \/ phase = "mutate" /\ phase' = "mark"
       \/ phase = "refs" /\ phase' = "mark"
       \/ phase = "mark" /\ phase' = IF grey = {} THEN "free" ELSE "mutate"
       \/ phase = "free" /\ white = {} /\ phase' = "whiten"
       \/ phase = "whiten" /\ black = {} /\ phase' = "roots"
       \/ phase = "roots" /\ phase' = "mutate"
    /\ UNCHANGED <<white, grey, black>>

Next ==
    \/ \E o \in Objects : Allocate(o) \/ Shade(o) \/ Blacken(o) \/ Reclaim(o) \/ Whiten(o)
    \/ Advance

Spec == Init /\ [][Next]_vars

=============================================================================
