---------------------------- MODULE AbstractMap ----------------------------
(***************************************************************************)
(* What scopes and tables expect of a map (src/src/common.c, used by       *)
(* scope_add, scope_set, scope_get, table_put and table_get of             *)
(* src/src/ir.c): a lookup returns the value last stored under the hash.   *)
(* Nothing is ever removed from a map that is in use.                      *)
(*                                                                         *)
(* The hashes in Forgettable are the exception: an entry under one of them *)
(* may disappear whenever something is stored.                             *)
(***************************************************************************)
CONSTANTS Hashes, Values, None, Forgettable

VARIABLES
    content,  \* the value of every stored hash
    answer    \* the last call's hash, and the value it stored or returned

vars == <<content, answer>>

Init == content = << >> /\ answer = << >>

Put(h, v) ==
    /\ \E lost \in SUBSET Forgettable :
          content' = [k \in {h} \cup (DOMAIN content \ lost) |-> IF k = h THEN v ELSE content[k]]
    /\ answer' = <<h, v>>

Get(h) ==
    /\ answer' = <<h, IF h \in DOMAIN content THEN content[h] ELSE None>>
    /\ UNCHANGED content

Free == content' = << >> /\ UNCHANGED answer

Next ==
    \/ \E h \in Hashes, v \in Values : Put(h, v)
    \/ \E h \in Hashes : Get(h)
    \/ Free

Spec == Init /\ [][Next]_vars

=============================================================================
