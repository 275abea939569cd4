---------------------------- MODULE MCCollector ----------------------------
(***************************************************************************)
(* Small instances of Collector.  One function is bound in the file scope; *)
(* its body is one statement where Code has two elements.  G, F and M are  *)
(* the global, file and main scopes, a is the table of arguments, and s1,  *)
(* s2, d1 are addresses the program can be given.                          *)
(***************************************************************************)
EXTENDS Collector, TLC

CONSTANTS G, F, M, s1, s2, a, d1, fn, st, x, k

MCFunctions == {fn}
MCChildren == [c \in Code |-> IF c = fn THEN Code \ {fn} ELSE {}]
MCNoEntries == [d \in InitData |-> [f \in Fields |-> Nil]]
MCNoSymbols == [n \in Names |-> Nil]
MCFunctionAtX == [n \in Names |-> fn]
MCScopeSymmetry == Permutations({s1, s2})
=============================================================================
