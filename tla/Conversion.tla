----------------------------- MODULE Conversion -----------------------------
(***************************************************************************)
(* convert_node_to_stmt of ir.c, which prepares a program for Evaluator,   *)
(* and what can be said of an evaluation by following the syntax tree.     *)
(***************************************************************************)
EXTENDS Evaluator

\* ++ and -- as statements become assignments, in which the target stands
\* twice; calls whose result is dropped are statements.
RECURSIVE convert_node_to_stmt(_)
convert_node_to_stmt(n) ==
  LET parts == [i \in DOMAIN n.sub |-> convert_node_to_stmt(n.sub[i])]
  IN CASE n.kind = "var" /\ n.sub = <<>> -> [n EXCEPT !.sub = <<Node("null", "none", <<>>)>>]
       [] n.kind = "call"        -> [n EXCEPT !.kind = "call_stmt"]
       [] n.kind = "method_call" -> [n EXCEPT !.kind = "method_call_stmt"]
       [] n.kind \in Increments ->
            LET op == IF n.token = "++" THEN "+" ELSE "-"
                one == Node("number", "1", <<>>)
            IN  Node("assign", "=", <<n.sub[1], Node("binop", op, <<n.sub[1], one>>)>>)
       [] n.kind = "block" -> [n EXCEPT !.sub = parts]
       [] n.kind \in {"if", "while"} -> [n EXCEPT !.sub = <<n.sub[1]>> \o Tail(parts)]
       [] OTHER -> n

Converted(p) == [f \in DOMAIN p |->
                   [params |-> p[f].params,
                    body |-> [i \in DOMAIN p[f].body |-> convert_node_to_stmt(p[f].body[i])]]]

----------------------------------------------------------------------------
(* Properties.                                                             *)
\* What a program without conditions and loops prints comes in the order of
\* its text, each mark once; an operand of ++ is evaluated twice before the
\* expression and three times after it, and both operands of && and || are
\* evaluated.  A mark is a call p(k, v) or f(k, v): both print k.
RECURSIVE Marks(_)
Marks(n) ==
  LET subs == FlattenSeq([i \in DOMAIN n.sub |-> Marks(n.sub[i])])
  IN CASE n.kind \in Calls /\ n.sub[1].token \in {"p", "f"} -> subs \o <<NumberValue(Digit[n.sub[2].token])>>
       [] n.kind = "pre" -> subs \o subs
       [] n.kind = "post" -> subs \o subs \o subs
       [] OTHER -> subs

StraightLine == \A i \in DOMAIN program["main"].body : program["main"].body[i].kind \notin {"if", "while"}

LeftToRight ==
  LET marks == FlattenSeq([i \in DOMAIN program["main"].body |-> Marks(program["main"].body[i])])
  IN  StraightLine => IsPrefix(out, marks) /\ (status = "finished" => out = marks)
=============================================================================
