----------------------------- MODULE Evaluator -----------------------------
(***************************************************************************)
(* eval_stmt, eval_function, call_function, eval_value and do_assign of    *)
(* ir.c.  The C stack is the variable stack, the frame called last at its  *)
(* end: a frame for every statement or expression being evaluated, with    *)
(* the values of the parts evaluated so far.  A part is evaluated by a     *)
(* frame of its own, which delivers its value to the frame before it.      *)
(* Nothing is collected here: see Collector for that.                      *)
(***************************************************************************)
EXTENDS Integers, FiniteSets, Sequences, SequencesExt

\* The programs considered, as Conversion leaves them.  A program gives every
\* function its parameters, a sequence of names, and its body, a sequence of
\* statements.  The functions in Anonymous have no name in the file: they are
\* what expressions of kind "anon_func" stand for.  Nodes has every node of
\* every program, CallFree those that call no function.
CONSTANTS Programs, Anonymous, Nodes, CallFree

Node(kind, token, sub) == [kind |-> kind, token |-> token, sub |-> sub]

Natives == {"print", "len"}   \* two of the functions of add_globals
Assignable == {"name", "field", "index"}
Increments == {"pre", "post"}
Calls == {"call", "call_stmt"}
MethodCalls == {"method_call", "method_call_stmt"}
Leaves == {"null", "number", "string", "anon_func", "name"}
Entries == {"entry_normal", "entry_key", "entry_index"}
Expressions == Leaves \cup Increments \cup
               {"binop", "unary", "index", "field", "table", "call", "method_call"}
Statements == {"var", "return", "assign", "call_stmt", "method_call_stmt", "if", "while",
               "block", "break", "continue"}
Binary == {"+", "-", "*", "<", "<=", ">", ">=", "==", "!=", "&&", "||"}
Digits == {"0", "1", "2"}

PartKinds(n, i) == CASE n.kind = "table" -> Entries
                     [] n.kind = "block" -> Statements
                     [] n.kind \in {"if", "while"} /\ i > 1 -> Statements
                     [] OTHER -> Expressions

\* What the parser and the conversion make: how many parts a node has and what
\* these may be.
Grammatical(n) ==
  /\ n = Node(n.kind, n.token, n.sub)
  /\ n.sub \in Seq(Nodes) /\ n.token \in STRING
  /\ n.kind \in Expressions \cup Entries \cup Statements
  /\ n.kind \in Leaves \cup {"break", "continue"} => n.sub = <<>>
  /\ n.kind \in {"unary", "field", "entry_normal", "var"} \cup Increments => Len(n.sub) = 1
  /\ n.kind \in {"binop", "index", "entry_key", "entry_index", "assign", "while"} => Len(n.sub) = 2
  /\ n.kind \in Calls \cup MethodCalls => n.sub # <<>>
  /\ n.kind = "return" => Len(n.sub) <= 1
  /\ n.kind = "if" => Len(n.sub) \in 2..3
  /\ \A i \in DOMAIN n.sub : n.sub[i].kind \in PartKinds(n, i)
  /\ n.kind = "binop" => n.token \in Binary
  /\ n.kind = "unary" => n.token \in {"+", "-", "!"}
  /\ n.kind = "number" => n.token \in Digits
  /\ n.kind = "anon_func" => n.token \in Anonymous

ASSUME GrammarAssumption == \A n \in Nodes : Grammatical(n)

ASSUME CallFreeAssumption ==
  /\ CallFree \subseteq Nodes
  /\ \A n \in Nodes : n \in CallFree <=> /\ n.kind \notin Calls \cup MethodCalls
                                         /\ \A i \in DOMAIN n.sub : n.sub[i] \in CallFree

ASSUME ProgramAssumption ==
  \A p \in Programs :
    /\ "main" \in DOMAIN p \ Anonymous /\ Anonymous \subseteq DOMAIN p /\ DOMAIN p \subseteq STRING
    /\ \A f \in DOMAIN p : /\ p[f].params \in Seq(STRING) /\ p[f].body \in Seq(Nodes)
                           /\ \A i \in DOMAIN p[f].body : p[f].body[i].kind \in Statements

Value(kind, num, ref) == [kind |-> kind, num |-> num, ref |-> ref]
NumberValue(n) == Value("number", n, "none")
StringValue(s) == Value("string", 0, s)
null_value == Value("null", 0, "none")
NoValue == Value("none", 0, "none")
Digit == [d \in Digits |-> CASE d = "0" -> 0 [] d = "1" -> 1 [] OTHER -> 2]
Bool(b) == NumberValue(IF b THEN 1 ELSE 0)

VARIABLES program,      \* the converted functions
          stack,        \* the C stack
          scopes,       \* the global scope, the file's, then ir->scope_stack
          callstack,    \* ir->callstack, by name
          tables,       \* every table made, from keys to values
          loc,          \* ir->loc: the statement it is the location of
          returning,    \* what a return statement returns, while frames end
          out,          \* what print has printed
          status        \* "running", "finished", "error" after ir_error,
                        \* "aborted" by an assertion, "undefined" behaviour

vars == <<program, stack, scopes, callstack, tables, loc, returning, out, status>>

global_scope == 1
file_scope == 2

Bind(f, x, v) == [y \in DOMAIN f \cup {x} |-> IF y = x THEN v ELSE f[y]]

Frame(n, scope) == [node |-> n, scope |-> scope, vals |-> <<>>]

\* ir_run calls main with a table.
MainCall == Node("call", "none", <<Node("name", "main", <<>>), Node("table", "none", <<>>)>>)
Halt == Node("ir_run", "none", <<MainCall>>)

Init ==
  /\ program \in Programs
  /\ stack = <<Frame(Halt, file_scope)>>
  /\ scopes = << [parent |-> 0, symbols |-> [f \in Natives |-> Value("function", 0, f)]],
                 [parent |-> global_scope,
                  symbols |-> [f \in DOMAIN program \ Anonymous |-> Value("function", 0, f)]] >>
  /\ callstack = <<>> /\ tables = <<>> /\ out = <<>>
  /\ loc = Halt /\ returning = NoValue /\ status = "running"

----------------------------------------------------------------------------
(* Lookup.                                                                 *)
\* The nearest scope from s outwards that has the name, 0 if none has.
Holder(s, name) ==
  LET nearest[t \in 0..Len(scopes)] ==
        IF t = 0 \/ name \in DOMAIN scopes[t].symbols THEN t ELSE nearest[scopes[t].parent]
  IN  nearest[s]

scope_get(s, name) == scopes[Holder(s, name)].symbols[name]

\* Keys are values.  A table is no key, and hash_value has no case for a
\* function.
KeyFault(v) == CASE v.kind = "table" -> "error" [] v.kind = "function" -> "aborted" [] OTHER -> "ok"

table_get(t, key) == IF key \in DOMAIN tables[t.num] THEN tables[t.num][key] ELSE null_value

Truthy(v) == v.kind = "number" /\ v.num # 0

\* The parts of a node in the order the code evaluates them.  The target of
\* an assignment is evaluated before the value; ++ in an expression reads its
\* target, reads it again for the old value, and evaluates the parts of the
\* target once more when it assigns.  What Begin hands a frame comes first.
Parts(target) == IF target.kind = "name" THEN <<>> ELSE target.sub

\* Faulty: the value is evaluated before the target.
TargetAndValue_value_first(target, value) == <<value>> \o Parts(target)

TargetAndValue(target, value) == Parts(target) \o <<value>>

Subs(f) ==
  LET n == f.node
      v == f.vals
      target == n.sub[1]
      assignable == target.kind \in Assignable
  IN CASE n.kind = "assign" ->
            IF assignable THEN TargetAndValue(target, n.sub[2]) ELSE <<target>>
       [] n.kind \in Increments /\ ~assignable -> <<target>>
       [] n.kind = "pre" /\ assignable -> <<target>> \o Parts(target)
       [] n.kind = "post" /\ assignable -> <<target, target>> \o Parts(target)
       [] n.kind \in {"if", "while"} ->
            <<target>> \o (IF v = <<>> THEN <<>>
                           ELSE IF Truthy(v[1]) THEN <<n.sub[2]>>
                           ELSE IF Len(n.sub) = 3 THEN <<n.sub[3]>> ELSE <<>>)
       [] n.kind \in MethodCalls -> <<target, Node("method", n.token, <<>>)>> \o Tail(n.sub)
       [] n.kind \in {"table", "entry_index", "method"} -> <<n>> \o n.sub
       [] n.kind = "entry_normal" -> <<n, n>> \o n.sub
       [] n.kind = "entry_key" -> <<n>> \o n.sub
       [] OTHER -> n.sub

\* scope_set refuses a name that does not exist and one that a function has.
Rebindable(s, name) ==
  LET h == Holder(s, name)
  IN  h # 0 /\ scopes[h].symbols[name].kind # "function"

\* What is wrong with putting a value at a target: its parts begin at v[i].
PutFault(f, target, i) ==
  LET key == KeyFault(f.vals[i + 1])
  IN CASE target.kind = "name" -> IF Rebindable(f.scope, target.token) THEN "ok" ELSE "error"
       [] target.kind = "index" /\ key # "ok" -> key
       [] OTHER -> IF f.vals[i].kind = "table" THEN "ok" ELSE "undefined"

\* What is wrong with ++ or -- in an expression.
IncrementFault(f) ==
  LET n == f.node
      k == Len(f.vals)
  IN  IF k = 1 /\ n.sub[1].kind \notin Assignable THEN "error"
      ELSE IF k = 1 /\ n.token = "--" THEN "aborted"
      ELSE IF k = 1 /\ f.vals[1].kind # "number" THEN "error"
      ELSE IF k = Len(Subs(f)) THEN PutFault(f, n.sub[1], IF n.kind = "pre" THEN 2 ELSE 3)
      ELSE "ok"

\* What is wrong with a frame once it has the values it has: "ok" if nothing.
Fault(f) ==
  LET n == f.node
      v == f.vals
      k == Len(v)
      Unless(ok, what) == IF ok THEN "ok" ELSE what
  IN CASE n.kind = "name" -> Unless(Holder(f.scope, n.token) # 0, "error")
       [] n.kind = "binop" /\ k = 2 ->
            Unless(\/ v[1].kind = "number" /\ v[2].kind = "number"
                   \/ n.token \in {"==", "!="} /\ v[1].kind = "string" /\ v[2].kind = "string",
                   "error")
       [] n.kind = "unary" /\ k = 1 -> Unless(v[1].kind = "number", "error")
       [] n.kind = "call" /\ k >= 1 -> Unless(v[1].kind = "function", "aborted")
       [] n.kind = "call_stmt" /\ k >= 1 -> Unless(v[1].kind = "function", "error")
       [] n.kind \in MethodCalls /\ k = 1 -> Unless(v[1].kind = "table", "error")
       [] n.kind \in MethodCalls /\ k = 2 -> Unless(v[2].kind = "function", "error")
       [] n.kind \in {"index", "field"} /\ k = 1 -> Unless(v[1].kind = "table", "error")
       [] n.kind = "index" /\ k = 2 -> KeyFault(v[2])
       [] n.kind = "entry_index" /\ k = 3 -> KeyFault(v[2])
       [] n.kind = "entry_key" /\ k = 2 -> Unless(n.sub[1].kind \in {"name", "string"}, "error")
       [] n.kind \in Increments -> IncrementFault(f)
       [] n.kind = "assign" /\ k = Len(Subs(f)) ->
            IF n.sub[1].kind \notin Assignable THEN "error" ELSE PutFault(f, n.sub[1], 1)
       [] n.kind = "var" /\ k = 1 -> Unless(n.token \notin DOMAIN scopes[f.scope].symbols, "error")
       [] n.kind \in {"if", "while"} /\ k = 1 -> Unless(v[1].kind \in {"number", "null"}, "error")
       [] n.kind \in {"break", "continue"} -> "aborted"
       [] OTHER -> "ok"

----------------------------------------------------------------------------
(* Frames.                                                                 *)
top == Last(stack)
Running == status = "running" /\ returning = NoValue
Ready == Running /\ Fault(top) = "ok"
Complete(kinds) == Ready /\ top.node.kind \in kinds /\ Len(top.vals) = Len(Subs(top))

Receive(frames, v) == [frames EXCEPT ![Len(frames)].vals = Append(@, v)]
Deliver(v) == stack' = Receive(Front(stack), v)

\* A fault ends the program where it stands.
Fails ==
  /\ Running /\ Fault(top) # "ok"
  /\ status' = Fault(top)
  /\ UNCHANGED <<program, stack, scopes, callstack, tables, loc, returning, out>>

\* What a part is handed when it begins: a table constant its table, an entry
\* that table and the key it has without evaluating anything, a method the
\* value it is looked up in.
Begin(n) ==
  LET index == Cardinality({e \in 1..(Len(top.vals) - 1) : top.node.sub[e].kind = "entry_normal"})
  IN CASE n.kind = "table" -> <<Value("table", Len(tables) + 1, "none")>>
       [] n.kind = "entry_normal" -> <<top.vals[1], NumberValue(index)>>
       [] n.kind = "entry_key" -> <<top.vals[1], StringValue(n.sub[1].token)>>
       [] n.kind \in {"entry_index", "method"} -> <<top.vals[1]>>
       [] OTHER -> <<>>

\* How many values that are.
Handed(n) == CASE n.kind \in {"entry_normal", "entry_key"} -> 2
               [] n.kind \in {"table", "entry_index", "method"} -> 1
               [] OTHER -> 0

\* Faulty: a return statement leaves the location of the one before.
Located_but_return(n) == n.kind \in Statements \ {"return"}

\* eval_stmt sets ir->loc before it does anything else.
Located(n) == n.kind \in Statements

\* Evaluation of the next part begins.  A statement sets the location errors
\* are reported at; a block that is not empty has a scope of its own.
Descend ==
  /\ Ready /\ Len(top.vals) < Len(Subs(top))
  /\ LET n == Subs(top)[Len(top.vals) + 1]
         scoped == n.kind = "block" /\ n.sub # <<>>
         scope == IF scoped THEN Len(scopes) + 1 ELSE top.scope
     IN  /\ loc' = IF Located(n) THEN n ELSE loc
         /\ scopes' = IF scoped THEN Append(scopes, [parent |-> top.scope, symbols |-> <<>>])
                      ELSE scopes
         /\ tables' = IF n.kind = "table" THEN Append(tables, <<>>) ELSE tables
         /\ stack' = Append(stack, [Frame(n, scope) EXCEPT !.vals = Begin(n)])
  /\ UNCHANGED <<program, callstack, returning, out, status>>

----------------------------------------------------------------------------
(* eval_value.                                                             *)
Literal(n) == CASE n.kind = "null" -> null_value
                [] n.kind = "number" -> NumberValue(Digit[n.token])
                [] n.kind = "string" -> StringValue(n.token)
                [] n.kind = "anon_func" -> Value("function", 0, n.token)

eval_binop(op, a, b) ==
  LET x == a.num
      y == b.num
  IN CASE op = "+" -> NumberValue(x + y)  [] op = "-" -> NumberValue(x - y)
       [] op = "*" -> NumberValue(x * y)
       [] op = "<" -> Bool(x < y)         [] op = "<=" -> Bool(x <= y)
       [] op = ">" -> Bool(x > y)         [] op = ">=" -> Bool(x >= y)
       [] op = "==" -> Bool(a = b)        [] op = "!=" -> Bool(a # b)
       [] op = "&&" -> Bool(Truthy(a) /\ Truthy(b))
       [] op = "||" -> Bool(Truthy(a) \/ Truthy(b))

eval_unary(op, v) ==
  CASE op = "+" -> v [] op = "-" -> NumberValue(-v.num) [] op = "!" -> Bool(v.num = 0)

\* The value of an expression that changes nothing when it is evaluated.
Evaluated(f) ==
  LET n == f.node
      v == f.vals
  IN CASE n.kind = "name" -> scope_get(f.scope, n.token)
       [] n.kind = "binop" -> eval_binop(n.token, v[1], v[2])
       [] n.kind = "unary" -> eval_unary(n.token, v[1])
       [] n.kind = "index" -> table_get(v[1], v[2])
       [] n.kind \in {"field", "method"} -> table_get(v[1], StringValue(n.token))
       [] n.kind = "table" -> v[1]
       [] OTHER -> Literal(n)

eval_value ==
  /\ Complete({"name", "binop", "unary", "index", "field", "method", "table",
               "null", "number", "string", "anon_func"})
  /\ Deliver(Evaluated(top))
  /\ UNCHANGED <<program, scopes, callstack, tables, loc, returning, out, status>>

table_put(t, key, v) == tables' = [tables EXCEPT ![t.num] = Bind(@, key, v)]

eval_entry ==
  /\ Complete({"entry_normal", "entry_key", "entry_index"})
  /\ table_put(top.vals[1], top.vals[2], top.vals[3])
  /\ Deliver(NoValue)
  /\ UNCHANGED <<program, scopes, callstack, loc, returning, out, status>>

\* scope_set: the nearest scope that has the name gets the value.
scope_set(s, name, v) == scopes' = [scopes EXCEPT ![Holder(s, name)].symbols[name] = v]

\* do_assign, with the parts of the target from vals[i] on.
do_assign(target, i, v) ==
  LET t == top.vals[i]
  IN CASE target.kind = "name" -> scope_set(top.scope, target.token, v) /\ tables' = tables
       [] target.kind = "field" -> table_put(t, StringValue(target.token), v) /\ scopes' = scopes
       [] target.kind = "index" -> table_put(t, top.vals[i + 1], v) /\ scopes' = scopes

eval_incdec ==
  /\ Complete(Increments)
  /\ LET incremented == NumberValue(top.vals[1].num + 1)
         pre == top.node.kind = "pre"
     IN  /\ do_assign(top.node.sub[1], IF pre THEN 2 ELSE 3, incremented)
         /\ Deliver(IF pre THEN incremented ELSE top.vals[2])
  /\ UNCHANGED <<program, callstack, loc, returning, out, status>>

----------------------------------------------------------------------------
(* eval_stmt.                                                              *)
assign ==
  /\ Complete({"assign"})
  /\ do_assign(top.node.sub[1], 1, Last(top.vals))
  /\ Deliver(NoValue)
  /\ UNCHANGED <<program, callstack, loc, returning, out, status>>

var ==
  /\ Complete({"var"})
  /\ scopes' = [scopes EXCEPT ![top.scope].symbols = Bind(@, top.node.token, top.vals[1])]
  /\ Deliver(NoValue)
  /\ UNCHANGED <<program, callstack, tables, loc, returning, out, status>>

if ==
  /\ Complete({"if"})
  /\ Deliver(NoValue)
  /\ UNCHANGED <<program, scopes, callstack, tables, loc, returning, out, status>>

\* Faulty: a condition that fails does not end the loop.
while_without_break ==
  /\ Complete({"while"})
  /\ stack' = Append(Front(stack), [top EXCEPT !.vals = <<>>])
  /\ UNCHANGED <<program, scopes, callstack, tables, loc, returning, out, status>>

\* After the body the condition is evaluated again.
while ==
  /\ Complete({"while"})
  /\ IF Len(top.vals) = 1 THEN Deliver(NoValue)
     ELSE stack' = Append(Front(stack), [top EXCEPT !.vals = <<>>])
  /\ UNCHANGED <<program, scopes, callstack, tables, loc, returning, out, status>>

\* Faulty: an empty block, which pushed no scope, pops one.
pop_scope_always == scopes' = Front(scopes)

pop_scope == scopes' = IF top.node.sub = <<>> THEN scopes ELSE Front(scopes)

block ==
  /\ Complete({"block"})
  /\ pop_scope
  /\ Deliver(NoValue)
  /\ UNCHANGED <<program, callstack, tables, loc, returning, out, status>>

\* eval_stmt delivers true: the frames up to the function's body end one by
\* one, every block of them with its scope.
return ==
  /\ Complete({"return"})
  /\ returning' = IF top.vals = <<>> THEN null_value ELSE top.vals[1]
  /\ stack' = Front(stack)
  /\ UNCHANGED <<program, scopes, callstack, tables, loc, out, status>>

\* Faulty: a return leaves the scopes of the blocks it is in.
unwind_leaving_scopes ==
  /\ returning # NoValue /\ top.node.kind # "body"
  /\ stack' = Front(stack)
  /\ UNCHANGED <<program, scopes, callstack, tables, loc, returning, out, status>>

unwind ==
  /\ returning # NoValue /\ top.node.kind # "body"
  /\ IF top.node.kind = "block" THEN pop_scope ELSE scopes' = scopes
  /\ stack' = Front(stack)
  /\ UNCHANGED <<program, callstack, tables, loc, returning, out, status>>

----------------------------------------------------------------------------
(* call_function and eval_function.                                        *)
IsMethod == top.node.kind \in MethodCalls
Callee == IF IsMethod THEN top.vals[2] ELSE top.vals[1]
Arguments == IF IsMethod THEN RemoveAt(top.vals, 2) ELSE Tail(top.vals)
Calling == Complete(Calls \cup MethodCalls)
CallingNative(name) == Calling /\ Callee.ref = name
CallingNormal == Calling /\ Callee.ref \notin Natives
Callable == /\ Len(Arguments) = Len(program[Callee.ref].params)
            /\ program[Callee.ref].body # <<>> => IsInjective(program[Callee.ref].params)

print ==
  /\ CallingNative("print")
  /\ out' = out \o Arguments
  /\ stack' = Receive(stack, null_value)
  /\ UNCHANGED <<program, scopes, callstack, tables, loc, returning, status>>

len ==
  /\ CallingNative("len")
  /\ IF Len(Arguments) = 1 /\ Arguments[1].kind = "table"
     THEN /\ stack' = Receive(stack, NumberValue(Cardinality(DOMAIN tables[Arguments[1].num])))
          /\ UNCHANGED <<callstack, status>>
     ELSE status' = "error" /\ callstack' = Append(callstack, "len") /\ UNCHANGED stack
  /\ UNCHANGED <<program, scopes, tables, loc, returning, out>>

\* The wrong number of arguments, or two parameters of one name.
CallRefused ==
  /\ CallingNormal /\ ~Callable
  /\ callstack' = Append(callstack, Callee.ref) /\ status' = "error"
  /\ UNCHANGED <<program, stack, scopes, tables, loc, returning, out>>

CallEmpty ==
  /\ CallingNormal /\ Callable /\ program[Callee.ref].body = <<>>
  /\ stack' = Receive(stack, null_value)
  /\ UNCHANGED <<program, scopes, callstack, tables, loc, returning, out, status>>

Enter(parent) ==
  LET f == program[Callee.ref]
      args == Arguments
      given == {i \in DOMAIN args : TRUE}
      bound == [x \in {f.params[i] : i \in given} |-> args[CHOOSE i \in given : f.params[i] = x]]
  IN  /\ CallingNormal /\ Callable /\ f.body # <<>>
      /\ callstack' = Append(callstack, Callee.ref)
      /\ scopes' = Append(scopes, [parent |-> parent, symbols |-> bound])
      /\ stack' = Append(stack, Frame(Node("body", Callee.ref, f.body), Len(scopes) + 1))
      /\ UNCHANGED <<program, tables, loc, returning, out, status>>

\* Faulty: a function sees the variables of its caller.
CallFunction_in_caller == Enter(top.scope)

CallFunction == Enter(file_scope)

eval_function_ends(v) ==
  /\ scopes' = Front(scopes) /\ callstack' = Front(callstack)
  /\ returning' = NoValue
  /\ Deliver(v)
  /\ UNCHANGED <<program, tables, loc, out, status>>

FallsOffEnd == Complete({"body"}) /\ eval_function_ends(null_value)
Returns == returning # NoValue /\ top.node.kind = "body" /\ eval_function_ends(returning)

\* The call expression delivers what the call returned, the statement nothing.
call_returns ==
  /\ Ready /\ top.node.kind \in Calls \cup MethodCalls
  /\ Len(top.vals) = Len(Subs(top)) + 1
  /\ Deliver(IF top.node.kind \in {"call", "method_call"} THEN Last(top.vals) ELSE NoValue)
  /\ UNCHANGED <<program, scopes, callstack, tables, loc, returning, out, status>>

\* ir_run returns to main.
ir_run ==
  /\ Complete({"ir_run"})
  /\ status' = "finished"
  /\ UNCHANGED <<program, stack, scopes, callstack, tables, loc, returning, out>>

Next ==
  \/ Fails \/ Descend \/ eval_value \/ eval_entry \/ eval_incdec
  \/ assign \/ var \/ if \/ while \/ block \/ return \/ unwind
  \/ print \/ len \/ CallRefused \/ CallEmpty \/ CallFunction
  \/ FallsOffEnd \/ Returns \/ call_returns \/ ir_run

Spec == Init /\ [][Next]_vars
FairSpec == Spec /\ WF_vars(Next)

----------------------------------------------------------------------------
(* Properties.                                                             *)
Kinds == {"number", "string", "null", "table", "function", "none"}
IsValue(v) == /\ v.kind \in Kinds
              /\ v.kind = "table" => v.num \in DOMAIN tables
              /\ v.kind = "function" => v.ref \in DOMAIN program \cup Natives

\* Every value that is held refers to a table or function that exists, and
\* every frame runs in a scope that does.
TypeOK ==
  /\ \A i \in DOMAIN stack : /\ stack[i].scope \in DOMAIN scopes
                             /\ \A j \in DOMAIN stack[i].vals : IsValue(stack[i].vals[j])
  /\ \A s \in DOMAIN scopes : /\ scopes[s].parent \in 0..(s - 1)
                              /\ \A x \in DOMAIN scopes[s].symbols : IsValue(scopes[s].symbols[x])
  /\ \A t \in DOMAIN tables : \A k \in DOMAIN tables[t] : IsValue(k) /\ IsValue(tables[t][k])
  /\ IsValue(returning)
  /\ status \in {"running", "finished", "error", "aborted", "undefined"}

\* The scope stack holds the scopes of the blocks and functions being
\* executed, in order, and the call stack the functions, also while a return
\* ends them: push_scope and pop_scope, push_call and pop_call pair up on
\* every way out of eval_stmt, eval_function and call_function.  A call that
\* ends the program is still on the call stack, for the stack trace.
Owns(f) == f.node.kind \in {"body", "block"} /\ f.node.sub # <<>>
Owners == {i \in DOMAIN stack : Owns(stack[i])}
Bodies == {i \in DOMAIN stack : stack[i].node.kind = "body"}
Nesting(i) == Cardinality({j \in Bodies : j <= i})
IsCallStack(calls) == /\ Len(calls) = Cardinality(Bodies)
                      /\ \A i \in Bodies : calls[Nesting(i)] = stack[i].node.token

FramesBalanced ==
  /\ {stack[i].scope : i \in Owners} = (file_scope + 1)..Len(scopes)
  /\ \A i, j \in Owners : i < j => stack[i].scope < stack[j].scope
  /\ \/ IsCallStack(callstack)
     \/ status = "error" /\ callstack # <<>> /\ IsCallStack(Front(callstack))

\* Between any two steps: what is held exists, and every scope and call on the
\* stacks belongs to something being executed.
Inv == TypeOK /\ FramesBalanced

\* While a function is being executed, no variable of its callers changes:
\* a function sees its own scopes, the file's and the global one.
Entered == {stack[i].scope : i \in Bodies}

CallersUntouched ==
  [][\A s \in DOMAIN scopes :
       (\E e \in Entered : s > file_scope /\ s < e) => scopes'[s] = scopes[s]]_vars

\* ir_error reports the statement that failed, provided that nothing called
\* by it has come back and it is no loop: ir->loc is not set back after a
\* call or after the body of a loop.  Behind a frame are the parts it has
\* evaluated, not what it was handed; the look-up of a method calls nothing.
Behind(f) == {Subs(f)[i] : i \in (Handed(f.node) + 1)..Len(f.vals) \cap DOMAIN Subs(f)}
             \ {Node("method", f.node.token, <<>>)}

LocationOfError ==
  status = "error" =>
    \A i \in DOMAIN stack :
      /\ stack[i].node.kind \in Statements \ {"while"}
      /\ \A j \in i..Len(stack) : /\ j > i => stack[j].node.kind \notin Statements
                                  /\ Behind(stack[j]) \subseteq CallFree
      => loc = stack[i].node

\* A program without endless loops or recursion ends: the evaluator returns
\* from every call and leaves every loop whose condition comes to fail.
Ends == <>(status # "running")

=============================================================================
