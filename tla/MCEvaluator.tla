---------------------------- MODULE MCEvaluator ----------------------------
(***************************************************************************)
(* Small programs for Evaluator: one statement of every form, around which *)
(* main declares a table t, a number n and a function value f.             *)
(***************************************************************************)
EXTENDS Conversion

N(kind, token) == Node(kind, token, <<>>)
Num(k) == N("number", k)
NameOf(x) == N("name", x)
Call(f, args) == Node("call", "", <<NameOf(f)>> \o args)
Mark(k, e) == Call("p", <<Num(k), e>>)
Op(op, a, b) == Node("binop", op, <<a, b>>)
Field(e, x) == Node("field", x, <<e>>)
Index(e, i) == Node("index", "", <<e, i>>)
Inc(kind, e) == Node(kind, "++", <<e>>)
Method(e, x, args) == Node("method_call", x, <<e>> \o args)
Assign(t, e) == Node("assign", "=", <<t, e>>)
Var(x, e) == Node("var", x, <<e>>)
Return(e) == Node("return", "", <<e>>)
Block(ss) == Node("block", "", ss)
If(e, b) == Node("if", "", <<e, b>>)
While(e, b) == Node("while", "", <<e, b>>)
Fn(params, body) == [params |-> params, body |-> body]
IsStatement(n) == n.kind \in {"call", "method_call", "pre", "post"}

\* p(k, v) prints k and returns v; peek assigns to the variable n its caller
\* has and it has not, fails reads it; early returns out of two blocks; anon is the function
\* expression; twins has two parameters of one name.
Functions ==
  [p |-> Fn(<<"k", "v">>, <<Call("print", <<NameOf("k")>>), Return(NameOf("v"))>>),
   peek |-> Fn(<<>>, <<Var("m", Num("1")), Assign(NameOf("n"), NameOf("m"))>>),
   fails |-> Fn(<<>>, <<Var("m", Num("1")), If(Num("1"), Block(<<>>)), Return(NameOf("n"))>>),
   early |-> Fn(<<"a">>, <<While(Num("1"), Block(<<Var("b", NameOf("a")),
                           If(NameOf("b"), Block(<<Return(Inc("post", NameOf("b")))>>)),
                           Return(NameOf("b"))>>))>>),
   empty |-> Fn(<<>>, <<>>),
   twins |-> Fn(<<"a", "a">>, <<Return(NameOf("a"))>>),
   anon |-> Fn(<<"self", "x">>, <<Node("return", "", <<>>)>>)]

Before == <<Var("t", Node("table", "", <<
               Node("entry_key", "=", <<NameOf("x"), Num("1")>>),
               Node("entry_normal", "", <<Num("2")>>),
               Node("entry_index", "", <<Num("1"), Num("0")>>),
               Node("entry_key", "=", <<N("string", "m"), N("anon_func", "anon")>>)>>)),
            Node("var", "n", <<>>), Assign(NameOf("n"), Num("1")), Var("f", NameOf("p"))>>

Main(ss) == [x \in DOMAIN Functions \cup {"main"} |->
               IF x = "main" THEN Fn(<<"args">>, Before \o ss) ELSE Functions[x]]

T == NameOf("t")
Operands == {Num("0"), Num("2"), NameOf("n"), T, N("null", ""), N("string", "m")}

\* Expressions in which every operand prints a mark.
Marked == {Mark("1", e) : e \in Operands}
Marked2 == {Mark("2", e) : e \in {Num("1"), NameOf("n"), T, N("string", "x")}}
Targets == {NameOf("n")} \cup {Field(e, "x") : e \in {T, Mark("1", T)}}
           \cup {Index(Mark("1", T), k) : k \in Marked2}

Increased == {Inc(k, e) : k \in {"pre", "post"}, e \in Targets \cup {Mark("1", T)}}

Simple ==
  Operands \cup Marked \cup Targets
  \cup {Op(o, a, b) : o \in {"+", "<", "==", "&&", "||"}, a \in Marked, b \in Marked2}
  \cup {Node("unary", o, <<a>>) : o \in {"-", "!"}, a \in Marked}
  \cup Increased
  \cup {Method(a, x, <<b>>) : a \in Marked, x \in {"m", "x"}, b \in Marked2}
  \cup {Node("table", "", <<Node("entry_index", "", <<a, b>>), Node("entry_normal", "", <<b>>)>>) :
          a \in Marked, b \in Marked2}
  \cup {Call("empty", <<>>), Call("early", <<Mark("1", Num("2"))>>), Call("len", <<T>>), Call("len", <<Num("1")>>),
        Call("peek", <<>>), Call("fails", <<>>), Call("twins", <<Num("1"), Num("2")>>), Call("p", <<Num("1")>>),
        Node("call", "", <<N("anon_func", "anon"), Num("1"), Num("2")>>),
        Call("f", <<Num("2"), T>>)}

\* Targets of three forms with every expression, every target with some.
Straight == {Assign(t, e) : t \in {NameOf("n"), Field(Mark("1", T), "x"), Index(Mark("1", T), Mark("2", Num("1")))},
                            e \in Simple}
            \cup {Assign(t, e) : t \in Targets \cup {NameOf("p"), NameOf("f"), NameOf("u"), Mark("1", T)},
                                 e \in Operands \cup Marked \cup Increased}
            \cup {e \in Simple : IsStatement(e)}
            \cup {Var(x, e) : x \in {"n", "u"}, e \in Marked}

Branching ==
  {If(e, b) : e \in Marked \cup {NameOf("n")}, b \in {Block(<<>>), Block(<<Var("n", Num("2")), Assign(NameOf("f"), T)>>)}}
  \cup {Node("if", "", <<e, Block(<<Return(e)>>), Block(<<Node("break", "", <<>>)>>)>>) : e \in Marked}
  \cup {While(NameOf("n"), Block(<<Assign(NameOf("n"), e)>>)) : e \in {N("null", ""), Num("0"), T}}
  \cup {While(Op("<", NameOf("n"), Num("2")), Block(b)) :
           b \in {<<Inc("post", NameOf("n")), Var("n", Num("0"))>>, <<Inc("pre", NameOf("n")), Call("peek", <<>>)>>}}
  \cup {While(Num("1"), Block(<<Inc("post", Field(T, "x")), If(Op("<", NameOf("n"), Field(T, "x")), Block(<<Return(T)>>))>>))}
  \cup {If(Num("1"), Block(<<s, Return(Call("early", <<Num("2")>>))>>)) : s \in {Call("early", <<Num("0")>>),
          Inc("pre", NameOf("n")), Assign(Field(NameOf("n"), "x"), T)}}

\* -- in an expression, and a call of a number: both end in an assertion.
Aborting == {Assign(NameOf("n"), Node(k, "--", <<e>>)) : k \in {"pre", "post"}, e \in Targets}
            \cup {Assign(NameOf("n"), Call("n", <<e>>)) : e \in Operands}

Alone == Straight \cup Branching \cup Aborting

AllPrograms == {Converted(Main(<<s>>)) : s \in Alone} \cup {Converted(Main(<<s, t>>)) : s, t \in Branching}

AnonymousFunctions == {"anon"}

\* Every node of every program, and those in which nothing is called.
RECURSIVE Below(_)
Below(n) == {n} \cup UNION {Below(n.sub[i]) : i \in DOMAIN n.sub}

Texts == Alone \cup UNION {ToSet(f.body) : f \in {Main(<<>>)[x] : x \in DOMAIN Main(<<>>)}}
AllNodes == {n : n \in UNION {Below(convert_node_to_stmt(s)) : s \in Texts}}

RECURSIVE Quiet(_)
Quiet(n) == n.kind \notin Calls \cup MethodCalls /\ \A i \in DOMAIN n.sub : Quiet(n.sub[i])
QuietNodes == {n \in AllNodes : Quiet(n)}

MCPrograms == AllPrograms
MCNodes == AllNodes
MCCallFree == QuietNodes
=============================================================================
