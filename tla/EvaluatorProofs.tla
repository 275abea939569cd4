--------------------------- MODULE EvaluatorProofs ---------------------------
(***************************************************************************)
(* Proofs about Evaluator, for any programs the grammar allows: the scopes *)
(* and the call stack are those of what is being executed, the variables   *)
(* of callers stay as they are, and errors are reported where they are.    *)
(*                                                                         *)
(* A frame of the C stack is known by its node, the values of its parts    *)
(* and the frame before it.  For each action the lemmas say what it does   *)
(* to the frames, to the scopes and to the values that are held.           *)
(***************************************************************************)
EXTENDS Evaluator, Induction, SequenceTheorems

-----------------------------------------------------------------------------
(***************************************************************************)
(* The inductive invariant.                                                *)
(***************************************************************************)
\* The nodes of the programs, and those of the call of main.
Known == Nodes \cup {MainCall, Node("name", "main", <<>>), Node("table", "none", <<>>)}
NodeKinds == Expressions \cup Entries \cup Statements \cup {"ir_run", "body", "method"}

\* The strings: that these literals are among them is not known to the provers.
Names == STRING \cup Natives \cup {"none", "main"}
NodeType == [kind : NodeKinds, token : Names, sub : Seq(Known)]

\* The values that refer to functions of p and to the first n tables.
AnyValue == [kind : Kinds, num : Int, ref : Names]
ValuesOf(p, n) == {v \in AnyValue : /\ v.kind = "table" => v.num \in 1..n
                                    /\ v.kind = "function" => v.ref \in DOMAIN p \cup Natives}
Held == ValuesOf(program, Len(tables))

\* What frames, scopes and tables are when the values in them are those of H.
FramesOf(H) == [node : NodeType, scope : Nat, vals : Seq(H)]
SymbolsOf(H) == UNION {[X -> H] : X \in SUBSET Names}
ScopesOf(H) == [parent : Nat, symbols : SymbolsOf(H)]
TablesOf(H) == {t \in UNION {[X -> H] : X \in SUBSET H} : IsFiniteSet(DOMAIN t)}

Typed ==
  /\ program \in Programs
  /\ stack \in Seq(FramesOf(Held)) /\ stack # <<>>
  /\ scopes \in Seq(ScopesOf(Held))
  /\ callstack \in Seq(Names)
  /\ tables \in Seq(TablesOf(Held))
  /\ returning \in Held
  /\ status \in {"running", "finished", "error", "aborted", "undefined"}

\* What a frame can be of.
IsMethodNode(n) == n.kind = "method" /\ n.sub = <<>>
IsBody(n) == n.kind = "body" /\ n.token \in DOMAIN program /\ n.sub = program[n.token].body /\ n.sub # <<>>
Shaped(n) == n \in Known \/ IsMethodNode(n) \/ IsBody(n)

\* What the values of a frame have been found to be when it went on.
Checked(f, waits) ==
  /\ f.node.kind = "index" /\ (Len(f.vals) >= 2 \/ (Len(f.vals) = 1 /\ waits)) => f.vals[1].kind = "table"
  /\ f.node.kind \in MethodCalls /\ (Len(f.vals) >= 3 \/ (Len(f.vals) = 2 /\ waits))
       => f.vals[2].kind = "function"
  /\ f.node.kind = "method" => f.vals[1].kind = "table"

Framed ==
  /\ stack[1].node = Halt /\ stack[1].scope = file_scope
  /\ \A i \in DOMAIN stack :
       /\ i > 1 => Shaped(stack[i].node)
       /\ Handed(stack[i].node) <= Len(stack[i].vals)
       /\ Checked(stack[i], i < Len(stack))

\* The scope of a frame is that of the one before it, or the next one.
Scoped ==
  /\ Len(scopes) = stack[Len(stack)].scope
  /\ \A i \in DOMAIN stack :
       i > 1 => stack[i].scope = IF Owns(stack[i]) THEN stack[i - 1].scope + 1 ELSE stack[i - 1].scope

\* A function's scope is in the file scope, a block's in the one before it.
Parented ==
  /\ scopes[1].parent = 0 /\ scopes[2].parent = global_scope
  /\ \A i \in Owners :
       scopes[stack[i].scope].parent = IF i \in Bodies THEN file_scope ELSE stack[i].scope - 1

\* Statements are executed in functions only, so a return has one to end.
InBody(i) == \E j \in Bodies : j < i
Inside == \A i \in DOMAIN stack : stack[i].node.kind \in Statements => InBody(i)
Unwinding == returning # NoValue => Bodies # {} /\ status = "running"

Called == \/ IsCallStack(callstack)
          \/ status = "error" /\ callstack # <<>> /\ IsCallStack(Front(callstack))

IInv == Typed /\ Framed /\ Scoped /\ Parented /\ Inside /\ Unwinding /\ Called

-----------------------------------------------------------------------------
(***************************************************************************)
(* Sequences.                                                              *)
(***************************************************************************)
LEMMA FrontIs ==
  ASSUME NEW S, NEW s \in Seq(S), s # <<>>
  PROVE  /\ Front(s) \in Seq(S) /\ Len(Front(s)) = Len(s) - 1
         /\ \A i \in 1..(Len(s) - 1) : Front(s)[i] = s[i]
         /\ Len(s) \in Nat \ {0} /\ Last(s) = s[Len(s)] /\ Last(s) \in S
  <1>1. Len(s) \in Nat \ {0} /\ s[Len(s)] \in S
    OBVIOUS
  <1>2. Front(s) = [i \in 1..(Len(s) - 1) |-> s[i]]
    BY <1>1 DEF Front
  <1>3. \A i \in 1..(Len(s) - 1) : s[i] \in S
    OBVIOUS
  <1>4. Front(s) \in Seq(S) /\ Len(Front(s)) = Len(s) - 1
    BY <1>1, <1>2, <1>3
  <1>5. QED
    BY <1>1, <1>2, <1>4 DEF Last

LEMMA AppendIs ==
  ASSUME NEW S, NEW s \in Seq(S), NEW e \in S
  PROVE  /\ Append(s, e) \in Seq(S) /\ Len(Append(s, e)) = Len(s) + 1
         /\ \A i \in 1..Len(s) : Append(s, e)[i] = s[i]
         /\ Append(s, e)[Len(s) + 1] = e
         /\ Append(s, e) # <<>>
  OBVIOUS

\* A frame with other values.
LEMMA OtherVals ==
  ASSUME NEW H, NEW K, NEW f \in FramesOf(H), NEW w \in Seq(K)
  PROVE  /\ [f EXCEPT !.vals = w] \in FramesOf(K) /\ [f EXCEPT !.vals = w].node = f.node
         /\ [f EXCEPT !.vals = w].scope = f.scope /\ [f EXCEPT !.vals = w].vals = w
  <1>1. PICK n \in NodeType, s \in Nat, v \in Seq(H) : f = [node |-> n, scope |-> s, vals |-> v]
    BY DEF FramesOf
  <1>2. [f EXCEPT !.vals = w] = [node |-> n, scope |-> s, vals |-> w]
    BY <1>1
  <1>3. [node |-> n, scope |-> s, vals |-> w] \in FramesOf(K)
    BY DEF FramesOf
  <1>4. QED
    BY <1>1, <1>2, <1>3

LEMMA OneMore ==
  ASSUME NEW H, NEW f \in FramesOf(H), NEW v \in H
  PROVE  /\ [f EXCEPT !.vals = Append(@, v)] \in FramesOf(H)
         /\ [f EXCEPT !.vals = Append(@, v)].node = f.node
         /\ [f EXCEPT !.vals = Append(@, v)].scope = f.scope
         /\ [f EXCEPT !.vals = Append(@, v)].vals = Append(f.vals, v)
  <1> DEFINE w == Append(f.vals, v)
  <1>1. f.vals \in Seq(H)
    BY DEF FramesOf
  <1>2. w \in Seq(H)
    BY <1>1
  <1>3. [f EXCEPT !.vals = Append(@, v)] = [f EXCEPT !.vals = w]
    OBVIOUS
  <1> HIDE DEF w
  <1>4. [f EXCEPT !.vals = w] \in FramesOf(H) /\ [f EXCEPT !.vals = w].node = f.node
         /\ [f EXCEPT !.vals = w].scope = f.scope /\ [f EXCEPT !.vals = w].vals = w
    BY <1>2, OtherVals
  <1>5. QED
    BY <1>3, <1>4 DEF w

\* The last frame gets one value more, and nothing else changes.
LEMMA ReceiveIs ==
  ASSUME NEW H, NEW s \in Seq(FramesOf(H)), s # <<>>, NEW v \in H
  PROVE  /\ Receive(s, v) \in Seq(FramesOf(H)) /\ Len(Receive(s, v)) = Len(s) /\ Receive(s, v) # <<>>
         /\ \A i \in 1..Len(s) : /\ Receive(s, v)[i].node = s[i].node
                                 /\ Receive(s, v)[i].scope = s[i].scope
         /\ \A i \in 1..(Len(s) - 1) : Receive(s, v)[i] = s[i]
         /\ Receive(s, v)[Len(s)].vals = Append(s[Len(s)].vals, v)
  <1> DEFINE f == s[Len(s)]
             g == [f EXCEPT !.vals = Append(@, v)]
  <1>1. Len(s) \in Nat \ {0} /\ Len(s) \in 1..Len(s) /\ f \in FramesOf(H)
    OBVIOUS
  <1>2. g \in FramesOf(H) /\ g.node = f.node /\ g.scope = f.scope /\ g.vals = Append(f.vals, v)
    BY <1>1, OneMore
  <1>3. Receive(s, v) = [s EXCEPT ![Len(s)] = g]
    BY DEF Receive
  <1> HIDE DEF g
  <1>4. /\ Receive(s, v) \in Seq(FramesOf(H)) /\ Len(Receive(s, v)) = Len(s)
        /\ \A i \in 1..Len(s) : Receive(s, v)[i] = IF i = Len(s) THEN g ELSE s[i]
    BY <1>1, <1>2, <1>3, ExceptSeq
  <1>5. Receive(s, v) # <<>>
    BY <1>1, <1>4
  <1> QED
    BY <1>1, <1>2, <1>4, <1>5

\* More values: the frames, scopes and tables are still frames, scopes and
\* tables.
LEMMA MoreHeld ==
  ASSUME NEW H, NEW K, H \subseteq K
  PROVE  /\ FramesOf(H) \subseteq FramesOf(K) /\ ScopesOf(H) \subseteq ScopesOf(K)
         /\ TablesOf(H) \subseteq TablesOf(K)
         /\ Seq(FramesOf(H)) \subseteq Seq(FramesOf(K)) /\ Seq(ScopesOf(H)) \subseteq Seq(ScopesOf(K))
         /\ Seq(TablesOf(H)) \subseteq Seq(TablesOf(K))
  <1>1. Seq(H) \subseteq Seq(K)
    BY SeqMonotonic
  <1>2. FramesOf(H) \subseteq FramesOf(K)
    BY <1>1 DEF FramesOf
  <1>3. SymbolsOf(H) \subseteq SymbolsOf(K)
    <2>1. ASSUME NEW t \in SymbolsOf(H) PROVE t \in SymbolsOf(K)
      <3>1. PICK X \in SUBSET Names : t \in [X -> H]
        BY DEF SymbolsOf
      <3>2. t \in [X -> K]
        BY <3>1
      <3>3. QED
        BY <3>2 DEF SymbolsOf
    <2>2. QED
      BY <2>1
  <1>4. ScopesOf(H) \subseteq ScopesOf(K)
    BY <1>3 DEF ScopesOf
  <1>5. TablesOf(H) \subseteq TablesOf(K)
    <2>1. ASSUME NEW t \in TablesOf(H) PROVE t \in TablesOf(K)
      <3>1. PICK X \in SUBSET H : t \in [X -> H]
        BY DEF TablesOf
      <3>2. X \in SUBSET K /\ t \in [X -> K] /\ IsFiniteSet(DOMAIN t)
        BY <3>1 DEF TablesOf
      <3>3. QED
        BY <3>2 DEF TablesOf
    <2>2. QED
      BY <2>1
  <1>6. QED
    BY <1>2, <1>4, <1>5, SeqMonotonic

LEMMA MoreTables ==
  ASSUME NEW p, NEW m \in Nat, NEW n \in Nat, m <= n
  PROVE  ValuesOf(p, m) \subseteq ValuesOf(p, n)
  BY DEF ValuesOf

\* Binding a name gives symbols, putting an entry a table.
LEMMA BindIs ==
  ASSUME NEW H, NEW f \in SymbolsOf(H), NEW x \in Names, NEW v \in H
  PROVE  Bind(f, x, v) \in SymbolsOf(H)
  <1>1. PICK X \in SUBSET Names : f \in [X -> H]
    BY DEF SymbolsOf
  <1>2. Bind(f, x, v) \in [X \cup {x} -> H] /\ X \cup {x} \in SUBSET Names
    BY <1>1 DEF Bind
  <1>3. QED
    BY <1>2 DEF SymbolsOf

LEMMA PutIs ==
  ASSUME NEW H, NEW f \in TablesOf(H), NEW x \in H, NEW v \in H
  PROVE  Bind(f, x, v) \in TablesOf(H)
  <1>1. PICK X \in SUBSET H : f \in [X -> H]
    BY DEF TablesOf
  <1>2. Bind(f, x, v) \in [X \cup {x} -> H] /\ X \cup {x} \in SUBSET H
    BY <1>1 DEF Bind
  <1>3. IsFiniteSet(X \cup {x}) /\ DOMAIN Bind(f, x, v) = X \cup {x}
    <2>1. IsFiniteSet(X)
      BY <1>1 DEF TablesOf
    <2>2. QED
      BY <2>1, <1>1, FS_AddElement DEF Bind
  <1>4. QED
    BY <1>2, <1>3 DEF TablesOf

-----------------------------------------------------------------------------
(***************************************************************************)
(* Nodes and their parts.                                                  *)
(***************************************************************************)
\* What the grammar says, with the call of main among the nodes.
Fits(n) ==
  /\ n = Node(n.kind, n.token, n.sub)
  /\ n.sub \in Seq(Known) /\ n.token \in Names
  /\ n.kind \in Expressions \cup Entries \cup Statements
  /\ n.kind \in Leaves \cup {"break", "continue"} => n.sub = <<>>
  /\ n.kind \in {"unary", "field", "entry_normal", "var"} \cup Increments => Len(n.sub) = 1
  /\ n.kind \in {"binop", "index", "entry_key", "entry_index", "assign", "while"} => Len(n.sub) = 2
  /\ n.kind \in Calls \cup MethodCalls => n.sub # <<>>
  /\ n.kind = "return" => Len(n.sub) <= 1
  /\ n.kind = "if" => Len(n.sub) \in 2..3
  /\ \A i \in DOMAIN n.sub : n.sub[i].kind \in PartKinds(n, i)
  /\ n.kind = "binop" => n.token \in Binary
  /\ n.kind = "unary" => n.token \in {"+", "-", "!"}
  /\ n.kind = "number" => n.token \in Digits
  /\ n.kind = "anon_func" => n.token \in Anonymous

LEMMA NodeIs ==
  ASSUME NEW k, NEW t, NEW s
  PROVE  Node(k, t, s).kind = k /\ Node(k, t, s).token = t /\ Node(k, t, s).sub = s
  BY DEF Node

\* A name and an empty table fit the grammar.
LEMMA LeafFits ==
  ASSUME NEW n, n.kind \in {"name", "table"}, n.sub = <<>>, n.token \in Names,
         n = Node(n.kind, n.token, n.sub)
  PROVE  Fits(n)
  <1>1. n.sub \in Seq(Known) /\ DOMAIN n.sub = {} /\ Len(n.sub) = 0
    OBVIOUS
  <1>2. n.kind \in Expressions \cup Entries \cup Statements
    BY DEF Expressions, Leaves
  <1>3. n.kind \notin {"unary", "field", "entry_normal", "var"} \cup Increments
    BY DEF Increments
  <1>4. n.kind \notin {"binop", "index", "entry_key", "entry_index", "assign", "while"}
    OBVIOUS
  <1>5. n.kind \notin Calls \cup MethodCalls
    BY DEF Calls, MethodCalls
  <1>6. n.kind \notin {"return", "if", "binop", "unary", "number", "anon_func"}
    OBVIOUS
  <1>7. QED
    BY <1>1, <1>2, <1>3, <1>4, <1>5, <1>6 DEF Fits

LEMMA KnownFits == \A n \in Known : Fits(n)
  <1>1. Seq(Nodes) \subseteq Seq(Known)
    BY SeqMonotonic DEF Known
  <1>2. ASSUME NEW n \in Nodes PROVE Fits(n)
    BY <1>1, <1>2, GrammarAssumption DEF Grammatical, Fits, Names
  <1> DEFINE a == Node("name", "main", <<>>)
             t == Node("table", "none", <<>>)
  <1>3. a.kind = "name" /\ a.token = "main" /\ a.sub = <<>> /\ t.kind = "table" /\ t.token = "none" /\ t.sub = <<>>
    BY NodeIs
  <1>4. a \in Known /\ t \in Known /\ MainCall \in Known /\ a = Node(a.kind, a.token, a.sub) /\ t = Node(t.kind, t.token, t.sub)
    BY <1>3 DEF Known
  <1> HIDE DEF a, t
  <1>5. MainCall.kind = "call" /\ MainCall.token = "none" /\ MainCall.sub = <<a, t>>
    BY NodeIs DEF MainCall, a, t
  <1>6. Fits(a)
    BY <1>3, <1>4, LeafFits DEF Names
  <1>7. Fits(t)
    BY <1>3, <1>4, LeafFits DEF Names
  <1>8. Fits(MainCall)
    <2>1. MainCall.sub \in Seq(Known) /\ MainCall.sub # <<>> /\ DOMAIN MainCall.sub = 1..2
      BY <1>4, <1>5
    <2>2. ASSUME NEW i \in 1..2 PROVE MainCall.sub[i].kind \in PartKinds(MainCall, i)
      <3>1. MainCall.sub[i] = a \/ MainCall.sub[i] = t
        BY <1>5
      <3>2. MainCall.sub[i].kind \in Expressions
        BY <1>3, <3>1 DEF Expressions, Leaves
      <3>3. QED
        BY <1>5, <3>2 DEF PartKinds
    <2>3. MainCall = Node(MainCall.kind, MainCall.token, MainCall.sub)
      BY <1>5 DEF MainCall, a, t
    <2>4. QED
      <3>1. MainCall.kind \in Expressions
        BY <1>5 DEF Expressions
      <3>2. /\ MainCall.kind \notin Leaves \cup {"break", "continue"}
            /\ MainCall.kind \notin {"unary", "field", "entry_normal", "var"} \cup Increments
        BY <1>5 DEF Leaves, Increments
      <3>3. MainCall.kind \notin {"binop", "index", "entry_key", "entry_index", "assign", "while",
                                  "return", "if", "unary", "number", "anon_func"}
        BY <1>5
      <3>4. MainCall.token \in Names
        BY <1>5 DEF Names
      <3>5. QED
        BY <2>1, <2>2, <2>3, <3>1, <3>2, <3>3, <3>4 DEF Fits
  <1>9. QED
    BY <1>2, <1>6, <1>7, <1>8 DEF Known, a, t

LEMMA KnownAreNodes == Known \subseteq NodeType
  <1>1. ASSUME NEW n \in Known PROVE n \in NodeType
    <2>1. n = Node(n.kind, n.token, n.sub) /\ n.kind \in NodeKinds /\ n.token \in Names /\ n.sub \in Seq(Known)
      BY KnownFits DEF Fits, NodeKinds
    <2>2. QED
      BY <2>1 DEF NodeType, Node
  <1>2. QED
    BY <1>1

\* The kinds of expressions, entries, statements and of what is none of these.
LEMMA KindsApart ==
  /\ Expressions \cap Statements = {} /\ Expressions \cap Entries = {} /\ Entries \cap Statements = {}
  /\ \A k \in Expressions \cup Entries \cup Statements : k \notin {"ir_run", "body", "method"}
  <1>1. Leaves \cap Statements = {} /\ Leaves \cap Entries = {} /\ \A k \in Leaves : k \notin {"ir_run", "body", "method"}
    BY DEF Leaves, Statements, Entries
  <1>2. Increments \cap Statements = {} /\ Increments \cap Entries = {} /\ \A k \in Increments : k \notin {"ir_run", "body", "method"}
    BY DEF Increments, Statements, Entries
  <1> DEFINE E == {"binop", "unary", "index", "field", "table", "call", "method_call"}
  <1>3. E \cap Statements = {} /\ E \cap Entries = {} /\ \A k \in E : k \notin {"ir_run", "body", "method"}
    BY DEF Statements, Entries
  <1>4. Entries \cap Statements = {} /\ \A k \in Entries \cup Statements : k \notin {"ir_run", "body", "method"}
    BY DEF Statements, Entries
  <1>5. Expressions = Leaves \cup Increments \cup E
    BY DEF Expressions
  <1>6. QED
    BY <1>1, <1>2, <1>3, <1>4, <1>5

Exprs == {n \in Known : n.kind \in Expressions}
MethodNodes == {n \in NodeType : IsMethodNode(n)}
PartNodes == Known \cup MethodNodes

LEMMA PartsAre ==
  ASSUME NEW t \in Exprs, t.kind \in Assignable
  PROVE  /\ Parts(t) \in Seq(Exprs)
         /\ t.kind = "name" => Parts(t) = <<>>
         /\ t.kind = "field" => Len(Parts(t)) = 1
         /\ t.kind = "index" => Len(Parts(t)) = 2
  <1>1. CASE t.kind = "name"
    BY <1>1 DEF Parts
  <1>2. CASE t.kind \in {"field", "index"}
    <2>1. Fits(t)
      BY KnownFits DEF Exprs
    <2>2. ASSUME NEW i \in DOMAIN t.sub PROVE t.sub[i].kind \in Expressions /\ t.sub[i] \in Known
      <3>1. PartKinds(t, i) = Expressions
        BY <1>2 DEF PartKinds
      <3>2. QED
        BY <2>1, <3>1 DEF Fits
    <2>3. t.sub \in Seq(Known)
      BY <2>1 DEF Fits
    <2>4. t.sub \in Seq(Exprs)
      BY <2>2, <2>3 DEF Exprs
    <2>5. Parts(t) = t.sub
      BY <1>2 DEF Parts
    <2>6. (t.kind = "field" => Len(t.sub) = 1) /\ (t.kind = "index" => Len(t.sub) = 2)
      BY <2>1 DEF Fits
    <2>7. QED
      BY <1>2, <2>4, <2>5, <2>6
  <1>3. QED
    BY <1>1, <1>2 DEF Assignable

\* The parts of an expression, an entry or a simple statement.
LEMMA FirstPart ==
  ASSUME NEW n \in Known
  PROVE  /\ n.sub # <<>> /\ n.kind \notin {"table", "block"} => n.sub[1] \in Exprs
         /\ n.kind \notin {"table", "block", "if", "while"} => n.sub \in Seq(Exprs)
  <1>1. Fits(n) /\ n.sub \in Seq(Known)
    BY KnownFits DEF Fits
  <1>2. ASSUME NEW i \in DOMAIN n.sub, n.kind \notin {"table", "block"},
               n.kind \in {"if", "while"} => i = 1
        PROVE  n.sub[i] \in Exprs
    <2>1. PartKinds(n, i) = Expressions
      BY <1>2 DEF PartKinds
    <2>2. n.sub[i].kind \in PartKinds(n, i)
      BY <1>1 DEF Fits
    <2>3. QED
      BY <1>1, <2>1, <2>2 DEF Exprs
  <1>3. ASSUME n.sub # <<>>, n.kind \notin {"table", "block"}
        PROVE  n.sub[1] \in Exprs
    <2>1. 1 \in DOMAIN n.sub
      BY <1>1, <1>3
    <2>2. QED
      BY <1>2, <1>3, <2>1
  <1>4. ASSUME n.kind \notin {"table", "block", "if", "while"}
        PROVE  n.sub \in Seq(Exprs)
    BY <1>1, <1>2, <1>4
  <1>5. QED
    BY <1>3, <1>4

LEMMA SubsOfAssign ==
  ASSUME NEW f, f.node \in Known, f.node.kind = "assign"
  PROVE  /\ Subs(f) \in Seq(Exprs)
         /\ f.node.sub[1] \in Exprs
         /\ f.node.sub[1].kind \in Assignable => Len(Subs(f)) = Len(Parts(f.node.sub[1])) + 1
         /\ f.node.sub[1].kind \notin Assignable => Len(Subs(f)) = 1
  <1> DEFINE t == f.node.sub[1]
             u == f.node.sub[2]
  <1>1. Len(f.node.sub) = 2
    BY KnownFits DEF Fits
  <1>2. t \in Exprs /\ u \in Exprs
    BY <1>1, FirstPart
  <1> HIDE DEF t, u
  <1>3. Subs(f) = IF t.kind \in Assignable THEN Parts(t) \o <<u>> ELSE <<t>>
    BY DEF Subs, TargetAndValue, t, u, Increments, MethodCalls
  <1>4. t.kind \in Assignable => Parts(t) \in Seq(Exprs)
    BY <1>2, PartsAre
  <1>5. QED
    BY <1>2, <1>3, <1>4 DEF t

LEMMA SubsOfIncrement ==
  ASSUME NEW f, f.node \in Known, f.node.kind \in Increments
  PROVE  /\ Subs(f) \in Seq(Exprs)
         /\ f.node.sub[1] \in Exprs
         /\ f.node.sub[1].kind \in Assignable =>
              Len(Subs(f)) = Len(Parts(f.node.sub[1])) + (IF f.node.kind = "pre" THEN 1 ELSE 2)
         /\ f.node.sub[1].kind \notin Assignable => Len(Subs(f)) = 1
  <1> DEFINE t == f.node.sub[1]
  <1>0. f.node.kind = "pre" \/ f.node.kind = "post"
    BY DEF Increments
  <1>1. Len(f.node.sub) = 1
    BY KnownFits DEF Fits
  <1>2. t \in Exprs
    BY <1>0, <1>1, FirstPart
  <1> HIDE DEF t
  <1>3. Subs(f) = IF t.kind \notin Assignable THEN <<t>>
                  ELSE IF f.node.kind = "pre" THEN <<t>> \o Parts(t) ELSE <<t, t>> \o Parts(t)
    BY <1>0 DEF Subs, t, Increments, MethodCalls
  <1>4. t.kind \in Assignable => Parts(t) \in Seq(Exprs)
    BY <1>2, PartsAre
  <1>5. QED
    BY <1>0, <1>2, <1>3, <1>4 DEF t

LEMMA SubsOfChoice ==
  ASSUME NEW f, f.node \in Known, f.node.kind \in {"if", "while"}
  PROVE  Subs(f) \in Seq(Known) /\ Len(Subs(f)) \in 1..2
  <1> DEFINE n == f.node
             rest == IF f.vals = <<>> THEN <<>>
                     ELSE IF Truthy(f.vals[1]) THEN <<n.sub[2]>>
                     ELSE IF Len(n.sub) = 3 THEN <<n.sub[3]>> ELSE <<>>
  <1>1. n.sub \in Seq(Known) /\ Len(n.sub) \in 2..3
    <2>1. n.sub \in Seq(Known) /\ (n.kind = "while" => Len(n.sub) = 2) /\ (n.kind = "if" => Len(n.sub) \in 2..3)
      BY KnownFits DEF Fits
    <2>2. QED
      BY <2>1
  <1>2. n.sub[1] \in Known /\ n.sub[2] \in Known /\ (Len(n.sub) = 3 => n.sub[3] \in Known)
    BY <1>1
  <1>3. Subs(f) = <<n.sub[1]>> \o rest
    BY DEF Subs, Increments, MethodCalls
  <1>4. rest \in Seq(Known) /\ Len(rest) \in 0..1
    BY <1>2
  <1> HIDE DEF n, rest
  <1>5. QED
    BY <1>2, <1>3, <1>4

LEMMA SubsOfMethodCall ==
  ASSUME NEW f, f.node \in Known, f.node.kind \in MethodCalls
  PROVE  /\ Subs(f) \in Seq(PartNodes) /\ Len(Subs(f)) = Len(f.node.sub) + 1 /\ f.node.sub # <<>>
         /\ \A i \in DOMAIN Subs(f) : IF i = 2 THEN Subs(f)[i] = Node("method", f.node.token, <<>>)
                                      ELSE Subs(f)[i] \in Exprs
  <1> DEFINE n == f.node
             m == Node("method", n.token, <<>>)
  <1>1. n.sub # <<>> /\ n.sub \in Seq(Exprs) /\ n.token \in Names
    <2>1. n.sub # <<>> /\ n.token \in Names
      BY KnownFits DEF Fits
    <2>2. n.kind \notin {"table", "block", "if", "while"}
      BY DEF MethodCalls
    <2>3. QED
      BY <2>1, <2>2, FirstPart
  <1>2. m \in MethodNodes /\ m.kind = "method"
    BY <1>1 DEF MethodNodes, IsMethodNode, NodeType, Node, NodeKinds
  <1>3. Subs(f) = <<n.sub[1], m>> \o Tail(n.sub)
    BY DEF Subs, Increments, MethodCalls
  <1> HIDE DEF m
  <1>4. n.sub[1] \in Exprs /\ Tail(n.sub) \in Seq(Exprs) /\ Len(Tail(n.sub)) = Len(n.sub) - 1 /\ Len(n.sub) \in Nat \ {0}
    BY <1>1
  <1>5. Exprs \subseteq PartNodes /\ m \in PartNodes
    BY <1>2 DEF PartNodes, Exprs
  <1>6. <<n.sub[1], m>> \in Seq(PartNodes) /\ Tail(n.sub) \in Seq(PartNodes)
    BY <1>4, <1>5, SeqMonotonic
  <1> DEFINE rest == Tail(n.sub)
  <1> HIDE DEF n, rest
  <1>7. /\ Subs(f) \in Seq(PartNodes) /\ Len(Subs(f)) = Len(n.sub) + 1
        /\ \A i \in 1..Len(Subs(f)) : Subs(f)[i] = IF i = 1 THEN n.sub[1] ELSE IF i = 2 THEN m ELSE rest[i - 2]
    BY <1>3, <1>4, <1>6 DEF rest
  <1>8. \A i \in 3..Len(Subs(f)) : rest[i - 2] \in Exprs
    BY <1>4, <1>7 DEF rest
  <1>9. QED
    BY <1>1, <1>4, <1>7, <1>8 DEF n, m

\* Tables, their entries and methods hand themselves on first.
Shift(n) == IF n.kind = "entry_normal" THEN 2 ELSE 1

LEMMA SubsOfHanded ==
  ASSUME NEW f, f.node \in PartNodes, Handed(f.node) # 0
  PROVE  /\ Subs(f) \in Seq(PartNodes) /\ Len(Subs(f)) = Len(f.node.sub) + Shift(f.node)
         /\ Handed(f.node) \in 1..2 /\ Shift(f.node) \in 1..2
         /\ \A i \in DOMAIN Subs(f) : Subs(f)[i] = IF i <= Shift(f.node) THEN f.node
                                                   ELSE f.node.sub[i - Shift(f.node)]
         /\ f.node.kind \in {"table", "method"} \cup Entries
         /\ f.node.kind \in Entries => f.node.sub \in Seq(Exprs)
         /\ f.node.kind = "method" => f.node.sub = <<>>
  <1> DEFINE n == f.node
  <1>1. n.kind \in {"table", "method", "entry_normal", "entry_key", "entry_index"}
    BY DEF Handed
  <1>2. n.sub \in Seq(PartNodes)
    <2>1. CASE n \in Known
      <3>1. n.sub \in Seq(Known)
        BY <2>1, KnownFits DEF Fits
      <3>2. QED
        BY <3>1, SeqMonotonic DEF PartNodes
    <2>2. CASE n \in MethodNodes
      <3>1. n.sub = <<>>
        BY <2>2 DEF MethodNodes, IsMethodNode
      <3>2. QED
        BY <3>1
    <2>3. QED
      BY <2>1, <2>2 DEF PartNodes
  <1>3. Handed(n) \in 1..2 /\ Shift(n) \in 1..2 /\ Subs(f) = (IF Shift(n) = 1 THEN <<n>> ELSE <<n, n>>) \o n.sub
    <2>1. CASE n.kind = "table" \/ n.kind = "method" \/ n.kind = "entry_index"
      <3>1. Handed(n) = 1 /\ Shift(n) = 1
        BY <2>1 DEF Handed, Shift
      <3>2. Subs(f) = <<n>> \o n.sub
        BY <2>1 DEF Subs, Increments, MethodCalls
      <3>3. QED
        BY <3>1, <3>2
    <2>2. CASE n.kind = "entry_normal"
      BY <2>2 DEF Subs, Increments, MethodCalls, Handed, Shift
    <2>3. CASE n.kind = "entry_key"
      BY <2>3 DEF Subs, Increments, MethodCalls, Handed, Shift
    <2>4. QED
      BY <1>1, <2>1, <2>2, <2>3
  <1>4. n.kind \in {"table", "method"} \cup Entries
    BY <1>1 DEF Entries
  <1>5. n.kind \in Entries => n.sub \in Seq(Exprs)
    <2>1. ASSUME n.kind \in Entries PROVE n \in Known /\ n.kind \notin {"table", "block", "if", "while"}
      <3>1. n.kind \notin {"method", "table", "block", "if", "while"}
        BY <2>1 DEF Entries
      <3>2. QED
        BY <3>1 DEF PartNodes, MethodNodes, IsMethodNode
    <2>2. QED
      BY <2>1, FirstPart
  <1>6. n.kind = "method" => n.sub = <<>>
    <2>1. ASSUME n.kind = "method" PROVE n \in MethodNodes
      <3>1. n \notin Known
        BY <2>1, KnownFits, KindsApart DEF Fits
      <3>2. QED
        BY <3>1 DEF PartNodes
    <2>2. QED
      BY <2>1 DEF MethodNodes, IsMethodNode
  <1> HIDE DEF n
  <1>7. /\ Subs(f) \in Seq(PartNodes) /\ Len(Subs(f)) = Len(n.sub) + Shift(n)
        /\ \A i \in 1..Len(Subs(f)) : Subs(f)[i] = IF i <= Shift(n) THEN n ELSE n.sub[i - Shift(n)]
    <2>1. n \in PartNodes
      BY DEF n
    <2>2. CASE Shift(n) = 1
      <3>1. Subs(f) = <<n>> \o n.sub
        BY <1>3, <2>2
      <3>2. QED
        BY <1>2, <2>1, <2>2, <3>1
    <2>3. CASE Shift(n) = 2
      <3>1. Subs(f) = <<n, n>> \o n.sub
        BY <1>3, <2>3
      <3>2. QED
        BY <1>2, <2>1, <2>3, <3>1
    <2>4. Shift(n) = 1 \/ Shift(n) = 2
      BY <1>3
    <2>5. QED
      BY <2>2, <2>3, <2>4
  <1>8. DOMAIN Subs(f) = 1..Len(Subs(f))
    BY <1>7
  <1>9. QED
    BY <1>3, <1>4, <1>5, <1>6, <1>7, <1>8 DEF n

LEMMA PartNodesAre ==
  ASSUME NEW m \in PartNodes
  PROVE  /\ m \in NodeType /\ m.kind \notin {"body", "ir_run"}
         /\ m.kind = "method" <=> m \in MethodNodes
         /\ m \in Exprs => m.kind \notin Statements \cup Entries \cup {"method"}
         /\ m \notin MethodNodes => m \in Known
  <1>1. CASE m \in Known
    <2>1. m.kind \in Expressions \cup Entries \cup Statements
      BY <1>1, KnownFits DEF Fits
    <2>2. m.kind \notin {"ir_run", "body", "method"}
      BY <2>1, KindsApart
    <2>3. m \notin MethodNodes
      BY <2>2 DEF MethodNodes, IsMethodNode
    <2>4. m \in Exprs => m.kind \notin Statements \cup Entries
      BY KindsApart DEF Exprs
    <2>5. QED
      BY <1>1, <2>2, <2>3, <2>4, KnownAreNodes
  <1>2. CASE m \in MethodNodes
    <2>1. m \in NodeType /\ m.kind = "method"
      BY <1>2 DEF MethodNodes, IsMethodNode
    <2>2. m \notin Exprs
      BY <2>1, KindsApart DEF Exprs
    <2>3. QED
      BY <1>2, <2>1, <2>2
  <1>3. QED
    BY <1>1, <1>2 DEF PartNodes

\* What the part at i of a node can be.
PartFits(n, i, m) ==
  /\ m.kind \in Statements => n.kind \in {"body", "block", "if", "while"}
  /\ i > Handed(n) /\ m.kind \in Entries => n.kind = "table"
  /\ i > Handed(n) /\ m.kind = "method" => n.kind \in MethodCalls /\ i = 2

LEMMA ExprsFit ==
  ASSUME NEW n, NEW s \in Seq(Exprs)
  PROVE  s \in Seq(PartNodes) /\ \A i \in DOMAIN s : PartFits(n, i, s[i])
  <1>1. Exprs \subseteq PartNodes
    BY DEF PartNodes, Exprs
  <1>2. ASSUME NEW i \in DOMAIN s PROVE PartFits(n, i, s[i])
    <2>1. s[i] \in Exprs
      OBVIOUS
    <2>2. s[i].kind \notin Statements \cup Entries \cup {"method"}
      BY <1>1, <2>1, PartNodesAre
    <2>3. QED
      BY <2>2 DEF PartFits
  <1>3. QED
    BY <1>1, <1>2, SeqMonotonic

LEMMA SubsAre ==
  ASSUME NEW f, f.node \in NodeType, f.node = Halt \/ Shaped(f.node), program \in Programs
  PROVE  Subs(f) \in Seq(PartNodes) /\ \A i \in DOMAIN Subs(f) : PartFits(f.node, i, Subs(f)[i])
  <1> DEFINE n == f.node
  <1>1. CASE n \in PartNodes /\ Handed(n) # 0
    <2>1. /\ Subs(f) \in Seq(PartNodes) /\ Handed(n) \in 1..2 /\ Shift(n) \in 1..2 /\ Shift(n) <= Handed(n)
          /\ \A i \in DOMAIN Subs(f) : Subs(f)[i] = IF i <= Shift(n) THEN n ELSE n.sub[i - Shift(n)]
          /\ n.kind \in {"table", "method"} \cup Entries
          /\ n.kind \in Entries => n.sub \in Seq(Exprs)
          /\ n.kind = "method" => n.sub = <<>>
      <3>1. Shift(n) <= Handed(n)
        BY <1>1, SubsOfHanded DEF Shift, Handed
      <3>2. QED
        BY <1>1, <3>1, SubsOfHanded
    <2>2. n.kind \notin Statements
      BY <2>1, KindsApart DEF Statements
    <2>3. Len(Subs(f)) = Len(n.sub) + Shift(n)
      BY <1>1, SubsOfHanded
    <2>4. ASSUME NEW i \in DOMAIN Subs(f) PROVE PartFits(n, i, Subs(f)[i])
      <3>1. i \in 1..Len(Subs(f)) /\ Len(n.sub) \in Nat
        <4>1. Len(n.sub) \in Nat
          BY DEF NodeType
        <4>2. QED
          BY <2>1, <4>1
      <3>2. CASE i <= Shift(n)
        BY <2>1, <2>2, <3>1, <3>2 DEF PartFits
      <3>3. CASE i > Shift(n)
        <4>1. Subs(f)[i] = n.sub[i - Shift(n)] /\ i - Shift(n) \in 1..Len(n.sub)
          BY <2>1, <2>3, <3>1, <3>3
        <4>2. CASE n.kind = "table"
          <5>1. n \in Known
            BY <1>1, <4>2, PartNodesAre DEF PartNodes
          <5>2. n.sub[i - Shift(n)].kind \in Entries
            BY <4>1, <4>2, <5>1, KnownFits DEF Fits, PartKinds
          <5>3. Subs(f)[i].kind \notin Statements /\ Subs(f)[i].kind # "method"
            BY <4>1, <5>2, KindsApart
          <5>4. QED
            BY <4>2, <5>3 DEF PartFits
        <4>3. CASE n.kind \in Entries
          <5>1. n.sub[i - Shift(n)] \in Exprs
            BY <2>1, <4>1, <4>3
          <5>2. Subs(f)[i].kind \notin Statements \cup Entries \cup {"method"}
            BY <4>1, <5>1, PartNodesAre DEF PartNodes, Exprs
          <5>3. QED
            BY <5>2 DEF PartFits
        <4>4. CASE n.kind = "method"
          BY <2>1, <4>1, <4>4
        <4>5. QED
          BY <2>1, <4>2, <4>3, <4>4
      <3>4. QED
        BY <2>1, <3>1, <3>2, <3>3
    <2>5. QED
      BY <2>1, <2>4
  <1>2. CASE n \in Known /\ n.kind \in {"if", "while"}
    <2>1. Subs(f) \in Seq(Known)
      BY <1>2, SubsOfChoice
    <2>2. Subs(f) \in Seq(PartNodes)
      BY <2>1, SeqMonotonic DEF PartNodes
    <2>3. ASSUME NEW i \in DOMAIN Subs(f) PROVE PartFits(n, i, Subs(f)[i])
      <3>1. Subs(f)[i] \in Known
        BY <2>1
      <3>2. Subs(f)[i].kind # "method"
        BY <3>1, KnownFits, KindsApart DEF Fits
      <3>3. Subs(f)[i].kind \notin Entries
        <4>1. /\ n.sub \in Seq(Known) /\ Len(n.sub) \in 2..3
              /\ \A j \in DOMAIN n.sub : n.sub[j].kind \in PartKinds(n, j)
          <5>1. Fits(n)
            BY <1>2, KnownFits
          <5>2. (n.kind = "while" => Len(n.sub) = 2) /\ (n.kind = "if" => Len(n.sub) \in 2..3)
            BY <5>1 DEF Fits
          <5>3. QED
            BY <1>2, <5>1, <5>2 DEF Fits
        <4>2. \A j \in DOMAIN n.sub : n.sub[j].kind \notin Entries
          <5>1. \A j \in DOMAIN n.sub : PartKinds(n, j) \in {Expressions, Statements}
            BY <1>2 DEF PartKinds
          <5>2. QED
            BY <4>1, <5>1, KindsApart
        <4>3. \E j \in DOMAIN n.sub : Subs(f)[i] = n.sub[j]
          <5> DEFINE rest == IF f.vals = <<>> THEN <<>>
                             ELSE IF Truthy(f.vals[1]) THEN <<n.sub[2]>>
                             ELSE IF Len(n.sub) = 3 THEN <<n.sub[3]>> ELSE <<>>
          <5>1. Subs(f) = <<n.sub[1]>> \o rest
            BY <1>2 DEF Subs, Increments, MethodCalls
          <5> DEFINE X == {n.sub[j] : j \in DOMAIN n.sub}
          <5>2. n.sub[1] \in X /\ n.sub[2] \in X /\ (Len(n.sub) = 3 => n.sub[3] \in X)
            <6>1. 1 \in DOMAIN n.sub /\ 2 \in DOMAIN n.sub /\ (Len(n.sub) = 3 => 3 \in DOMAIN n.sub)
              BY <4>1
            <6>2. QED
              BY <6>1
          <5> HIDE DEF X
          <5>3. rest \in Seq(X)
            BY <5>2
          <5> HIDE DEF rest
          <5>4. Subs(f) \in Seq(X)
            BY <5>1, <5>2, <5>3
          <5>5. Subs(f)[i] \in X
            BY <2>3, <5>4
          <5>6. QED
            BY <5>5 DEF X
        <4>4. QED
          BY <4>2, <4>3
      <3>4. QED
        BY <1>2, <3>2, <3>3 DEF PartFits
    <2>4. QED
      BY <2>2, <2>3
  <1>3. CASE n \in Known /\ n.kind \in MethodCalls
    <2>1. /\ Subs(f) \in Seq(PartNodes)
          /\ \A i \in DOMAIN Subs(f) : IF i = 2 THEN Subs(f)[i] = Node("method", n.token, <<>>)
                                       ELSE Subs(f)[i] \in Exprs
      BY <1>3, SubsOfMethodCall
    <2>2. ASSUME NEW i \in DOMAIN Subs(f) PROVE PartFits(n, i, Subs(f)[i])
      <3>1. CASE i = 2
        <4>1. Subs(f)[i].kind = "method"
          BY <2>1, <3>1, NodeIs
        <4>2. "method" \notin Statements \cup Entries
          BY DEF Statements, Entries
        <4>3. QED
          BY <1>3, <3>1, <4>1, <4>2 DEF PartFits
      <3>2. CASE i # 2
        <4>1. Subs(f)[i].kind \notin Statements \cup Entries \cup {"method"}
          BY <2>1, <3>2, PartNodesAre
        <4>2. QED
          BY <4>1 DEF PartFits
      <3>3. QED
        BY <3>1, <3>2
    <2>3. QED
      BY <2>1, <2>2
  <1>4. CASE n \in Known /\ n.kind = "assign"
    <2>1. Subs(f) \in Seq(Exprs)
      BY <1>4, SubsOfAssign
    <2>2. QED
      BY <2>1, ExprsFit
  <1>5. CASE n \in Known /\ n.kind \in Increments
    <2>1. Subs(f) \in Seq(Exprs)
      BY <1>5, SubsOfIncrement
    <2>2. QED
      BY <2>1, ExprsFit
  <1>6. CASE /\ n.kind \notin {"assign", "if", "while", "table", "entry_index", "method", "entry_normal", "entry_key"}
             /\ n.kind \notin Increments \cup MethodCalls
    <2>1. Subs(f) = n.sub
      BY <1>6 DEF Subs, Increments, MethodCalls
    <2>2. Seq(Known) \subseteq Seq(PartNodes)
      BY SeqMonotonic DEF PartNodes
    <2>3. n.sub \in Seq(PartNodes)
      BY <2>2 DEF NodeType
    <2>4. CASE n.kind = "block" \/ n.kind = "body"
      <3>1. ASSUME NEW i \in DOMAIN n.sub PROVE PartFits(n, i, n.sub[i])
        <4>1. n.sub[i].kind \in Statements
          <5>1. CASE n.kind = "block"
            <6>1. n \in Known
              <7>1. Halt.kind = "ir_run"
                BY NodeIs DEF Halt
              <7>2. QED
                BY <5>1, <7>1 DEF Shaped, IsMethodNode, IsBody
            <6>2. QED
              BY <5>1, <6>1, KnownFits DEF Fits, PartKinds
          <5>2. CASE n.kind = "body"
            <6>1. IsBody(n)
              <7>1. Halt.kind = "ir_run"
                BY NodeIs DEF Halt
              <7>2. n \notin Known
                BY <5>2, PartNodesAre DEF PartNodes
              <7>3. QED
                BY <5>2, <7>1, <7>2 DEF Shaped, IsMethodNode
            <6>2. QED
              BY <6>1, ProgramAssumption DEF IsBody
          <5>3. QED
            BY <2>4, <5>1, <5>2
        <4>2. n.sub[i].kind \notin Entries \cup {"method"}
          BY <4>1, KindsApart
        <4>3. QED
          BY <2>4, <4>2 DEF PartFits
      <3>2. QED
        BY <2>1, <2>3, <3>1
    <2>5. CASE n.kind \notin {"block", "body"}
      <3>1. n.sub \in Seq(Exprs)
        <4>1. CASE n = Halt
          <5>1. n.sub = <<MainCall>>
            BY <4>1, NodeIs DEF Halt
          <5>2. MainCall.kind = "call"
            BY NodeIs DEF MainCall
          <5>3. MainCall \in Exprs
            BY <5>2 DEF Exprs, Known, Expressions
          <5>4. QED
            BY <5>1, <5>3
        <4>2. CASE n \in Known
          BY <1>6, <2>5, <4>2, FirstPart
        <4>3. CASE n \notin Known /\ n # Halt
          BY <1>6, <2>5, <4>3 DEF Shaped, IsMethodNode, IsBody
        <4>4. QED
          BY <4>1, <4>2, <4>3
      <3>2. QED
        BY <2>1, <3>1, ExprsFit
    <2>6. QED
      BY <2>4, <2>5
  <1>7. n \in PartNodes \/ n.kind \in {"ir_run", "body"}
    <2>1. Halt.kind = "ir_run"
      BY NodeIs DEF Halt
    <2>2. QED
      BY <2>1 DEF PartNodes, MethodNodes, Shaped, IsBody
  <1>8. n.kind \in {"ir_run", "body"} => n.kind \notin Increments \cup MethodCalls
    BY DEF Increments, MethodCalls
  <1>9. Handed(n) = 0 => n.kind \notin {"table", "entry_index", "method", "entry_normal", "entry_key"}
    BY DEF Handed
  <1>10. n \in PartNodes /\ n.kind # "method" => n \in Known
    BY PartNodesAre
  <1>11. QED
    <2>1. CASE n.kind \in {"ir_run", "body"}
      BY <1>6, <1>8, <2>1
    <2>2. CASE n \in PartNodes
      <3>1. CASE Handed(n) = 0
        <4>1. n \in Known
          BY <1>9, <1>10, <2>2, <3>1
        <4>2. CASE n.kind \in {"assign", "if", "while"} \cup Increments \cup MethodCalls
          BY <1>2, <1>3, <1>4, <1>5, <4>1, <4>2
        <4>3. CASE n.kind \notin {"assign", "if", "while"} \cup Increments \cup MethodCalls
          BY <1>6, <1>9, <3>1, <4>3
        <4>4. QED
          BY <4>2, <4>3
      <3>2. CASE Handed(n) # 0
        BY <1>1, <2>2, <3>2
      <3>3. QED
        BY <3>1, <3>2
    <2>3. QED
      BY <1>7, <2>1, <2>2

-----------------------------------------------------------------------------
(***************************************************************************)
(* Scopes.                                                                 *)
(***************************************************************************)
LEMMA StackAt ==
  ASSUME Typed
  PROVE  /\ Len(stack) \in Nat \ {0} /\ DOMAIN stack = 1..Len(stack)
         /\ top = stack[Len(stack)] /\ top \in FramesOf(Held)
         /\ \A i \in DOMAIN stack : /\ stack[i] \in FramesOf(Held)
                                    /\ stack[i].node \in NodeType
                                    /\ stack[i].scope \in Nat
                                    /\ stack[i].vals \in Seq(Held)
  <1>1. stack \in Seq(FramesOf(Held)) /\ stack # <<>>
    BY DEF Typed
  <1>2. Len(stack) \in Nat \ {0} /\ DOMAIN stack = 1..Len(stack) /\ top = stack[Len(stack)]
    BY <1>1 DEF top, Last
  <1>3. \A i \in DOMAIN stack : stack[i] \in FramesOf(Held)
    BY <1>1
  <1>4. QED
    BY <1>2, <1>3 DEF FramesOf

\* The scopes of the frames grow, and every scope but the global one and the
\* file's is that of the frame that pushed it.
LEMMA ScopesGrow ==
  ASSUME Typed, Framed, Scoped
  PROVE  /\ \A j \in DOMAIN stack : \A i \in 1..j : stack[i].scope <= stack[j].scope
         /\ \A i \in DOMAIN stack : stack[i].scope \in 2..Len(scopes)
         /\ \A i, j \in DOMAIN stack : i < j /\ Owns(stack[j]) => stack[i].scope < stack[j].scope
         /\ \A s \in 3..Len(scopes) : \E i \in Owners : stack[i].scope = s
  <1> DEFINE L == Len(stack)
             At(j) == stack[j].scope
  <1>1. /\ L \in Nat \ {0} /\ DOMAIN stack = 1..L
        /\ \A j \in 1..L : At(j) \in Nat
        /\ At(1) = 2 /\ Len(scopes) = At(L)
        /\ \A j \in 1..L : j > 1 => At(j) = IF Owns(stack[j]) THEN At(j - 1) + 1 ELSE At(j - 1)
    BY StackAt DEF Framed, Scoped, file_scope
  <1> HIDE DEF L, At
  <1>2. \A j \in 1..L : \A i \in 1..j : At(i) <= At(j)
    <2> DEFINE T == {k \in 0..L : \A j \in 1..k : \A i \in 1..j : At(i) <= At(j)}
    <2>1. 0 \in T
      BY <1>1
    <2>2. ASSUME NEW k \in 0..(L - 1), k \in T PROVE k + 1 \in T
      <3>1. ASSUME NEW i \in 1..(k + 1) PROVE At(i) <= At(k + 1)
        <4>1. CASE i = k + 1
          <5>1. At(i) \in Nat
            BY <1>1, <4>1
          <5>2. QED
            BY <4>1, <5>1
        <4>2. CASE i # k + 1
          <5>1. k \in 1..k /\ i \in 1..k /\ k \in 1..L /\ k + 1 \in 1..L /\ k + 1 > 1 /\ (k + 1) - 1 = k
            BY <1>1, <4>2
          <5>2. At(i) <= At(k)
            BY <2>2, <5>1
          <5>3. At(k) <= At(k + 1)
            BY <1>1, <5>1
          <5>4. At(i) \in Nat /\ At(k) \in Nat /\ At(k + 1) \in Nat
            BY <1>1, <5>1
          <5>5. QED
            BY <5>2, <5>3, <5>4
        <4>3. QED
          BY <4>1, <4>2
      <3>2. k + 1 \in 0..L /\ \A j \in 1..(k + 1) : j = k + 1 \/ j \in 1..k
        BY <1>1
      <3>3. QED
        BY <2>2, <3>1, <3>2
    <2> HIDE DEF T
    <2>3. 0..L \subseteq T
      BY <1>1, <2>1, <2>2, BoundedInduction
    <2>4. L \in T
      BY <1>1, <2>3
    <2>5. QED
      BY <2>4 DEF T
  <1>3. \A i \in 1..L : At(i) \in 2..Len(scopes)
    <2>1. ASSUME NEW i \in 1..L PROVE At(1) <= At(i) /\ At(i) <= At(L) /\ At(i) \in Nat /\ At(L) \in Nat
      <3>1. 1 \in 1..i /\ i \in 1..L /\ L \in 1..L
        BY <1>1
      <3>2. QED
        BY <1>1, <1>2, <3>1
    <2>2. QED
      BY <1>1, <2>1
  <1>4. ASSUME NEW i \in 1..L, NEW j \in 1..L, i < j, Owns(stack[j]) PROVE At(i) < At(j)
    <2>1. j > 1 /\ j - 1 \in 1..L /\ i \in 1..(j - 1)
      BY <1>1, <1>4
    <2>2. At(j) = At(j - 1) + 1 /\ At(i) <= At(j - 1)
      BY <1>1, <1>2, <1>4, <2>1
    <2>3. At(i) \in Nat /\ At(j - 1) \in Nat
      BY <1>1, <2>1
    <2>4. QED
      BY <2>2, <2>3
  <1>5. \A s \in 3..Len(scopes) : \E i \in 1..L : Owns(stack[i]) /\ At(i) = s
    <2> DEFINE Owned(j) == \A s \in 3..At(j) : \E i \in 1..L : Owns(stack[i]) /\ At(i) = s
               T == {k \in 0..L : \A j \in 1..k : Owned(j)}
    <2>1. 0 \in T
      BY <1>1
    <2>2. ASSUME NEW k \in 0..(L - 1), k \in T PROVE k + 1 \in T
      <3>1. Owned(k + 1)
        <4>1. CASE k = 0
          BY <1>1, <4>1
        <4>2. CASE k # 0
          <5>1. k \in 1..k /\ k + 1 \in 1..L /\ k + 1 > 1 /\ (k + 1) - 1 = k
            BY <1>1, <4>2
          <5>2. Owned(k)
            BY <2>2, <5>1
          <5>3. At(k) \in Nat /\ At(k + 1) = IF Owns(stack[k + 1]) THEN At(k) + 1 ELSE At(k)
            BY <1>1, <5>1
          <5>4. CASE Owns(stack[k + 1])
            <6>1. \A s \in 3..At(k + 1) : s \in 3..At(k) \/ s = At(k + 1)
              BY <5>3, <5>4
            <6>2. QED
              BY <5>1, <5>2, <5>4, <6>1
          <5>5. CASE ~ Owns(stack[k + 1])
            BY <5>2, <5>3, <5>5
          <5>6. QED
            BY <5>4, <5>5
        <4>3. QED
          BY <4>1, <4>2
      <3>2. k + 1 \in 0..L /\ \A j \in 1..(k + 1) : j = k + 1 \/ j \in 1..k
        BY <1>1
      <3> HIDE DEF Owned
      <3>3. QED
        BY <2>2, <3>1, <3>2
    <2> HIDE DEF T
    <2>3. 0..L \subseteq T
      BY <1>1, <2>1, <2>2, BoundedInduction
    <2>4. L \in T /\ L \in 1..L
      BY <1>1, <2>3
    <2>5. Owned(L)
      BY <2>4 DEF T
    <2>6. QED
      BY <1>1, <2>5
  <1>6. QED
    BY <1>1, <1>2, <1>3, <1>4, <1>5 DEF At, Owners

\* Every scope's parent comes before it.
LEMMA ParentsBefore ==
  ASSUME Typed, Framed, Scoped, Parented
  PROVE  /\ Len(scopes) >= 2 /\ Len(scopes) \in Nat /\ top.scope = Len(scopes)
         /\ \A s \in 1..Len(scopes) : scopes[s].parent \in 0..(s - 1)
  <1>1. Len(scopes) \in Nat /\ top.scope = Len(scopes) /\ Len(scopes) >= 2
    <2>1. Len(scopes) \in Nat
      BY DEF Typed
    <2>2. top.scope \in 2..Len(scopes) /\ top.scope = Len(scopes)
      BY StackAt, ScopesGrow DEF Scoped
    <2>3. QED
      BY <2>1, <2>2
  <1>2. ASSUME NEW s \in 1..Len(scopes) PROVE scopes[s].parent \in 0..(s - 1)
    <2>1. CASE s = 1 \/ s = 2
      BY <2>1 DEF Parented, global_scope
    <2>2. CASE s # 1 /\ s # 2
      <3>1. s \in 3..Len(scopes)
        BY <1>1, <2>2
      <3>2. PICK i \in Owners : stack[i].scope = s
        BY <3>1, ScopesGrow
      <3>3. scopes[s].parent = 2 \/ scopes[s].parent = s - 1
        BY <3>2 DEF Parented, file_scope
      <3>4. QED
        BY <3>1, <3>3
    <2>3. QED
      BY <2>1, <2>2
  <1>3. QED
    BY <1>1, <1>2

\* What Holder looks through: from each scope on to its parent.
IsNearest(g, name, n) ==
  g = [t \in 0..n |-> IF t = 0 \/ name \in DOMAIN scopes[t].symbols THEN t ELSE g[scopes[t].parent]]

LEMMA NearestExists ==
  ASSUME NEW name, NEW n \in Nat, \A s \in 1..n : scopes[s].parent \in 0..(s - 1)
  PROVE  \E g : IsNearest(g, name, n)
  <1> DEFINE Has(t) == t = 0 \/ name \in DOMAIN scopes[t].symbols
             T == {m \in 0..n : \E g : IsNearest(g, name, m)}
  <1>1. 0 \in T
    <2> DEFINE e == [t \in 0..0 |-> t]
    <2>1. e = [t \in 0..0 |-> IF t = 0 \/ name \in DOMAIN scopes[t].symbols THEN t ELSE e[scopes[t].parent]]
      OBVIOUS
    <2> HIDE DEF e
    <2>2. IsNearest(e, name, 0)
      BY <2>1 DEF IsNearest
    <2>3. QED
      BY <2>2
  <1>2. ASSUME NEW m \in 0..(n - 1), m \in T PROVE m + 1 \in T
    <2>1. PICK g : IsNearest(g, name, m)
      BY <1>2
    <2>2. g = [t \in 0..m |-> IF Has(t) THEN t ELSE g[scopes[t].parent]]
      BY <2>1 DEF IsNearest
    <2> HIDE DEF Has
    <2> DEFINE h == [t \in 0..(m + 1) |-> IF t = m + 1
                                          THEN IF Has(m + 1) THEN m + 1 ELSE g[scopes[m + 1].parent]
                                          ELSE g[t]]
    <2>3. ASSUME NEW t \in 0..(m + 1)
          PROVE  h[t] = IF Has(t) THEN t ELSE h[scopes[t].parent]
      <3>1. CASE t = m + 1
        <4>1. scopes[t].parent \in 0..m
          BY <3>1
        <4>2. h[scopes[t].parent] = g[scopes[t].parent]
          BY <4>1
        <4>3. h[t] = IF Has(t) THEN t ELSE g[scopes[t].parent]
          BY <3>1
        <4> HIDE DEF h
        <4>4. QED
          BY <4>2, <4>3
      <3>2. CASE t # m + 1
        <4>1. t \in 0..m /\ h[t] = g[t]
          BY <3>2
        <4>2. g[t] = IF Has(t) THEN t ELSE g[scopes[t].parent]
          BY <2>2, <4>1
        <4>3. CASE Has(t)
          BY <4>1, <4>2, <4>3
        <4>4. CASE ~ Has(t)
          <5>1. t \in 1..m
            BY <4>1, <4>4 DEF Has
          <5>2. scopes[t].parent \in 0..m
            BY <5>1
          <5>3. h[scopes[t].parent] = g[scopes[t].parent]
            BY <5>2
          <5>4. QED
            BY <4>1, <4>2, <4>4, <5>3
        <4>5. QED
          BY <4>3, <4>4
      <3>3. QED
        BY <3>1, <3>2
    <2>4. h = [t \in 0..(m + 1) |-> h[t]]
      OBVIOUS
    <2> HIDE DEF h
    <2>5. h = [t \in 0..(m + 1) |-> IF Has(t) THEN t ELSE h[scopes[t].parent]]
      BY <2>3, <2>4
    <2>6. IsNearest(h, name, m + 1)
      BY <2>5 DEF IsNearest, Has
    <2>7. QED
      BY <2>6
  <1> HIDE DEF T
  <1>3. 0..n \subseteq T
    BY <1>1, <1>2, BoundedInduction
  <1>4. n \in T
    BY <1>3
  <1>5. QED
    BY <1>4 DEF T

\* The look-up of a name stays in every set of scopes that has their parents,
\* and ends at a scope that has the name or at none.
LEMMA HolderIs ==
  ASSUME NEW name, NEW C, NEW s \in C, s \in 0..Len(scopes), Len(scopes) \in Nat,
         \A t \in 1..Len(scopes) : scopes[t].parent \in 0..(t - 1),
         \A t \in C : t \in 1..Len(scopes) => scopes[t].parent \in C
  PROVE  /\ Holder(s, name) \in C /\ Holder(s, name) \in 0..s
         /\ Holder(s, name) # 0 => name \in DOMAIN scopes[Holder(s, name)].symbols
  <1> DEFINE n == Len(scopes)
             g == CHOOSE g : g = [t \in 0..n |-> IF t = 0 \/ name \in DOMAIN scopes[t].symbols THEN t
                                                 ELSE g[scopes[t].parent]]
  <1>1. \E f : f = [t \in 0..n |-> IF t = 0 \/ name \in DOMAIN scopes[t].symbols THEN t
                                   ELSE f[scopes[t].parent]]
    <2>1. \E f : IsNearest(f, name, n)
      BY NearestExists
    <2>2. QED
      BY <2>1 DEF IsNearest
  <1>2. g = [t \in 0..n |-> IF t = 0 \/ name \in DOMAIN scopes[t].symbols THEN t ELSE g[scopes[t].parent]]
    BY <1>1
  <1>3. Holder(s, name) = g[s]
    BY DEF Holder
  <1> HIDE DEF g, n
  <1>4. \A t \in 0..n : g[t] = IF t = 0 \/ name \in DOMAIN scopes[t].symbols THEN t ELSE g[scopes[t].parent]
    BY <1>2
  <1> DEFINE Good(t) == t \in C => /\ g[t] \in C /\ g[t] \in 0..t
                                   /\ g[t] # 0 => name \in DOMAIN scopes[g[t]].symbols
             T == {m \in 0..n : \A t \in 0..m : Good(t)}
  <1>5. n \in Nat /\ \A t \in 1..n : scopes[t].parent \in 0..(t - 1) /\ (t \in C => scopes[t].parent \in C)
    BY DEF n
  <1>6. Good(0)
    <2>1. g[0] = 0
      BY <1>4, <1>5
    <2>2. QED
      BY <2>1
  <1>7. 0 \in T
    <2>1. \A t \in 0..0 : t = 0
      OBVIOUS
    <2> HIDE DEF Good
    <2>2. QED
      BY <1>5, <1>6, <2>1
  <1>8. ASSUME NEW m \in 0..(n - 1), m \in T PROVE m + 1 \in T
    <2>1. m + 1 \in 1..n /\ m + 1 \in 0..n
      BY <1>5
    <2>2. scopes[m + 1].parent \in 0..m /\ (m + 1 \in C => scopes[m + 1].parent \in C)
      BY <1>5, <2>1
    <2>3. g[m + 1] = IF m + 1 = 0 \/ name \in DOMAIN scopes[m + 1].symbols THEN m + 1 ELSE g[scopes[m + 1].parent]
      BY <1>4, <2>1
    <2>4. Good(m + 1)
      <3>1. CASE name \in DOMAIN scopes[m + 1].symbols
        <4>1. g[m + 1] = m + 1
          BY <2>3, <3>1
        <4>2. QED
          BY <2>1, <3>1, <4>1
      <3>2. CASE name \notin DOMAIN scopes[m + 1].symbols
        <4> DEFINE q == scopes[m + 1].parent
        <4>1. g[m + 1] = g[q]
          BY <2>1, <2>3, <3>2
        <4>2. Good(q)
          BY <1>8, <2>2
        <4> HIDE DEF q
        <4>3. q \in 0..m /\ (m + 1 \in C => q \in C)
          BY <2>2 DEF q
        <4>4. QED
          BY <4>1, <4>2, <4>3
      <3>3. QED
        BY <3>1, <3>2
    <2>5. \A t \in 0..(m + 1) : t = m + 1 \/ t \in 0..m
      OBVIOUS
    <2> HIDE DEF Good
    <2>6. QED
      BY <1>8, <2>1, <2>4, <2>5
  <1> HIDE DEF T
  <1>9. 0..n \subseteq T
    BY <1>5, <1>7, <1>8, BoundedInduction
  <1>10. Good(s)
    <2>1. n \in T /\ s \in 0..n
      BY <1>5, <1>9 DEF n
    <2>2. QED
      BY <2>1 DEF T
  <1>11. QED
    BY <1>3, <1>10

-----------------------------------------------------------------------------
(***************************************************************************)
(* What a step does to the stacks.                                         *)
(***************************************************************************)
\* The first m frames are kept, and the others, one at most, end.
Keeps(m) == /\ m \in {Len(stack), Len(stack) - 1} /\ m >= 1 /\ Len(stack') = m /\ DOMAIN stack' = 1..m
            /\ \A i \in 1..m : stack'[i].node = stack[i].node /\ stack'[i].scope = stack[i].scope

LEMMA OwnersKept ==
  ASSUME Typed, NEW m, Keeps(m)
  PROVE  /\ m \in 1..Len(stack) /\ m \in DOMAIN stack
         /\ \A i \in 1..m : Owns(stack[i])' <=> Owns(stack[i])
         /\ Owners' = Owners \cap 1..m /\ Bodies' = Bodies \cap 1..m
         /\ Bodies \subseteq 1..Len(stack) /\ Owners \subseteq 1..Len(stack)
  <1>1. m \in 1..Len(stack) /\ DOMAIN stack = 1..Len(stack) /\ DOMAIN stack' = 1..m
    BY StackAt DEF Keeps
  <1>2. \A i \in 1..m : stack'[i].node = stack[i].node
    BY DEF Keeps
  <1>3. \A i \in 1..m : Owns(stack[i])' <=> Owns(stack[i])
    BY <1>2 DEF Owns
  <1>4. Owners' = Owners \cap 1..m
    BY <1>1, <1>3 DEF Owners
  <1>5. Bodies' = Bodies \cap 1..m
    BY <1>1, <1>2 DEF Bodies
  <1>6. QED
    BY <1>1, <1>3, <1>4, <1>5 DEF Bodies, Owners

LEMMA StackShrinks ==
  ASSUME Typed, Framed, Scoped, Parented, Inside, NEW m, Keeps(m),
         Len(scopes') = IF m < Len(stack) /\ Owns(top) THEN Len(scopes) - 1 ELSE Len(scopes),
         \A s \in 1..Len(scopes') : scopes'[s].parent = scopes[s].parent
  PROVE  Scoped' /\ Parented' /\ Inside'
  <1> DEFINE L == Len(stack)
  <1>1. /\ L \in Nat \ {0} /\ DOMAIN stack = 1..L /\ DOMAIN stack' = 1..m /\ Len(stack') = m /\ m \in 1..L
        /\ top = stack[L] /\ (m = L \/ m = L - 1) /\ Len(scopes) \in Nat
        /\ \A i \in 1..L : stack[i].scope \in Nat
        /\ \A i \in 1..m : stack'[i].node = stack[i].node /\ stack'[i].scope = stack[i].scope
    BY StackAt, OwnersKept DEF Keeps, Typed
  <1> HIDE DEF L
  <1>2. Scoped'
    <2>1. Len(scopes') = stack'[Len(stack')].scope
      <3>1. Len(scopes) = stack[L].scope
        BY DEF Scoped, L
      <3>2. CASE m = L
        BY <1>1, <3>1, <3>2 DEF L
      <3>3. CASE m = L - 1
        <4>1. L > 1 /\ L \in 1..L /\ stack[L].scope = IF Owns(stack[L]) THEN stack[L - 1].scope + 1 ELSE stack[L - 1].scope
          BY <1>1, <3>3 DEF Scoped
        <4>2. Len(scopes') = IF Owns(stack[L]) THEN stack[L].scope - 1 ELSE stack[L].scope
          BY <1>1, <3>1, <3>3 DEF L
        <4>3. stack[L - 1].scope \in Nat /\ stack[L].scope \in Nat
          BY <1>1, <3>3
        <4>4. Len(scopes') = stack[L - 1].scope
          <5>1. CASE Owns(stack[L])
            BY <4>1, <4>2, <4>3, <5>1
          <5>2. CASE ~ Owns(stack[L])
            BY <4>1, <4>2, <4>3, <5>2
          <5>3. QED
            BY <5>1, <5>2
        <4>5. QED
          BY <1>1, <3>3, <4>4
      <3>4. QED
        BY <1>1, <3>2, <3>3
    <2>2. ASSUME NEW i \in DOMAIN stack', i > 1
          PROVE  stack'[i].scope = IF Owns(stack[i])' THEN stack'[i - 1].scope + 1 ELSE stack'[i - 1].scope
      <3>1. i \in 1..m /\ i - 1 \in 1..m /\ i \in DOMAIN stack
        BY <1>1, <2>2
      <3>2. stack[i].scope = IF Owns(stack[i]) THEN stack[i - 1].scope + 1 ELSE stack[i - 1].scope
        BY <2>2, <3>1 DEF Scoped
      <3>3. Owns(stack[i])' <=> Owns(stack[i])
        BY <3>1, OwnersKept
      <3>4. QED
        BY <1>1, <3>1, <3>2, <3>3
    <2>3. QED
      BY <2>1, <2>2 DEF Scoped
  <1>3. Parented'
    <2>1. Len(scopes') \in Nat /\ Len(scopes') >= 2
      <3>1. Len(scopes') = stack'[m].scope /\ m \in 1..m
        BY <1>1, <1>2 DEF Scoped
      <3>2. stack[m].scope >= 2 /\ stack[m].scope \in Nat
        BY <1>1, ScopesGrow
      <3>3. QED
        BY <1>1, <3>1, <3>2
    <2>2. scopes'[1].parent = 0 /\ scopes'[2].parent = global_scope
      BY <2>1 DEF Parented
    <2>3. ASSUME NEW i \in Owners'
          PROVE  scopes'[stack'[i].scope].parent = IF i \in Bodies' THEN file_scope ELSE stack'[i].scope - 1
      <3>1. i \in Owners /\ i \in 1..m /\ (i \in Bodies' <=> i \in Bodies)
        BY OwnersKept
      <3>2. scopes[stack[i].scope].parent = IF i \in Bodies THEN file_scope ELSE stack[i].scope - 1
        BY <3>1 DEF Parented
      <3>3. stack[i].scope \in 1..Len(scopes')
        <4>1. stack[i].scope <= stack[m].scope /\ stack[i].scope >= 2 /\ stack[i].scope \in Nat /\ stack[m].scope \in Nat
          <5>1. i \in DOMAIN stack /\ m \in DOMAIN stack /\ i \in 1..m
            BY <1>1, <3>1
          <5>2. stack[i].scope <= stack[m].scope
            BY <5>1, ScopesGrow
          <5>3. stack[i].scope \in 2..Len(scopes) /\ stack[m].scope \in 2..Len(scopes)
            BY <5>1, ScopesGrow
          <5>4. Len(scopes) \in Nat
            BY LenProperties DEF Typed
          <5>5. QED
            BY <5>2, <5>3, <5>4
        <4>2. Len(scopes') = stack'[m].scope /\ stack'[m].scope = stack[m].scope
          BY <1>1, <1>2 DEF Scoped
        <4>3. QED
          BY <4>1, <4>2
      <3>4. stack'[i].scope = stack[i].scope
        BY <1>1, <3>1
      <3>5. QED
        BY <3>1, <3>2, <3>3, <3>4
    <2>4. QED
      BY <2>2, <2>3 DEF Parented
  <1>4. Inside'
    <2>1. ASSUME NEW i \in DOMAIN stack', stack'[i].node.kind \in Statements PROVE \E j \in Bodies' : j < i
      <3>1. i \in 1..m /\ i \in DOMAIN stack /\ stack[i].node.kind \in Statements
        BY <1>1, <2>1
      <3>2. PICK j \in Bodies : j < i
        BY <3>1 DEF Inside, InBody
      <3>3. j \in 1..m /\ j \in Bodies'
        <4>1. j \in 1..L
          BY OwnersKept DEF L
        <4>2. j \in 1..m
          BY <1>1, <3>1, <3>2, <4>1
        <4>3. QED
          BY <4>2, OwnersKept
      <3>4. QED
        BY <3>2, <3>3
    <2>2. QED
      BY <2>1 DEF Inside, InBody
  <1>5. QED
    BY <1>2, <1>3, <1>4

LEMMA StackGrows ==
  ASSUME Typed, Framed, Scoped, Parented, Inside, NEW g,
         Len(stack') = Len(stack) + 1, DOMAIN stack' = 1..(Len(stack) + 1),
         \A i \in 1..Len(stack) : stack'[i] = stack[i], stack'[Len(stack) + 1] = g,
         g.scope = IF Owns(g) THEN Len(scopes) + 1 ELSE Len(scopes),
         Len(scopes') = g.scope,
         \A s \in 1..Len(scopes) : scopes'[s].parent = scopes[s].parent,
         Owns(g) => scopes'[g.scope].parent = IF g.node.kind = "body" THEN file_scope ELSE Len(scopes),
         g.node.kind \in Statements => top.node.kind \in {"body", "block", "if", "while"}
  PROVE  /\ Scoped' /\ Parented' /\ Inside'
         /\ Bodies' = Bodies \cup (IF g.node.kind = "body" THEN {Len(stack) + 1} ELSE {})
  <1> DEFINE L == Len(stack)
  <1>1. /\ L \in Nat \ {0} /\ DOMAIN stack = 1..L /\ top = stack[L] /\ Len(scopes) \in Nat /\ Len(scopes) = stack[L].scope
        /\ Len(scopes) >= 2
    BY StackAt, ParentsBefore DEF Typed, Scoped
  <1>2. /\ Len(stack') = L + 1 /\ DOMAIN stack' = 1..(L + 1) /\ \A i \in 1..L : stack'[i] = stack[i]
        /\ stack'[L + 1] = g /\ L + 1 \in 1..(L + 1) /\ \A i \in 1..(L + 1) : i = L + 1 \/ i \in 1..L
    BY <1>1
  <1> HIDE DEF L
  <1>3. /\ Owners' = Owners \cup (IF Owns(g) THEN {L + 1} ELSE {})
        /\ Bodies' = Bodies \cup (IF g.node.kind = "body" THEN {L + 1} ELSE {})
        /\ Owners \subseteq 1..L /\ Bodies \subseteq 1..L
    <2>1. \A i \in 1..L : (Owns(stack[i])' <=> Owns(stack[i])) /\ (stack'[i].node.kind = "body" <=> stack[i].node.kind = "body")
      <3>1. ASSUME NEW i \in 1..L
            PROVE  (Owns(stack[i])' <=> Owns(stack[i])) /\ (stack'[i].node.kind = "body" <=> stack[i].node.kind = "body")
        <4>1. stack'[i] = stack[i]
          BY <1>2
        <4>2. QED
          BY <4>1 DEF Owns
      <3>2. QED
        BY <3>1
    <2>2. Owns(stack'[L + 1]) <=> Owns(g)
      BY <1>2 DEF Owns
    <2>3. QED
      BY <1>1, <1>2, <2>1, <2>2 DEF Owners, Bodies
  <1>4. Scoped'
    <2>1. Len(scopes') = stack'[Len(stack')].scope
      BY <1>2
    <2>2. ASSUME NEW i \in DOMAIN stack', i > 1
          PROVE  stack'[i].scope = IF Owns(stack'[i]) THEN stack'[i - 1].scope + 1 ELSE stack'[i - 1].scope
      <3>1. CASE i = L + 1
        <4>1. stack'[i] = g /\ stack'[i - 1] = stack[L]
          BY <1>1, <1>2, <3>1
        <4>2. QED
          BY <1>1, <4>1
      <3>2. CASE i \in 1..L
        <4>1. i - 1 \in 1..L /\ i \in DOMAIN stack
          BY <1>1, <2>2, <3>2
        <4>2. stack'[i] = stack[i] /\ stack'[i - 1] = stack[i - 1]
          BY <1>2, <3>2, <4>1
        <4>3. QED
          BY <2>2, <4>1, <4>2 DEF Scoped
      <3>3. QED
        BY <1>2, <2>2, <3>1, <3>2
    <2>3. QED
      BY <2>1, <2>2 DEF Scoped, Owns
  <1>5. Parented'
    <2>1. scopes'[1].parent = 0 /\ scopes'[2].parent = global_scope
      BY <1>1 DEF Parented
    <2>2. ASSUME NEW i \in Owners'
          PROVE  scopes'[stack'[i].scope].parent = IF i \in Bodies' THEN file_scope ELSE stack'[i].scope - 1
      <3>1. CASE i = L + 1
        <4>1. Owns(g) /\ (i \in Bodies' <=> g.node.kind = "body")
          BY <1>1, <1>3, <2>2, <3>1
        <4>2. stack'[i] = g
          BY <1>2, <3>1
        <4>3. g.scope = Len(scopes) + 1 /\ g.scope - 1 = Len(scopes)
          BY <1>1, <4>1
        <4>4. QED
          BY <4>1, <4>2, <4>3
      <3>2. CASE i # L + 1
        <4>1. i \in Owners /\ i \in 1..L /\ (i \in Bodies' <=> i \in Bodies)
          BY <1>3, <2>2, <3>2
        <4>2. stack'[i] = stack[i] /\ stack[i].scope \in 1..Len(scopes)
          BY <1>1, <1>2, <4>1, ScopesGrow
        <4>3. scopes[stack[i].scope].parent = IF i \in Bodies THEN file_scope ELSE stack[i].scope - 1
          BY <4>1 DEF Parented
        <4>4. QED
          BY <4>1, <4>2, <4>3
      <3>3. QED
        BY <3>1, <3>2
    <2>3. QED
      BY <2>1, <2>2 DEF Parented
  <1>6. Inside'
    <2>1. ASSUME NEW i \in DOMAIN stack', stack'[i].node.kind \in Statements PROVE \E j \in Bodies' : j < i
      <3>1. CASE i = L + 1
        <4>1. top.node.kind \in {"body", "block", "if", "while"}
          BY <1>2, <2>1, <3>1
        <4>2. CASE top.node.kind = "body"
          <5>1. L \in Bodies /\ L < i
            BY <1>1, <3>1, <4>2 DEF Bodies
          <5>2. QED
            BY <1>3, <5>1
        <4>3. CASE top.node.kind # "body"
          <5>1. top.node.kind \in Statements
            BY <4>1, <4>3 DEF Statements
          <5>2. PICK j \in Bodies : j < L
            BY <1>1, <5>1 DEF Inside, InBody
          <5>3. j \in Bodies' /\ j \in 1..L
            BY <1>3
          <5>4. QED
            BY <1>1, <3>1, <5>2, <5>3
        <4>4. QED
          BY <4>2, <4>3
      <3>2. CASE i \in 1..L
        <4>1. i \in DOMAIN stack /\ stack[i].node.kind \in Statements
          BY <1>1, <1>2, <2>1, <3>2
        <4>2. QED
          BY <1>3, <4>1 DEF Inside, InBody
      <3>3. QED
        BY <1>2, <2>1, <3>1, <3>2
    <2>2. QED
      BY <2>1 DEF Inside, InBody
  <1>7. QED
    BY <1>3, <1>4, <1>5, <1>6 DEF L

\* The functions being executed are finitely many, counted from the first.
LEMMA NestingIs ==
  ASSUME NEW B, NEW n \in Nat, B \subseteq 1..n, NEW i \in B
  PROVE  /\ IsFiniteSet(B) /\ Cardinality(B) \in Nat
         /\ Cardinality({j \in B : j <= i}) \in 1..Cardinality(B)
         /\ \A k \in B : i < k => Cardinality({j \in B : j <= i}) < Cardinality({j \in B : j <= k})
  <1>1. IsFiniteSet(1..n)
    BY FS_Interval
  <1>2. IsFiniteSet(B) /\ Cardinality(B) \in Nat
    BY <1>1, FS_Subset, FS_CardinalityType
  <1> DEFINE Upto(k) == {j \in B : j <= k}
  <1>3. \A k : IsFiniteSet(Upto(k)) /\ Cardinality(Upto(k)) \in Nat /\ Cardinality(Upto(k)) <= Cardinality(B)
    <2>1. ASSUME NEW k
          PROVE  IsFiniteSet(Upto(k)) /\ Cardinality(Upto(k)) \in Nat /\ Cardinality(Upto(k)) <= Cardinality(B)
      <3>1. Upto(k) \subseteq B
        OBVIOUS
      <3> HIDE DEF Upto
      <3>2. QED
        BY <1>2, <3>1, FS_Subset, FS_CardinalityType
    <2>2. QED
      BY <2>1
  <1>4. Cardinality(Upto(i)) # 0
    <2>1. i \in Upto(i)
      OBVIOUS
    <2> HIDE DEF Upto
    <2>2. QED
      BY <1>3, <2>1, FS_EmptySet
  <1>5. ASSUME NEW k \in B, i < k
        PROVE  Cardinality(Upto(i)) < Cardinality(Upto(k))
    <2>0. i \in Int /\ k \in Int /\ \A j \in B : j \in Int
      BY <1>5
    <2>1. Upto(i) \subseteq Upto(k) /\ k \in Upto(k) /\ k \notin Upto(i)
      <3>1. ASSUME NEW j \in B, j <= i PROVE j <= k
        BY <1>5, <2>0, <3>1
      <3>2. k <= k /\ ~ (k <= i)
        BY <1>5, <2>0
      <3>3. QED
        BY <3>1, <3>2
    <2>2. Upto(i) # Upto(k)
      BY <2>1
    <2> HIDE DEF Upto
    <2>3. QED
      BY <1>3, <2>1, <2>2, FS_Subset
  <1>6. QED
    BY <1>2, <1>3, <1>4, <1>5

LEMMA CallsKept ==
  ASSUME Typed, IsCallStack(callstack), NEW m, Keeps(m), callstack' = callstack,
         m = Len(stack) \/ top.node.kind # "body"
  PROVE  IsCallStack(callstack)'
  <1>1. Bodies' = Bodies
    <2>1. \A i \in Bodies : i \in 1..m
      <3>1. ASSUME NEW i \in Bodies, m # Len(stack) PROVE i # Len(stack)
        BY <3>1, StackAt DEF Bodies
      <3>2. Bodies \subseteq 1..Len(stack) /\ Len(stack) \in Nat /\ (m = Len(stack) \/ m = Len(stack) - 1)
        BY OwnersKept, StackAt DEF Keeps
      <3>3. QED
        BY <3>1, <3>2
    <2>2. QED
      BY <2>1, OwnersKept
  <1>2. \A i \in Bodies : stack'[i].node = stack[i].node
    BY <1>1, OwnersKept DEF Keeps
  <1>3. \A i \in Bodies : Nesting(i)' = Nesting(i)
    BY <1>1 DEF Nesting
  <1>4. QED
    BY <1>1, <1>2, <1>3 DEF IsCallStack

LEMMA CallsPopped ==
  ASSUME Typed, IsCallStack(callstack), Keeps(Len(stack) - 1), top.node.kind = "body",
         callstack' = Front(callstack)
  PROVE  IsCallStack(callstack)'
  <1> DEFINE L == Len(stack)
             B == Bodies
  <1>1. L \in Nat \ {0} /\ L \in B /\ B \subseteq 1..L /\ Bodies' = B \cap 1..(L - 1)
    BY StackAt, OwnersKept DEF Bodies
  <1>2. Bodies' = B \ {L}
    <2>1. \A i \in 1..L : i \in 1..(L - 1) <=> i # L
      BY <1>1
    <2> HIDE DEF L, B
    <2>2. QED
      BY <1>1, <2>1
  <1>3. Cardinality(Bodies') = Cardinality(B) - 1 /\ Cardinality(B) \in Nat
    <2>1. IsFiniteSet(B) /\ Cardinality(B) \in Nat
      BY <1>1, NestingIs
    <2>2. QED
      BY <1>1, <1>2, <2>1, FS_RemoveElement
  <1>4. callstack \in Seq(Names) /\ Len(callstack) = Cardinality(B)
    BY DEF Typed, IsCallStack
  <1>5. callstack # <<>>
    <2>1. Cardinality({j \in B : j <= L}) \in 1..Cardinality(B)
      BY <1>1, NestingIs
    <2>2. Len(callstack) # 0
      BY <1>3, <1>4, <2>1
    <2>3. QED
      BY <2>2
  <1>6. Len(callstack') = Len(callstack) - 1 /\ \A i \in 1..(Len(callstack) - 1) : callstack'[i] = callstack[i]
    BY <1>4, <1>5, FrontIs
  <1>7. ASSUME NEW i \in Bodies'
        PROVE  callstack'[Nesting(i)'] = stack'[i].node.token
    <2>1. i \in B /\ i < L /\ i \in 1..(L - 1)
      BY <1>1, <1>7
    <2>2. Nesting(i)' = Nesting(i)
      <3>1. {j \in Bodies' : j <= i} = {j \in B : j <= i}
        BY <1>1, <1>2, <2>1
      <3>2. QED
        BY <3>1 DEF Nesting
    <2>3. Nesting(i) \in 1..(Len(callstack) - 1)
      <3>1. Nesting(i) < Nesting(L) /\ Nesting(i) \in 1..Cardinality(B) /\ Nesting(L) \in 1..Cardinality(B)
        BY <1>1, <2>1, NestingIs DEF Nesting
      <3>2. QED
        BY <1>3, <1>4, <3>1
    <2>4. callstack[Nesting(i)] = stack[i].node.token /\ stack'[i].node = stack[i].node
      BY <2>1 DEF IsCallStack, Keeps
    <2>5. QED
      BY <1>6, <2>2, <2>3, <2>4
  <1>8. QED
    BY <1>3, <1>4, <1>6, <1>7 DEF IsCallStack

LEMMA CallsGrow ==
  ASSUME Typed, IsCallStack(callstack), NEW g,
         \A i \in 1..Len(stack) : stack'[i] = stack[i], stack'[Len(stack) + 1] = g,
         Bodies' = Bodies \cup (IF g.node.kind = "body" THEN {Len(stack) + 1} ELSE {}),
         callstack' = IF g.node.kind = "body" THEN Append(callstack, g.node.token) ELSE callstack,
         g.node.kind = "body" => g.node.token \in Names
  PROVE  IsCallStack(callstack)'
  <1> DEFINE L == Len(stack)
             B == Bodies
  <1>1. L \in Nat /\ B \subseteq 1..L /\ L + 1 \notin B
    BY StackAt DEF Bodies
  <1>2. IsFiniteSet(B) /\ Cardinality(B) \in Nat
    <2>1. IsFiniteSet(1..L)
      BY <1>1, FS_Interval
    <2>2. QED
      BY <1>1, <2>1, FS_Subset, FS_CardinalityType
  <1>3. callstack \in Seq(Names) /\ Len(callstack) = Cardinality(B)
    BY DEF Typed, IsCallStack
  <1>4. \A i \in B : /\ Nesting(i) \in 1..Len(callstack) /\ callstack[Nesting(i)] = stack[i].node.token
                     /\ stack'[i] = stack[i]
    BY <1>1, <1>3, NestingIs DEF Nesting, IsCallStack
  <1>5. ASSUME NEW i \in B PROVE Nesting(i)' = Nesting(i)
    <2>1. ~ (L + 1 <= i) /\ (Bodies' = B \/ Bodies' = B \cup {L + 1})
      <3>1. i \in 1..L
        BY <1>1, <1>5
      <3>2. QED
        BY <1>1, <3>1
    <2>1a. {j \in Bodies' : j <= i} = {j \in B : j <= i}
      <3> HIDE DEF B, L
      <3>1. QED
        BY <2>1
    <2>2. QED
      BY <2>1a DEF Nesting
  <1>6. CASE g.node.kind # "body"
    <2>1. Bodies' = B
      BY <1>6
    <2>2. QED
      BY <1>3, <1>4, <1>5, <1>6, <2>1 DEF IsCallStack
  <1>7. CASE g.node.kind = "body"
    <2>1. Bodies' = B \cup {L + 1} /\ Cardinality(Bodies') = Cardinality(B) + 1
      BY <1>1, <1>2, <1>7, FS_AddElement
    <2>2. /\ Len(callstack') = Len(callstack) + 1 /\ callstack'[Len(callstack) + 1] = g.node.token
          /\ \A i \in 1..Len(callstack) : callstack'[i] = callstack[i]
      BY <1>3, <1>7
    <2>3. {j \in Bodies' : j <= L + 1} = Bodies'
      <3>1. \A j \in 1..L : j <= L + 1
        BY <1>1
      <3>2. L + 1 <= L + 1
        BY <1>1
      <3>3. \A j \in Bodies' : j <= L + 1
        BY <1>1, <2>1, <3>1, <3>2
      <3>4. QED
        BY <3>3
    <2>4. callstack'[Cardinality({j \in Bodies' : j <= L + 1})] = stack'[L + 1].node.token
      BY <1>3, <2>1, <2>2, <2>3
    <2>5. \A i \in B : callstack'[Nesting(i)'] = stack'[i].node.token
      BY <1>4, <1>5, <2>2
    <2>6. \A i \in Bodies' : callstack'[Cardinality({j \in Bodies' : j <= i})] = stack'[i].node.token
      BY <2>1, <2>4, <2>5 DEF Nesting
    <2>7. QED
      BY <1>3, <2>1, <2>2, <2>6 DEF IsCallStack, Nesting
  <1>8. QED
    BY <1>6, <1>7

\* The last of the frames that are kept may have other values.
LEMMA FramedKept ==
  ASSUME Typed, Framed, NEW m, Keeps(m), program' = program,
         \A i \in 1..(m - 1) : stack'[i] = stack[i],
         Handed(stack'[m].node) <= Len(stack'[m].vals), Checked(stack'[m], FALSE)
  PROVE  Framed'
  <1>1. /\ DOMAIN stack = 1..Len(stack) /\ DOMAIN stack' = 1..m /\ Len(stack') = m
        /\ m \in Nat /\ Len(stack) \in Nat /\ 1 \in 1..m /\ m <= Len(stack)
        /\ \A i \in 1..m : stack'[i].node = stack[i].node /\ stack'[i].scope = stack[i].scope
    BY StackAt, OwnersKept DEF Keeps
  <1>2. stack'[1].node = Halt /\ stack'[1].scope = file_scope
    BY <1>1 DEF Framed
  <1>3. ASSUME NEW i \in DOMAIN stack'
        PROVE  /\ i > 1 => Shaped(stack[i].node)'
               /\ Handed(stack'[i].node) <= Len(stack'[i].vals)
               /\ Checked(stack'[i], i < Len(stack'))
    <2>1. i \in DOMAIN stack /\ stack'[i].node = stack[i].node
      BY <1>1, <1>3
    <2>2. i > 1 => Shaped(stack[i].node)
      BY <2>1 DEF Framed
    <2>3. Shaped(stack[i].node)' <=> Shaped(stack[i].node)
      BY <2>1 DEF Shaped, IsBody, IsMethodNode
    <2>4. CASE i = m
      <3>1. ~ (i < Len(stack'))
        BY <1>1, <2>4
      <3>2. Checked(stack'[i], i < Len(stack'))
        BY <2>4, <3>1 DEF Checked
      <3>3. QED
        BY <2>1, <2>2, <2>3, <2>4, <3>2
    <2>5. CASE i # m
      <3>1. stack'[i] = stack[i] /\ i < Len(stack') /\ i < Len(stack)
        BY <1>1, <1>3, <2>5
      <3>2. Handed(stack[i].node) <= Len(stack[i].vals) /\ Checked(stack[i], i < Len(stack))
        BY <2>1 DEF Framed
      <3>3. Checked(stack'[i], i < Len(stack'))
        BY <3>1, <3>2 DEF Checked
      <3>4. QED
        BY <2>1, <2>2, <2>3, <3>1, <3>2, <3>3
    <2>6. QED
      BY <2>4, <2>5
  <1>4. QED
    BY <1>2, <1>3 DEF Framed

\* Receiving a value, or ending, leaves what was found of a frame as it is.
LEMMA CheckedAfter ==
  ASSUME NEW H, NEW f, NEW g, NEW v, f.vals \in Seq(H), v \in H,
         Checked(f, TRUE), Handed(f.node) <= Len(f.vals), g.node = f.node
  PROVE  /\ g.vals = Append(f.vals, v) => Checked(g, FALSE) /\ Handed(g.node) <= Len(g.vals)
         /\ g.vals = f.vals => Checked(g, FALSE) /\ Handed(g.node) <= Len(g.vals)
  <1>1. Handed(f.node) \in 0..2 /\ (f.node.kind = "method" => Handed(f.node) = 1)
    BY DEF Handed
  <1>2. Len(f.vals) \in Nat
    OBVIOUS
  <1>3. ASSUME g.vals = Append(f.vals, v)
        PROVE  Checked(g, FALSE) /\ Handed(g.node) <= Len(g.vals)
    <2>1. Len(g.vals) = Len(f.vals) + 1 /\ \A i \in 1..Len(f.vals) : g.vals[i] = f.vals[i]
      BY <1>3
    <2>2. f.node.kind = "index" /\ Len(g.vals) >= 2 => g.vals[1].kind = "table"
      <3>1. ASSUME f.node.kind = "index", Len(g.vals) >= 2 PROVE 1 \in 1..Len(f.vals) /\ f.vals[1].kind = "table"
        <4>1. Len(f.vals) >= 2 \/ Len(f.vals) = 1
          <5> DEFINE k == Len(f.vals)
                     l == Len(g.vals)
          <5>1. k \in Nat /\ l = k + 1 /\ l >= 2
            BY <1>2, <2>1, <3>1
          <5> HIDE DEF k, l
          <5>2. k >= 2 \/ k = 1
            BY <5>1
          <5>3. QED
            BY <5>2 DEF k
        <4>2. f.vals[1].kind = "table"
          BY <3>1, <4>1 DEF Checked
        <4>3. QED
          BY <1>2, <4>1, <4>2
      <3>2. QED
        BY <2>1, <3>1
    <2>3. f.node.kind \in MethodCalls /\ Len(g.vals) >= 3 => g.vals[2].kind = "function"
      <3>1. ASSUME f.node.kind \in MethodCalls, Len(g.vals) >= 3 PROVE 2 \in 1..Len(f.vals) /\ f.vals[2].kind = "function"
        <4>1. Len(f.vals) >= 3 \/ Len(f.vals) = 2
          <5> DEFINE k == Len(f.vals)
                     l == Len(g.vals)
          <5>1. k \in Nat /\ l = k + 1 /\ l >= 3
            BY <1>2, <2>1, <3>1
          <5> HIDE DEF k, l
          <5>2. k >= 3 \/ k = 2
            BY <5>1
          <5>3. QED
            BY <5>2 DEF k
        <4>2. f.vals[2].kind = "function"
          BY <3>1, <4>1 DEF Checked
        <4>3. QED
          BY <1>2, <4>1, <4>2
      <3>2. QED
        BY <2>1, <3>1
    <2>4. f.node.kind = "method" => g.vals[1].kind = "table"
      <3>1. ASSUME f.node.kind = "method" PROVE 1 \in 1..Len(f.vals) /\ f.vals[1].kind = "table"
        BY <1>1, <1>2, <3>1 DEF Checked
      <3>2. QED
        BY <2>1, <3>1
    <2>5. Handed(g.node) <= Len(g.vals)
      BY <1>1, <1>2, <2>1
    <2>6. QED
      BY <2>2, <2>3, <2>4, <2>5 DEF Checked
  <1>4. ASSUME g.vals = f.vals
        PROVE  Checked(g, FALSE) /\ Handed(g.node) <= Len(g.vals)
    BY <1>4 DEF Checked
  <1>5. QED
    BY <1>3, <1>4

\* A value is delivered to the frame before the last.
LEMMA Delivered ==
  ASSUME Typed, Framed, Len(stack) > 1, NEW v \in Held', Deliver(v), Held \subseteq Held', program' = program
  PROVE  /\ stack' \in Seq(FramesOf(Held')) /\ stack' # <<>>
         /\ Keeps(Len(stack) - 1) /\ Framed'
  <1> DEFINE b == Front(stack)
             m == Len(stack) - 1
             H == Held'
  <1>1. stack \in Seq(FramesOf(Held)) /\ stack # <<>> /\ Len(stack) \in Nat \ {0} /\ m \in 1..Len(stack)
    BY StackAt DEF Typed
  <1>2. b \in Seq(FramesOf(Held)) /\ Len(b) = m /\ \A i \in 1..m : b[i] = stack[i]
    BY <1>1, FrontIs
  <1>3. b \in Seq(FramesOf(H)) /\ b # <<>>
    <2>1. Seq(FramesOf(Held)) \subseteq Seq(FramesOf(H))
      BY MoreHeld
    <2>2. b # <<>>
      BY <1>1, <1>2
    <2>3. QED
      BY <1>2, <2>1, <2>2
  <1>4. stack' = Receive(b, v)
    BY DEF Deliver
  <1> HIDE DEF b, H
  <1>5. /\ stack' \in Seq(FramesOf(H)) /\ Len(stack') = m /\ stack' # <<>>
        /\ \A i \in 1..m : stack'[i].node = b[i].node /\ stack'[i].scope = b[i].scope
        /\ \A i \in 1..(m - 1) : stack'[i] = b[i]
        /\ stack'[m].vals = Append(b[m].vals, v)
    <2>1. v \in H
      BY DEF H
    <2>2. /\ Receive(b, v) \in Seq(FramesOf(H)) /\ Len(Receive(b, v)) = Len(b) /\ Receive(b, v) # <<>>
          /\ \A i \in 1..Len(b) : /\ Receive(b, v)[i].node = b[i].node
                                  /\ Receive(b, v)[i].scope = b[i].scope
          /\ \A i \in 1..(Len(b) - 1) : Receive(b, v)[i] = b[i]
          /\ Receive(b, v)[Len(b)].vals = Append(b[Len(b)].vals, v)
      BY <1>3, <2>1, ReceiveIs
    <2> HIDE DEF m
    <2>3. QED
      BY <1>2, <1>4, <2>2
  <1>6. Keeps(m)
    BY <1>1, <1>2, <1>5 DEF Keeps
  <1>7. /\ stack[m].vals \in Seq(Held) /\ Handed(stack[m].node) <= Len(stack[m].vals) /\ Checked(stack[m], TRUE)
    <2>1. m \in DOMAIN stack /\ m < Len(stack)
      BY <1>1
    <2>2. Checked(stack[m], m < Len(stack)) /\ Handed(stack[m].node) <= Len(stack[m].vals)
      BY <2>1 DEF Framed
    <2>3. QED
      BY <2>1, <2>2, StackAt DEF Checked
  <1>8. stack[m].vals \in Seq(H)
    BY <1>7, SeqMonotonic DEF H
  <1>9. m \in 1..m /\ stack'[m].node = stack[m].node /\ stack'[m].vals = Append(stack[m].vals, v)
    BY <1>1, <1>2, <1>5
  <1>10. Checked(stack'[m], FALSE) /\ Handed(stack'[m].node) <= Len(stack'[m].vals)
    BY <1>7, <1>8, <1>9, CheckedAfter DEF H
  <1>11. \A i \in 1..(m - 1) : stack'[i] = stack[i]
    BY <1>1, <1>2, <1>5
  <1> HIDE DEF m
  <1>12. Framed'
    BY <1>6, <1>10, <1>11, FramedKept
  <1>13. QED
    BY <1>5, <1>6, <1>12 DEF H, m

\* A value is received by the last frame.
LEMMA Received ==
  ASSUME Typed, Framed, Checked(top, TRUE), NEW v \in Held', stack' = Receive(stack, v),
         Held \subseteq Held', program' = program
  PROVE  /\ stack' \in Seq(FramesOf(Held')) /\ stack' # <<>>
         /\ Keeps(Len(stack)) /\ Framed'
  <1> DEFINE m == Len(stack)
             H == Held'
  <1>1. stack \in Seq(FramesOf(Held)) /\ stack # <<>> /\ m \in Nat \ {0} /\ top = stack[m] /\ m \in DOMAIN stack
    BY StackAt DEF Typed
  <1>2. stack \in Seq(FramesOf(H))
    BY <1>1, MoreHeld
  <1> HIDE DEF H
  <1>3. /\ stack' \in Seq(FramesOf(H)) /\ Len(stack') = m /\ stack' # <<>>
        /\ \A i \in 1..m : stack'[i].node = stack[i].node /\ stack'[i].scope = stack[i].scope
        /\ \A i \in 1..(m - 1) : stack'[i] = stack[i]
        /\ stack'[m].vals = Append(stack[m].vals, v)
    BY <1>1, <1>2, ReceiveIs DEF H
  <1>4. Keeps(m)
    BY <1>1, <1>3 DEF Keeps
  <1>5. /\ stack[m].vals \in Seq(Held) /\ Handed(stack[m].node) <= Len(stack[m].vals) /\ Checked(stack[m], TRUE)
    BY <1>1, StackAt DEF Framed
  <1>6. stack[m].vals \in Seq(H)
    BY <1>5, SeqMonotonic DEF H
  <1>7. stack'[m].node = stack[m].node
    BY <1>1, <1>3
  <1>8. Checked(stack'[m], FALSE) /\ Handed(stack'[m].node) <= Len(stack'[m].vals)
    <2>1. v \in H /\ stack'[m].vals = Append(stack[m].vals, v)
      BY <1>3 DEF H
    <2> HIDE DEF m
    <2>2. QED
      BY <1>5, <1>6, <1>7, <2>1, CheckedAfter
  <1> HIDE DEF m
  <1>9. Framed'
    BY <1>3, <1>4, <1>8, FramedKept
  <1>10. QED
    BY <1>3, <1>4, <1>9 DEF H, m

\* The last frame ends.
LEMMA Popped ==
  ASSUME Typed, Framed, Len(stack) > 1, stack' = Front(stack), Held \subseteq Held', program' = program
  PROVE  /\ stack' \in Seq(FramesOf(Held')) /\ stack' # <<>>
         /\ Keeps(Len(stack) - 1) /\ Framed'
  <1> DEFINE m == Len(stack) - 1
  <1>1. stack \in Seq(FramesOf(Held)) /\ stack # <<>> /\ Len(stack) \in Nat \ {0} /\ m \in 1..Len(stack)
    BY StackAt DEF Typed
  <1>2. stack' \in Seq(FramesOf(Held)) /\ Len(stack') = m /\ \A i \in 1..m : stack'[i] = stack[i]
    BY <1>1, FrontIs
  <1>3. stack' \in Seq(FramesOf(Held')) /\ stack' # <<>>
    <2>1. Seq(FramesOf(Held)) \subseteq Seq(FramesOf(Held'))
      BY MoreHeld
    <2>2. stack' # <<>>
      BY <1>1, <1>2
    <2>3. QED
      BY <1>2, <2>1, <2>2
  <1>4. Keeps(m)
    BY <1>1, <1>2 DEF Keeps
  <1>5. Checked(stack'[m], FALSE) /\ Handed(stack'[m].node) <= Len(stack'[m].vals)
    <2>1. m \in DOMAIN stack /\ m < Len(stack) /\ stack'[m] = stack[m]
      BY <1>1, <1>2
    <2>2. Checked(stack[m], m < Len(stack)) /\ Handed(stack[m].node) <= Len(stack[m].vals)
      BY <2>1 DEF Framed
    <2>3. QED
      BY <2>1, <2>2 DEF Checked
  <1>6. \A i \in 1..(m - 1) : stack'[i] = stack[i]
    BY <1>1, <1>2
  <1> HIDE DEF m
  <1>7. Framed'
    BY <1>4, <1>5, <1>6, FramedKept
  <1>8. QED
    BY <1>3, <1>4, <1>7 DEF m

\* A loop begins again.
LEMMA BeginsAgain ==
  ASSUME Typed, Framed, top.node.kind = "while", stack' = Append(Front(stack), [top EXCEPT !.vals = <<>>]),
         Held' = Held, program' = program
  PROVE  /\ stack' \in Seq(FramesOf(Held')) /\ stack' # <<>>
         /\ Keeps(Len(stack)) /\ Framed'
  <1> DEFINE m == Len(stack)
             g == [top EXCEPT !.vals = <<>>]
  <1>1. /\ stack \in Seq(FramesOf(Held)) /\ stack # <<>> /\ m \in Nat \ {0} /\ top = stack[m] /\ m \in DOMAIN stack
        /\ top \in FramesOf(Held)
    BY StackAt DEF Typed
  <1>2. g \in FramesOf(Held) /\ g.node = top.node /\ g.scope = top.scope /\ g.vals = <<>>
    <2> DEFINE w == <<>>
    <2>1. w \in Seq(Held)
      OBVIOUS
    <2>2. g = [top EXCEPT !.vals = w]
      OBVIOUS
    <2> HIDE DEF w, g
    <2>3. g \in FramesOf(Held) /\ g.node = top.node /\ g.scope = top.scope /\ g.vals = w
      BY <1>1, <2>1, <2>2, OtherVals
    <2>4. QED
      BY <2>3 DEF w
  <1>3. Front(stack) \in Seq(FramesOf(Held)) /\ Len(Front(stack)) = m - 1 /\ \A i \in 1..(m - 1) : Front(stack)[i] = stack[i]
    BY <1>1, FrontIs
  <1> HIDE DEF g
  <1>4. stack' = Append(Front(stack), g)
    BY DEF g
  <1>5. /\ stack' \in Seq(FramesOf(Held)) /\ Len(stack') = m /\ stack' # <<>>
        /\ \A i \in 1..(m - 1) : stack'[i] = stack[i]
        /\ stack'[m] = g
    BY <1>1, <1>2, <1>3, <1>4, AppendIs
  <1>6. Keeps(m)
    <2>1. ASSUME NEW i \in 1..m PROVE stack'[i].node = stack[i].node /\ stack'[i].scope = stack[i].scope
      <3>1. i = m \/ i \in 1..(m - 1)
        BY <1>1
      <3>2. QED
        BY <1>1, <1>2, <1>5, <3>1
    <2>2. DOMAIN stack' = 1..m
      BY <1>5
    <2>3. QED
      BY <1>1, <1>5, <2>1, <2>2 DEF Keeps
  <1>7. Checked(stack'[m], FALSE) /\ Handed(stack'[m].node) <= Len(stack'[m].vals)
    <2>1. stack'[m].node.kind = "while" /\ stack'[m].vals = <<>>
      BY <1>2, <1>5
    <2>2. Handed(stack'[m].node) = 0
      BY <2>1 DEF Handed
    <2>3. Checked(stack'[m], FALSE)
      BY <2>1 DEF Checked, MethodCalls
    <2>4. Len(stack'[m].vals) = 0
      BY <2>1
    <2>5. 0 <= 0
      OBVIOUS
    <2>6. Handed(stack'[m].node) <= Len(stack'[m].vals)
      BY <2>2, <2>4, <2>5, Zenon
    <2>7. QED
      BY <2>3, <2>6
  <1> HIDE DEF m
  <1>8. Framed'
    BY <1>5, <1>6, <1>7, FramedKept
  <1>9. QED
    BY <1>5, <1>6, <1>8 DEF m

\* A frame is put on the stack.
LEMMA Pushed ==
  ASSUME Typed, Framed, Checked(top, TRUE), NEW g \in FramesOf(Held'), stack' = Append(stack, g),
         Shaped(g.node), Handed(g.node) <= Len(g.vals), Checked(g, FALSE),
         Held \subseteq Held', program' = program
  PROVE  /\ stack' \in Seq(FramesOf(Held')) /\ stack' # <<>>
         /\ Len(stack') = Len(stack) + 1 /\ DOMAIN stack' = 1..(Len(stack) + 1)
         /\ \A i \in 1..Len(stack) : stack'[i] = stack[i]
         /\ stack'[Len(stack) + 1] = g
         /\ Framed'
  <1> DEFINE m == Len(stack)
             H == Held'
  <1>1. /\ stack \in Seq(FramesOf(Held)) /\ stack # <<>> /\ m \in Nat \ {0} /\ top = stack[m]
        /\ DOMAIN stack = 1..m
    BY StackAt DEF Typed
  <1>2. stack \in Seq(FramesOf(H))
    BY <1>1, MoreHeld
  <1> HIDE DEF H
  <1>3. /\ stack' \in Seq(FramesOf(H)) /\ Len(stack') = m + 1 /\ stack' # <<>>
        /\ \A i \in 1..m : stack'[i] = stack[i]
        /\ stack'[m + 1] = g
    BY <1>2, AppendIs DEF H
  <1>4. DOMAIN stack' = 1..(m + 1)
    BY <1>3
  <1>5. stack'[1].node = Halt /\ stack'[1].scope = file_scope
    BY <1>1, <1>3 DEF Framed
  <1>6. ASSUME NEW i \in DOMAIN stack'
        PROVE  /\ i > 1 => Shaped(stack'[i].node)
               /\ Handed(stack'[i].node) <= Len(stack'[i].vals)
               /\ Checked(stack'[i], i < Len(stack'))
    <2>1. CASE i = m + 1
      <3>1. ~ (i < Len(stack')) /\ stack'[i] = g
        BY <1>1, <1>3, <2>1
      <3>2. QED
        BY <3>1 DEF Checked
    <2>2. CASE i # m + 1
      <3>1. i \in 1..m /\ i \in DOMAIN stack /\ stack'[i] = stack[i] /\ i < Len(stack')
        BY <1>1, <1>3, <1>4, <1>6, <2>2
      <3>2. /\ i > 1 => Shaped(stack[i].node)
            /\ Handed(stack[i].node) <= Len(stack[i].vals) /\ Checked(stack[i], i < m)
        BY <3>1 DEF Framed
      <3>3. Checked(stack[i], TRUE)
        <4>1. CASE i = m
          BY <1>1, <4>1
        <4>2. CASE i # m
          <5>1. i < m
            BY <1>1, <3>1, <4>2
          <5>2. QED
            BY <3>2, <5>1 DEF Checked
        <4>3. QED
          BY <4>1, <4>2
      <3>4. Checked(stack'[i], i < Len(stack'))
        BY <3>1, <3>3 DEF Checked
      <3>5. QED
        BY <3>1, <3>2, <3>4
    <2>3. QED
      BY <2>1, <2>2
  <1>7. \A n : Shaped(n)' <=> Shaped(n)
    BY DEF Shaped, IsBody
  <1>8. Framed'
    BY <1>5, <1>6, <1>7 DEF Framed, Shaped, IsBody, IsMethodNode
  <1>9. QED
    BY <1>3, <1>4, <1>8 DEF H

-----------------------------------------------------------------------------
(***************************************************************************)
(* Values.                                                                 *)
(***************************************************************************)
LEMMA ValuesAre ==
  ASSUME NEW p, NEW n \in Nat
  PROVE  /\ \A k \in Int : NumberValue(k) \in ValuesOf(p, n)
         /\ \A s \in Names : StringValue(s) \in ValuesOf(p, n)
         /\ null_value \in ValuesOf(p, n) /\ NoValue \in ValuesOf(p, n)
         /\ \A b \in BOOLEAN : Bool(b) \in ValuesOf(p, n)
         /\ \A t \in 1..n : Value("table", t, "none") \in ValuesOf(p, n)
         /\ \A f \in DOMAIN p \cup Natives : f \in Names => Value("function", 0, f) \in ValuesOf(p, n)
  <1>1. ASSUME NEW k \in {"number", "string", "null", "none", "table", "function"}, NEW i \in Int, NEW r \in Names,
               k = "table" => i \in 1..n, k = "function" => r \in DOMAIN p \cup Natives
        PROVE  Value(k, i, r) \in ValuesOf(p, n)
    BY <1>1 DEF Value, ValuesOf, AnyValue, Kinds
  <1>2. "none" \in Names
    BY DEF Names
  <1>3. \A k \in Int : NumberValue(k) \in ValuesOf(p, n)
    BY <1>1, <1>2 DEF NumberValue
  <1>4. \A s \in Names : StringValue(s) \in ValuesOf(p, n)
    BY <1>1 DEF StringValue
  <1>5. null_value \in ValuesOf(p, n) /\ NoValue \in ValuesOf(p, n)
    BY <1>1, <1>2 DEF null_value, NoValue
  <1>6. \A b \in BOOLEAN : Bool(b) \in ValuesOf(p, n)
    BY <1>3 DEF Bool
  <1>7. \A t \in 1..n : Value("table", t, "none") \in ValuesOf(p, n)
    BY <1>1, <1>2
  <1>8. \A f \in DOMAIN p \cup Natives : f \in Names => Value("function", 0, f) \in ValuesOf(p, n)
    BY <1>1
  <1>9. QED
    BY <1>3, <1>4, <1>5, <1>6, <1>7, <1>8

\* What is held is a number, a string, null, nothing, or a table or function
\* there is.
LEMMA HeldIs ==
  ASSUME NEW v \in Held
  PROVE  /\ v.kind \in Kinds /\ v.num \in Int /\ v.ref \in Names
         /\ v.kind = "table" => v.num \in 1..Len(tables)
         /\ v.kind = "function" => v.ref \in DOMAIN program \cup Natives
  BY DEF Held, ValuesOf, AnyValue

\* The last frame.
LEMMA TopIs ==
  ASSUME Typed, Framed
  PROVE  /\ top.node \in NodeType /\ (top.node = Halt \/ Shaped(top.node))
         /\ top.node.kind # "ir_run" => Len(stack) > 1 /\ Shaped(top.node)
         /\ top.node.kind \notin {"ir_run", "body", "method"} => top.node \in Known
         /\ top.node.kind = "method" => top.node \in MethodNodes
         /\ top.node.kind = "body" => IsBody(top.node)
         /\ Handed(top.node) <= Len(top.vals) /\ Checked(top, FALSE)
         /\ top.vals \in Seq(Held)
         /\ Subs(top) \in Seq(PartNodes)
         /\ \A i \in DOMAIN Subs(top) : PartFits(top.node, i, Subs(top)[i])
  <1> DEFINE L == Len(stack)
             n == top.node
  <1>1. L \in Nat \ {0} /\ L \in DOMAIN stack /\ top = stack[L] /\ n \in NodeType /\ top.vals \in Seq(Held)
    BY StackAt
  <1>2. (L > 1 => Shaped(n)) /\ (L = 1 => n = Halt)
    BY <1>1 DEF Framed
  <1>3. L > 1 \/ L = 1
    <2> HIDE DEF L
    <2>1. QED
      BY <1>1
  <1>4. Handed(n) <= Len(top.vals) /\ Checked(top, FALSE)
    <2>1. Handed(n) <= Len(top.vals) /\ Checked(top, L < Len(stack))
      BY <1>1 DEF Framed
    <2>2. ~ (L < Len(stack))
      BY <1>1
    <2>3. QED
      BY <2>1, <2>2 DEF Checked
  <1>5. Halt.kind = "ir_run"
    BY NodeIs DEF Halt
  <1>6. n = Halt \/ Shaped(n)
    BY <1>2, <1>3
  <1>7. n.kind # "ir_run" => L > 1 /\ Shaped(n)
    BY <1>2, <1>3, <1>5
  <1>8. n \in Known => n.kind \notin {"ir_run", "body", "method"}
    BY KnownFits, KindsApart DEF Fits
  <1>9. /\ n.kind \notin {"ir_run", "body", "method"} => n \in Known
        /\ n.kind = "method" => n \in MethodNodes
        /\ n.kind = "body" => IsBody(n)
    <2>1. Shaped(n) => n \in Known \/ (n.kind = "method" /\ IsMethodNode(n)) \/ (n.kind = "body" /\ IsBody(n))
      BY DEF Shaped, IsMethodNode, IsBody
    <2>2. QED
      BY <1>1, <1>5, <1>6, <1>8, <2>1 DEF MethodNodes
  <1>10. /\ Subs(top) \in Seq(PartNodes)
         /\ \A i \in DOMAIN Subs(top) : PartFits(top.node, i, Subs(top)[i])
    BY <1>1, <1>6, SubsAre DEF Typed
  <1>11. QED
    BY <1>1, <1>4, <1>6, <1>7, <1>9, <1>10

\* Without a fault the last frame has been checked for what comes next.
LEMMA ReadyIsChecked ==
  ASSUME Typed, Framed, Fault(top) = "ok"
  PROVE  Checked(top, TRUE)
  <1>1. Checked(top, FALSE)
    BY TopIs
  <1>2. ASSUME top.node.kind = "index", Len(top.vals) = 1 PROVE top.vals[1].kind = "table"
    BY <1>2 DEF Fault, MethodCalls, Increments
  <1>3. ASSUME top.node.kind \in MethodCalls, Len(top.vals) = 2 PROVE top.vals[2].kind = "function"
    <2>1. top.node.kind = "method_call" \/ top.node.kind = "method_call_stmt"
      BY <1>3 DEF MethodCalls
    <2>2. QED
      BY <1>3, <2>1 DEF Fault, MethodCalls, Increments
  <1>4. QED
    BY <1>1, <1>2, <1>3 DEF Checked

\* The look-up of a name in the scope of the last frame.
LEMMA LookUp ==
  ASSUME Typed, Framed, Scoped, Parented, NEW name
  PROVE  LET h == Holder(top.scope, name)
         IN  h # 0 => /\ h \in 1..Len(scopes) /\ name \in DOMAIN scopes[h].symbols
                      /\ scope_get(top.scope, name) \in Held
  <1>1. /\ Len(scopes) \in Nat /\ Len(scopes) >= 2 /\ top.scope = Len(scopes)
        /\ \A s \in 1..Len(scopes) : scopes[s].parent \in 0..(s - 1)
    BY ParentsBefore
  <1> DEFINE C == 0..Len(scopes)
             h == Holder(top.scope, name)
  <1>2. top.scope \in C /\ \A t \in C : t \in 1..Len(scopes) => scopes[t].parent \in C
    BY <1>1
  <1> HIDE DEF C
  <1>3. h \in 0..top.scope /\ (h # 0 => name \in DOMAIN scopes[h].symbols)
    BY <1>1, <1>2, HolderIs DEF C
  <1> HIDE DEF h
  <1>4. ASSUME h # 0 PROVE h \in 1..Len(scopes) /\ scopes[h].symbols[name] \in Held
    <2>1. h \in 1..Len(scopes)
      BY <1>1, <1>3, <1>4
    <2>2. scopes[h].symbols \in SymbolsOf(Held)
      <3>1. scopes[h] \in ScopesOf(Held)
        BY <2>1 DEF Typed
      <3>2. QED
        BY <3>1 DEF ScopesOf
    <2>3. QED
      BY <1>3, <1>4, <2>1, <2>2 DEF SymbolsOf
  <1>5. QED
    BY <1>3, <1>4 DEF scope_get, h

\* What a table has for a key.
LEMMA TableGet ==
  ASSUME Typed, NEW t \in Held, t.kind = "table", NEW key
  PROVE  table_get(t, key) \in Held
  <1>1. t.num \in 1..Len(tables)
    BY HeldIs
  <1>2. tables[t.num] \in TablesOf(Held)
    BY <1>1 DEF Typed
  <1>3. PICK X \in SUBSET Held : tables[t.num] \in [X -> Held]
    BY <1>2 DEF TablesOf
  <1>4. null_value \in Held
    <2>1. Len(tables) \in Nat
      BY DEF Typed
    <2>2. QED
      BY <2>1, ValuesAre DEF Held
  <1>5. QED
    BY <1>3, <1>4 DEF table_get

\* Putting an entry in a table.
LEMMA TablePut ==
  ASSUME Typed, NEW t, NEW key \in Held, NEW v \in Held,
         table_put(t, key, v), program' = program
  PROVE  Held' = Held /\ tables' \in Seq(TablesOf(Held')) /\ Len(tables') = Len(tables)
  <1>1. tables \in Seq(TablesOf(Held)) /\ DOMAIN tables = 1..Len(tables)
    BY DEF Typed
  <1>2. tables' = [tables EXCEPT ![t.num] = Bind(tables[t.num], key, v)]
    BY DEF table_put
  <1>3. tables' \in Seq(TablesOf(Held)) /\ Len(tables') = Len(tables)
    <2>1. CASE t.num \in 1..Len(tables)
      <3>1. tables[t.num] \in TablesOf(Held)
        BY <1>1, <2>1
      <3>2. Bind(tables[t.num], key, v) \in TablesOf(Held)
        BY <3>1, PutIs
      <3>3. QED
        BY <1>1, <1>2, <2>1, <3>2, ExceptSeq
    <2>2. CASE t.num \notin 1..Len(tables)
      <3>1. tables' = tables
        BY <1>1, <1>2, <2>2
      <3>2. QED
        BY <1>1, <3>1
    <2>3. QED
      BY <2>1, <2>2
  <1>4. Held' = Held
    BY <1>3 DEF Held
  <1>5. QED
    BY <1>3, <1>4

\* A scope with other symbols.
LEMMA OtherSymbols ==
  ASSUME NEW H, NEW r \in ScopesOf(H), NEW y \in SymbolsOf(H)
  PROVE  /\ [r EXCEPT !.symbols = y] \in ScopesOf(H)
         /\ [r EXCEPT !.symbols = y].parent = r.parent /\ [r EXCEPT !.symbols = y].symbols = y
  <1>1. PICK p \in Nat, z \in SymbolsOf(H) : r = [parent |-> p, symbols |-> z]
    BY DEF ScopesOf
  <1>2. [r EXCEPT !.symbols = y] = [parent |-> p, symbols |-> y]
    BY <1>1
  <1>3. [parent |-> p, symbols |-> y] \in ScopesOf(H)
    BY DEF ScopesOf
  <1>4. QED
    BY <1>1, <1>2, <1>3

\* Other symbols for one scope.
LEMMA ScopeChanged ==
  ASSUME NEW H, scopes \in Seq(ScopesOf(H)), NEW h \in 1..Len(scopes), NEW y \in SymbolsOf(H),
         scopes' = [scopes EXCEPT ![h] = [scopes[h] EXCEPT !.symbols = y]]
  PROVE  /\ scopes' \in Seq(ScopesOf(H)) /\ Len(scopes') = Len(scopes)
         /\ \A s \in 1..Len(scopes) : scopes'[s].parent = scopes[s].parent
         /\ \A s \in 1..Len(scopes) : s # h => scopes'[s] = scopes[s]
  <1> DEFINE g == [scopes[h] EXCEPT !.symbols = y]
  <1>1. scopes[h] \in ScopesOf(H)
    OBVIOUS
  <1>2. g \in ScopesOf(H) /\ g.parent = scopes[h].parent
    BY <1>1, OtherSymbols
  <1> HIDE DEF g
  <1>3. scopes' = [scopes EXCEPT ![h] = g]
    BY DEF g
  <1>4. /\ scopes' \in Seq(ScopesOf(H)) /\ Len(scopes') = Len(scopes)
        /\ \A s \in 1..Len(scopes) : scopes'[s] = IF s = h THEN g ELSE scopes[s]
    BY <1>2, <1>3, ExceptSeq
  <1>5. QED
    BY <1>2, <1>4

\* Assignment to a name.
LEMMA ScopeSet ==
  ASSUME Typed, Framed, Scoped, Parented, NEW name, NEW v \in Held, scope_set(top.scope, name, v)
  PROVE  /\ scopes' \in Seq(ScopesOf(Held)) /\ Len(scopes') = Len(scopes)
         /\ \A s \in 1..Len(scopes) : scopes'[s].parent = scopes[s].parent
         /\ \A s \in 1..Len(scopes) : s # Holder(top.scope, name) => scopes'[s] = scopes[s]
  <1> DEFINE h == Holder(top.scope, name)
             y == [scopes[h].symbols EXCEPT ![name] = v]
  <1>1. h # 0 => h \in 1..Len(scopes) /\ name \in DOMAIN scopes[h].symbols
    BY LookUp
  <1>2. scopes' = [scopes EXCEPT ![h] = [scopes[h] EXCEPT !.symbols = y]]
    BY DEF scope_set
  <1>3. scopes \in Seq(ScopesOf(Held)) /\ DOMAIN scopes = 1..Len(scopes)
    BY DEF Typed
  <1>4. CASE h = 0
    <2>1. h \notin DOMAIN scopes
      BY <1>3, <1>4
    <2> HIDE DEF h, y
    <2>2. scopes' = scopes
      BY <1>2, <1>3, <2>1
    <2>3. QED
      BY <1>3, <2>2
  <1>5. CASE h # 0
    <2> HIDE DEF h
    <2>1. scopes[h] \in ScopesOf(Held)
      BY <1>1, <1>3, <1>5
    <2>2. scopes[h].symbols \in SymbolsOf(Held)
      BY <2>1 DEF ScopesOf
    <2>3. PICK X \in SUBSET Names : scopes[h].symbols \in [X -> Held]
      BY <2>2 DEF SymbolsOf
    <2>4. y \in [X -> Held]
      BY <2>3
    <2>5. y \in SymbolsOf(Held)
      BY <2>4 DEF SymbolsOf
    <2> HIDE DEF y
    <2>6. /\ scopes' \in Seq(ScopesOf(Held)) /\ Len(scopes') = Len(scopes)
          /\ \A s \in 1..Len(scopes) : scopes'[s].parent = scopes[s].parent
          /\ \A s \in 1..Len(scopes) : s # h => scopes'[s] = scopes[s]
      BY <1>1, <1>2, <1>3, <1>5, <2>5, ScopeChanged
    <2>7. QED
      BY <2>6 DEF h
  <1>6. QED
    BY <1>4, <1>5

\* The scopes, tables and values are what they should be after a step.
StillTyped ==
  /\ program' = program
  /\ Held \subseteq Held'
  /\ scopes' \in Seq(ScopesOf(Held')) /\ tables' \in Seq(TablesOf(Held'))
  /\ returning' \in Held'

\* An assignment to a name, a field or an element.
LEMMA Assigned ==
  ASSUME Typed, Framed, Scoped, Parented, NEW target \in Exprs, target.kind \in Assignable,
         NEW i \in Nat \ {0}, NEW v \in Held, do_assign(target, i, v), program' = program,
         i + Len(Parts(target)) <= Len(top.vals) + 1
  PROVE  /\ Held' = Held /\ scopes' \in Seq(ScopesOf(Held)) /\ tables' \in Seq(TablesOf(Held))
         /\ Len(scopes') = Len(scopes)
         /\ \A s \in 1..Len(scopes) : scopes'[s].parent = scopes[s].parent
         /\ \A s \in 1..Len(scopes) :
              target.kind # "name" \/ s # Holder(top.scope, target.token) => scopes'[s] = scopes[s]
  <1>1. scopes \in Seq(ScopesOf(Held)) /\ tables \in Seq(TablesOf(Held)) /\ Len(tables) \in Nat
    BY DEF Typed
  <1>2. CASE target.kind = "name"
    <2>1. scope_set(top.scope, target.token, v) /\ tables' = tables
      BY <1>2 DEF do_assign
    <2>2. Held' = Held
      BY <2>1 DEF Held
    <2>3. /\ scopes' \in Seq(ScopesOf(Held)) /\ Len(scopes') = Len(scopes)
          /\ \A s \in 1..Len(scopes) : scopes'[s].parent = scopes[s].parent
          /\ \A s \in 1..Len(scopes) : s # Holder(top.scope, target.token) => scopes'[s] = scopes[s]
      BY <2>1, ScopeSet
    <2>4. QED
      BY <1>1, <1>2, <2>1, <2>2, <2>3
  <1>3. CASE target.kind \in {"field", "index"}
    <2>1. \E key \in Held : table_put(top.vals[i], key, v) /\ scopes' = scopes
      <3>1. CASE target.kind = "field"
        <4>1. target.token \in Names
          BY KnownFits DEF Fits, Exprs
        <4>2. StringValue(target.token) \in Held
          BY <1>1, <4>1, ValuesAre DEF Held
        <4>3. table_put(top.vals[i], StringValue(target.token), v) /\ scopes' = scopes
          BY <3>1 DEF do_assign
        <4>4. QED
          BY <4>2, <4>3
      <3>2. CASE target.kind = "index"
        <4>1. Len(Parts(target)) = 2
          BY <3>2, PartsAre
        <4>2. top.vals \in Seq(Held)
          BY TopIs
        <4>3. i + 1 \in 1..Len(top.vals)
          BY <4>1, <4>2
        <4>4. top.vals[i + 1] \in Held
          BY <4>2, <4>3
        <4>5. table_put(top.vals[i], top.vals[i + 1], v) /\ scopes' = scopes
          BY <3>2 DEF do_assign
        <4>6. QED
          BY <4>4, <4>5
      <3>3. QED
        BY <1>3, <3>1, <3>2
    <2>2. PICK key \in Held : table_put(top.vals[i], key, v) /\ scopes' = scopes
      BY <2>1
    <2>3. Held' = Held /\ tables' \in Seq(TablesOf(Held')) /\ Len(tables') = Len(tables)
      BY <2>2, TablePut
    <2>4. QED
      BY <1>1, <2>2, <2>3
  <1>4. QED
    BY <1>2, <1>3 DEF Assignable

\* A step after which the first m frames go on.
LEMMA StepKeeps ==
  ASSUME IInv, status = "running", NEW m, Keeps(m), StillTyped,
         stack' \in Seq(FramesOf(Held')), stack' # <<>>, Framed',
         Len(scopes') = IF m < Len(stack) /\ Owns(top) THEN Len(scopes) - 1 ELSE Len(scopes),
         \A s \in 1..Len(scopes') : scopes'[s].parent = scopes[s].parent,
         callstack' = IF m < Len(stack) /\ top.node.kind = "body" THEN Front(callstack) ELSE callstack,
         status' \in {"running", "finished", "error", "aborted", "undefined"},
         returning' # NoValue => Bodies' # {} /\ status' = "running"
  PROVE  IInv'
  <1>1. Scoped' /\ Parented' /\ Inside'
    BY StackShrinks DEF IInv
  <1>2. Len(stack) \in Nat /\ (m = Len(stack) \/ m = Len(stack) - 1)
    BY StackAt DEF IInv, Keeps
  <1>3. IsCallStack(callstack)
    BY DEF IInv, Called
  <1>4. callstack' \in Seq(Names) /\ IsCallStack(callstack)'
    <2>0. callstack \in Seq(Names)
      BY DEF IInv, Typed
    <2>1. CASE m = Len(stack) - 1 /\ top.node.kind = "body"
      <3>1. callstack' = Front(callstack)
        BY <1>2, <2>1
      <3>2. callstack # <<>>
        <4>1. Len(stack) \in Bodies /\ Bodies \subseteq 1..Len(stack)
          BY <2>1, StackAt DEF Bodies, IInv
        <4>2. Cardinality(Bodies) \in Nat /\ Cardinality({j \in Bodies : j <= Len(stack)}) \in 1..Cardinality(Bodies)
          BY <1>2, <4>1, NestingIs
        <4>3. Len(callstack) # 0
          BY <1>3, <4>2 DEF IsCallStack
        <4>4. QED
          BY <4>3
      <3>3. callstack' \in Seq(Names)
        BY <2>0, <3>1, <3>2, FrontIs
      <3>4. QED
        BY <1>3, <2>1, <3>1, <3>3, CallsPopped DEF IInv
    <2>2. CASE ~ (m = Len(stack) - 1 /\ top.node.kind = "body")
      <3>1. m = Len(stack) \/ top.node.kind # "body"
        BY <1>2, <2>2
      <3>2. callstack' = callstack
        BY <3>1
      <3>3. QED
        BY <1>3, <2>0, <3>1, <3>2, CallsKept DEF IInv
    <2>3. QED
      BY <2>1, <2>2
  <1>5. Typed'
    BY <1>4 DEF Typed, StillTyped, IInv
  <1>6. Unwinding' /\ Called'
    BY <1>4 DEF Unwinding, Called
  <1>7. QED
    BY <1>1, <1>5, <1>6 DEF IInv

-----------------------------------------------------------------------------
(***************************************************************************)
(* The steps.                                                              *)
(***************************************************************************)
LEMMA FaultIs ==
  ASSUME NEW f
  PROVE  Fault(f) \in {"ok", "error", "aborted", "undefined"}
  <1>1. \A v : KeyFault(v) \in {"ok", "error", "aborted"}
    BY DEF KeyFault
  <1>2. \A t, i : PutFault(f, t, i) \in {"ok", "error", "aborted", "undefined"}
    BY <1>1 DEF PutFault
  <1>3. IncrementFault(f) \in {"ok", "error", "aborted", "undefined"}
    BY <1>2 DEF IncrementFault
  <1>4. QED
    BY <1>1, <1>2, <1>3 DEF Fault

LEMMA Unmoved ==
  ASSUME Typed, Framed, stack' = stack, program' = program
  PROVE  Keeps(Len(stack)) /\ Framed'
  <1>1. Keeps(Len(stack))
    BY StackAt DEF Keeps
  <1>2. Framed'
    BY DEF Framed, Shaped, IsBody
  <1>3. QED
    BY <1>1, <1>2

\* Nothing but the stack and the status changes.
LEMMA NothingElse ==
  ASSUME IInv, UNCHANGED <<program, scopes, tables>>, returning' \in Held
  PROVE  /\ StillTyped /\ Held' = Held
         /\ Len(scopes') = Len(scopes) /\ \A s \in 1..Len(scopes') : scopes'[s].parent = scopes[s].parent
  <1>1. Held' = Held
    BY DEF Held
  <1>2. QED
    BY <1>1 DEF StillTyped, IInv, Typed

LEMMA NoValueHeld ==
  ASSUME IInv
  PROVE  NoValue \in Held /\ null_value \in Held /\ Len(tables) \in Nat
  <1>1. Len(tables) \in Nat
    BY DEF IInv, Typed
  <1>2. QED
    BY <1>1, ValuesAre DEF Held

\* A value is delivered, and no scope or call ends.
LEMMA StepDelivers ==
  ASSUME IInv, status = "running", top.node.kind \notin {"ir_run", "body"}, ~ Owns(top), StillTyped,
         NEW v \in Held', Deliver(v), Len(scopes') = Len(scopes),
         \A s \in 1..Len(scopes) : scopes'[s].parent = scopes[s].parent,
         callstack' = callstack, returning' = NoValue, status' = "running"
  PROVE  IInv'
  <1>1. Len(stack) > 1
    BY TopIs DEF IInv
  <1>2. /\ stack' \in Seq(FramesOf(Held')) /\ stack' # <<>>
        /\ Keeps(Len(stack) - 1) /\ Framed'
    BY <1>1, Delivered DEF IInv, StillTyped
  <1>3. QED
    BY <1>2, StepKeeps

\* A call goes on with a value of its own.
LEMMA StepReceives ==
  ASSUME IInv, status = "running", Checked(top, TRUE), StillTyped,
         NEW v \in Held', stack' = Receive(stack, v), Len(scopes') = Len(scopes),
         \A s \in 1..Len(scopes) : scopes'[s].parent = scopes[s].parent,
         callstack' = callstack, returning' = NoValue, status' = "running"
  PROVE  IInv'
  <1>1. /\ stack' \in Seq(FramesOf(Held')) /\ stack' # <<>>
        /\ Keeps(Len(stack)) /\ Framed'
    BY Received DEF IInv, StillTyped
  <1>2. Len(stack) \in Nat /\ ~ (Len(stack) < Len(stack))
    BY StackAt DEF IInv
  <1>3. QED
    BY <1>1, <1>2, StepKeeps

\* The stack stays as it is.
LEMMA StepStays ==
  ASSUME IInv, status = "running", UNCHANGED <<program, stack, scopes, callstack, tables, returning>>,
         returning = NoValue, status' \in {"running", "finished", "error", "aborted", "undefined"}
  PROVE  IInv'
  <1>1. StillTyped /\ Len(scopes') = Len(scopes) /\ Held' = Held /\ \A s \in 1..Len(scopes') : scopes'[s].parent = scopes[s].parent
    BY NothingElse, NoValueHeld
  <1>2. Keeps(Len(stack)) /\ Framed'
    BY Unmoved DEF IInv
  <1>3. Len(stack) \in Nat /\ ~ (Len(stack) < Len(stack))
    BY StackAt DEF IInv
  <1>4. stack' \in Seq(FramesOf(Held')) /\ stack' # <<>>
    BY <1>1 DEF IInv, Typed
  <1>5. QED
    BY <1>1, <1>2, <1>3, <1>4, StepKeeps

LEMMA FailsKeeps ==
  ASSUME IInv, Fails
  PROVE  IInv'
  BY StepStays, FaultIs DEF Fails, Running

LEMMA RunKeeps ==
  ASSUME IInv, ir_run
  PROVE  IInv'
  BY StepStays DEF ir_run, Complete, Ready, Running

\* The value of an expression is held.
LEMMA EvaluatedHeld ==
  ASSUME IInv, Complete({"name", "binop", "unary", "index", "field", "method", "table",
                         "null", "number", "string", "anon_func"})
  PROVE  Evaluated(top) \in Held
  <1> DEFINE n == top.node
             v == top.vals
  <1>1. /\ n.kind \in {"name", "binop", "unary", "index", "field", "method", "table",
                       "null", "number", "string", "anon_func"}
        /\ Len(v) = Len(Subs(top)) /\ Fault(top) = "ok"
    BY DEF Complete, Ready
  <1>2. v \in Seq(Held) /\ Len(v) \in Nat /\ Handed(n) <= Len(v) /\ Checked(top, FALSE)
    <2>1. v \in Seq(Held) /\ Handed(n) <= Len(v) /\ Checked(top, FALSE)
      BY TopIs DEF IInv
    <2>2. Len(v) \in Nat
      BY <2>1, LenProperties
    <2>3. QED
      BY <2>1, <2>2, Zenon
  <1>3. n.kind # "method" => n \in Known /\ Fits(n)
    BY <1>1, TopIs, KnownFits DEF IInv
  <1>4. Len(tables) \in Nat /\ program \in Programs
    BY DEF IInv, Typed
  <1>5. CASE n.kind = "name"
    <2>1. Holder(top.scope, n.token) # 0
      BY <1>1, <1>5 DEF Fault, MethodCalls, Increments
    <2>2. scope_get(top.scope, n.token) \in Held
      BY <2>1, LookUp DEF IInv
    <2>3. QED
      BY <1>5, <2>2 DEF Evaluated
  <1>6. CASE n.kind = "binop"
    <2>1. Len(v) = 2
      <3>1. Subs(top) = n.sub
        BY <1>6 DEF Subs, Increments, MethodCalls
      <3>2. QED
        BY <1>1, <1>3, <1>6, <3>1 DEF Fits
    <2>2. v[1] \in Held /\ v[2] \in Held
      BY <1>2, <2>1
    <2>3. v[1].num \in Int /\ v[2].num \in Int
      BY <2>2, HeldIs
    <2>4. n.token \in Binary
      BY <1>3, <1>6 DEF Fits
    <2>5. eval_binop(n.token, v[1], v[2]) \in Held
      <3> DEFINE x == v[1].num
                 y == v[2].num
      <3>1. NumberValue(x + y) \in Held /\ NumberValue(x - y) \in Held /\ NumberValue(x * y) \in Held
        BY <1>4, <2>3, ValuesAre DEF Held
      <3>2. NumberValue(1) \in Held /\ NumberValue(0) \in Held
        BY <1>4, ValuesAre DEF Held
      <3>3. /\ Bool(x < y) \in Held /\ Bool(x <= y) \in Held /\ Bool(x > y) \in Held /\ Bool(x >= y) \in Held
            /\ Bool(v[1] = v[2]) \in Held /\ Bool(v[1] # v[2]) \in Held
            /\ Bool(Truthy(v[1]) /\ Truthy(v[2])) \in Held /\ Bool(Truthy(v[1]) \/ Truthy(v[2])) \in Held
        BY <3>2 DEF Bool
      <3>4. QED
        BY <2>4, <3>1, <3>3 DEF eval_binop, Binary
    <2>6. QED
      BY <1>6, <2>5 DEF Evaluated
  <1>7. CASE n.kind = "unary"
    <2>1. Len(v) = 1
      <3>1. Subs(top) = n.sub
        BY <1>7 DEF Subs, Increments, MethodCalls
      <3>2. QED
        BY <1>1, <1>3, <1>7, <3>1 DEF Fits
    <2>2. v[1] \in Held
      BY <1>2, <2>1
    <2>3. v[1].num \in Int
      BY <2>2, HeldIs
    <2>4. n.token \in {"+", "-", "!"}
      BY <1>3, <1>7 DEF Fits
    <2>5. NumberValue(-v[1].num) \in Held /\ Bool(v[1].num = 0) \in Held
      <3>1. \A k \in Int : NumberValue(k) \in Held
        BY <1>4, ValuesAre DEF Held
      <3>2. -v[1].num \in Int /\ 0 \in Int /\ 1 \in Int
        BY <2>3
      <3>3. QED
        BY <3>1, <3>2 DEF Bool
    <2>6. eval_unary(n.token, v[1]) \in Held
      BY <2>2, <2>4, <2>5 DEF eval_unary
    <2>7. QED
      BY <1>7, <2>6 DEF Evaluated
  <1>8. CASE n.kind = "index"
    <2>1. Len(v) = 2
      <3>1. Subs(top) = n.sub
        BY <1>8 DEF Subs, Increments, MethodCalls
      <3>2. QED
        BY <1>1, <1>3, <1>8, <3>1 DEF Fits
    <2>2. v[1] \in Held
      BY <1>2, <2>1
    <2>3. v[1].kind = "table"
      BY <1>2, <1>8, <2>1 DEF Checked
    <2>4. table_get(v[1], v[2]) \in Held
      BY <2>2, <2>3, TableGet DEF IInv
    <2>5. QED
      BY <1>8, <2>4 DEF Evaluated
  <1>9. CASE n.kind \in {"field", "method"}
    <2>1. Len(v) >= 1 /\ v[1].kind = "table"
      <3>1. CASE n.kind = "field"
        <4>1. Subs(top) = n.sub
          BY <3>1 DEF Subs, Increments, MethodCalls
        <4>2. Len(v) = 1
          BY <1>1, <1>3, <3>1, <4>1 DEF Fits
        <4>3. v[1].kind = "table"
          BY <1>1, <3>1, <4>2 DEF Fault, MethodCalls, Increments
        <4>4. QED
          BY <4>2, <4>3
      <3>2. CASE n.kind = "method"
        <4>1. Handed(n) = 1
          BY <3>2 DEF Handed
        <4>2. QED
          BY <1>2, <3>2, <4>1 DEF Checked
      <3>3. QED
        BY <1>9, <3>1, <3>2
    <2>2. v[1] \in Held
      BY <1>2, <2>1
    <2>3. table_get(v[1], StringValue(n.token)) \in Held
      BY <2>1, <2>2, TableGet DEF IInv
    <2>4. QED
      BY <1>9, <2>3 DEF Evaluated
  <1>10. CASE n.kind = "table"
    <2>1. Handed(n) = 1
      BY <1>10 DEF Handed
    <2>2. v[1] \in Held
      BY <1>2, <2>1
    <2>3. QED
      BY <1>10, <2>2 DEF Evaluated
  <1>11. CASE n.kind \in {"null", "number", "string", "anon_func"}
    <2>1. Evaluated(top) = Literal(n)
      BY <1>11 DEF Evaluated
    <2>2. CASE n.kind = "null"
      <3>1. Literal(n) = null_value
        BY <2>2 DEF Literal
      <3>2. QED
        BY <2>1, <3>1, NoValueHeld
    <2>3. CASE n.kind = "number"
      <3>1. n.token \in Digits
        BY <1>3, <2>3 DEF Fits
      <3>2. Digit[n.token] \in Int
        BY <3>1 DEF Digit, Digits
      <3>3. Literal(n) = NumberValue(Digit[n.token])
        BY <2>3 DEF Literal
      <3>4. QED
        BY <1>4, <2>1, <3>2, <3>3, ValuesAre DEF Held
    <2>4. CASE n.kind = "string"
      <3>1. n.token \in Names
        BY <1>3, <2>4 DEF Fits
      <3>2. Literal(n) = StringValue(n.token)
        BY <2>4 DEF Literal
      <3>3. QED
        BY <1>4, <2>1, <3>1, <3>2, ValuesAre DEF Held
    <2>5. CASE n.kind = "anon_func"
      <3>1. n.token \in Names /\ n.token \in Anonymous
        BY <1>3, <2>5 DEF Fits
      <3>2. n.token \in DOMAIN program
        BY <1>4, <3>1, ProgramAssumption
      <3>3. Literal(n) = Value("function", 0, n.token)
        BY <2>5 DEF Literal
      <3>4. QED
        BY <1>4, <2>1, <3>1, <3>2, <3>3, ValuesAre DEF Held
    <2>6. QED
      BY <1>11, <2>2, <2>3, <2>4, <2>5
  <1>12. QED
    BY <1>1, <1>5, <1>6, <1>7, <1>8, <1>9, <1>10, <1>11

LEMMA ReadyIs ==
  ASSUME Ready
  PROVE  status = "running" /\ returning = NoValue /\ Fault(top) = "ok"
  BY DEF Ready, Running

LEMMA EvalValueKeeps ==
  ASSUME IInv, eval_value
  PROVE  IInv'
  <1>1. /\ Complete({"name", "binop", "unary", "index", "field", "method", "table",
                     "null", "number", "string", "anon_func"})
        /\ Deliver(Evaluated(top))
        /\ UNCHANGED <<program, scopes, callstack, tables, returning, status>>
    BY DEF eval_value
  <1>2. status = "running" /\ returning = NoValue
    BY <1>1, ReadyIs DEF Complete
  <1>3. top.node.kind \notin {"ir_run", "body"} /\ ~ Owns(top)
    BY <1>1 DEF Complete, Owns
  <1>4. /\ StillTyped /\ Held' = Held
        /\ Len(scopes') = Len(scopes) /\ \A s \in 1..Len(scopes') : scopes'[s].parent = scopes[s].parent
    BY <1>1, <1>2, NothingElse, NoValueHeld
  <1>5. Evaluated(top) \in Held'
    BY <1>1, <1>4, EvaluatedHeld
  <1>6. QED
    BY <1>1, <1>2, <1>3, <1>4, <1>5, StepDelivers

LEMMA EvalEntryKeeps ==
  ASSUME IInv, eval_entry
  PROVE  IInv'
  <1> DEFINE n == top.node
             v == top.vals
  <1>1. /\ Complete({"entry_normal", "entry_key", "entry_index"})
        /\ table_put(v[1], v[2], v[3]) /\ Deliver(NoValue)
        /\ UNCHANGED <<program, scopes, callstack, returning, status>>
    BY DEF eval_entry
  <1>2. status = "running" /\ returning = NoValue
    BY <1>1, ReadyIs DEF Complete
  <1>3. n.kind \in {"entry_normal", "entry_key", "entry_index"} /\ Len(v) = Len(Subs(top))
    BY <1>1 DEF Complete
  <1>4. n.kind \notin {"ir_run", "body"} /\ ~ Owns(top)
    BY <1>3 DEF Owns
  <1>5. v \in Seq(Held) /\ n \in Known
    BY <1>3, TopIs DEF IInv
  <1>6. Len(v) = 3
    <2>1. Handed(n) # 0 /\ n \in PartNodes
      BY <1>3, <1>5 DEF Handed, PartNodes
    <2>2. Len(Subs(top)) = Len(n.sub) + Shift(n)
      BY <2>1, SubsOfHanded
    <2>3. Fits(n)
      BY <1>5, KnownFits
    <2>4. CASE n.kind = "entry_normal"
      <3>1. Len(n.sub) = 1 /\ Shift(n) = 2
        BY <2>3, <2>4 DEF Fits, Shift
      <3>2. QED
        BY <1>3, <2>2, <3>1
    <2>5. CASE n.kind \in {"entry_key", "entry_index"}
      <3>1. Len(n.sub) = 2 /\ Shift(n) = 1
        BY <2>3, <2>5 DEF Fits, Shift
      <3>2. QED
        BY <1>3, <2>2, <3>1
    <2>6. QED
      BY <1>3, <2>4, <2>5
  <1>7. v[2] \in Held /\ v[3] \in Held
    BY <1>5, <1>6
  <1>8. Held' = Held /\ tables' \in Seq(TablesOf(Held'))
    BY <1>1, <1>7, TablePut DEF IInv
  <1>9. NoValue \in Held'
    BY <1>8, NoValueHeld
  <1>10. StillTyped
    BY <1>1, <1>2, <1>8, <1>9 DEF StillTyped, IInv, Typed
  <1>11. QED
    BY <1>1, <1>2, <1>4, <1>9, <1>10, StepDelivers

\* ++ assigns a number to what can be assigned to.
LEMMA IncDecAssigns ==
  ASSUME IInv, eval_incdec
  PROVE  LET t == top.node.sub[1]
             i == IF top.node.kind = "pre" THEN 2 ELSE 3
             w == NumberValue(top.vals[1].num + 1)
             r == IF top.node.kind = "pre" THEN w ELSE top.vals[2]
         IN  /\ t \in Exprs /\ t.kind \in Assignable /\ i \in Nat \ {0} /\ w \in Held /\ r \in Held
             /\ i + Len(Parts(t)) <= Len(top.vals) + 1
             /\ do_assign(t, i, w) /\ Deliver(r)
  <1> DEFINE n == top.node
             v == top.vals
             t == n.sub[1]
             i == IF n.kind = "pre" THEN 2 ELSE 3
             w == NumberValue(v[1].num + 1)
             r == IF n.kind = "pre" THEN w ELSE v[2]
  <1>1. /\ Complete(Increments) /\ do_assign(t, i, w) /\ Deliver(r)
        /\ UNCHANGED <<program, callstack, returning, status>>
    BY DEF eval_incdec
  <1>2. status = "running" /\ returning = NoValue /\ Fault(top) = "ok" /\ n.kind \in Increments /\ Len(v) = Len(Subs(top))
    BY <1>1, ReadyIs DEF Complete
  <1>3. n.kind \notin {"ir_run", "body", "method"} /\ ~ Owns(top)
    BY <1>2 DEF Owns, Increments
  <1>4. v \in Seq(Held) /\ n \in Known
    BY <1>3, TopIs DEF IInv
  <1>5. /\ t \in Exprs
        /\ t.kind \in Assignable => Len(v) = Len(Parts(t)) + (IF n.kind = "pre" THEN 1 ELSE 2)
        /\ t.kind \notin Assignable => Len(v) = 1
    BY <1>2, <1>4, SubsOfIncrement
  <1>6. t.kind \in Assignable
    <2>1. IncrementFault(top) = "ok"
      <3>1. n.kind = "pre" \/ n.kind = "post"
        BY <1>2 DEF Increments
      <3>2. QED
        BY <1>2, <3>1 DEF Fault, Increments, MethodCalls
    <2>2. QED
      BY <1>5, <2>1 DEF IncrementFault
  <1>7. Len(Parts(t)) \in Nat
    BY <1>5, <1>6, PartsAre
  <1>8. i + Len(Parts(t)) <= Len(v) + 1 /\ i \in Nat \ {0} /\ Len(v) >= 1 /\ (n.kind # "pre" => Len(v) >= 2)
    BY <1>5, <1>6, <1>7
  <1>9. v[1] \in Held /\ (n.kind # "pre" => v[2] \in Held)
    BY <1>4, <1>8
  <1>10. v[1].num + 1 \in Int
    BY <1>9, HeldIs
  <1>11. w \in Held /\ r \in Held
    <2>1. \A k \in Int : NumberValue(k) \in Held
      BY NoValueHeld, ValuesAre DEF Held
    <2>2. QED
      BY <1>9, <1>10, <2>1
  <1>12. QED
    BY <1>1, <1>5, <1>6, <1>8, <1>11

LEMMA EvalIncDecKeeps ==
  ASSUME IInv, eval_incdec
  PROVE  IInv'
  <1> DEFINE n == top.node
             t == n.sub[1]
             i == IF n.kind = "pre" THEN 2 ELSE 3
             w == NumberValue(top.vals[1].num + 1)
             r == IF n.kind = "pre" THEN w ELSE top.vals[2]
  <1>1. Complete(Increments) /\ UNCHANGED <<program, callstack, returning, status>>
    BY DEF eval_incdec
  <1>2. status = "running" /\ returning = NoValue /\ n.kind \in Increments
    BY <1>1, ReadyIs DEF Complete
  <1>3. n.kind \notin {"ir_run", "body"} /\ ~ Owns(top)
    BY <1>2 DEF Owns, Increments
  <1>4. /\ t \in Exprs /\ t.kind \in Assignable /\ i \in Nat \ {0} /\ w \in Held /\ r \in Held
        /\ i + Len(Parts(t)) <= Len(top.vals) + 1
        /\ do_assign(t, i, w) /\ Deliver(r)
    BY IncDecAssigns
  <1> HIDE DEF w, r, i, t
  <1>5. /\ Held' = Held /\ scopes' \in Seq(ScopesOf(Held)) /\ tables' \in Seq(TablesOf(Held))
         /\ Len(scopes') = Len(scopes)
         /\ \A s \in 1..Len(scopes) : scopes'[s].parent = scopes[s].parent
    BY <1>1, <1>4, Assigned DEF IInv
  <1>6. StillTyped
    BY <1>1, <1>2, <1>5, NoValueHeld DEF StillTyped
  <1>7. QED
    BY <1>1, <1>2, <1>3, <1>4, <1>5, <1>6, StepDelivers

\* An assignment has something that can be assigned to.
LEMMA AssignAssigns ==
  ASSUME IInv, assign
  PROVE  LET t == top.node.sub[1]
             w == Last(top.vals)
         IN  /\ t \in Exprs /\ t.kind \in Assignable /\ w \in Held
             /\ 1 + Len(Parts(t)) <= Len(top.vals) + 1 /\ do_assign(t, 1, w)
  <1> DEFINE n == top.node
             v == top.vals
             t == n.sub[1]
             w == Last(v)
  <1>1. /\ Complete({"assign"}) /\ do_assign(t, 1, w) /\ Deliver(NoValue)
        /\ UNCHANGED <<program, callstack, returning, status>>
    BY DEF assign
  <1>2. status = "running" /\ returning = NoValue /\ Fault(top) = "ok" /\ n.kind = "assign" /\ Len(v) = Len(Subs(top))
    BY <1>1, ReadyIs DEF Complete
  <1>3. n.kind \notin {"ir_run", "body", "method"} /\ ~ Owns(top)
    BY <1>2 DEF Owns
  <1>4. v \in Seq(Held) /\ n \in Known
    BY <1>3, TopIs DEF IInv
  <1>5. t \in Exprs /\ (t.kind \in Assignable => Len(v) = Len(Parts(t)) + 1)
    BY <1>2, <1>4, SubsOfAssign
  <1>6. t.kind \in Assignable
    BY <1>2 DEF Fault, Increments, MethodCalls
  <1>7. Len(Parts(t)) \in Nat
    BY <1>5, <1>6, PartsAre
  <1>8. 1 + Len(Parts(t)) <= Len(v) + 1 /\ v # <<>>
    BY <1>4, <1>5, <1>6, <1>7
  <1>9. w \in Held
    BY <1>4, <1>8, FrontIs
  <1>10. QED
    BY <1>1, <1>5, <1>6, <1>8, <1>9

LEMMA AssignKeeps ==
  ASSUME IInv, assign
  PROVE  IInv'
  <1> DEFINE n == top.node
             t == n.sub[1]
             w == Last(top.vals)
  <1>1. Complete({"assign"}) /\ Deliver(NoValue) /\ UNCHANGED <<program, callstack, returning, status>>
    BY DEF assign
  <1>2. status = "running" /\ returning = NoValue /\ n.kind = "assign"
    BY <1>1, ReadyIs DEF Complete
  <1>3. n.kind \notin {"ir_run", "body"} /\ ~ Owns(top)
    BY <1>2 DEF Owns
  <1>4. /\ t \in Exprs /\ t.kind \in Assignable /\ w \in Held
        /\ 1 + Len(Parts(t)) <= Len(top.vals) + 1 /\ do_assign(t, 1, w)
    BY AssignAssigns
  <1> HIDE DEF w, t
  <1>5. /\ Held' = Held /\ scopes' \in Seq(ScopesOf(Held)) /\ tables' \in Seq(TablesOf(Held))
         /\ Len(scopes') = Len(scopes)
         /\ \A s \in 1..Len(scopes) : scopes'[s].parent = scopes[s].parent
    BY <1>1, <1>4, Assigned DEF IInv
  <1>6. StillTyped /\ NoValue \in Held'
    BY <1>1, <1>2, <1>5, NoValueHeld DEF StillTyped
  <1>7. QED
    BY <1>1, <1>2, <1>3, <1>5, <1>6, StepDelivers

LEMMA VarKeeps ==
  ASSUME IInv, var
  PROVE  IInv'
  <1> DEFINE n == top.node
             v == top.vals
             h == top.scope
             y == Bind(scopes[h].symbols, n.token, v[1])
  <1>1. /\ Complete({"var"}) /\ Deliver(NoValue)
        /\ scopes' = [scopes EXCEPT ![h] = [scopes[h] EXCEPT !.symbols = y]]
        /\ UNCHANGED <<program, callstack, tables, returning, status>>
    BY DEF var
  <1>2. status = "running" /\ returning = NoValue /\ n.kind = "var" /\ Len(v) = Len(Subs(top))
    BY <1>1, ReadyIs DEF Complete
  <1>3. n.kind \notin {"ir_run", "body", "method"} /\ ~ Owns(top)
    BY <1>2 DEF Owns
  <1>4. v \in Seq(Held) /\ n \in Known /\ Fits(n)
    BY <1>3, TopIs, KnownFits DEF IInv
  <1>5. v[1] \in Held
    <2>1. Subs(top) = n.sub
      BY <1>2 DEF Subs, Increments, MethodCalls
    <2>2. Len(v) = 1
      BY <1>2, <1>4, <2>1 DEF Fits
    <2>3. QED
      BY <1>4, <2>2
  <1>6. h \in 1..Len(scopes) /\ scopes \in Seq(ScopesOf(Held))
    BY ParentsBefore DEF IInv, Typed
  <1>7. scopes[h].symbols \in SymbolsOf(Held)
    <2>1. scopes[h] \in ScopesOf(Held)
      BY <1>6
    <2>2. QED
      BY <2>1 DEF ScopesOf
  <1>8. y \in SymbolsOf(Held)
    BY <1>4, <1>5, <1>7, BindIs DEF Fits
  <1> HIDE DEF y, h
  <1>9. /\ scopes' \in Seq(ScopesOf(Held)) /\ Len(scopes') = Len(scopes)
        /\ \A s \in 1..Len(scopes) : scopes'[s].parent = scopes[s].parent
    BY <1>1, <1>6, <1>8, ScopeChanged
  <1>10. Held' = Held
    BY <1>1 DEF Held
  <1>11. StillTyped /\ NoValue \in Held'
    BY <1>1, <1>2, <1>9, <1>10, NoValueHeld DEF StillTyped, IInv, Typed
  <1>12. QED
    BY <1>1, <1>2, <1>3, <1>9, <1>11, StepDelivers

LEMMA IfKeeps ==
  ASSUME IInv, if
  PROVE  IInv'
  <1>1. /\ Complete({"if"}) /\ Deliver(NoValue)
        /\ UNCHANGED <<program, scopes, callstack, tables, returning, status>>
    BY DEF if
  <1>2. status = "running" /\ returning = NoValue /\ top.node.kind = "if"
    BY <1>1, ReadyIs DEF Complete
  <1>3. top.node.kind \notin {"ir_run", "body"} /\ ~ Owns(top)
    BY <1>2 DEF Owns
  <1>4. /\ StillTyped /\ Held' = Held /\ NoValue \in Held
        /\ Len(scopes') = Len(scopes) /\ \A s \in 1..Len(scopes') : scopes'[s].parent = scopes[s].parent
    BY <1>1, <1>2, NothingElse, NoValueHeld
  <1>5. QED
    BY <1>1, <1>2, <1>3, <1>4, StepDelivers

LEMMA WhileKeeps ==
  ASSUME IInv, while
  PROVE  IInv'
  <1>1. /\ Complete({"while"})
        /\ UNCHANGED <<program, scopes, callstack, tables, returning, status>>
        /\ IF Len(top.vals) = 1 THEN Deliver(NoValue)
           ELSE stack' = Append(Front(stack), [top EXCEPT !.vals = <<>>])
    BY DEF while
  <1>2. status = "running" /\ returning = NoValue /\ top.node.kind = "while"
    BY <1>1, ReadyIs DEF Complete
  <1>3. top.node.kind \notin {"ir_run", "body"} /\ ~ Owns(top)
    BY <1>2 DEF Owns
  <1>4. /\ StillTyped /\ Held' = Held /\ NoValue \in Held
        /\ Len(scopes') = Len(scopes) /\ \A s \in 1..Len(scopes') : scopes'[s].parent = scopes[s].parent
    BY <1>1, <1>2, NothingElse, NoValueHeld
  <1>5. CASE Len(top.vals) = 1
    BY <1>1, <1>2, <1>3, <1>4, <1>5, StepDelivers
  <1>6. CASE Len(top.vals) # 1
    <2>1. /\ stack' \in Seq(FramesOf(Held')) /\ stack' # <<>>
          /\ Keeps(Len(stack)) /\ Framed'
      BY <1>1, <1>2, <1>4, <1>6, BeginsAgain DEF IInv
    <2>2. Len(stack) \in Nat /\ ~ (Len(stack) < Len(stack))
      BY StackAt DEF IInv
    <2>3. QED
      BY <1>1, <1>2, <1>4, <2>1, <2>2, StepKeeps
  <1>7. QED
    BY <1>5, <1>6

LEMMA CallReturnsKeeps ==
  ASSUME IInv, call_returns
  PROVE  IInv'
  <1> DEFINE r == IF top.node.kind \in {"call", "method_call"} THEN Last(top.vals) ELSE NoValue
  <1>1. /\ Ready /\ top.node.kind \in Calls \cup MethodCalls /\ Len(top.vals) = Len(Subs(top)) + 1
        /\ Deliver(r)
        /\ UNCHANGED <<program, scopes, callstack, tables, returning, status>>
    BY DEF call_returns
  <1>2. status = "running" /\ returning = NoValue
    BY <1>1, ReadyIs
  <1>3. top.node.kind \notin {"ir_run", "body"} /\ ~ Owns(top)
    BY <1>1 DEF Owns, Calls, MethodCalls
  <1>4. /\ StillTyped /\ Held' = Held /\ NoValue \in Held
        /\ Len(scopes') = Len(scopes) /\ \A s \in 1..Len(scopes') : scopes'[s].parent = scopes[s].parent
    BY <1>1, <1>2, NothingElse, NoValueHeld
  <1>5. Last(top.vals) \in Held
    <2>1. top.vals \in Seq(Held) /\ Subs(top) \in Seq(PartNodes)
      BY TopIs DEF IInv
    <2>2. top.vals # <<>>
      BY <1>1, <2>1
    <2>3. QED
      BY <2>1, <2>2, FrontIs
  <1>6. r \in Held'
    BY <1>4, <1>5
  <1> HIDE DEF r
  <1>7. QED
    BY <1>1, <1>2, <1>3, <1>4, <1>6, StepDelivers

\* Popping the scope of the last frame, which has one of its own.
LEMMA ScopePopped ==
  ASSUME IInv, Owns(top), scopes' = Front(scopes)
  PROVE  /\ scopes' \in Seq(ScopesOf(Held)) /\ Len(scopes') = Len(scopes) - 1
         /\ \A s \in 1..Len(scopes') : scopes'[s] = scopes[s]
  <1>1. scopes \in Seq(ScopesOf(Held)) /\ scopes # <<>>
    <2>1. scopes \in Seq(ScopesOf(Held)) /\ Len(scopes) >= 2
      BY ParentsBefore DEF IInv, Typed
    <2>2. QED
      BY <2>1
  <1>2. QED
    BY <1>1, FrontIs

LEMMA BlockKeeps ==
  ASSUME IInv, block
  PROVE  IInv'
  <1>1. /\ Complete({"block"}) /\ pop_scope /\ Deliver(NoValue)
        /\ UNCHANGED <<program, callstack, tables, returning, status>>
    BY DEF block
  <1>2. status = "running" /\ returning = NoValue /\ top.node.kind = "block"
    BY <1>1, ReadyIs DEF Complete
  <1>3. Held' = Held /\ NoValue \in Held
    BY <1>1, NoValueHeld DEF Held
  <1>4. CASE top.node.sub = <<>>
    <2>1. scopes' = scopes /\ ~ Owns(top)
      BY <1>1, <1>4 DEF pop_scope, Owns
    <2>2. /\ StillTyped
          /\ Len(scopes') = Len(scopes) /\ \A s \in 1..Len(scopes') : scopes'[s].parent = scopes[s].parent
      BY <1>1, <1>2, <1>3, <2>1, NothingElse
    <2>3. QED
      BY <1>1, <1>2, <1>3, <2>1, <2>2, StepDelivers
  <1>5. CASE top.node.sub # <<>>
    <2>1. Owns(top) /\ scopes' = Front(scopes)
      BY <1>1, <1>2, <1>5 DEF pop_scope, Owns
    <2>2. /\ scopes' \in Seq(ScopesOf(Held)) /\ Len(scopes') = Len(scopes) - 1
          /\ \A s \in 1..Len(scopes') : scopes'[s] = scopes[s]
      BY <2>1, ScopePopped
    <2>3. StillTyped
      BY <1>1, <1>2, <1>3, <2>2 DEF StillTyped, IInv, Typed
    <2>4. Len(stack) > 1 /\ Len(stack) \in Nat /\ Len(stack) - 1 < Len(stack)
      BY <1>2, TopIs, StackAt DEF IInv
    <2>5. /\ stack' \in Seq(FramesOf(Held')) /\ stack' # <<>>
          /\ Keeps(Len(stack) - 1) /\ Framed'
      BY <1>1, <1>3, <2>4, Delivered DEF IInv
    <2>6. QED
      BY <1>1, <1>2, <2>1, <2>2, <2>3, <2>4, <2>5, StepKeeps
  <1>6. QED
    BY <1>4, <1>5

LEMMA ReturnKeeps ==
  ASSUME IInv, return
  PROVE  IInv'
  <1> DEFINE L == Len(stack)
             v == top.vals
  <1>1. /\ Complete({"return"}) /\ returning' = (IF v = <<>> THEN null_value ELSE v[1])
        /\ stack' = Front(stack)
        /\ UNCHANGED <<program, scopes, callstack, tables, status>>
    BY DEF return
  <1>2. status = "running" /\ returning = NoValue /\ top.node.kind = "return"
    BY <1>1, ReadyIs DEF Complete
  <1>3. L > 1 /\ L \in Nat /\ L \in DOMAIN stack /\ top = stack[L] /\ ~ Owns(top)
    BY <1>2, TopIs, StackAt DEF IInv, Owns
  <1>4. returning' \in Held
    <2>1. v \in Seq(Held) /\ null_value \in Held
      BY TopIs, NoValueHeld DEF IInv
    <2>2. v # <<>> => v[1] \in Held
      BY <2>1
    <2>3. QED
      BY <1>1, <2>1, <2>2
  <1>5. /\ StillTyped /\ Held' = Held
        /\ Len(scopes') = Len(scopes) /\ \A s \in 1..Len(scopes') : scopes'[s].parent = scopes[s].parent
    BY <1>1, <1>4, NothingElse
  <1>6. /\ stack' \in Seq(FramesOf(Held')) /\ stack' # <<>>
        /\ Keeps(L - 1) /\ Framed'
    BY <1>1, <1>3, <1>5, Popped DEF IInv
  <1>7. Bodies' # {}
    <2>1. top.node.kind \in Statements
      BY <1>2 DEF Statements
    <2>2. PICK j \in Bodies : j < L
      BY <1>3, <2>1 DEF IInv, Inside, InBody
    <2>3. j \in 1..L /\ Bodies' = Bodies \cap 1..(L - 1)
      BY <1>6, OwnersKept DEF IInv
    <2> HIDE DEF L
    <2>4. j \in 1..(L - 1)
      BY <1>3, <2>2, <2>3
    <2>5. QED
      BY <2>3, <2>4
  <1>8. top.node.kind # "body"
    BY <1>2
  <1>9. QED
    BY <1>1, <1>2, <1>3, <1>5, <1>6, <1>7, <1>8, StepKeeps

LEMMA UnwindKeeps ==
  ASSUME IInv, unwind
  PROVE  IInv'
  <1> DEFINE L == Len(stack)
  <1>1. /\ returning # NoValue /\ top.node.kind # "body" /\ stack' = Front(stack)
        /\ IF top.node.kind = "block" THEN pop_scope ELSE scopes' = scopes
        /\ UNCHANGED <<program, callstack, tables, returning, status>>
    BY DEF unwind
  <1>2. status = "running" /\ Bodies # {}
    BY <1>1 DEF IInv, Unwinding
  <1>3. PICK b \in Bodies : TRUE
    BY <1>2
  <1>4. L \in Nat \ {0} /\ b \in 1..L /\ b # L /\ top = stack[L] /\ DOMAIN stack = 1..L
    BY <1>1, <1>3, StackAt DEF Bodies, IInv
  <1>5. L > 1 /\ L - 1 < L /\ b \in 1..(L - 1)
    <2> HIDE DEF L
    <2>1. QED
      BY <1>4
  <1>6. Held' = Held /\ returning' \in Held
    BY <1>1 DEF Held, IInv, Typed
  <1>7. /\ StillTyped
        /\ Len(scopes') = IF Owns(top) THEN Len(scopes) - 1 ELSE Len(scopes)
        /\ \A s \in 1..Len(scopes') : scopes'[s].parent = scopes[s].parent
    <2>1. CASE Owns(top)
      <3>1. top.node.kind = "block" /\ top.node.sub # <<>>
        BY <1>1, <2>1 DEF Owns
      <3>2. scopes' = Front(scopes)
        BY <1>1, <3>1 DEF pop_scope
      <3>3. /\ scopes' \in Seq(ScopesOf(Held)) /\ Len(scopes') = Len(scopes) - 1
            /\ \A s \in 1..Len(scopes') : scopes'[s] = scopes[s]
        BY <2>1, <3>2, ScopePopped
      <3>4. StillTyped
        BY <1>1, <1>6, <3>3 DEF StillTyped, IInv, Typed
      <3>5. QED
        BY <2>1, <3>3, <3>4
    <2>2. CASE ~ Owns(top)
      <3>1. scopes' = scopes
        BY <1>1, <2>2 DEF Owns, pop_scope
      <3>2. QED
        BY <1>1, <1>6, <2>2, <3>1, NothingElse
    <2>3. QED
      BY <2>1, <2>2
  <1>8. /\ stack' \in Seq(FramesOf(Held')) /\ stack' # <<>>
        /\ Keeps(L - 1) /\ Framed'
    BY <1>1, <1>5, <1>6, Popped DEF IInv
  <1>9. Bodies' # {}
    <2>1. Bodies' = Bodies \cap 1..(L - 1)
      BY <1>8, OwnersKept DEF IInv
    <2>2. QED
      BY <1>3, <1>5, <2>1
  <1>10. QED
    BY <1>1, <1>2, <1>5, <1>7, <1>8, <1>9, StepKeeps

\* A function ends, by itself or by a return statement.
LEMMA FunctionEndsKeeps ==
  ASSUME IInv, status = "running", top.node.kind = "body", NEW v \in Held, eval_function_ends(v)
  PROVE  IInv'
  <1>1. /\ scopes' = Front(scopes) /\ callstack' = Front(callstack) /\ returning' = NoValue
        /\ Deliver(v) /\ UNCHANGED <<program, tables, status>>
    BY DEF eval_function_ends
  <1>2. Len(stack) > 1 /\ Len(stack) \in Nat /\ Len(stack) - 1 < Len(stack) /\ Owns(top)
    <2>1. Len(stack) > 1 /\ IsBody(top.node) /\ Len(stack) \in Nat
      BY TopIs, StackAt DEF IInv
    <2>2. QED
      BY <2>1 DEF IsBody, Owns
  <1>3. Held' = Held /\ NoValue \in Held
    BY <1>1, NoValueHeld DEF Held
  <1>4. /\ scopes' \in Seq(ScopesOf(Held)) /\ Len(scopes') = Len(scopes) - 1
        /\ \A s \in 1..Len(scopes') : scopes'[s] = scopes[s]
    BY <1>1, <1>2, ScopePopped
  <1>5. StillTyped
    BY <1>1, <1>3, <1>4 DEF StillTyped, IInv, Typed
  <1>6. /\ stack' \in Seq(FramesOf(Held')) /\ stack' # <<>>
        /\ Keeps(Len(stack) - 1) /\ Framed'
    BY <1>1, <1>2, <1>3, Delivered DEF IInv
  <1>7. QED
    BY <1>1, <1>2, <1>4, <1>5, <1>6, StepKeeps

LEMMA FallsOffEndKeeps ==
  ASSUME IInv, FallsOffEnd
  PROVE  IInv'
  <1>1. Complete({"body"}) /\ eval_function_ends(null_value)
    BY DEF FallsOffEnd
  <1>2. status = "running" /\ top.node.kind = "body"
    BY <1>1, ReadyIs DEF Complete
  <1>3. QED
    BY <1>1, <1>2, NoValueHeld, FunctionEndsKeeps

LEMMA ReturnsKeeps ==
  ASSUME IInv, Returns
  PROVE  IInv'
  <1>1. returning # NoValue /\ top.node.kind = "body" /\ eval_function_ends(returning)
    BY DEF Returns
  <1>2. status = "running" /\ returning \in Held
    BY <1>1 DEF IInv, Unwinding, Typed
  <1>3. QED
    BY <1>1, <1>2, FunctionEndsKeeps

LEMMA CallingIs ==
  ASSUME IInv, Calling
  PROVE  /\ status = "running" /\ returning = NoValue /\ Checked(top, TRUE) /\ null_value \in Held
         /\ top.node.kind \in Calls \cup MethodCalls /\ Len(top.vals) = Len(Subs(top))
  BY ReadyIs, ReadyIsChecked, NoValueHeld DEF IInv, Calling, Complete

LEMMA PrintKeeps ==
  ASSUME IInv, print
  PROVE  IInv'
  <1>1. Calling /\ stack' = Receive(stack, null_value) /\ UNCHANGED <<program, scopes, callstack, tables, returning, status>>
    BY DEF print, CallingNative
  <1>2. status = "running" /\ returning = NoValue /\ Checked(top, TRUE) /\ null_value \in Held
    BY <1>1, CallingIs
  <1>3. /\ StillTyped /\ Held' = Held
        /\ Len(scopes') = Len(scopes) /\ \A s \in 1..Len(scopes') : scopes'[s].parent = scopes[s].parent
    BY <1>1, <1>2, NothingElse, NoValueHeld
  <1>4. QED
    BY <1>1, <1>2, <1>3, StepReceives

LEMMA CallEmptyKeeps ==
  ASSUME IInv, CallEmpty
  PROVE  IInv'
  <1>1. Calling /\ stack' = Receive(stack, null_value) /\ UNCHANGED <<program, scopes, callstack, tables, returning, status>>
    BY DEF CallEmpty, CallingNormal
  <1>2. status = "running" /\ returning = NoValue /\ Checked(top, TRUE) /\ null_value \in Held
    BY <1>1, CallingIs
  <1>3. /\ StillTyped /\ Held' = Held
        /\ Len(scopes') = Len(scopes) /\ \A s \in 1..Len(scopes') : scopes'[s].parent = scopes[s].parent
    BY <1>1, <1>2, NothingElse, NoValueHeld
  <1>4. QED
    BY <1>1, <1>2, <1>3, StepReceives

\* A call that ends the program: it is on the call stack for the stack trace.
LEMMA CallFailsKeeps ==
  ASSUME IInv, status = "running", returning = NoValue, NEW f \in Names,
         callstack' = Append(callstack, f), status' = "error",
         UNCHANGED <<program, stack, scopes, tables, returning>>
  PROVE  IInv'
  <1>1. Held' = Held
    BY DEF Held
  <1>2. callstack \in Seq(Names) /\ IsCallStack(callstack)
    BY DEF IInv, Typed, Called
  <1>3. callstack' \in Seq(Names) /\ callstack' # <<>> /\ Front(callstack') = callstack
    BY <1>2 DEF Front
  <1>4. Typed'
    BY <1>1, <1>3 DEF IInv, Typed
  <1>5. Framed' /\ Scoped' /\ Parented' /\ Inside' /\ Unwinding'
    BY DEF IInv, Framed, Shaped, IsBody, Scoped, Parented, Owners, Bodies, Inside, InBody, Unwinding
  <1>6. IsCallStack(callstack) => IsCallStack(Front(callstack))'
    <2>1. Bodies' = Bodies /\ stack' = stack
      BY DEF Bodies
    <2>2. \A i : Nesting(i)' = Nesting(i)
      BY <2>1 DEF Nesting
    <2>3. QED
      BY <1>3, <2>1, <2>2 DEF IsCallStack
  <1>7. Called'
    BY <1>2, <1>3, <1>6 DEF Called
  <1>8. QED
    BY <1>4, <1>5, <1>7 DEF IInv

LEMMA CalleeIs ==
  ASSUME IInv, Calling
  PROVE  /\ Callee \in Held /\ Callee.kind = "function" /\ Arguments \in Seq(Held)
         /\ Callee.ref \in Names /\ Callee.ref \in DOMAIN program \cup Natives
  <1> DEFINE n == top.node
             v == top.vals
  <1>1. Checked(top, TRUE) /\ n.kind \in Calls \cup MethodCalls /\ Len(v) = Len(Subs(top)) /\ Fault(top) = "ok"
    BY CallingIs, ReadyIs DEF Calling, Complete
  <1>2. v \in Seq(Held) /\ n \in Known /\ Fits(n)
    <2>1. n.kind \notin {"ir_run", "body", "method"}
      BY <1>1 DEF Calls, MethodCalls
    <2>2. QED
      BY <2>1, TopIs, KnownFits DEF IInv
  <1>3. Callee \in Held /\ Callee.kind = "function" /\ Arguments \in Seq(Held)
    <2>1. CASE n.kind \in MethodCalls
      <3>1. Len(v) = Len(n.sub) + 1 /\ n.sub # <<>>
        BY <1>1, <1>2, <2>1, SubsOfMethodCall
      <3>2. Len(n.sub) \in Nat \ {0}
        BY <1>2, <3>1 DEF Fits
      <3>3. Len(v) \in Nat /\ Len(v) >= 2 /\ (Len(v) >= 3 \/ Len(v) = 2)
        BY <3>1, <3>2
      <3>4. v[2] \in Held /\ v[2].kind = "function"
        BY <1>1, <1>2, <2>1, <3>3 DEF Checked
      <3>5. RemoveAt(v, 2) \in Seq(Held)
        <4>1. RemoveAt(v, 2) = SubSeq(v, 1, 1) \o SubSeq(v, 3, Len(v))
          BY DEF RemoveAt
        <4>2. SubSeq(v, 1, 1) \in Seq(Held) /\ SubSeq(v, 3, Len(v)) \in Seq(Held)
          <5>1. \A i \in 1..1 : v[i] \in Held
            BY <1>2, <3>3
          <5>2. \A i \in 3..Len(v) : v[i] \in Held
            BY <1>2, <3>3
          <5>3. QED
            BY <1>2, <3>3, <5>1, <5>2, SubSeqProperties
        <4> DEFINE a == SubSeq(v, 1, 1)
                   b == SubSeq(v, 3, Len(v))
        <4>3. RemoveAt(v, 2) = a \o b
          BY <4>1
        <4> HIDE DEF a, b
        <4>4. a \in Seq(Held) /\ b \in Seq(Held)
          BY <4>2 DEF a, b
        <4> SUFFICES a \o b \in Seq(Held)
          BY <4>3
        <4>5. QED
          BY <4>4, ConcatProperties
      <3>6. QED
        BY <2>1, <3>4, <3>5 DEF Callee, Arguments, IsMethod
    <2>2. CASE n.kind \in Calls
      <3>1. Subs(top) = n.sub /\ n.kind \notin MethodCalls
        BY <2>2 DEF Subs, Increments, MethodCalls, Calls
      <3>2. Len(v) \in Nat \ {0} /\ Len(v) >= 1
        <4>1. n.sub # <<>> /\ n.sub \in Seq(Known)
          BY <1>2, <2>2 DEF Fits
        <4>2. QED
          BY <1>1, <3>1, <4>1
      <3>3. v[1].kind = "function"
        <4>1. n.kind = "call" \/ n.kind = "call_stmt"
          BY <2>2 DEF Calls
        <4>2. QED
          BY <1>1, <3>2, <4>1 DEF Fault, Increments, MethodCalls
      <3>4. v[1] \in Held /\ Tail(v) \in Seq(Held)
        BY <1>2, <3>2
      <3>5. QED
        BY <3>1, <3>3, <3>4 DEF Callee, Arguments, IsMethod
    <2>3. QED
      BY <1>1, <2>1, <2>2
  <1>4. QED
    BY <1>3, HeldIs

LEMMA LenKeeps ==
  ASSUME IInv, len
  PROVE  IInv'
  <1>1. Calling /\ UNCHANGED <<program, scopes, tables, returning>>
    BY DEF len, CallingNative
  <1>2. status = "running" /\ returning = NoValue /\ Checked(top, TRUE)
    BY <1>1, CallingIs
  <1>3. CASE Len(Arguments) = 1 /\ Arguments[1].kind = "table"
    <2> DEFINE v == NumberValue(Cardinality(DOMAIN tables[Arguments[1].num]))
    <2>1. stack' = Receive(stack, v) /\ UNCHANGED <<callstack, status>>
      BY <1>3 DEF len
    <2>2. v \in Held
      <3>1. Arguments[1] \in Held
        <4>1. Arguments \in Seq(Held)
          BY <1>1, CalleeIs
        <4>2. 1 \in 1..Len(Arguments)
          BY <1>3
        <4>3. QED
          BY <4>1, <4>2, ElementOfSeq
      <3>2. Arguments[1].num \in 1..Len(tables)
        BY <1>3, <3>1, HeldIs
      <3>3. tables[Arguments[1].num] \in TablesOf(Held)
        BY <3>2 DEF IInv, Typed
      <3>4. Cardinality(DOMAIN tables[Arguments[1].num]) \in Int
        BY <3>3, FS_CardinalityType DEF TablesOf
      <3>5. QED
        BY <3>4, NoValueHeld, ValuesAre DEF Held
    <2>3. /\ StillTyped /\ Held' = Held
          /\ Len(scopes') = Len(scopes) /\ \A s \in 1..Len(scopes') : scopes'[s].parent = scopes[s].parent
      BY <1>1, <1>2, NothingElse, NoValueHeld
    <2> HIDE DEF v
    <2>4. QED
      BY <1>1, <1>2, <2>1, <2>2, <2>3, StepReceives
  <1>4. CASE ~ (Len(Arguments) = 1 /\ Arguments[1].kind = "table")
    <2>1. status' = "error" /\ callstack' = Append(callstack, "len") /\ UNCHANGED stack
      BY <1>4 DEF len
    <2>2. "len" \in Names
      BY DEF Names, Natives
    <2>3. QED
      BY <1>1, <1>2, <2>1, <2>2, CallFailsKeeps
  <1>5. QED
    BY <1>3, <1>4

LEMMA CallRefusedKeeps ==
  ASSUME IInv, CallRefused
  PROVE  IInv'
  <1>1. /\ Calling /\ callstack' = Append(callstack, Callee.ref) /\ status' = "error"
        /\ UNCHANGED <<program, stack, scopes, tables, returning>>
    BY DEF CallRefused, CallingNormal
  <1>2. status = "running" /\ returning = NoValue /\ Callee.ref \in Names
    BY <1>1, CallingIs, CalleeIs
  <1>3. QED
    BY <1>1, <1>2, CallFailsKeeps

\* A step that puts a frame on the stack.
LEMMA StepPushes ==
  ASSUME IInv, status = "running", returning = NoValue, Checked(top, TRUE), StillTyped,
         NEW g \in FramesOf(Held'), stack' = Append(stack, g),
         Shaped(g.node), Handed(g.node) <= Len(g.vals), Checked(g, FALSE),
         g.scope = IF Owns(g) THEN Len(scopes) + 1 ELSE Len(scopes),
         Len(scopes') = g.scope,
         \A s \in 1..Len(scopes) : scopes'[s].parent = scopes[s].parent,
         Owns(g) => scopes'[g.scope].parent = IF g.node.kind = "body" THEN file_scope ELSE Len(scopes),
         g.node.kind \in Statements => top.node.kind \in {"body", "block", "if", "while"},
         callstack' = IF g.node.kind = "body" THEN Append(callstack, g.node.token) ELSE callstack,
         UNCHANGED <<returning, status>>
  PROVE  IInv'
  <1>1. /\ stack' \in Seq(FramesOf(Held')) /\ stack' # <<>>
        /\ Len(stack') = Len(stack) + 1 /\ DOMAIN stack' = 1..(Len(stack) + 1)
        /\ \A i \in 1..Len(stack) : stack'[i] = stack[i]
        /\ stack'[Len(stack) + 1] = g
        /\ Framed'
    BY Pushed DEF IInv, StillTyped
  <1>2. /\ Scoped' /\ Parented' /\ Inside'
        /\ Bodies' = Bodies \cup (IF g.node.kind = "body" THEN {Len(stack) + 1} ELSE {})
    BY <1>1, StackGrows DEF IInv
  <1>3. g.node.token \in Names
    BY DEF FramesOf, NodeType
  <1>4. callstack \in Seq(Names) /\ IsCallStack(callstack)
    BY DEF IInv, Typed, Called
  <1>5. callstack' \in Seq(Names)
    BY <1>3, <1>4
  <1>6. IsCallStack(callstack)'
    BY <1>1, <1>2, <1>3, <1>4, CallsGrow DEF IInv
  <1>7. Typed'
    BY <1>1, <1>5 DEF Typed, StillTyped, IInv
  <1>8. Unwinding' /\ Called'
    BY <1>6 DEF Unwinding, Called
  <1>9. QED
    BY <1>1, <1>2, <1>7, <1>8 DEF IInv

\* The parameters of a function, with the arguments as their values.
LEMMA BoundIs ==
  ASSUME NEW H, NEW args \in Seq(H), NEW params \in Seq(Names), Len(args) = Len(params)
  PROVE  LET given == {i \in DOMAIN args : TRUE}
         IN  [x \in {params[i] : i \in given} |-> args[CHOOSE i \in given : params[i] = x]] \in SymbolsOf(H)
  <1> DEFINE given == {i \in DOMAIN args : TRUE}
             X == {params[i] : i \in given}
             f == [x \in X |-> args[CHOOSE i \in given : params[i] = x]]
  <1>1. given = 1..Len(args) /\ DOMAIN params = 1..Len(args)
    OBVIOUS
  <1>2. X \in SUBSET Names
    BY <1>1
  <1>3. ASSUME NEW x \in X PROVE args[CHOOSE i \in given : params[i] = x] \in H
    <2>1. \E i \in given : params[i] = x
      OBVIOUS
    <2>2. (CHOOSE i \in given : params[i] = x) \in given
      BY <2>1
    <2>3. QED
      BY <1>1, <2>2
  <1>4. f \in [X -> H]
    BY <1>3
  <1> HIDE DEF X, f
  <1>5. f \in SymbolsOf(H)
    BY <1>2, <1>4 DEF SymbolsOf
  <1>6. QED
    BY <1>5 DEF f, X

LEMMA CallFunctionKeeps ==
  ASSUME IInv, CallFunction
  PROVE  IInv'
  <1> DEFINE f == program[Callee.ref]
             args == Arguments
             given == {i \in DOMAIN args : TRUE}
             bound == [x \in {f.params[i] : i \in given} |-> args[CHOOSE i \in given : f.params[i] = x]]
             s == [parent |-> file_scope, symbols |-> bound]
             g == Frame(Node("body", Callee.ref, f.body), Len(scopes) + 1)
  <1>1. /\ CallingNormal /\ Callable /\ f.body # <<>>
        /\ callstack' = Append(callstack, Callee.ref)
        /\ scopes' = Append(scopes, s) /\ stack' = Append(stack, g)
        /\ UNCHANGED <<program, tables, returning, status>>
    BY DEF CallFunction, Enter
  <1>2. Calling /\ Callee.ref \notin Natives
    BY <1>1 DEF CallingNormal
  <1>3. Callee.ref \in Names /\ Callee.ref \in DOMAIN program /\ args \in Seq(Held)
    BY <1>2, CalleeIs
  <1>4. f.params \in Seq(STRING) /\ f.body \in Seq(Nodes) /\ Len(args) = Len(f.params)
    <2>1. program \in Programs
      BY DEF IInv, Typed
    <2>2. QED
      BY <1>1, <1>3, <2>1, ProgramAssumption DEF Callable
  <1>5. Held' = Held
    BY <1>1 DEF Held
  <1>6. /\ status = "running" /\ returning = NoValue /\ Checked(top, TRUE) /\ NoValue \in Held
        /\ scopes \in Seq(ScopesOf(Held)) /\ tables \in Seq(TablesOf(Held)) /\ Len(scopes) \in Nat
    <2>1. status = "running" /\ returning = NoValue /\ Checked(top, TRUE)
      BY <1>2, CallingIs
    <2>2. NoValue \in Held
      BY NoValueHeld
    <2>3. scopes \in Seq(ScopesOf(Held)) /\ tables \in Seq(TablesOf(Held))
      BY DEF IInv, Typed
    <2>4. Len(scopes) \in Nat
      BY <2>3, LenProperties
    <2>5. QED
      BY <2>1, <2>2, <2>3, <2>4
  <1>7. s \in ScopesOf(Held)
    <2>1. f.params \in Seq(Names)
      BY <1>4, SeqMonotonic DEF Names
    <2>2. bound \in SymbolsOf(Held)
      BY <1>3, <1>4, <2>1, BoundIs
    <2> HIDE DEF bound
    <2>3. QED
      BY <2>2 DEF ScopesOf, file_scope
  <1>8. /\ g.node = Node("body", Callee.ref, f.body) /\ g.scope = Len(scopes) + 1 /\ g.vals = <<>>
        /\ g.node.kind = "body" /\ g.node.token = Callee.ref /\ g.node.sub = f.body
        /\ g = [node |-> g.node, scope |-> g.scope, vals |-> g.vals]
    BY DEF Frame, Node
  <1>9. g \in FramesOf(Held') /\ Shaped(g.node) /\ Handed(g.node) <= Len(g.vals) /\ Checked(g, FALSE) /\ Owns(g)
    <2> HIDE DEF f, g
    <2>1. g.node \in NodeType
      <3>1. f.body \in Seq(Known)
        BY <1>4, SeqMonotonic DEF Known
      <3>2. g.node = [kind |-> "body", token |-> Callee.ref, sub |-> f.body]
        BY <1>8 DEF Node
      <3>3. QED
        BY <1>3, <3>1, <3>2 DEF NodeType, NodeKinds
    <2>2. g \in FramesOf(Held')
      <3>1. g.scope \in Nat /\ g.vals \in Seq(Held')
        BY <1>6, <1>8
      <3>2. QED
        BY <1>8, <2>1, <3>1 DEF FramesOf
    <2>3. Shaped(g.node)
      BY <1>1, <1>3, <1>8 DEF Shaped, IsBody, f
    <2>4. Handed(g.node) = 0 /\ Len(g.vals) = 0
      BY <1>8 DEF Handed
    <2>5. Checked(g, FALSE) /\ Owns(g)
      BY <1>1, <1>8 DEF Checked, MethodCalls, Owns
    <2>6. Handed(g.node) <= Len(g.vals)
      <3>1. 0 <= 0
        OBVIOUS
      <3>2. QED
        BY <2>4, <3>1, Zenon
    <2>7. QED
      BY <2>2, <2>3, <2>5, <2>6
  <1> HIDE DEF s, g
  <1>10. /\ scopes' \in Seq(ScopesOf(Held)) /\ Len(scopes') = Len(scopes) + 1
         /\ \A i \in 1..Len(scopes) : scopes'[i] = scopes[i]
         /\ scopes'[Len(scopes) + 1] = s
    BY <1>1, <1>6, <1>7, AppendIs
  <1>11. StillTyped
    BY <1>1, <1>5, <1>6, <1>10 DEF StillTyped
  <1>12. s.parent = file_scope
    BY DEF s
  <1>13. g.node.kind \notin Statements
    BY <1>8 DEF Statements
  <1>14. QED
    BY <1>1, <1>6, <1>8, <1>9, <1>10, <1>11, <1>12, <1>13, StepPushes

-----------------------------------------------------------------------------
(***************************************************************************)
(* The next part.                                                          *)
(***************************************************************************)
\* What a part is handed are values, as many as Handed says, and a method is
\* handed a table.
LEMMA BeginIs ==
  ASSUME IInv, Ready, NEW n, Len(top.vals) < Len(Subs(top)), n = Subs(top)[Len(top.vals) + 1],
         NEW H, Held \subseteq H, n.kind = "table" => Value("table", Len(tables) + 1, "none") \in H
  PROVE  /\ n \in PartNodes /\ n.kind \notin {"body", "ir_run"}
         /\ n.kind \in Statements => top.node.kind \in {"body", "block", "if", "while"}
         /\ Begin(n) \in Seq(H) /\ Len(Begin(n)) = Handed(n)
         /\ n.kind = "method" => Begin(n)[1].kind = "table"
  <1> DEFINE v == top.vals
             k == Len(v) + 1
  <1>1. /\ v \in Seq(Held) /\ Len(v) \in Nat /\ Handed(top.node) <= Len(v)
        /\ Subs(top) \in Seq(PartNodes) /\ \A i \in DOMAIN Subs(top) : PartFits(top.node, i, Subs(top)[i])
    BY TopIs DEF IInv
  <1>2. k \in DOMAIN Subs(top) /\ n \in PartNodes /\ PartFits(top.node, k, n)
    <2> DEFINE s == Subs(top)
    <2>1. s \in Seq(PartNodes) /\ Len(v) < Len(s)
      BY <1>1
    <2> HIDE DEF s
    <2>2. k \in DOMAIN s
      BY <1>1, <2>1
    <2>3. s[k] \in PartNodes
      BY <2>1, <2>2
    <2>4. QED
      BY <1>1, <2>2, <2>3 DEF s
  <1>3. n.kind \notin {"body", "ir_run"}
    BY <1>2, PartNodesAre
  <1>4. k > Handed(top.node)
    <2>1. Handed(top.node) \in 0..2
      BY DEF Handed
    <2> DEFINE h == Handed(top.node)
    <2> HIDE DEF h
    <2>2. h \in 0..2 /\ h <= Len(v)
      BY <1>1, <2>1 DEF h
    <2>3. k > h
      BY <1>1, <2>2
    <2>4. QED
      BY <2>3 DEF h
  <1>5. /\ n.kind \in Statements => top.node.kind \in {"body", "block", "if", "while"}
        /\ n.kind \in Entries => top.node.kind = "table"
        /\ n.kind = "method" => top.node.kind \in MethodCalls /\ k = 2
    BY <1>2, <1>4 DEF PartFits
  <1>6. CASE n.kind = "table"
    <2> DEFINE w == <<Value("table", Len(tables) + 1, "none")>>
    <2>1. Begin(n) = w /\ Handed(n) = 1
      BY <1>6 DEF Begin, Handed
    <2>2. w \in Seq(H) /\ Len(w) = 1
      BY <1>6
    <2>3. QED
      BY <1>2, <1>3, <1>5, <1>6, <2>1, <2>2
  <1>7. CASE n.kind \in Entries
    <2>1. v[1] \in H
      <3>1. Handed(top.node) = 1
        BY <1>5, <1>7 DEF Handed
      <3>2. 1 <= Len(v)
        BY <1>1, <3>1
      <3>3. v[1] \in Held
        BY <1>1, <3>2
      <3>4. QED
        BY <3>3
    <2>2. Len(tables) \in Nat
      BY NoValueHeld
    <2>3. CASE n.kind = "entry_normal"
      <3> DEFINE X == {e \in 1..(Len(v) - 1) : top.node.sub[e].kind = "entry_normal"}
                 w == <<v[1], NumberValue(Cardinality(X))>>
      <3>1. Begin(n) = w /\ Handed(n) = 2
        BY <2>3 DEF Begin, Handed
      <3>2. Cardinality(X) \in Int
        <4>1. IsFiniteSet(1..(Len(v) - 1))
          <5>1. 1 \in Int /\ Len(v) - 1 \in Int
            BY <1>1
          <5>2. QED
            BY <5>1, FS_Interval
        <4>2. IsFiniteSet(X)
          BY <4>1, FS_Subset
        <4>3. QED
          BY <4>2, FS_CardinalityType
      <3> HIDE DEF X
      <3>3. NumberValue(Cardinality(X)) \in H
        BY <2>2, <3>2, ValuesAre DEF Held
      <3>4. w \in Seq(H) /\ Len(w) = 2
        BY <2>1, <3>3
      <3> HIDE DEF w
      <3>5. QED
        BY <1>2, <1>3, <1>5, <2>3, <3>1, <3>4
    <2>4. CASE n.kind = "entry_key"
      <3> DEFINE w == <<v[1], StringValue(n.sub[1].token)>>
      <3>1. Begin(n) = w /\ Handed(n) = 2
        BY <2>4 DEF Begin, Handed
      <3>2. n \in Known
        BY <1>2, <2>4 DEF PartNodes, MethodNodes, IsMethodNode
      <3>3. n.sub # <<>>
        <4> DEFINE t == n.sub
        <4>1. t \in Seq(Known) /\ Len(t) = 2
          BY <2>4, <3>2, KnownFits DEF Fits
        <4> HIDE DEF t
        <4>2. t # <<>>
          BY <4>1, EmptySeq
        <4>3. QED
          BY <4>2 DEF t
      <3>4. n.sub[1] \in Known
        BY <2>4, <3>2, <3>3, FirstPart DEF Exprs
      <3>5. n.sub[1].token \in Names
        BY <3>4, KnownFits DEF Fits
      <3>6. StringValue(n.sub[1].token) \in H
        BY <2>2, <3>5, ValuesAre DEF Held
      <3>7. w \in Seq(H) /\ Len(w) = 2
        BY <2>1, <3>6
      <3> HIDE DEF w
      <3>8. QED
        BY <1>2, <1>3, <1>5, <2>4, <3>1, <3>7
    <2>5. CASE n.kind = "entry_index"
      <3> DEFINE w == <<v[1]>>
      <3>1. Begin(n) = w /\ Handed(n) = 1
        BY <2>5 DEF Begin, Handed
      <3>2. w \in Seq(H) /\ Len(w) = 1
        BY <2>1
      <3> HIDE DEF w
      <3>3. QED
        BY <1>2, <1>3, <1>5, <2>5, <3>1, <3>2
    <2>6. QED
      BY <1>7, <2>3, <2>4, <2>5 DEF Entries
  <1>8. CASE n.kind = "method"
    <2>1. top.node.kind \in MethodCalls /\ k = 2
      BY <1>5, <1>8
    <2>2. Len(v) = 1 /\ v[1] \in Held
      <3>1. Len(v) = 1
        <4> DEFINE l == Len(v)
        <4>1. l \in Nat /\ l + 1 = 2
          BY <1>1, <2>1
        <4> HIDE DEF l
        <4>2. l = 1
          BY <4>1
        <4>3. QED
          BY <4>2 DEF l
      <3>2. v[1] \in Held
        BY <1>1, <3>1
      <3>3. QED
        BY <3>1, <3>2
    <2>3. v[1].kind = "table"
      <3>1. top.node.kind = "method_call" \/ top.node.kind = "method_call_stmt"
        BY <2>1 DEF MethodCalls
      <3>2. Fault(top) = "ok"
        BY DEF Ready
      <3>3. QED
        BY <2>2, <3>1, <3>2 DEF Fault, MethodCalls, Increments
    <2> DEFINE w == <<v[1]>>
    <2>4. Begin(n) = w /\ Handed(n) = 1
      BY <1>8 DEF Begin, Handed
    <2>5. w \in Seq(H) /\ Len(w) = 1 /\ w[1].kind = "table"
      BY <2>2, <2>3
    <2> HIDE DEF w
    <2>6. QED
      BY <1>2, <1>3, <1>5, <1>8, <2>4, <2>5
  <1>9. CASE n.kind \notin {"table", "method"} \cup Entries
    <2> DEFINE w == <<>>
    <2>1. Begin(n) = w /\ Handed(n) = 0
      BY <1>9 DEF Begin, Handed, Entries
    <2>2. w \in Seq(H) /\ Len(w) = 0
      OBVIOUS
    <2> HIDE DEF w
    <2>3. QED
      BY <1>2, <1>3, <1>5, <1>9, <2>1, <2>2
  <1>10. QED
    BY <1>6, <1>7, <1>8, <1>9

LEMMA DescendKeeps ==
  ASSUME IInv, Descend
  PROVE  IInv'
  <1> DEFINE n == Subs(top)[Len(top.vals) + 1]
             scoped == n.kind = "block" /\ n.sub # <<>>
             scope == IF scoped THEN Len(scopes) + 1 ELSE top.scope
             s == [parent |-> top.scope, symbols |-> <<>>]
             w == Begin(n)
             g == [Frame(n, scope) EXCEPT !.vals = w]
  <1>1. /\ Ready /\ Len(top.vals) < Len(Subs(top))
        /\ scopes' = IF scoped THEN Append(scopes, s) ELSE scopes
        /\ tables' = IF n.kind = "table" THEN Append(tables, <<>>) ELSE tables
        /\ stack' = Append(stack, g)
        /\ UNCHANGED <<program, callstack, returning, status>>
    BY DEF Descend
  <1>2. /\ Typed /\ Framed /\ Scoped /\ Parented
        /\ scopes \in Seq(ScopesOf(Held)) /\ tables \in Seq(TablesOf(Held)) /\ program' = program
        /\ status = "running" /\ returning = NoValue /\ Checked(top, TRUE)
    BY <1>1, ReadyIsChecked DEF IInv, Typed, Ready, Running
  <1>3. Len(scopes) \in Nat /\ top.scope = Len(scopes) /\ Len(tables) \in Nat
    BY <1>2, ParentsBefore, NoValueHeld
  <1>4. Len(tables') \in Nat /\ Len(tables) <= Len(tables') /\ (n.kind = "table" => Len(tables') = Len(tables) + 1)
    <2> HIDE DEF n
    <2>1. CASE n.kind = "table"
      <3>1. tables' = Append(tables, <<>>)
        BY <1>1, <2>1
      <3>2. QED
        BY <1>2, <1>3, <3>1
    <2>2. CASE n.kind # "table"
      BY <1>1, <1>3, <2>2
    <2>3. QED
      BY <2>1, <2>2
  <1>5. Held' = ValuesOf(program, Len(tables')) /\ Held \subseteq Held'
    <2>1. Held' = ValuesOf(program, Len(tables'))
      BY <1>2 DEF Held
    <2>2. ValuesOf(program, Len(tables)) \subseteq ValuesOf(program, Len(tables'))
      BY <1>3, <1>4, MoreTables
    <2>3. QED
      BY <2>1, <2>2 DEF Held
  <1>6. n.kind = "table" => Value("table", Len(tables) + 1, "none") \in Held'
    <2> HIDE DEF n
    <2>1. ASSUME n.kind = "table" PROVE Value("table", Len(tables) + 1, "none") \in Held'
      <3>1. Len(tables) + 1 \in 1..Len(tables')
        BY <1>3, <1>4, <2>1
      <3>2. QED
        BY <1>4, <1>5, <3>1, ValuesAre
    <2>2. QED
      BY <2>1
  <1>7. /\ n \in PartNodes /\ n.kind \notin {"body", "ir_run"}
        /\ n.kind \in Statements => top.node.kind \in {"body", "block", "if", "while"}
        /\ w \in Seq(Held') /\ Len(w) = Handed(n)
        /\ n.kind = "method" => w[1].kind = "table"
    BY <1>1, <1>5, <1>6, BeginIs
  <1> HIDE DEF n, w
  <1>8. n \in NodeType
    BY <1>7, PartNodesAre
  <1>9. scope \in Nat
    BY <1>3
  <1>10. /\ g.node = n /\ g.scope = scope /\ g.vals = w
         /\ g \in FramesOf(Held')
    <2>1. g = [node |-> n, scope |-> scope, vals |-> w]
      BY DEF Frame
    <2> HIDE DEF g, scope
    <2>2. QED
      BY <1>7, <1>8, <1>9, <2>1 DEF FramesOf
  <1>11. Owns(g) <=> scoped
    BY <1>7, <1>10 DEF Owns
  <1> HIDE DEF g, s
  <1>12. Shaped(g.node)
    BY <1>7, <1>10 DEF Shaped, PartNodes, MethodNodes
  <1>13. Handed(g.node) <= Len(g.vals)
    <2>1. Handed(n) = Len(w) /\ Len(w) \in Nat
      BY <1>7, LenProperties
    <2> DEFINE h == Handed(n)
               l == Len(w)
    <2> HIDE DEF h, l
    <2>2. h <= l
      BY <2>1 DEF h, l
    <2>3. QED
      BY <1>10, <2>2 DEF h, l
  <1>14. Checked(g, FALSE)
    <2>1. n.kind = "index" \/ n.kind \in MethodCalls => Len(w) = 0
      BY <1>7 DEF Handed, MethodCalls
    <2>2. QED
      BY <1>7, <1>10, <2>1 DEF Checked
  <1>15. /\ Len(scopes') = g.scope
         /\ \A i \in 1..Len(scopes) : scopes'[i].parent = scopes[i].parent
         /\ Owns(g) => scopes'[g.scope].parent = Len(scopes)
         /\ scopes' \in Seq(ScopesOf(Held'))
         /\ g.scope = IF Owns(g) THEN Len(scopes) + 1 ELSE Len(scopes)
    <2>1. Seq(ScopesOf(Held)) \subseteq Seq(ScopesOf(Held'))
      BY <1>5, MoreHeld
    <2>2. CASE scoped
      <3>1. scopes' = Append(scopes, s) /\ g.scope = Len(scopes) + 1
        BY <1>1, <1>10, <2>2
      <3>2. s \in ScopesOf(Held) /\ s.parent = Len(scopes)
        <4>1. <<>> \in SymbolsOf(Held)
          <5>1. {} \in SUBSET Names /\ <<>> \in [{} -> Held]
            OBVIOUS
          <5>2. QED
            BY <5>1 DEF SymbolsOf
        <4>2. s = [parent |-> Len(scopes), symbols |-> <<>>]
          BY <1>3 DEF s
        <4>3. QED
          BY <1>3, <4>1, <4>2 DEF ScopesOf
      <3>3. /\ scopes' \in Seq(ScopesOf(Held)) /\ Len(scopes') = Len(scopes) + 1
            /\ \A i \in 1..Len(scopes) : scopes'[i] = scopes[i]
            /\ scopes'[Len(scopes) + 1] = s
        BY <1>2, <3>1, <3>2, AppendIs
      <3>4. QED
        BY <1>11, <2>1, <2>2, <3>1, <3>2, <3>3
    <2>3. CASE ~ scoped
      <3>1. scopes' = scopes /\ g.scope = Len(scopes)
        BY <1>1, <1>3, <1>10, <2>3
      <3>2. QED
        BY <1>2, <1>11, <2>1, <2>3, <3>1
    <2>4. QED
      BY <2>2, <2>3
  <1>16. tables' \in Seq(TablesOf(Held'))
    <2>1. tables \in Seq(TablesOf(Held'))
      BY <1>2, <1>5, MoreHeld
    <2>2. <<>> \in TablesOf(Held')
      <3>1. {} \in SUBSET Held' /\ <<>> \in [{} -> Held'] /\ DOMAIN <<>> = {}
        OBVIOUS
      <3>2. IsFiniteSet(DOMAIN <<>>)
        BY <3>1, FS_EmptySet
      <3>3. QED
        BY <3>1, <3>2 DEF TablesOf
    <2>3. QED
      BY <1>1, <2>1, <2>2
  <1>17. StillTyped
    <2>1. returning' \in Held'
      BY <1>1, <1>2, <1>5, NoValueHeld
    <2>2. QED
      BY <1>2, <1>5, <1>15, <1>16, <2>1 DEF StillTyped
  <1>18. g.node.kind # "body" /\ (g.node.kind \in Statements => top.node.kind \in {"body", "block", "if", "while"})
    BY <1>7, <1>10
  <1>19. stack' = Append(stack, g) /\ callstack' = callstack /\ UNCHANGED <<returning, status>>
    BY <1>1 DEF g, n, w
  <1> HIDE DEF scoped, scope
  <1>20. QED
    BY <1>2, <1>10, <1>12, <1>13, <1>14, <1>15, <1>17, <1>18, <1>19, StepPushes

-----------------------------------------------------------------------------
(***************************************************************************)
(* The invariant.                                                          *)
(***************************************************************************)
LEMMA HaltIs == Halt.kind = "ir_run" /\ Halt \in NodeType /\ Handed(Halt) = 0
  <1>1. Halt.kind = "ir_run"
    BY NodeIs DEF Halt
  <1>2. Halt \in NodeType
    <2>1. Halt = [kind |-> "ir_run", token |-> "none", sub |-> <<MainCall>>]
      BY DEF Halt, Node
    <2>2. <<MainCall>> \in Seq(Known)
      BY DEF Known
    <2>3. "ir_run" \in NodeKinds /\ "none" \in Names
      BY DEF NodeKinds, Names
    <2>4. QED
      BY <2>1, <2>2, <2>3 DEF NodeType
  <1>3. QED
    BY <1>1, <1>2 DEF Handed

LEMMA InitInvariant == Init => IInv
  <1> SUFFICES ASSUME Init PROVE IInv
    OBVIOUS
  <1> DEFINE f == Frame(Halt, file_scope)
             a == [parent |-> 0, symbols |-> [x \in Natives |-> Value("function", 0, x)]]
             b == [parent |-> global_scope,
                   symbols |-> [x \in DOMAIN program \ Anonymous |-> Value("function", 0, x)]]
  <1>1. /\ program \in Programs /\ stack = <<f>> /\ scopes = <<a, b>> /\ callstack = <<>> /\ tables = <<>>
        /\ returning = NoValue /\ status = "running"
    BY DEF Init
  <1>2. Held = ValuesOf(program, 0)
    BY <1>1 DEF Held
  <1>3. f.node = Halt /\ f.scope = 2 /\ f.vals = <<>> /\ f \in FramesOf(Held)
    <2>1. f = [node |-> Halt, scope |-> 2, vals |-> <<>>]
      BY DEF Frame, file_scope
    <2> HIDE DEF f
    <2>2. QED
      BY <2>1, HaltIs DEF FramesOf
  <1>4. a \in ScopesOf(Held) /\ a.parent = 0
    <2>1. \A x \in Natives : Value("function", 0, x) \in Held
      BY <1>2, ValuesAre DEF Names
    <2> DEFINE y == [x \in Natives |-> Value("function", 0, x)]
    <2>2. y \in [Natives -> Held] /\ Natives \in SUBSET Names
      BY <2>1 DEF Names
    <2>3. a = [parent |-> 0, symbols |-> y]
      OBVIOUS
    <2> HIDE DEF y, a
    <2>4. y \in SymbolsOf(Held)
      BY <2>2 DEF SymbolsOf
    <2>5. QED
      BY <2>3, <2>4 DEF ScopesOf
  <1>5. b \in ScopesOf(Held) /\ b.parent = 1
    <2> DEFINE X == DOMAIN program \ Anonymous
               y == [x \in X |-> Value("function", 0, x)]
    <2>1. X \subseteq Names /\ X \subseteq DOMAIN program
      BY <1>1, ProgramAssumption DEF Names
    <2>2. b = [parent |-> 1, symbols |-> y]
      BY DEF global_scope
    <2> HIDE DEF X, b
    <2>3. \A x \in X : Value("function", 0, x) \in Held
      BY <1>2, <2>1, ValuesAre
    <2>4. y \in [X -> Held] /\ X \in SUBSET Names
      BY <2>1, <2>3
    <2> HIDE DEF y
    <2>5. y \in SymbolsOf(Held)
      BY <2>4 DEF SymbolsOf
    <2>6. QED
      BY <2>2, <2>5 DEF ScopesOf
  <1> HIDE DEF f, a, b
  <1>6. /\ stack \in Seq(FramesOf(Held)) /\ stack # <<>> /\ Len(stack) = 1 /\ DOMAIN stack = {1} /\ stack[1] = f
        /\ scopes \in Seq(ScopesOf(Held)) /\ Len(scopes) = 2 /\ scopes[1] = a /\ scopes[2] = b
    BY <1>1, <1>3, <1>4, <1>5
  <1>7. Typed
    <2>1. callstack \in Seq(Names) /\ tables \in Seq(TablesOf(Held))
      BY <1>1
    <2>2. returning \in Held
      BY <1>1, <1>2, ValuesAre
    <2>3. QED
      BY <1>1, <1>6, <2>1, <2>2 DEF Typed
  <1>8. Bodies = {} /\ Owners = {}
    BY <1>3, <1>6, HaltIs DEF Bodies, Owners, Owns
  <1>9. Framed
    <2>1. Handed(stack[1].node) <= Len(stack[1].vals)
      <3>1. Handed(stack[1].node) = 0 /\ Len(stack[1].vals) = 0
        BY <1>3, <1>6, HaltIs
      <3>2. 0 <= 0
        OBVIOUS
      <3>3. QED
        BY <3>1, <3>2, Zenon
    <2>2. Checked(stack[1], 1 < Len(stack))
      BY <1>3, <1>6, HaltIs DEF Checked, MethodCalls
    <2>3. ~ (1 > 1)
      OBVIOUS
    <2>4. ASSUME NEW i \in DOMAIN stack
          PROVE  /\ i > 1 => Shaped(stack[i].node)
                 /\ Handed(stack[i].node) <= Len(stack[i].vals) /\ Checked(stack[i], i < Len(stack))
      <3>1. i = 1
        BY <1>6
      <3>2. QED
        BY <2>1, <2>2, <2>3, <3>1, Zenon
    <2>5. stack[1].node = Halt /\ stack[1].scope = file_scope
      BY <1>3, <1>6 DEF file_scope
    <2>6. QED
      BY <2>4, <2>5, Zenon DEF Framed
  <1>10. Scoped
    BY <1>3, <1>6 DEF Scoped
  <1>11. Parented
    BY <1>4, <1>5, <1>6, <1>8 DEF Parented, global_scope
  <1>12. Inside
    BY <1>3, <1>6, HaltIs DEF Inside, Statements
  <1>13. Unwinding
    BY <1>1 DEF Unwinding
  <1>14. Called
    BY <1>1, <1>8, FS_EmptySet DEF Called, IsCallStack
  <1>15. QED
    BY <1>7, <1>9, <1>10, <1>11, <1>12, <1>13, <1>14 DEF IInv

LEMMA StutterKeeps ==
  ASSUME IInv, UNCHANGED vars
  PROVE  IInv'
  <1>1. UNCHANGED <<program, stack, scopes, callstack, tables, returning, status>>
    BY DEF vars
  <1>2. Held' = Held /\ Owners' = Owners /\ Bodies' = Bodies
    BY <1>1 DEF Held, Owners, Owns, Bodies
  <1>3. Typed' /\ Framed'
    BY <1>1, <1>2 DEF IInv, Typed, Framed, Shaped, IsBody
  <1>4. Scoped' /\ Parented'
    BY <1>1, <1>2 DEF IInv, Scoped, Owns, Parented
  <1>5. Inside' /\ Unwinding'
    BY <1>1, <1>2 DEF IInv, Inside, InBody, Unwinding
  <1>6. Called'
    BY <1>1, <1>2 DEF IInv, Called, IsCallStack, Nesting
  <1>7. QED
    BY <1>3, <1>4, <1>5, <1>6 DEF IInv

\* The invariant of the evaluator, for any programs of the grammar.
THEOREM Invariant == Spec => []IInv
  <1>1. Init => IInv
    BY InitInvariant
  <1>2. IInv /\ [Next]_vars => IInv'
    <2> SUFFICES ASSUME IInv, [Next]_vars PROVE IInv'
      OBVIOUS
    <2>1. CASE Fails
      BY <2>1, FailsKeeps
    <2>2. CASE Descend
      BY <2>2, DescendKeeps
    <2>3. CASE eval_value
      BY <2>3, EvalValueKeeps
    <2>4. CASE eval_entry
      BY <2>4, EvalEntryKeeps
    <2>5. CASE eval_incdec
      BY <2>5, EvalIncDecKeeps
    <2>6. CASE assign
      BY <2>6, AssignKeeps
    <2>7. CASE var
      BY <2>7, VarKeeps
    <2>8. CASE if
      BY <2>8, IfKeeps
    <2>9. CASE while
      BY <2>9, WhileKeeps
    <2>10. CASE block
      BY <2>10, BlockKeeps
    <2>11. CASE return
      BY <2>11, ReturnKeeps
    <2>12. CASE unwind
      BY <2>12, UnwindKeeps
    <2>13. CASE print
      BY <2>13, PrintKeeps
    <2>14. CASE len
      BY <2>14, LenKeeps
    <2>15. CASE CallRefused
      BY <2>15, CallRefusedKeeps
    <2>16. CASE CallEmpty
      BY <2>16, CallEmptyKeeps
    <2>17. CASE CallFunction
      BY <2>17, CallFunctionKeeps
    <2>18. CASE FallsOffEnd
      BY <2>18, FallsOffEndKeeps
    <2>19. CASE Returns
      BY <2>19, ReturnsKeeps
    <2>20. CASE call_returns
      BY <2>20, CallReturnsKeeps
    <2>21. CASE ir_run
      BY <2>21, RunKeeps
    <2>22. CASE UNCHANGED vars
      BY <2>22, StutterKeeps
    <2>23. QED
      BY <2>1, <2>2, <2>3, <2>4, <2>5, <2>6, <2>7, <2>8, <2>9, <2>10, <2>11, <2>12, <2>13, <2>14, <2>15, <2>16,
         <2>17, <2>18, <2>19, <2>20, <2>21, <2>22 DEF Next
  <1>3. QED
    BY <1>1, <1>2, PTL DEF Spec

LEMMA ValuesHeld ==
  ASSUME Typed, NEW v \in Held
  PROVE  IsValue(v)
  <1>1. DOMAIN tables = 1..Len(tables)
    BY DEF Typed
  <1>2. QED
    BY <1>1, HeldIs DEF IsValue

LEMMA TypesHold ==
  ASSUME IInv
  PROVE  TypeOK
  <1>1. Typed /\ Framed /\ Scoped /\ Parented
    BY DEF IInv
  <1>2. /\ scopes \in Seq(ScopesOf(Held)) /\ tables \in Seq(TablesOf(Held))
        /\ DOMAIN scopes = 1..Len(scopes) /\ Len(scopes) \in Nat
    BY <1>1 DEF Typed
  <1>3. ASSUME NEW i \in DOMAIN stack
        PROVE  stack[i].scope \in DOMAIN scopes /\ \A j \in DOMAIN stack[i].vals : IsValue(stack[i].vals[j])
    <2>1. stack[i].scope \in 2..Len(scopes)
      BY <1>1, ScopesGrow
    <2>2. stack[i].scope \in 1..Len(scopes)
      BY <1>2, <2>1
    <2>3. stack[i].vals \in Seq(Held)
      BY <1>1, StackAt
    <2>4. ASSUME NEW j \in DOMAIN stack[i].vals PROVE stack[i].vals[j] \in Held
      BY <2>3
    <2>5. QED
      BY <1>1, <1>2, <2>2, <2>4, ValuesHeld
  <1>4. ASSUME NEW s \in DOMAIN scopes
        PROVE  scopes[s].parent \in 0..(s - 1) /\ \A x \in DOMAIN scopes[s].symbols : IsValue(scopes[s].symbols[x])
    <2>1. scopes[s].parent \in 0..(s - 1)
      BY <1>1, <1>2, ParentsBefore
    <2>2. scopes[s] \in ScopesOf(Held)
      BY <1>2
    <2>3. scopes[s].symbols \in SymbolsOf(Held)
      BY <2>2 DEF ScopesOf
    <2>4. PICK X \in SUBSET Names : scopes[s].symbols \in [X -> Held]
      BY <2>3 DEF SymbolsOf
    <2>5. QED
      BY <1>1, <2>1, <2>4, ValuesHeld
  <1>5. ASSUME NEW t \in DOMAIN tables
        PROVE  \A k \in DOMAIN tables[t] : IsValue(k) /\ IsValue(tables[t][k])
    <2>1. tables[t] \in TablesOf(Held)
      BY <1>2
    <2>2. PICK X \in SUBSET Held : tables[t] \in [X -> Held]
      BY <2>1 DEF TablesOf
    <2>3. QED
      BY <1>1, <2>2, ValuesHeld
  <1>6. IsValue(returning) /\ status \in {"running", "finished", "error", "aborted", "undefined"}
    BY <1>1, ValuesHeld DEF Typed
  <1>7. QED
    BY <1>3, <1>4, <1>5, <1>6 DEF TypeOK

LEMMA BalanceHolds ==
  ASSUME IInv
  PROVE  FramesBalanced
  <1> DEFINE At(i) == stack[i].scope
  <1>1. /\ Typed /\ Framed /\ Scoped /\ Called
        /\ 1 \in DOMAIN stack /\ DOMAIN stack = 1..Len(stack) /\ Len(stack) \in Nat
        /\ At(1) = 2 /\ ~ Owns(stack[1])
    BY StackAt, HaltIs DEF IInv, Framed, Owns, file_scope
  <1>2. /\ \A i \in DOMAIN stack : At(i) \in 2..Len(scopes)
        /\ \A i, j \in DOMAIN stack : i < j /\ Owns(stack[j]) => At(i) < At(j)
        /\ \A s \in 3..Len(scopes) : \E i \in Owners : At(i) = s
        /\ Len(scopes) \in Nat
    BY <1>1, ScopesGrow DEF Typed
  <1>3. ASSUME NEW i \in Owners PROVE i \in DOMAIN stack /\ Owns(stack[i]) /\ At(i) \in 3..Len(scopes)
    <2>1. i \in DOMAIN stack /\ Owns(stack[i])
      BY DEF Owners
    <2>2. 1 < i
      BY <1>1, <2>1
    <2> HIDE DEF At
    <2>3. At(1) < At(i) /\ At(i) \in 2..Len(scopes)
      BY <1>1, <1>2, <2>1, <2>2
    <2>4. At(i) \in 3..Len(scopes)
      BY <1>1, <1>2, <2>3
    <2>5. QED
      BY <2>1, <2>4 DEF At
  <1>4. {stack[i].scope : i \in Owners} = (file_scope + 1)..Len(scopes)
    <2>1. file_scope + 1 = 3
      BY DEF file_scope
    <2>2. QED
      BY <1>2, <1>3, <2>1
  <1>5. \A i, j \in Owners : i < j => stack[i].scope < stack[j].scope
    BY <1>2, <1>3
  <1>6. QED
    BY <1>1, <1>4, <1>5 DEF FramesBalanced, Called

\* Between any two steps, in any program, every value that is held refers to
\* a table or function there is, and the scopes and the call stack are those
\* of the blocks and functions being executed, also while a return ends them.
THEOREM ScopesAndCallsBalanced == Spec => []Inv
  <1>1. IInv => Inv
    BY TypesHold, BalanceHolds DEF Inv
  <1>2. QED
    BY <1>1, Invariant, PTL

-----------------------------------------------------------------------------
(***************************************************************************)
(* The variables of the callers.                                           *)
(***************************************************************************)
\* A scope of a caller: below that of a function being executed.
IsCallers(s) == s \in 1..Len(scopes) /\ s > file_scope /\ \E e \in Entered : s < e

\* The body of a function has a scope, and nothing else has the same.
LEMMA BodiesOwn ==
  ASSUME Typed, Framed, Scoped
  PROVE  /\ Bodies \subseteq Owners
         /\ \A i \in Owners : \A b \in Bodies : stack[i].scope = stack[b].scope => i = b
  <1>1. ASSUME NEW b \in Bodies PROVE b \in Owners
    <2>1. b \in DOMAIN stack /\ stack[b].node.kind = "body" /\ b \in Nat /\ b >= 1
      BY StackAt DEF Bodies
    <2>2. b > 1
      <3>1. b # 1
        BY <2>1, HaltIs DEF Framed
      <3>2. QED
        BY <2>1, <3>1
    <2>3. Shaped(stack[b].node)
      BY <2>1, <2>2 DEF Framed
    <2>4. stack[b].node \notin Known
      BY <2>1, KnownFits, KindsApart DEF Fits
    <2>5. IsBody(stack[b].node)
      BY <2>1, <2>3, <2>4 DEF Shaped, IsMethodNode
    <2>6. QED
      BY <2>1, <2>5 DEF IsBody, Owners, Owns
  <1>2. ASSUME NEW i \in Owners, NEW b \in Bodies, stack[i].scope = stack[b].scope PROVE i = b
    <2>1. /\ i \in DOMAIN stack /\ b \in DOMAIN stack /\ Owns(stack[i]) /\ Owns(stack[b])
          /\ i \in Nat /\ b \in Nat
      BY <1>1, StackAt DEF Owners
    <2>2. stack[i].scope \in Nat /\ stack[b].scope \in Nat
      BY <2>1, StackAt
    <2>3. ~ (stack[i].scope < stack[b].scope) /\ ~ (stack[b].scope < stack[i].scope)
      BY <1>2, <2>2
    <2>4. ~ (i < b) /\ ~ (b < i)
      BY <2>1, <2>3, ScopesGrow
    <2>5. QED
      BY <2>1, <2>4
  <1>3. QED
    BY <1>1, <1>2

\* A name that a function uses is found in the scopes of that function, in the
\* file's or in the global one, never in a caller's.
LEMMA FoundInOwn ==
  ASSUME Typed, Framed, Scoped, Parented, NEW s, IsCallers(s), NEW name
  PROVE  s # Holder(top.scope, name)
  <1>1. PICK b \in Bodies : s < stack[b].scope
    BY DEF IsCallers, Entered
  <1> DEFINE e == stack[b].scope
             C == {0, 1, 2} \cup {t \in 0..Len(scopes) : e <= t}
  <1>2. /\ s \in 1..Len(scopes) /\ s > 2 /\ s < e
        /\ b \in DOMAIN stack /\ Owns(stack[b]) /\ b \in Owners
    BY <1>1, BodiesOwn DEF IsCallers, Owners, file_scope
  <1>3. /\ Len(scopes) \in Nat /\ top.scope = Len(scopes) /\ Len(scopes) >= 2
        /\ \A t \in 1..Len(scopes) : scopes[t].parent \in 0..(t - 1)
    BY ParentsBefore
  <1>4. e \in 2..Len(scopes)
    BY <1>2, ScopesGrow
  <1>5. ASSUME NEW t \in C, t \in 1..Len(scopes) PROVE scopes[t].parent \in C
    <2>1. CASE t = 1 \/ t = 2
      BY <2>1 DEF Parented, global_scope
    <2>2. CASE t # 1 /\ t # 2
      <3>1. t \in 3..Len(scopes) /\ e <= t
        <4> HIDE DEF e
        <4>1. QED
          BY <1>3, <1>4, <1>5, <2>2
      <3>2. PICK i \in Owners : stack[i].scope = t
        BY <3>1, ScopesGrow
      <3>3. scopes[t].parent = IF i \in Bodies THEN 2 ELSE t - 1
        BY <3>2 DEF Parented, file_scope
      <3>4. CASE i \in Bodies
        BY <3>3, <3>4
      <3>5. CASE i \notin Bodies
        <4>1. t # e
          BY <3>2, <3>5, BodiesOwn
        <4> HIDE DEF e
        <4>2. e <= t - 1 /\ t - 1 \in 0..Len(scopes)
          BY <1>3, <1>4, <3>1, <4>1
        <4>3. QED
          BY <3>3, <3>5, <4>2
      <3>6. QED
        BY <3>4, <3>5
    <2>3. QED
      BY <2>1, <2>2
  <1>6. top.scope \in C /\ top.scope \in 0..Len(scopes)
    <2> HIDE DEF e
    <2>1. QED
      BY <1>3, <1>4
  <1>7. s \notin C
    <2> HIDE DEF e
    <2>1. QED
      BY <1>2, <1>3, <1>4
  <1> HIDE DEF C, e
  <1>8. Holder(top.scope, name) \in C
    BY <1>3, <1>5, <1>6, HolderIs
  <1>9. QED
    BY <1>7, <1>8

\* The callers' scopes are not the last one.
LEMMA CallersAreBelow ==
  ASSUME IInv, NEW s, IsCallers(s)
  PROVE  /\ s \in 1..(Len(scopes) - 1) /\ Len(scopes) \in Nat /\ s # top.scope
         /\ scopes \in Seq(ScopesOf(Held)) /\ scopes # <<>>
  <1>1. PICK b \in Bodies : s < stack[b].scope
    BY DEF IsCallers, Entered
  <1>2. Len(scopes) \in Nat /\ top.scope = Len(scopes) /\ Len(scopes) >= 2 /\ scopes \in Seq(ScopesOf(Held))
    BY ParentsBefore DEF IInv, Typed
  <1>3. stack[b].scope \in 2..Len(scopes) /\ s \in 1..Len(scopes)
    BY ScopesGrow DEF IInv, Bodies, IsCallers
  <1> DEFINE e == stack[b].scope
             l == Len(scopes)
  <1>4. s < e /\ e \in 2..l /\ l \in Nat /\ s \in 1..l
    BY <1>1, <1>2, <1>3
  <1> HIDE DEF e, l
  <1>5. s \in 1..(l - 1) /\ s # l
    BY <1>4
  <1>6. QED
    BY <1>2, <1>5 DEF l

LEMMA CallersKept ==
  ASSUME IInv, NEW s, IsCallers(s), [Next]_vars
  PROVE  scopes'[s] = scopes[s]
  <1>1. /\ s \in 1..(Len(scopes) - 1) /\ s \in 1..Len(scopes) /\ Len(scopes) \in Nat /\ s # top.scope
        /\ scopes \in Seq(ScopesOf(Held)) /\ scopes # <<>>
    BY CallersAreBelow DEF IsCallers
  <1>2. ASSUME scopes' = Front(scopes) PROVE scopes'[s] = scopes[s]
    BY <1>1, <1>2, FrontIs
  <1>3. ASSUME NEW new, scopes' = Append(scopes, new) PROVE scopes'[s] = scopes[s]
    BY <1>1, <1>3
  <1>4. ASSUME NEW target \in Exprs, target.kind \in Assignable, NEW i \in Nat \ {0}, NEW v \in Held,
               do_assign(target, i, v), i + Len(Parts(target)) <= Len(top.vals) + 1, program' = program
        PROVE  scopes'[s] = scopes[s]
    <2>1. s # Holder(top.scope, target.token)
      BY FoundInOwn DEF IInv
    <2>2. QED
      BY <1>1, <1>4, <2>1, Assigned DEF IInv
  <1>5. CASE Fails \/ eval_value \/ eval_entry \/ if \/ while \/ return
    BY <1>5 DEF Fails, eval_value, eval_entry, if, while, return
  <1>6. CASE print \/ len \/ CallRefused \/ CallEmpty \/ call_returns \/ ir_run
    BY <1>6 DEF print, len, CallRefused, CallEmpty, call_returns, ir_run
  <1>7. CASE Descend
    BY <1>3, <1>7 DEF Descend
  <1>8. CASE eval_incdec
    <2> DEFINE t == top.node.sub[1]
               i == IF top.node.kind = "pre" THEN 2 ELSE 3
               w == NumberValue(top.vals[1].num + 1)
    <2>1. /\ t \in Exprs /\ t.kind \in Assignable /\ i \in Nat \ {0} /\ w \in Held
          /\ i + Len(Parts(t)) <= Len(top.vals) + 1 /\ do_assign(t, i, w)
      BY <1>8, IncDecAssigns
    <2>2. program' = program
      BY <1>8 DEF eval_incdec
    <2> HIDE DEF t, i, w
    <2>3. QED
      BY <1>4, <2>1, <2>2
  <1>9. CASE assign
    <2> DEFINE t == top.node.sub[1]
               w == Last(top.vals)
    <2>1. /\ t \in Exprs /\ t.kind \in Assignable /\ w \in Held
          /\ 1 + Len(Parts(t)) <= Len(top.vals) + 1 /\ do_assign(t, 1, w)
      BY <1>9, AssignAssigns
    <2>2. program' = program
      BY <1>9 DEF assign
    <2> HIDE DEF t, w
    <2>3. QED
      BY <1>4, <2>1, <2>2
  <1>10. CASE var
    BY <1>1, <1>10 DEF var
  <1>11. CASE block \/ unwind
    BY <1>2, <1>11 DEF block, unwind, pop_scope
  <1>12. CASE CallFunction
    BY <1>3, <1>12 DEF CallFunction, Enter
  <1>13. CASE FallsOffEnd \/ Returns
    BY <1>2, <1>13 DEF FallsOffEnd, Returns, eval_function_ends
  <1>14. CASE UNCHANGED vars
    BY <1>14 DEF vars
  <1>15. QED
    BY <1>5, <1>6, <1>7, <1>8, <1>9, <1>10, <1>11, <1>12, <1>13, <1>14 DEF Next

\* While a function is being executed, no variable of its callers changes,
\* in any program.
THEOREM CallersSafe == Spec => CallersUntouched
  <1> DEFINE A == \A s \in DOMAIN scopes :
                    (\E e \in Entered : s > file_scope /\ s < e) => scopes'[s] = scopes[s]
  <1>1. IInv /\ [Next]_vars => A
    <2> SUFFICES ASSUME IInv, [Next]_vars, NEW s \in DOMAIN scopes, NEW e \in Entered, s > file_scope, s < e
                 PROVE  scopes'[s] = scopes[s]
      OBVIOUS
    <2>1. s \in 1..Len(scopes)
      BY DEF IInv, Typed
    <2>2. IsCallers(s)
      BY <2>1 DEF IsCallers
    <2>3. QED
      BY <2>2, CallersKept
  <1>2. QED
    BY <1>1, Invariant, PTL DEF Spec, CallersUntouched

-----------------------------------------------------------------------------
(***************************************************************************)
(* The location of an error.                                               *)
(***************************************************************************)
\* A frame evaluates the part its caller waits for.
Follows(b, f) ==
  IF f.node.kind = "body"
  THEN /\ b.node.kind \in Calls \cup MethodCalls /\ Len(b.vals) = Len(Subs(b))
       /\ b.node.kind \in Calls => b.vals[1].kind = "function"
  ELSE /\ Len(b.vals) < Len(Subs(b)) /\ f.node = Subs(b)[Len(b.vals) + 1]
       /\ b.node.kind = "if" /\ Len(b.vals) = 1 => b.vals[1].kind \in {"number", "null"}

Linked == \A i \in DOMAIN stack : i > 1 => Follows(stack[i - 1], stack[i])

\* A frame has no more values than parts, but for what a call has returned.
Filled(f) ==
  \/ Len(f.vals) <= Len(Subs(f))
  \/ /\ f.node.kind \in Calls \cup MethodCalls /\ Len(f.vals) = Len(Subs(f)) + 1
     /\ f.node.kind \in Calls => f.vals[1].kind = "function"

\* The condition of an if statement has not been found to be one.
Choosing(f) ==
  f.node.kind = "if" => f.vals = <<>> \/ (Len(f.vals) = 1 /\ f.vals[1].kind \notin {"number", "null"})

\* The statement whose frame is s[i] is the last one begun: nothing that has
\* statements of its own has been evaluated in it.
Plain(s, i) ==
  /\ s[i].node.kind \in Statements \ {"while", "block"} /\ Choosing(s[i])
  /\ \A j \in i..Len(s) : /\ j > i => s[j].node.kind \notin Statements \cup {"body"}
                          /\ Behind(s[j]) \subseteq CallFree
                          /\ Len(s[j].vals) <= Len(Subs(s[j]))

Reported == returning = NoValue => \A i \in DOMAIN stack : Plain(stack, i) => loc = stack[i].node

\* An error is one of the last frame, before or while it evaluates its parts.
Stopped ==
  status = "error" => /\ returning = NoValue /\ top.node.kind \notin {"block", "body"}
                      /\ Choosing(top) /\ Len(top.vals) <= Len(Subs(top))

LInv == Linked /\ Filled(top) /\ Reported /\ Stopped

\* What a frame is, wherever it is.
LEMMA FrameIs ==
  ASSUME Typed, Framed, NEW i \in DOMAIN stack
  PROVE  LET f == stack[i]
         IN  /\ f.node \in NodeType /\ f.vals \in Seq(Held) /\ Len(f.vals) \in Nat
             /\ Handed(f.node) <= Len(f.vals)
             /\ f.node.kind \notin {"ir_run", "body", "method"} => f.node \in Known
             /\ f.node.kind = "body" => IsBody(f.node)
             /\ Subs(f) \in Seq(PartNodes) /\ Len(Subs(f)) \in Nat
             /\ \A q \in DOMAIN Subs(f) : PartFits(f.node, q, Subs(f)[q])
  <1> DEFINE f == stack[i]
             n == f.node
  <1>1. n \in NodeType /\ f.vals \in Seq(Held) /\ Handed(n) <= Len(f.vals) /\ i \in Nat /\ i >= 1
    BY StackAt DEF Framed
  <1>2. n = Halt \/ Shaped(n)
    <2>1. i > 1 \/ i = 1
      <3> HIDE DEF f, n
      <3>1. QED
        BY <1>1
    <2>2. QED
      BY <2>1 DEF Framed
  <1>3. n \in Known => n.kind \notin {"ir_run", "body", "method"}
    BY KnownFits, KindsApart DEF Fits
  <1>4. /\ n.kind \notin {"ir_run", "body", "method"} => n \in Known
        /\ n.kind = "body" => IsBody(n)
    <2>1. Shaped(n) => n \in Known \/ n.kind = "method" \/ (n.kind = "body" /\ IsBody(n))
      BY DEF Shaped, IsMethodNode, IsBody
    <2>2. QED
      BY <1>2, <1>3, <2>1, HaltIs
  <1>5. Subs(f) \in Seq(PartNodes) /\ \A q \in DOMAIN Subs(f) : PartFits(n, q, Subs(f)[q])
    BY <1>1, <1>2, SubsAre DEF Typed
  <1>6. Len(f.vals) \in Nat /\ Len(Subs(f)) \in Nat
    BY <1>1, <1>5, LenProperties
  <1>7. QED
    BY <1>1, <1>4, <1>5, <1>6

\* The parts of an if or while statement: first the condition, then a
\* statement.
LEMMA SubsOfIf ==
  ASSUME NEW f, f.node \in Known, f.node.kind \in {"if", "while"}
  PROVE  /\ Subs(f) \in Seq(Known) /\ Len(Subs(f)) \in 1..2
         /\ Subs(f)[1] = f.node.sub[1] /\ Subs(f)[1] \in Exprs
         /\ \A q \in DOMAIN Subs(f) : q # 1 => Subs(f)[q].kind \in Statements
  <1> DEFINE n == f.node
             X == {m \in Known : m.kind \in Statements}
             rest == IF f.vals = <<>> THEN <<>>
                     ELSE IF Truthy(f.vals[1]) THEN <<n.sub[2]>>
                     ELSE IF Len(n.sub) = 3 THEN <<n.sub[3]>> ELSE <<>>
  <1>1. /\ n.sub \in Seq(Known) /\ Len(n.sub) \in 2..3
        /\ \A i \in DOMAIN n.sub : n.sub[i].kind \in PartKinds(n, i)
    <2>1. n.sub \in Seq(Known) /\ (n.kind = "while" => Len(n.sub) = 2) /\ (n.kind = "if" => Len(n.sub) \in 2..3)
      BY KnownFits DEF Fits
    <2>2. \A i \in DOMAIN n.sub : n.sub[i].kind \in PartKinds(n, i)
      BY KnownFits DEF Fits
    <2>3. QED
      BY <2>1, <2>2
  <1>2. DOMAIN n.sub = 1..Len(n.sub) /\ 2 \in 1..Len(n.sub) /\ (Len(n.sub) = 3 => 3 \in 1..Len(n.sub))
    <2> DEFINE t == n.sub
               l == Len(n.sub)
    <2>1. t \in Seq(Known) /\ l = Len(t)
      BY <1>1
    <2> HIDE DEF t
    <2>2. DOMAIN t = 1..l
      BY <2>1
    <2>3. l \in 2..3
      BY <1>1
    <2> HIDE DEF l
    <2>4. 2 \in 1..l /\ (l = 3 => 3 \in 1..l)
      BY <2>3
    <2>5. QED
      BY <2>2, <2>4 DEF t, l
  <1>3. PartKinds(n, 2) = Statements /\ PartKinds(n, 3) = Statements
    BY DEF PartKinds
  <1>4. n.sub[2] \in X /\ (Len(n.sub) = 3 => n.sub[3] \in X)
    BY <1>1, <1>2, <1>3
  <1>5. n.sub[1] \in Exprs
    <2>1. n.sub # <<>>
      <3> DEFINE t == n.sub
      <3>1. t \in Seq(Known) /\ Len(t) \in 2..3
        BY <1>1
      <3> HIDE DEF t
      <3>2. t = <<>> <=> Len(t) = 0
        BY <3>1, EmptySeq
      <3>3. \A k \in 2..3 : k # 0
        OBVIOUS
      <3>4. QED
        BY <3>1, <3>2, <3>3 DEF t
    <2>2. QED
      BY <2>1, FirstPart
  <1>6. Subs(f) = <<n.sub[1]>> \o rest
    BY DEF Subs, Increments, MethodCalls
  <1>7. rest \in Seq(X) /\ Len(rest) \in 0..1
    <2> DEFINE a == n.sub[2]
               c == n.sub[3]
               T == Truthy(f.vals[1])
               N == f.vals = <<>>
               l == Len(n.sub)
    <2>1. rest = IF N THEN <<>> ELSE IF T THEN <<a>> ELSE IF l = 3 THEN <<c>> ELSE <<>>
      OBVIOUS
    <2>2. a \in X /\ (l = 3 => c \in X)
      BY <1>4
    <2> HIDE DEF a, c, T, N, l, X, rest
    <2>3. QED
      BY <2>1, <2>2
  <1>8. Subs(f) \in Seq(Known) /\ Len(Subs(f)) \in 1..2
    BY SubsOfChoice
  <1> HIDE DEF n, rest, X
  <1>9. \A q \in 2..(Len(rest) + 1) : Subs(f)[q] = rest[q - 1] /\ rest[q - 1] \in X
    BY <1>6, <1>7
  <1>10. Len(Subs(f)) = Len(rest) + 1 /\ Subs(f)[1] = n.sub[1]
    BY <1>6, <1>7
  <1>11. ASSUME NEW q \in DOMAIN Subs(f), q # 1 PROVE Subs(f)[q].kind \in Statements
    <2>1. q \in 2..(Len(rest) + 1)
      BY <1>7, <1>8, <1>10, <1>11
    <2>2. QED
      BY <1>9, <2>1 DEF X
  <1>12. QED
    BY <1>5, <1>8, <1>10, <1>11 DEF n

\* One value more: the parts so far are the same.
LEMMA SubsStay ==
  ASSUME NEW b, NEW c, c.node = b.node, c.vals # <<>>, b.vals # <<>> => c.vals[1] = b.vals[1]
  PROVE  b.node.kind \notin {"if", "while"} \/ b.vals # <<>> => Subs(c) = Subs(b)
  <1>1. CASE b.node.kind \notin {"if", "while"}
    BY <1>1 DEF Subs
  <1>2. CASE b.vals # <<>>
    BY <1>2 DEF Subs
  <1>3. QED
    BY <1>1, <1>2

\* The parts of a block or a body.
LEMMA SubsOfBlock ==
  ASSUME NEW f, (f.node.kind = "block" /\ f.node \in Known) \/ (f.node.kind = "body" /\ IsBody(f.node)),
         program \in Programs, f.node \in NodeType
  PROVE  \A q \in DOMAIN Subs(f) : Subs(f)[q].kind \in Statements
  <1>1. Subs(f) = f.node.sub
    BY DEF Subs, Increments, MethodCalls
  <1>2. CASE f.node.kind = "block" /\ f.node \in Known
    BY <1>1, <1>2, KnownFits DEF Fits, PartKinds
  <1>3. CASE f.node.kind = "body" /\ IsBody(f.node)
    BY <1>1, <1>3, ProgramAssumption DEF IsBody
  <1>4. QED
    BY <1>2, <1>3

\* What is handed to a frame are values of parts of it.
LEMMA HandedFits ==
  ASSUME NEW f, f.node \in PartNodes, Len(Subs(f)) \in Nat
  PROVE  Handed(f.node) <= Len(Subs(f))
  <1>1. CASE Handed(f.node) = 0
    BY <1>1
  <1>2. CASE Handed(f.node) # 0
    <2>1. Len(Subs(f)) = Len(f.node.sub) + Shift(f.node) /\ f.node.kind \in {"table", "method"} \cup Entries
      BY <1>2, SubsOfHanded
    <2>2. Len(f.node.sub) \in Nat
      BY PartNodesAre DEF NodeType
    <2>3. CASE f.node.kind = "entry_key"
      <3>1. f.node \in Known
        BY <2>3, PartNodesAre DEF MethodNodes, IsMethodNode
      <3>2. Len(f.node.sub) = 2 /\ Handed(f.node) = 2 /\ Shift(f.node) = 1
        BY <2>3, <3>1, KnownFits DEF Fits, Handed, Shift
      <3>3. QED
        BY <2>1, <3>2
    <2>4. CASE f.node.kind = "entry_normal"
      <3>1. Handed(f.node) = 2 /\ Shift(f.node) = 2
        BY <2>4 DEF Handed, Shift
      <3>2. QED
        BY <2>1, <2>2, <3>1
    <2>5. CASE f.node.kind \in {"table", "method", "entry_index"}
      <3>1. Handed(f.node) = 1 /\ Shift(f.node) = 1
        BY <2>5 DEF Handed, Shift
      <3>2. QED
        BY <2>1, <2>2, <3>1
    <2>6. QED
      BY <2>1, <2>3, <2>4, <2>5 DEF Entries
  <1>3. QED
    BY <1>1, <1>2

\* Where nothing is called, nothing is called in what has been evaluated.
LEMMA BehindCallFree ==
  ASSUME NEW f, f.node \in CallFree, f.node.kind \notin Statements
  PROVE  Behind(f) \subseteq CallFree
  <1> DEFINE n == f.node
  <1>1. /\ n \in Nodes /\ n \in Known /\ Fits(n) /\ n.kind \notin Calls \cup MethodCalls
        /\ \A i \in DOMAIN n.sub : n.sub[i] \in CallFree
        /\ CallFree \subseteq Nodes /\ Nodes \subseteq Known
    BY CallFreeAssumption, KnownFits DEF Known
  <1>2. n.sub \in Seq(CallFree)
    BY <1>1 DEF Fits
  <1>3. ASSUME NEW q \in DOMAIN Subs(f), q > Handed(n) PROVE Subs(f)[q] \in CallFree
    <2>1. CASE n.kind \in Increments
      <3> DEFINE t == n.sub[1]
      <3>1. n.kind = "pre" \/ n.kind = "post"
        BY <2>1 DEF Increments
      <3>2. Len(n.sub) = 1
        BY <1>1, <3>1 DEF Fits, Increments
      <3>3. t \in CallFree
        BY <1>2, <3>2
      <3>4. t \in Nodes /\ t \in Known /\ \A i \in DOMAIN t.sub : t.sub[i] \in CallFree
        BY <1>1, <3>3, CallFreeAssumption
      <3>5. t.sub \in Seq(CallFree)
        BY <3>4, KnownFits DEF Fits
      <3>6. Parts(t) \in Seq(CallFree)
        BY <3>5 DEF Parts
      <3> HIDE DEF t
      <3>7. Subs(f) = IF t.kind \notin Assignable THEN <<t>>
                      ELSE IF n.kind = "pre" THEN <<t>> \o Parts(t) ELSE <<t, t>> \o Parts(t)
        BY <3>1 DEF Subs, t, Increments, MethodCalls
      <3>8. Subs(f) \in Seq(CallFree)
        BY <3>3, <3>6, <3>7
      <3>9. QED
        BY <3>8
    <2>2. CASE Handed(n) # 0
      <3>1. n \in PartNodes
        BY <1>1 DEF PartNodes
      <3>2. /\ Len(Subs(f)) = Len(n.sub) + Shift(n) /\ Shift(n) \in 1..2 /\ Subs(f) \in Seq(PartNodes)
            /\ Subs(f)[q] = IF q <= Shift(n) THEN n ELSE n.sub[q - Shift(n)]
        BY <2>2, <3>1, SubsOfHanded
      <3>3. CASE q <= Shift(n)
        BY <3>2, <3>3
      <3>4. CASE ~ (q <= Shift(n))
        <4>1. Len(n.sub) \in Nat /\ q \in 1..Len(Subs(f))
          BY <1>2, <3>2
        <4>2. q - Shift(n) \in 1..Len(n.sub)
          BY <3>2, <3>4, <4>1
        <4>3. QED
          BY <1>2, <3>2, <3>4, <4>2
      <3>5. QED
        BY <3>3, <3>4
    <2>3. CASE n.kind \notin Increments /\ Handed(n) = 0
      <3>1. n.kind \notin {"table", "entry_index", "method", "entry_normal", "entry_key"}
        BY <2>3 DEF Handed
      <3>2. n.kind \notin {"assign", "if", "while"}
        BY DEF Statements
      <3>3. Subs(f) = n.sub
        <4>1. n.kind \notin MethodCalls /\ n.kind \notin Increments
          BY <1>1, <2>3
        <4>2. QED
          BY <3>1, <3>2, <4>1 DEF Subs, Increments, MethodCalls
      <3>4. QED
        BY <1>2, <3>3
    <2>4. QED
      BY <2>1, <2>2, <2>3
  <1>4. ASSUME NEW m \in Behind(f) PROVE m \in CallFree
    <2>1. PICK q \in (Handed(n) + 1)..Len(f.vals) \cap DOMAIN Subs(f) : m = Subs(f)[q]
      BY <1>4 DEF Behind
    <2>2. Handed(n) \in 0..2
      BY DEF Handed
    <2>3. q > Handed(n)
      BY <2>1, <2>2
    <2>4. QED
      BY <1>3, <2>1, <2>3
  <1>5. QED
    BY <1>4

\* A value is delivered and the statement at i is the last one begun: it was
\* so before, while the part was evaluated that has the value.
LEMMA PlainBefore ==
  ASSUME Typed, Framed, Linked, NEW t, NEW m \in Nat \ {0}, NEW i \in 1..m, Len(stack) = m + 1, Len(t) = m,
         \A j \in 1..(m - 1) : t[j] = stack[j], t[m].node = stack[m].node,
         Len(t[m].vals) = Len(stack[m].vals) + 1, t[m].vals # <<>>,
         stack[m].vals # <<>> => t[m].vals[1] = stack[m].vals[1],
         top.node.kind \notin Calls \cup MethodCalls \cup {"body"} => Len(top.vals) = Len(Subs(top)),
         Plain(t, i)
  PROVE  Plain(stack, i)
  <1> DEFINE b == stack[m]
             c == t[m]
             f == stack[m + 1]
             k == Len(b.vals) + 1
  <1>1. m \in DOMAIN stack /\ m + 1 \in DOMAIN stack /\ f = top /\ Follows(b, f)
    <2>1. DOMAIN stack = 1..(m + 1) /\ top = f
      BY StackAt
    <2>2. m \in 1..(m + 1) /\ m + 1 \in 1..(m + 1) /\ m + 1 > 1 /\ (m + 1) - 1 = m
      OBVIOUS
    <2>3. QED
      BY <2>1, <2>2 DEF Linked
  <1>2. /\ b.node \in NodeType /\ b.vals \in Seq(Held) /\ Len(b.vals) \in Nat /\ Handed(b.node) <= Len(b.vals)
        /\ b.node.kind \notin {"ir_run", "body", "method"} => b.node \in Known
        /\ Subs(b) \in Seq(PartNodes) /\ Len(Subs(b)) \in Nat
        /\ \A q \in DOMAIN Subs(b) : PartFits(b.node, q, Subs(b)[q])
    BY <1>1, FrameIs
  <1>3. Len(f.vals) \in Nat /\ Len(Subs(f)) \in Nat
    BY <1>1, FrameIs
  <1>4. /\ m > i => c.node.kind \notin Statements \cup {"body"}
        /\ Behind(c) \subseteq CallFree /\ Len(c.vals) <= Len(Subs(c))
        /\ i = m => c.node.kind \in Statements \ {"while", "block"} /\ Choosing(c)
        /\ i = m \/ m > i
    <2>1. m \in i..Len(t) /\ (i = m \/ m > i)
      OBVIOUS
    <2>2. QED
      BY <2>1 DEF Plain
  <1>5. c.node = b.node /\ Len(c.vals) = k /\ c.vals # <<>> /\ (b.vals # <<>> => c.vals[1] = b.vals[1])
    OBVIOUS
  <1> HIDE DEF b, c, f
  <1>6. b.node.kind \notin {"body", "while", "block"} /\ (b.node.kind = "if" => i = m)
    BY <1>4, <1>5 DEF Statements
  <1>7. b.node.kind = "if" => b.vals = <<>> /\ k = 1
    <2> SUFFICES ASSUME b.node.kind = "if" PROVE b.vals = <<>> /\ k = 1
      OBVIOUS
    <2>1. k = 1
      BY <1>4, <1>5, <1>6 DEF Choosing
    <2>2. Len(b.vals) = 0
      BY <1>2, <2>1
    <2>3. QED
      BY <1>2, <2>1, <2>2, EmptySeq
  <1>8. ASSUME NEW q \in 1..k, q \in DOMAIN Subs(b) PROVE q \in DOMAIN Subs(c) /\ Subs(c)[q] = Subs(b)[q]
    <2>1. CASE b.node.kind = "if"
      <3>1. q = 1
        BY <1>7, <1>8, <2>1
      <3>2. b.node \in Known /\ c.node \in Known
        BY <1>2, <1>5, <2>1
      <3>3. Subs(c)[1] = Subs(b)[1] /\ Subs(c) \in Seq(Known) /\ Len(Subs(c)) \in 1..2
        BY <1>5, <2>1, <3>2, SubsOfIf
      <3>4. QED
        BY <3>1, <3>3
    <2>2. CASE b.node.kind # "if"
      <3>1. Subs(c) = Subs(b)
        BY <1>5, <1>6, <2>2, SubsStay
      <3>2. QED
        BY <1>8, <3>1
    <2>3. QED
      BY <2>1, <2>2
  <1>9. f.node.kind # "body"
    <2> SUFFICES ASSUME f.node.kind = "body" PROVE FALSE
      OBVIOUS
    <2>1. b.node.kind \in Calls \cup MethodCalls /\ Len(b.vals) = Len(Subs(b))
      BY <1>1 DEF Follows
    <2>2. b.node.kind \notin {"if", "while"}
      BY <2>1 DEF Calls, MethodCalls
    <2>3. Subs(c) = Subs(b)
      BY <1>5, <2>2, SubsStay
    <2>4. k <= Len(Subs(b))
      BY <1>4, <1>5, <2>3
    <2>5. QED
      BY <1>2, <2>1, <2>4
  <1>10. k \in DOMAIN Subs(b) /\ f.node = Subs(b)[k] /\ Len(b.vals) < Len(Subs(b)) /\ k \in 1..k
    <2>1. Len(b.vals) < Len(Subs(b)) /\ f.node = Subs(b)[k]
      BY <1>1, <1>9 DEF Follows
    <2>2. k \in DOMAIN Subs(b) /\ k \in 1..k
      BY <1>2, <2>1
    <2>3. QED
      BY <2>1, <2>2
  <1>11. f.node \in PartNodes /\ f.node.kind \notin Statements \cup {"body"}
    <2>1. f.node \in PartNodes /\ PartFits(b.node, k, f.node)
      BY <1>2, <1>10
    <2>2. CASE b.node.kind = "if"
      <3>1. f.node \in Exprs
        <4>1. b.node \in Known
          BY <1>2, <2>2
        <4>2. QED
          BY <1>7, <1>10, <2>2, <4>1, SubsOfIf
      <3>2. QED
        BY <1>9, <2>1, <3>1, PartNodesAre
    <2>3. CASE b.node.kind # "if"
      BY <1>6, <1>9, <2>1, <2>3 DEF PartFits
    <2>4. QED
      BY <2>1, <2>2, <2>3
  <1>12. f.node \in CallFree \/ f.node = Node("method", b.node.token, <<>>)
    <2>1. f.node = Subs(c)[k] /\ k \in DOMAIN Subs(c)
      BY <1>8, <1>10
    <2>2. Handed(b.node) \in 0..2
      BY DEF Handed
    <2> DEFINE h == Handed(b.node)
               l == Len(b.vals)
    <2>3. h \in 0..2 /\ l \in Nat /\ h <= l
      BY <1>2, <2>2
    <2> HIDE DEF h, l
    <2>4. l + 1 \in (h + 1)..(l + 1)
      BY <2>3
    <2>5. k \in (Handed(c.node) + 1)..Len(c.vals)
      BY <1>5, <2>4 DEF h, l
    <2> HIDE DEF k
    <2>6. f.node \in Behind(c) \/ f.node = Node("method", c.node.token, <<>>)
      BY <2>1, <2>5 DEF Behind
    <2>7. QED
      BY <1>4, <1>5, <2>6
  <1>13. Behind(f) \subseteq CallFree /\ Len(f.vals) <= Len(Subs(f))
    <2>1. CASE f.node \in CallFree
      <3>1. Behind(f) \subseteq CallFree
        BY <1>11, <2>1, BehindCallFree
      <3>2. f.node.kind \notin Calls \cup MethodCalls
        BY <2>1, CallFreeAssumption
      <3>3. Len(f.vals) = Len(Subs(f))
        BY <1>1, <1>9, <3>2
      <3>4. QED
        BY <1>3, <3>1, <3>3
    <2>2. CASE f.node = Node("method", b.node.token, <<>>)
      <3>1. f.node.kind = "method" /\ f.node.sub = <<>>
        BY <2>2, NodeIs
      <3>2. f.node.kind \notin Calls \cup MethodCalls
        BY <3>1 DEF Calls, MethodCalls
      <3>3. Len(f.vals) = Len(Subs(f))
        BY <1>1, <1>9, <3>2
      <3>4. Subs(f) = <<f.node>> \o f.node.sub /\ Handed(f.node) = 1
        BY <3>1 DEF Subs, Increments, MethodCalls, Handed
      <3>5. Len(Subs(f)) = 1
        BY <3>1, <3>4
      <3>6. Behind(f) = {}
        BY <3>3, <3>4, <3>5 DEF Behind
      <3>7. QED
        BY <1>3, <3>3, <3>6
    <2>3. QED
      BY <1>12, <2>1, <2>2
  <1>14. Behind(b) \subseteq CallFree
    <2>1. ASSUME NEW x \in Behind(b) PROVE x \in Behind(c)
      <3>1. PICK q \in (Handed(b.node) + 1)..Len(b.vals) \cap DOMAIN Subs(b) : x = Subs(b)[q]
        BY <2>1 DEF Behind
      <3>2. Handed(b.node) \in 0..2
        BY DEF Handed
      <3> DEFINE h == Handed(b.node)
                 l == Len(b.vals)
      <3>3. h \in 0..2 /\ l \in Nat /\ q \in (h + 1)..l
        BY <1>2, <3>1, <3>2
      <3> HIDE DEF h, l
      <3>4. q \in 1..(l + 1) /\ q \in (h + 1)..(l + 1)
        BY <3>3
      <3>5. q \in 1..k /\ q \in (Handed(c.node) + 1)..Len(c.vals)
        BY <1>5, <3>4 DEF h, l
      <3>6. q \in DOMAIN Subs(c) /\ Subs(c)[q] = x
        BY <1>8, <3>1, <3>5
      <3>7. x # Node("method", c.node.token, <<>>)
        BY <1>5, <2>1 DEF Behind
      <3> HIDE DEF k
      <3>8. QED
        BY <3>5, <3>6, <3>7 DEF Behind
    <2>2. QED
      BY <1>4, <2>1
  <1>15. stack[i].node.kind \in Statements \ {"while", "block"} /\ Choosing(stack[i])
    <2>1. CASE i = m
      <3>1. b.node.kind \in Statements \ {"while", "block"} /\ Choosing(b)
        BY <1>4, <1>5, <1>7, <2>1 DEF Choosing
      <3>2. QED
        BY <2>1, <3>1 DEF b
    <2>2. CASE i # m
      <3>1. t[i] = stack[i]
        BY <2>2
      <3>2. QED
        BY <3>1 DEF Plain
    <2>3. QED
      BY <2>1, <2>2
  <1>16. ASSUME NEW j \in i..Len(stack)
         PROVE  /\ j > i => stack[j].node.kind \notin Statements \cup {"body"}
                /\ Behind(stack[j]) \subseteq CallFree /\ Len(stack[j].vals) <= Len(Subs(stack[j]))
    <2>1. CASE j = m + 1
      BY <1>11, <1>13, <2>1 DEF f
    <2>2. CASE j = m
      <3>1. Len(b.vals) <= Len(Subs(b))
        BY <1>2, <1>10
      <3>2. j > i => b.node.kind \notin Statements \cup {"body"}
        BY <1>4, <1>5, <2>2
      <3>3. QED
        BY <1>14, <2>2, <3>1, <3>2 DEF b
    <2>3. CASE j # m /\ j # m + 1
      <3>1. j \in 1..(m - 1) /\ j \in i..Len(t)
        BY <2>3
      <3>2. t[j] = stack[j]
        BY <3>1
      <3>3. QED
        BY <3>1, <3>2 DEF Plain
    <2>4. QED
      BY <2>1, <2>2, <2>3
  <1>17. QED
    BY <1>15, <1>16 DEF Plain

\* A frame more: it was so before.
LEMMA PlainUnder ==
  ASSUME NEW s, NEW t, Len(s) \in Nat, Len(t) = Len(s) + 1, NEW i \in 1..Len(s),
         \A j \in 1..Len(s) : t[j] = s[j], Plain(t, i)
  PROVE  Plain(s, i) /\ t[Len(t)].node.kind \notin Statements
  <1>1. t[i] = s[i] /\ \A j \in i..Len(s) : j \in i..Len(t) /\ t[j] = s[j]
    OBVIOUS
  <1>2. Len(t) \in i..Len(t) /\ Len(t) > i
    OBVIOUS
  <1>3. QED
    BY <1>1, <1>2 DEF Plain

\* A statement has ended: it was the last one begun, and none is now.
LEMMA NotPlainAfter ==
  ASSUME Typed, Framed, Linked, NEW t, NEW m \in Nat \ {0}, NEW i \in 1..m, Len(stack) = m + 1, Len(t) = m,
         t[m] = stack[m], top.node.kind \in Statements
  PROVE  ~ Plain(t, i)
  <1> SUFFICES ASSUME Plain(t, i) PROVE FALSE
    OBVIOUS
  <1> DEFINE b == stack[m]
             f == stack[m + 1]
             k == Len(b.vals) + 1
  <1>1. m \in DOMAIN stack /\ m + 1 \in DOMAIN stack /\ f = top /\ Follows(b, f)
    <2>1. DOMAIN stack = 1..(m + 1) /\ top = f
      BY StackAt
    <2>2. m \in 1..(m + 1) /\ m + 1 \in 1..(m + 1) /\ m + 1 > 1 /\ (m + 1) - 1 = m
      OBVIOUS
    <2>3. QED
      BY <2>1, <2>2 DEF Linked
  <1>2. /\ b.vals \in Seq(Held) /\ Len(b.vals) \in Nat
        /\ b.node.kind \notin {"ir_run", "body", "method"} => b.node \in Known
        /\ Subs(b) \in Seq(PartNodes) /\ Len(Subs(b)) \in Nat
        /\ \A q \in DOMAIN Subs(b) : PartFits(b.node, q, Subs(b)[q])
    BY <1>1, FrameIs
  <1>3. /\ m > i => b.node.kind \notin Statements \cup {"body"}
        /\ i = m => b.node.kind \in Statements \ {"while", "block"} /\ Choosing(b)
        /\ i = m \/ m > i
    <2>1. m \in i..Len(t) /\ (i = m \/ m > i)
      OBVIOUS
    <2>2. QED
      BY <2>1 DEF Plain
  <1>4. f.node.kind \in Statements /\ f.node.kind # "body"
    BY <1>1 DEF Statements
  <1> HIDE DEF b, f
  <1>5. Len(b.vals) < Len(Subs(b)) /\ f.node = Subs(b)[k] /\ (b.node.kind = "if" /\ Len(b.vals) = 1 => b.vals[1].kind \in {"number", "null"})
    BY <1>1, <1>4 DEF Follows
  <1>6. k \in DOMAIN Subs(b)
    BY <1>2, <1>5
  <1>7. PartFits(b.node, k, f.node) /\ f.node \in PartNodes
    BY <1>2, <1>5, <1>6
  <1>8. b.node.kind \in {"body", "block", "if", "while"}
    BY <1>4, <1>7 DEF PartFits
  <1>9. b.node.kind = "if" /\ i = m
    BY <1>3, <1>8 DEF Statements
  <1>10. b.node \in Known
    BY <1>2, <1>9
  <1>11. k # 1
    <2>1. k = 1 => f.node \in Exprs
      BY <1>5, <1>9, <1>10, SubsOfIf
    <2>2. f.node \in Exprs => f.node.kind \notin Statements
      BY <1>7, PartNodesAre
    <2>3. QED
      BY <1>4, <2>1, <2>2
  <1>12. Choosing(b) /\ b.vals # <<>>
    <2>1. Len(b.vals) # 0
      BY <1>2, <1>11
    <2>2. Len(<<>>) = 0
      OBVIOUS
    <2>3. QED
      BY <1>3, <1>9, <2>1, <2>2, Zenon
  <1>13. QED
    BY <1>5, <1>9, <1>12 DEF Choosing

\* Whether a part follows is a matter of its node.
LEMMA FollowsNode ==
  ASSUME NEW b, NEW f, NEW g, g.node = f.node, Follows(b, f)
  PROVE  Follows(b, g)
  BY DEF Follows

\* One value more for the last frame of s, whatever the value.
LEMMA ReceivedIs ==
  ASSUME Typed, NEW m \in 1..Len(stack), NEW s, s = stack \/ s = Front(stack), Len(s) = m, NEW v
  PROVE  /\ DOMAIN Receive(s, v) = 1..m /\ Len(Receive(s, v)) = m
         /\ \A j \in 1..(m - 1) : Receive(s, v)[j] = stack[j]
         /\ Receive(s, v)[m].node = stack[m].node
         /\ Receive(s, v)[m].vals = Append(stack[m].vals, v)
         /\ Len(Receive(s, v)[m].vals) = Len(stack[m].vals) + 1 /\ Receive(s, v)[m].vals # <<>>
         /\ stack[m].vals # <<>> => Receive(s, v)[m].vals[1] = stack[m].vals[1]
  <1> DEFINE H == Held \cup {v}
             t == Receive(s, v)
  <1>1. stack \in Seq(FramesOf(Held)) /\ stack # <<>> /\ Len(stack) \in Nat \ {0} /\ Len(s) = m
    BY StackAt DEF Typed
  <1>2. s \in Seq(FramesOf(Held)) /\ \A j \in 1..m : s[j] = stack[j]
    <2>1. CASE s = stack
      BY <1>1, <2>1
    <2>2. CASE s = Front(stack)
      BY <1>1, <2>2, FrontIs
    <2>3. QED
      BY <2>1, <2>2
  <1>3. s # <<>> /\ m \in Nat \ {0}
    BY <1>1, <1>2
  <1>4. s \in Seq(FramesOf(H)) /\ v \in H
    BY <1>2, MoreHeld
  <1> HIDE DEF H
  <1>5. /\ t \in Seq(FramesOf(H)) /\ Len(t) = m
        /\ \A j \in 1..m : t[j].node = s[j].node
        /\ \A j \in 1..(m - 1) : t[j] = s[j]
        /\ t[m].vals = Append(s[m].vals, v)
    <2>1. /\ t \in Seq(FramesOf(H)) /\ Len(t) = Len(s)
          /\ \A j \in 1..Len(s) : t[j].node = s[j].node
          /\ \A j \in 1..(Len(s) - 1) : t[j] = s[j]
          /\ t[Len(s)].vals = Append(s[Len(s)].vals, v)
      <3>1. s \in Seq(FramesOf(H)) /\ s # <<>> /\ v \in H
        BY <1>3, <1>4
      <3>2. /\ t \in Seq(FramesOf(H)) /\ Len(t) = Len(s)
            /\ \A j \in 1..Len(s) : t[j].node = s[j].node /\ t[j].scope = s[j].scope
            /\ \A j \in 1..(Len(s) - 1) : t[j] = s[j]
            /\ t[Len(s)].vals = Append(s[Len(s)].vals, v)
        BY <3>1, ReceiveIs, Zenon
      <3>3. QED
        BY <3>2, Zenon
    <2> HIDE DEF t
    <2>2. QED
      BY <1>1, <2>1
  <1> HIDE DEF t
  <1>6. m \in 1..m /\ \A j \in 1..(m - 1) : j \in 1..m
    BY <1>3
  <1>7. stack[m].vals \in Seq(Held)
    BY StackAt
  <1> DEFINE w == stack[m].vals
             x == t[m].vals
  <1>8. x = Append(w, v) /\ w \in Seq(Held)
    BY <1>2, <1>5, <1>6, <1>7
  <1>9. Len(x) = Len(w) + 1 /\ x # <<>> /\ (w # <<>> => x[1] = w[1])
    <2> HIDE DEF w, x
    <2>1. w \in Seq(H) /\ v \in H
      BY <1>8, SeqMonotonic DEF H
    <2>2. QED
      BY <1>8, <2>1
  <1>10. DOMAIN t = 1..m
    BY <1>5
  <1>11. QED
    BY <1>2, <1>5, <1>6, <1>8, <1>9, <1>10 DEF t

\* A value is delivered.
LEMMA DeliveryReports ==
  ASSUME Typed, Framed, LInv, NEW v, Deliver(v), Len(stack) > 1, loc' = loc, status' = "running",
         top.node.kind \notin Calls \cup MethodCalls \cup {"body"} => Len(top.vals) = Len(Subs(top)),
         top.node.kind = "body" \/ returning = NoValue
  PROVE  LInv'
  <1> DEFINE t == stack'
             m == Len(stack) - 1
             b == stack[m]
             c == t[m]
             f == stack[m + 1]
  <1>1. /\ stack \in Seq(FramesOf(Held)) /\ stack # <<>> /\ Len(stack) \in Nat \ {0} /\ DOMAIN stack = 1..Len(stack)
        /\ top = stack[Len(stack)]
    BY StackAt DEF Typed
  <1>2. m \in Nat \ {0} /\ m \in 1..Len(stack) /\ Len(stack) = m + 1 /\ m + 1 \in 1..Len(stack) /\ m + 1 > 1 /\ (m + 1) - 1 = m
    BY <1>1
  <1>3. t = Receive(Front(stack), v) /\ Len(Front(stack)) = m
    BY <1>1, FrontIs DEF Deliver
  <1> HIDE DEF m, t
  <1>4. /\ DOMAIN t = 1..m /\ Len(t) = m
        /\ \A j \in 1..(m - 1) : t[j] = stack[j]
        /\ c.node = b.node
        /\ Len(c.vals) = Len(b.vals) + 1 /\ c.vals # <<>>
        /\ b.vals # <<>> => c.vals[1] = b.vals[1]
    BY <1>2, <1>3, ReceivedIs
  <1>5. Linked /\ Reported /\ Follows(b, f) /\ f = top
    BY <1>1, <1>2 DEF LInv, Linked
  <1>6. /\ Len(b.vals) \in Nat /\ b.vals \in Seq(Held) /\ Len(Subs(b)) \in Nat
        /\ b.node.kind \notin {"ir_run", "body", "method"} => b.node \in Known
    BY <1>1, <1>2, FrameIs
  <1>7. \A i \in 2..m : Follows(t[i - 1], t[i])
    <2>1. ASSUME NEW i \in 2..m PROVE Follows(t[i - 1], t[i])
      <3>1. i \in DOMAIN stack /\ i > 1 /\ i - 1 \in 1..(m - 1) /\ (i = m \/ i \in 1..(m - 1))
        BY <1>1, <1>2
      <3>2. Follows(stack[i - 1], stack[i])
        BY <1>5, <3>1 DEF Linked
      <3>3. t[i - 1] = stack[i - 1] /\ t[i].node = stack[i].node
        BY <1>4, <3>1
      <3>4. QED
        BY <3>2, <3>3, FollowsNode
    <2>2. QED
      BY <2>1
  <1>8. Filled(c)
    <2> HIDE DEF b, c, f
    <2>1. CASE f.node.kind = "body"
      <3>1. /\ b.node.kind \in Calls \cup MethodCalls /\ Len(b.vals) = Len(Subs(b))
            /\ b.node.kind \in Calls => b.vals[1].kind = "function"
        BY <1>5, <2>1 DEF Follows
      <3>2. b.node.kind \notin {"if", "while", "ir_run", "body", "method"}
        BY <3>1 DEF Calls, MethodCalls
      <3>3. Subs(c) = Subs(b)
        BY <1>4, <3>2, SubsStay
      <3>4. b.node.kind \in Calls => b.vals # <<>>
        <4> SUFFICES ASSUME b.node.kind \in Calls PROVE b.vals # <<>>
          OBVIOUS
        <4>1. b.node \in Known /\ Fits(b.node)
          BY <1>6, <3>2, KnownFits
        <4>2. Subs(b) = b.node.sub /\ b.node.sub # <<>> /\ b.node.sub \in Seq(Known)
          BY <4>1 DEF Subs, Increments, MethodCalls, Calls, Fits
        <4>3. Len(Subs(b)) # 0
          BY <4>2, EmptySeq
        <4>4. Len(<<>>) = 0
          OBVIOUS
        <4>5. QED
          BY <3>1, <4>3, <4>4, Zenon
      <3>5. Len(c.vals) = Len(Subs(c)) + 1
        BY <1>4, <3>1, <3>3
      <3>6. QED
        BY <1>4, <3>1, <3>4, <3>5 DEF Filled
    <2>2. CASE f.node.kind # "body"
      <3>1. Len(b.vals) < Len(Subs(b))
        BY <1>5, <2>2 DEF Follows
      <3>2. CASE b.node.kind \notin {"if", "while"} \/ b.vals # <<>>
        <4>1. Subs(c) = Subs(b)
          BY <1>4, <3>2, SubsStay
        <4>2. Len(c.vals) <= Len(Subs(c))
          BY <1>4, <1>6, <3>1, <4>1
        <4>3. QED
          BY <4>2 DEF Filled
      <3>3. CASE b.node.kind \in {"if", "while"} /\ b.vals = <<>>
        <4>1. Len(c.vals) = 1
          BY <1>4, <3>3
        <4>2. Len(Subs(c)) \in 1..2
          BY <1>4, <1>6, <3>3, SubsOfIf
        <4> DEFINE k == Len(Subs(c))
        <4>3. Len(c.vals) = 1 /\ k \in 1..2
          BY <4>1, <4>2
        <4> HIDE DEF k
        <4>4. Len(c.vals) <= k
          BY <4>3
        <4>5. QED
          BY <4>4 DEF Filled, k
      <3>4. QED
        BY <3>2, <3>3
    <2>3. QED
      BY <2>1, <2>2
  <1>9. \A i \in 1..m : Plain(t, i) => loc = t[i].node
    <2>1. ASSUME NEW i \in 1..m, Plain(t, i) PROVE loc = t[i].node
      <3>1. Plain(stack, i)
        BY <1>2, <1>4, <1>5, <2>1, PlainBefore
      <3>2. top.node.kind # "body"
        <4>1. m + 1 \in i..Len(stack) /\ m + 1 > i
          BY <1>2
        <4>2. stack[m + 1].node.kind \notin Statements \cup {"body"}
          BY <3>1, <4>1 DEF Plain
        <4>3. QED
          BY <1>5, <4>2
      <3>3. loc = stack[i].node
        BY <1>1, <1>2, <1>5, <3>1, <3>2 DEF Reported
      <3>4. t[i].node = stack[i].node
        <4>1. i = m \/ i \in 1..(m - 1)
          BY <1>2
        <4>2. QED
          BY <1>4, <4>1
      <3>5. QED
        BY <3>3, <3>4
    <2>2. QED
      BY <2>1
  <1>10. top' = c
    BY <1>4 DEF top, Last, t
  <1>11. Linked'
    <2>1. \A i \in 1..m : i > 1 => i \in 2..m
      BY <1>2
    <2>2. \A i \in DOMAIN stack' : i > 1 => Follows(stack'[i - 1], stack'[i])
      BY <1>4, <1>7, <2>1 DEF t
    <2>3. QED
      BY <2>2 DEF Linked
  <1>12. Filled(top)'
    BY <1>8, <1>10
  <1>13. Reported'
    BY <1>4, <1>9 DEF Reported, t
  <1>14. Stopped'
    BY DEF Stopped
  <1>15. QED
    BY <1>11, <1>12, <1>13, <1>14 DEF LInv

\* A call goes on with a value of its own.
LEMMA CallReports ==
  ASSUME Typed, Framed, LInv, NEW v, stack' = Receive(stack, v), status' = "running",
         top.node.kind \in Calls \cup MethodCalls, Len(top.vals) = Len(Subs(top)),
         top.node.kind \in Calls => top.vals # <<>> /\ top.vals[1].kind = "function"
  PROVE  LInv'
  <1> DEFINE t == stack'
             m == Len(stack)
             c == t[m]
  <1>1. /\ stack \in Seq(FramesOf(Held)) /\ stack # <<>> /\ m \in Nat \ {0} /\ DOMAIN stack = 1..m
        /\ top = stack[m] /\ m \in 1..Len(stack)
    BY StackAt DEF Typed
  <1> HIDE DEF m, t
  <1>2. /\ DOMAIN t = 1..m /\ Len(t) = m
        /\ \A j \in 1..(m - 1) : t[j] = stack[j]
        /\ c.node = stack[m].node /\ Len(c.vals) = Len(stack[m].vals) + 1 /\ c.vals # <<>>
        /\ stack[m].vals # <<>> => c.vals[1] = stack[m].vals[1]
    BY <1>1, ReceivedIs DEF t, m
  <1>3. Linked
    BY DEF LInv
  <1>4. \A i \in 1..m : i > 1 => Follows(t[i - 1], t[i])
    <2>1. ASSUME NEW i \in 1..m, i > 1 PROVE Follows(t[i - 1], t[i])
      <3>1. i \in DOMAIN stack /\ i - 1 \in 1..(m - 1) /\ (i = m \/ i \in 1..(m - 1))
        BY <1>1, <2>1
      <3>2. Follows(stack[i - 1], stack[i])
        BY <1>3, <2>1, <3>1 DEF Linked
      <3>3. t[i - 1] = stack[i - 1] /\ t[i].node = stack[i].node
        BY <1>2, <3>1
      <3>4. QED
        BY <3>2, <3>3, FollowsNode
    <2>2. QED
      BY <2>1
  <1>5. top.node.kind \notin {"if", "while"}
    BY DEF Calls, MethodCalls
  <1>6. Subs(c) = Subs(top)
    BY <1>1, <1>2, <1>5, SubsStay
  <1>7. Len(top.vals) \in Nat /\ Len(c.vals) = Len(Subs(c)) + 1
    <2>1. Len(top.vals) \in Nat
      BY <1>1, FrameIs
    <2>2. QED
      BY <1>1, <1>2, <1>6, <2>1
  <1>8. Filled(c)
    BY <1>1, <1>2, <1>7 DEF Filled
  <1>9. ASSUME NEW i \in 1..m, Plain(t, i) PROVE FALSE
    <2>1. m \in i..Len(t)
      BY <1>1, <1>2
    <2>2. Len(c.vals) <= Len(Subs(c))
      BY <1>9, <2>1 DEF Plain
    <2>3. QED
      BY <1>1, <1>2, <1>6, <1>7, <2>2
  <1>10. Linked'
    <2>1. \A i \in DOMAIN stack' : i > 1 => Follows(stack'[i - 1], stack'[i])
      BY <1>2, <1>4 DEF t
    <2>2. QED
      BY <2>1 DEF Linked
  <1>11. Filled(top)'
    <2>1. top' = c
      BY <1>2 DEF top, Last, t
    <2>2. QED
      BY <1>8, <2>1
  <1>12. Reported'
    BY <1>2, <1>9 DEF Reported, t
  <1>13. Stopped'
    BY DEF Stopped
  <1>14. QED
    BY <1>10, <1>11, <1>12, <1>13 DEF LInv

\* The stack stays as it is, and the program may stop.
LEMMA StayReports ==
  ASSUME LInv, UNCHANGED <<stack, loc, returning>>, returning = NoValue,
         status' = "error" => /\ top.node.kind \notin {"block", "body"}
                              /\ Choosing(top) /\ Len(top.vals) <= Len(Subs(top))
  PROVE  LInv'
  <1>1. top' = top
    BY DEF top
  <1>2. Linked' /\ Reported' /\ Filled(top)'
    BY <1>1 DEF LInv, Linked, Reported
  <1>3. Stopped'
    BY <1>1 DEF Stopped
  <1>4. QED
    BY <1>2, <1>3 DEF LInv

\* A part is begun.
LEMMA PartReports ==
  ASSUME Typed, LInv, NEW g, stack' = Append(stack, g), UNCHANGED <<returning, status>>,
         status = "running", returning = NoValue, Follows(top, g), Filled(g),
         loc' = IF g.node.kind \in Statements THEN g.node ELSE loc
  PROVE  LInv'
  <1> DEFINE t == stack'
             m == Len(stack)
  <1>1. /\ m \in Nat \ {0} /\ DOMAIN stack = 1..m /\ top = stack[m] /\ m \in 1..m
    BY StackAt
  <1>2. /\ DOMAIN t = 1..(m + 1) /\ Len(t) = m + 1
        /\ \A j \in 1..m : t[j] = stack[j]
        /\ t[m + 1] = g
    <2>1. stack \in Seq(FramesOf(Held) \cup {g}) /\ g \in FramesOf(Held) \cup {g}
      BY SeqMonotonic DEF Typed
    <2> DEFINE F == FramesOf(Held) \cup {g}
    <2> HIDE DEF F
    <2>2. stack \in Seq(F) /\ g \in F
      BY <2>1 DEF F
    <2>3. QED
      BY <2>2
  <1> HIDE DEF m, t
  <1>3. Linked /\ Reported
    BY DEF LInv
  <1>4. \A i \in 1..(m + 1) : i > 1 => Follows(t[i - 1], t[i])
    <2>1. ASSUME NEW i \in 1..(m + 1), i > 1 PROVE Follows(t[i - 1], t[i])
      <3>1. CASE i = m + 1
        <4>1. t[i - 1] = top /\ t[i] = g
          BY <1>1, <1>2, <3>1
        <4>2. QED
          BY <4>1
      <3>2. CASE i # m + 1
        <4>1. i \in DOMAIN stack /\ i - 1 \in 1..m /\ i \in 1..m
          BY <1>1, <2>1, <3>2
        <4>2. Follows(stack[i - 1], stack[i])
          BY <1>3, <2>1, <4>1 DEF Linked
        <4>3. QED
          BY <1>2, <4>1, <4>2
      <3>3. QED
        BY <3>1, <3>2
    <2>2. QED
      BY <2>1
  <1>5. \A i \in 1..(m + 1) : Plain(t, i) => loc' = t[i].node
    <2>1. ASSUME NEW i \in 1..(m + 1), Plain(t, i) PROVE loc' = t[i].node
      <3>1. CASE i = m + 1
        <4>1. g.node.kind \in Statements
          BY <1>2, <2>1, <3>1 DEF Plain
        <4>2. QED
          BY <1>2, <3>1, <4>1
      <3>2. CASE i # m + 1
        <4>1. i \in 1..Len(stack) /\ i \in 1..m
          BY <1>1, <3>2 DEF m
        <4>2. Plain(stack, i) /\ t[Len(t)].node.kind \notin Statements
          <5>1. Len(stack) \in Nat /\ Len(t) = Len(stack) + 1 /\ \A j \in 1..Len(stack) : t[j] = stack[j]
            BY <1>1, <1>2 DEF m
          <5>2. QED
            BY <2>1, <4>1, <5>1, PlainUnder
        <4>3. loc' = loc
          BY <1>2, <4>2
        <4>4. loc = stack[i].node
          BY <1>1, <1>3, <4>1, <4>2 DEF Reported
        <4>5. QED
          BY <1>2, <4>1, <4>3, <4>4
      <3>3. QED
        BY <3>1, <3>2
    <2>2. QED
      BY <2>1
  <1>6. Linked'
    <2>1. \A i \in DOMAIN stack' : i > 1 => Follows(stack'[i - 1], stack'[i])
      BY <1>2, <1>4 DEF t
    <2>2. QED
      BY <2>1 DEF Linked
  <1>7. Filled(top)'
    <2>1. top' = g
      BY <1>2 DEF top, Last, t
    <2>2. QED
      BY <2>1
  <1>8. Reported'
    BY <1>2, <1>5 DEF Reported, t
  <1>9. Stopped'
    BY DEF Stopped
  <1>10. QED
    BY <1>6, <1>7, <1>8, <1>9 DEF LInv

\* A frame ends: a return statement, or one that is unwound.
LEMMA PopReports ==
  ASSUME Typed, Framed, LInv, stack' = Front(stack), Len(stack) > 1, status' = "running",
         top.node.kind \in Statements \/ returning' # NoValue
  PROVE  LInv'
  <1> DEFINE t == stack'
             m == Len(stack) - 1
             b == stack[m]
  <1>1. /\ stack \in Seq(FramesOf(Held)) /\ stack # <<>> /\ Len(stack) \in Nat \ {0} /\ DOMAIN stack = 1..Len(stack)
        /\ top = stack[Len(stack)]
    BY StackAt DEF Typed
  <1>2. m \in Nat \ {0} /\ Len(stack) = m + 1 /\ m \in 1..(m + 1) /\ m + 1 \in 1..(m + 1) /\ m + 1 > 1 /\ (m + 1) - 1 = m
    BY <1>1
  <1>3. /\ DOMAIN t = 1..m /\ Len(t) = m
        /\ \A j \in 1..m : t[j] = stack[j]
    <2>1. /\ Front(stack) \in Seq(FramesOf(Held)) /\ Len(Front(stack)) = m
          /\ \A j \in 1..m : Front(stack)[j] = stack[j]
      BY <1>1, FrontIs
    <2> HIDE DEF m
    <2>2. QED
      BY <2>1
  <1> HIDE DEF m, t
  <1>4. Linked /\ Follows(b, top)
    BY <1>1, <1>2 DEF LInv, Linked
  <1>5. \A i \in 1..m : i > 1 => Follows(t[i - 1], t[i])
    <2>1. ASSUME NEW i \in 1..m, i > 1 PROVE Follows(t[i - 1], t[i])
      <3>1. i \in DOMAIN stack /\ i - 1 \in 1..m
        BY <1>1, <1>2, <2>1
      <3>2. QED
        BY <1>3, <1>4, <2>1, <3>1 DEF Linked
    <2>2. QED
      BY <2>1
  <1>6. Filled(b)
    <2>1. Len(b.vals) \in Nat /\ Len(Subs(b)) \in Nat
      BY <1>1, <1>2, FrameIs
    <2>2. Len(b.vals) <= Len(Subs(b))
      <3>1. CASE top.node.kind = "body"
        <4>1. Len(b.vals) = Len(Subs(b))
          BY <1>4, <3>1 DEF Follows
        <4>2. QED
          BY <2>1, <4>1
      <3>2. CASE top.node.kind # "body"
        <4>1. Len(b.vals) < Len(Subs(b))
          BY <1>4, <3>2 DEF Follows
        <4>2. QED
          BY <2>1, <4>1
      <3>3. QED
        BY <3>1, <3>2
    <2>3. QED
      BY <2>2 DEF Filled
  <1>7. ASSUME returning' = NoValue, NEW i \in 1..m PROVE ~ Plain(t, i)
    <2>1. t[m] = stack[m]
      BY <1>2, <1>3
    <2>2. QED
      BY <1>2, <1>3, <1>4, <1>7, <2>1, NotPlainAfter
  <1>8. Linked'
    <2>1. \A i \in DOMAIN stack' : i > 1 => Follows(stack'[i - 1], stack'[i])
      BY <1>3, <1>5 DEF t
    <2>2. QED
      BY <2>1 DEF Linked
  <1>9. Filled(top)'
    <2>1. top' = b
      BY <1>2, <1>3 DEF top, Last, t
    <2>2. QED
      BY <1>6, <2>1
  <1>10. Reported'
    BY <1>3, <1>7 DEF Reported, t
  <1>11. Stopped'
    BY DEF Stopped
  <1>12. QED
    BY <1>8, <1>9, <1>10, <1>11 DEF LInv

\* A loop begins again.
LEMMA LoopReports ==
  ASSUME Typed, Framed, LInv, top.node.kind = "while", status' = "running",
         stack' = Append(Front(stack), [top EXCEPT !.vals = <<>>])
  PROVE  LInv'
  <1> DEFINE t == stack'
             m == Len(stack)
             g == [top EXCEPT !.vals = <<>>]
  <1>1. /\ stack \in Seq(FramesOf(Held)) /\ stack # <<>> /\ m \in Nat \ {0} /\ DOMAIN stack = 1..m
        /\ top = stack[m] /\ top \in FramesOf(Held)
    BY StackAt DEF Typed
  <1>2. g \in FramesOf(Held) /\ g.node = top.node /\ g.vals = <<>>
    <2> DEFINE w == <<>>
    <2>1. w \in Seq(Held) /\ g = [top EXCEPT !.vals = w]
      OBVIOUS
    <2> HIDE DEF w, g
    <2>2. g \in FramesOf(Held) /\ g.node = top.node /\ g.vals = w
      BY <1>1, <2>1, OtherVals
    <2>3. QED
      BY <2>2 DEF w
  <1>3. /\ Front(stack) \in Seq(FramesOf(Held)) /\ Len(Front(stack)) = m - 1
        /\ \A j \in 1..(m - 1) : Front(stack)[j] = stack[j]
    BY <1>1, FrontIs
  <1> HIDE DEF g
  <1>4. t = Append(Front(stack), g)
    BY DEF g
  <1> HIDE DEF t
  <1>5. /\ t \in Seq(FramesOf(Held)) /\ Len(t) = m /\ DOMAIN t = 1..m
        /\ \A j \in 1..(m - 1) : t[j] = stack[j]
        /\ t[m] = g
    <2> DEFINE r == Front(stack)
    <2>1. /\ r \in Seq(FramesOf(Held)) /\ Len(r) = m - 1 /\ t = Append(r, g) /\ g \in FramesOf(Held)
          /\ \A j \in 1..(m - 1) : r[j] = stack[j]
      BY <1>2, <1>3, <1>4
    <2> HIDE DEF r, m
    <2>2. /\ t \in Seq(FramesOf(Held)) /\ Len(t) = Len(r) + 1
          /\ \A j \in 1..Len(r) : t[j] = r[j]
          /\ t[Len(r) + 1] = g
      BY <2>1, AppendIs
    <2>3. m \in Nat \ {0} /\ Len(r) + 1 = m
      BY <1>1, <2>1
    <2>4. QED
      BY <2>1, <2>2, <2>3
  <1> HIDE DEF m
  <1>6. Linked
    BY DEF LInv
  <1>7. \A i \in 1..m : i > 1 => Follows(t[i - 1], t[i])
    <2>1. ASSUME NEW i \in 1..m, i > 1 PROVE Follows(t[i - 1], t[i])
      <3>1. i \in DOMAIN stack /\ i - 1 \in 1..(m - 1) /\ (i = m \/ i \in 1..(m - 1))
        BY <1>1, <2>1
      <3>2. Follows(stack[i - 1], stack[i])
        BY <1>6, <2>1, <3>1 DEF Linked
      <3>3. t[i - 1] = stack[i - 1] /\ t[i].node = stack[i].node
        BY <1>1, <1>2, <1>5, <3>1
      <3>4. QED
        BY <3>2, <3>3, FollowsNode
    <2>2. QED
      BY <2>1
  <1>8. Filled(g)
    <2>1. g.node.kind = "while" /\ g.node \in Known
      BY <1>2, TopIs
    <2>2. Len(Subs(g)) \in 1..2
      BY <2>1, SubsOfIf
    <2> DEFINE k == Len(Subs(g))
    <2>3. Len(g.vals) = 0 /\ k \in 1..2
      BY <1>2, <2>2
    <2> HIDE DEF k
    <2>4. Len(g.vals) <= k
      BY <2>3
    <2>5. QED
      BY <2>4 DEF Filled, k
  <1>9. ASSUME NEW i \in 1..m, Plain(t, i) PROVE FALSE
    <2>1. g.node.kind = "while" /\ g.node.kind \in Statements
      BY <1>2 DEF Statements
    <2>2. m \in i..Len(t) /\ (m > i \/ m = i)
      BY <1>1, <1>5
    <2>3. QED
      BY <1>5, <1>9, <2>1, <2>2 DEF Plain
  <1>10. Linked'
    <2>1. \A i \in DOMAIN stack' : i > 1 => Follows(stack'[i - 1], stack'[i])
      BY <1>5, <1>7 DEF t
    <2>2. QED
      BY <2>1 DEF Linked
  <1>11. Filled(top)'
    <2>1. top' = g
      BY <1>5 DEF top, Last, t
    <2>2. QED
      BY <1>8, <2>1
  <1>12. Reported'
    BY <1>5, <1>9 DEF Reported, t
  <1>13. Stopped'
    BY DEF Stopped
  <1>14. QED
    BY <1>10, <1>11, <1>12, <1>13 DEF LInv

-----------------------------------------------------------------------------
(***************************************************************************)
(* Every step keeps the links and the location.                            *)
(***************************************************************************)
LEMMA DescendReports ==
  ASSUME IInv, LInv, Descend
  PROVE  LInv'
  <1> DEFINE n == Subs(top)[Len(top.vals) + 1]
             scoped == n.kind = "block" /\ n.sub # <<>>
             scope == IF scoped THEN Len(scopes) + 1 ELSE top.scope
             w == Begin(n)
             g == [Frame(n, scope) EXCEPT !.vals = w]
             H == Held \cup {Value("table", Len(tables) + 1, "none")}
  <1>1. /\ Ready /\ Len(top.vals) < Len(Subs(top)) /\ stack' = Append(stack, g)
        /\ loc' = (IF Located(n) THEN n ELSE loc) /\ UNCHANGED <<returning, status>>
    BY DEF Descend
  <1>2. Typed /\ status = "running" /\ returning = NoValue /\ Fault(top) = "ok"
    BY <1>1, ReadyIs DEF IInv
  <1>3. n \in PartNodes /\ n.kind \notin {"body", "ir_run"} /\ w \in Seq(H) /\ Len(w) = Handed(n)
    <2>1. Held \subseteq H /\ Value("table", Len(tables) + 1, "none") \in H
      OBVIOUS
    <2> HIDE DEF H, n, w
    <2>2. n = Subs(top)[Len(top.vals) + 1]
      BY DEF n
    <2>3. /\ n \in PartNodes /\ n.kind \notin {"body", "ir_run"}
          /\ Begin(n) \in Seq(H) /\ Len(Begin(n)) = Handed(n)
      BY <1>1, <2>1, <2>2, BeginIs
    <2>4. QED
      BY <2>3 DEF w
  <1>4. g.node = n /\ g.vals = w
    <2> HIDE DEF n, w, scope
    <2>1. g = [node |-> n, scope |-> scope, vals |-> w]
      BY DEF Frame
    <2>2. QED
      BY <2>1
  <1> HIDE DEF w, scope
  <1>5. Follows(top, g)
    <2>1. ASSUME top.node.kind = "if", Len(top.vals) = 1 PROVE top.vals[1].kind \in {"number", "null"}
      BY <1>2, <2>1 DEF Fault, Increments, MethodCalls
    <2>2. Len(top.vals) < Len(Subs(top)) /\ g.node = Subs(top)[Len(top.vals) + 1] /\ g.node.kind # "body"
      BY <1>1, <1>3, <1>4
    <2> HIDE DEF g, n
    <2>3. QED
      BY <2>1, <2>2 DEF Follows
  <1> HIDE DEF n, H
  <1>6. Filled(g)
    <2> HIDE DEF g
    <2>1. g.node \in PartNodes /\ g.node \in NodeType
      BY <1>3, <1>4, PartNodesAre
    <2>2. Shaped(g.node)
      BY <2>1 DEF Shaped, PartNodes, MethodNodes
    <2>3. Subs(g) \in Seq(PartNodes)
      BY <1>2, <2>1, <2>2, SubsAre DEF Typed
    <2>4. Len(Subs(g)) \in Nat
      BY <2>3, LenProperties
    <2>5. Handed(g.node) <= Len(Subs(g))
      BY <2>1, <2>4, HandedFits
    <2>6. Len(g.vals) = Handed(g.node)
      BY <1>3, <1>4
    <2>7. QED
      BY <2>5, <2>6 DEF Filled
  <1>7. loc' = IF g.node.kind \in Statements THEN g.node ELSE loc
    BY <1>1, <1>4 DEF Located
  <1> HIDE DEF g
  <1>8. QED
    BY <1>1, <1>2, <1>5, <1>6, <1>7, PartReports

\* The function a call has: the first value of a call of a value.
LEMMA CalledIs ==
  ASSUME IInv, Calling
  PROVE  top.node.kind \in Calls => top.vals # <<>> /\ top.vals[1].kind = "function"
  <1> SUFFICES ASSUME top.node.kind \in Calls PROVE top.vals # <<>> /\ top.vals[1].kind = "function"
    OBVIOUS
  <1>1. top.node.kind \notin MethodCalls /\ top.node.kind \notin {"ir_run", "body", "method"}
    BY DEF Calls, MethodCalls
  <1>2. top.vals[1].kind = "function"
    <2>1. Callee.kind = "function"
      BY CalleeIs
    <2>2. QED
      BY <1>1, <2>1 DEF Callee, IsMethod
  <1>3. Len(top.vals) = Len(Subs(top))
    BY CallingIs
  <1>4. top.node \in Known
    BY <1>1, TopIs DEF IInv
  <1>5. Subs(top) = top.node.sub /\ top.node.sub # <<>> /\ top.node.sub \in Seq(Known)
    <2>1. Fits(top.node)
      BY <1>4, KnownFits
    <2>2. QED
      BY <1>1, <2>1 DEF Subs, Increments, MethodCalls, Calls, Fits
  <1>6. Len(Subs(top)) # 0
    BY <1>5, EmptySeq
  <1>7. Len(<<>>) = 0
    OBVIOUS
  <1>8. QED
    BY <1>2, <1>3, <1>6, <1>7, Zenon

LEMMA CallFunctionReports ==
  ASSUME IInv, LInv, CallFunction
  PROVE  LInv'
  <1> DEFINE b == program[Callee.ref].body
             g == Frame(Node("body", Callee.ref, b), Len(scopes) + 1)
  <1>1. CallingNormal /\ stack' = Append(stack, g) /\ UNCHANGED <<loc, returning, status>>
    BY DEF CallFunction, Enter
  <1>2. Calling /\ Callee.ref \notin Natives
    BY <1>1 DEF CallingNormal
  <1>3. Typed /\ status = "running" /\ returning = NoValue /\ Len(top.vals) = Len(Subs(top)) /\ top.node.kind \in Calls \cup MethodCalls
    BY <1>2, CallingIs DEF IInv
  <1>4. g.node.kind = "body" /\ g.vals = <<>> /\ g.node.sub = b
    BY DEF Frame, Node
  <1>5. b \in Seq(Nodes)
    <2>1. program \in Programs /\ Callee.ref \in DOMAIN program
      BY <1>2, CalleeIs DEF IInv, Typed
    <2>2. QED
      BY <2>1, ProgramAssumption
  <1> HIDE DEF g, b
  <1>6. Follows(top, g)
    BY <1>2, <1>3, <1>4, CalledIs DEF Follows
  <1>7. Filled(g)
    <2>1. Subs(g) = b
      BY <1>4 DEF Subs, Increments, MethodCalls
    <2>2. Len(g.vals) = 0 /\ Len(b) \in Nat
      BY <1>4, <1>5
    <2>3. Len(g.vals) <= Len(Subs(g))
      BY <2>1, <2>2
    <2>4. QED
      BY <2>3 DEF Filled
  <1>8. loc' = IF g.node.kind \in Statements THEN g.node ELSE loc
    BY <1>1, <1>4 DEF Statements
  <1>9. QED
    BY <1>1, <1>3, <1>6, <1>7, <1>8, PartReports

\* An error is one of a frame that evaluates its parts.
LEMMA FailsReports ==
  ASSUME IInv, LInv, Fails
  PROVE  LInv'
  <1> DEFINE k == top.node.kind
             v == top.vals
  <1>1. status = "running" /\ returning = NoValue /\ status' = Fault(top) /\ UNCHANGED <<stack, loc, returning>>
    BY DEF Fails, Running
  <1> SUFFICES ASSUME Fault(top) = "error"
               PROVE  k \notin {"block", "body"} /\ Choosing(top) /\ Len(v) <= Len(Subs(top))
    BY <1>1, StayReports
  <1>2. k \notin {"block", "body"}
    BY DEF Fault, Increments, MethodCalls
  <1>3. Choosing(top)
    <2>1. ASSUME k = "if" PROVE Len(v) = 1 /\ v[1].kind \notin {"number", "null"}
      BY <2>1 DEF Fault, Increments, MethodCalls
    <2>2. QED
      BY <2>1 DEF Choosing
  <1>4. Len(v) <= Len(Subs(top))
    <2>1. Filled(top)
      BY DEF LInv
    <2> SUFFICES ASSUME k \in Calls \cup MethodCalls, Len(v) = Len(Subs(top)) + 1,
                        k \in Calls => v[1].kind = "function"
                 PROVE  FALSE
      BY <2>1 DEF Filled
    <2>2. CASE k \in Calls
      <3>1. k = "call" \/ k = "call_stmt"
        BY <2>2 DEF Calls
      <3>2. QED
        BY <2>2, <3>1 DEF Fault, Increments, MethodCalls
    <2>3. CASE k \in MethodCalls
      <3>1. Len(v) \in {1, 2}
        <4>1. k = "method_call" \/ k = "method_call_stmt"
          BY <2>3 DEF MethodCalls
        <4>2. QED
          BY <2>3, <4>1 DEF Fault, Increments, MethodCalls
      <3>2. k \notin {"ir_run", "body", "method"}
        BY <2>3 DEF MethodCalls
      <3>3. top.node \in Known /\ Fits(top.node)
        BY <3>2, TopIs, KnownFits DEF IInv
      <3>4. Len(Subs(top)) = Len(top.node.sub) + 1 /\ top.node.sub # <<>> /\ top.node.sub \in Seq(Known)
        BY <2>3, <3>3, SubsOfMethodCall DEF Fits
      <3>5. Len(top.node.sub) \in Nat \ {0}
        BY <3>4
      <3>6. Len(v) = Len(top.node.sub) + 2
        BY <3>4, <3>5
      <3>7. QED
        BY <3>1, <3>5, <3>6
    <2>4. QED
      BY <2>2, <2>3
  <1>5. QED
    BY <1>2, <1>3, <1>4

\* A call that ends the program.
LEMMA CallFailsReports ==
  ASSUME IInv, LInv, Calling, UNCHANGED <<stack, loc, returning>>
  PROVE  LInv'
  <1>1. returning = NoValue /\ top.node.kind \in Calls \cup MethodCalls /\ Len(top.vals) = Len(Subs(top))
    BY CallingIs
  <1>2. top.node.kind \notin {"block", "body", "if"}
    BY <1>1 DEF Calls, MethodCalls
  <1>3. Choosing(top)
    BY <1>2 DEF Choosing
  <1>4. Len(top.vals) \in Nat
    <2>1. top.vals \in Seq(Held)
      BY TopIs DEF IInv
    <2>2. QED
      BY <2>1, LenProperties
  <1>5. Len(top.vals) <= Len(Subs(top))
    BY <1>1, <1>4
  <1>6. QED
    BY <1>1, <1>2, <1>3, <1>5, StayReports

\* What is delivered when a frame is done.
LEMMA DoneReports ==
  ASSUME IInv, LInv, Ready, NEW v, Deliver(v), UNCHANGED <<loc, status>>,
         top.node.kind # "ir_run",
         top.node.kind \notin Calls \cup MethodCalls => Len(top.vals) = Len(Subs(top))
  PROVE  LInv'
  <1>1. status = "running" /\ returning = NoValue
    BY ReadyIs
  <1>2. Typed /\ Framed /\ Len(stack) > 1
    BY TopIs DEF IInv
  <1>3. QED
    BY <1>1, <1>2, DeliveryReports

LEMMA EndReports ==
  ASSUME IInv, LInv, status = "running", top.node.kind = "body", NEW v, eval_function_ends(v), status' = status
  PROVE  LInv'
  <1>1. Deliver(v) /\ loc' = loc
    BY DEF eval_function_ends
  <1>2. Typed /\ Framed /\ Len(stack) > 1
    BY TopIs DEF IInv
  <1>3. QED
    BY <1>1, <1>2, DeliveryReports

LEMMA StepReports ==
  ASSUME IInv, LInv, [Next]_vars
  PROVE  LInv'
  <1>1. CASE Fails
    BY <1>1, FailsReports
  <1>2. CASE Descend
    BY <1>2, DescendReports
  <1>3. CASE eval_value
    <2>1. /\ Complete({"name", "binop", "unary", "index", "field", "method", "table",
                       "null", "number", "string", "anon_func"})
          /\ Deliver(Evaluated(top)) /\ UNCHANGED <<loc, status>>
      BY <1>3 DEF eval_value
    <2>2. QED
      BY <2>1, DoneReports DEF Complete
  <1>4. CASE eval_entry
    <2>1. Complete({"entry_normal", "entry_key", "entry_index"}) /\ Deliver(NoValue) /\ UNCHANGED <<loc, status>>
      BY <1>4 DEF eval_entry
    <2>2. QED
      BY <2>1, DoneReports DEF Complete
  <1>5. CASE eval_incdec
    <2>1. /\ Complete(Increments) /\ UNCHANGED <<loc, status>>
          /\ Deliver(IF top.node.kind = "pre" THEN NumberValue(top.vals[1].num + 1) ELSE top.vals[2])
      BY <1>5 DEF eval_incdec
    <2>2. QED
      BY <2>1, DoneReports DEF Complete, Increments
  <1>6. CASE assign
    <2>1. Complete({"assign"}) /\ Deliver(NoValue) /\ UNCHANGED <<loc, status>>
      BY <1>6 DEF assign
    <2>2. QED
      BY <2>1, DoneReports DEF Complete
  <1>7. CASE var
    <2>1. Complete({"var"}) /\ Deliver(NoValue) /\ UNCHANGED <<loc, status>>
      BY <1>7 DEF var
    <2>2. QED
      BY <2>1, DoneReports DEF Complete
  <1>8. CASE if
    <2>1. Complete({"if"}) /\ Deliver(NoValue) /\ UNCHANGED <<loc, status>>
      BY <1>8 DEF if
    <2>2. QED
      BY <2>1, DoneReports DEF Complete
  <1>9. CASE while
    <2>1. /\ Complete({"while"}) /\ UNCHANGED <<loc, status>>
          /\ Deliver(NoValue) \/ stack' = Append(Front(stack), [top EXCEPT !.vals = <<>>])
      BY <1>9 DEF while
    <2>2. CASE Deliver(NoValue)
      BY <2>1, <2>2, DoneReports DEF Complete
    <2>3. CASE stack' = Append(Front(stack), [top EXCEPT !.vals = <<>>])
      <3>1. Typed /\ Framed /\ status = "running" /\ top.node.kind = "while"
        BY <2>1, ReadyIs DEF IInv, Complete
      <3>2. QED
        BY <2>1, <2>3, <3>1, LoopReports
    <2>4. QED
      BY <2>1, <2>2, <2>3
  <1>10. CASE block
    <2>1. Complete({"block"}) /\ Deliver(NoValue) /\ UNCHANGED <<loc, status>>
      BY <1>10 DEF block
    <2>2. QED
      BY <2>1, DoneReports DEF Complete
  <1>11. CASE return
    <2>1. Complete({"return"}) /\ stack' = Front(stack) /\ status' = status
      BY <1>11 DEF return
    <2>2. status = "running" /\ top.node.kind = "return"
      BY <2>1, ReadyIs DEF Complete
    <2>3. Typed /\ Framed /\ Len(stack) > 1 /\ top.node.kind \in Statements
      BY <2>2, TopIs DEF IInv, Statements
    <2>4. QED
      BY <2>1, <2>2, <2>3, PopReports
  <1>12. CASE unwind
    <2>1. returning # NoValue /\ top.node.kind # "body" /\ stack' = Front(stack) /\ UNCHANGED <<returning, status>>
      BY <1>12 DEF unwind
    <2>2. status = "running" /\ Bodies # {} /\ Typed /\ Framed
      BY <2>1 DEF IInv, Unwinding
    <2>3. Len(stack) > 1
      <3>1. PICK b \in Bodies : TRUE
        BY <2>2
      <3> DEFINE L == Len(stack)
      <3>2. L \in Nat \ {0} /\ b \in 1..L /\ b # L
        BY <2>1, <2>2, <3>1, StackAt DEF Bodies
      <3> HIDE DEF L
      <3>3. L > 1
        BY <3>2
      <3>4. QED
        BY <3>3 DEF L
    <2>4. QED
      BY <2>1, <2>2, <2>3, PopReports
  <1>13. CASE print
    <2>1. Calling /\ stack' = Receive(stack, null_value) /\ status' = status
      BY <1>13 DEF print, CallingNative
    <2>2. QED
      BY <2>1, CallingIs, CalledIs, CallReports DEF IInv
  <1>14. CASE len
    <2> DEFINE v == NumberValue(Cardinality(DOMAIN tables[Arguments[1].num]))
    <2>1. /\ Calling /\ UNCHANGED <<loc, returning>>
          /\ (stack' = Receive(stack, v) /\ status' = status) \/ stack' = stack
      BY <1>14 DEF len, CallingNative
    <2> HIDE DEF v
    <2>2. CASE stack' = Receive(stack, v) /\ status' = status
      BY <2>1, <2>2, CallingIs, CalledIs, CallReports DEF IInv
    <2>3. CASE stack' = stack
      BY <2>1, <2>3, CallFailsReports
    <2>4. QED
      BY <2>1, <2>2, <2>3
  <1>15. CASE CallRefused
    <2>1. Calling /\ UNCHANGED <<stack, loc, returning>>
      BY <1>15 DEF CallRefused, CallingNormal
    <2>2. QED
      BY <2>1, CallFailsReports
  <1>16. CASE CallEmpty
    <2>1. Calling /\ stack' = Receive(stack, null_value) /\ status' = status
      BY <1>16 DEF CallEmpty, CallingNormal
    <2>2. QED
      BY <2>1, CallingIs, CalledIs, CallReports DEF IInv
  <1>17. CASE CallFunction
    BY <1>17, CallFunctionReports
  <1>18. CASE FallsOffEnd
    <2>1. Complete({"body"}) /\ eval_function_ends(null_value)
      BY <1>18 DEF FallsOffEnd
    <2>2. status = "running" /\ top.node.kind = "body" /\ status' = status
      BY <2>1, ReadyIs DEF Complete, eval_function_ends
    <2>3. QED
      BY <2>1, <2>2, EndReports
  <1>19. CASE Returns
    <2>1. returning # NoValue /\ top.node.kind = "body" /\ eval_function_ends(returning)
      BY <1>19 DEF Returns
    <2>2. status = "running" /\ status' = status
      BY <2>1 DEF IInv, Unwinding, eval_function_ends
    <2>3. QED
      BY <2>1, <2>2, EndReports
  <1>20. CASE call_returns
    <2>1. /\ Ready /\ top.node.kind \in Calls \cup MethodCalls /\ UNCHANGED <<loc, status>>
          /\ Deliver(IF top.node.kind \in {"call", "method_call"} THEN Last(top.vals) ELSE NoValue)
      BY <1>20 DEF call_returns
    <2>2. top.node.kind # "ir_run"
      BY <2>1 DEF Calls, MethodCalls
    <2>3. QED
      BY <2>1, <2>2, DoneReports
  <1>21. CASE ir_run
    <2>1. Complete({"ir_run"}) /\ status' = "finished" /\ UNCHANGED <<stack, loc, returning>>
      BY <1>21 DEF ir_run
    <2>2. returning = NoValue
      BY <2>1, ReadyIs DEF Complete
    <2>3. QED
      BY <2>1, <2>2, StayReports
  <1>22. CASE UNCHANGED vars
    <2>1. UNCHANGED <<stack, loc, returning, status>> /\ top' = top
      BY <1>22 DEF vars, top
    <2>2. QED
      BY <2>1 DEF LInv, Linked, Reported, Stopped
  <1>23. QED
    BY <1>1, <1>2, <1>3, <1>4, <1>5, <1>6, <1>7, <1>8, <1>9, <1>10, <1>11, <1>12, <1>13, <1>14,
       <1>15, <1>16, <1>17, <1>18, <1>19, <1>20, <1>21, <1>22 DEF Next

LEMMA InitReports ==
  ASSUME Init
  PROVE  LInv
  <1> DEFINE f == Frame(Halt, file_scope)
  <1>1. stack = <<f>> /\ status = "running" /\ IInv
    BY InitInvariant DEF Init
  <1>2. f.node = Halt /\ f.vals = <<>>
    BY DEF Frame
  <1> HIDE DEF f
  <1>3. Len(stack) = 1 /\ DOMAIN stack = 1..1 /\ stack[1] = f /\ top = f
    BY <1>1 DEF top, Last
  <1>4. \A i \in DOMAIN stack : i = 1
    BY <1>3
  <1>5. Linked
    <2>1. ~ (1 > 1)
      OBVIOUS
    <2>2. QED
      BY <1>4, <2>1, Zenon DEF Linked
  <1>6. Filled(top)
    <2>1. Subs(top) \in Seq(PartNodes)
      BY <1>1, TopIs DEF IInv
    <2>2. Len(Subs(top)) \in Nat
      BY <2>1, LenProperties
    <2> DEFINE k == Len(Subs(top))
    <2>3. Len(top.vals) = 0 /\ k \in Nat
      BY <1>2, <1>3, <2>2
    <2> HIDE DEF k
    <2>4. Len(top.vals) <= k
      BY <2>3
    <2>5. QED
      BY <2>4 DEF Filled, k
  <1>7. ~ Plain(stack, 1)
    <2>1. stack[1].node.kind \notin Statements
      BY <1>2, <1>3, HaltIs DEF Statements
    <2>2. QED
      BY <2>1 DEF Plain
  <1>8. Reported /\ Stopped
    BY <1>1, <1>4, <1>7 DEF Reported, Stopped
  <1>9. QED
    BY <1>5, <1>6, <1>8 DEF LInv

\* Where an error is found the statement it is reported at is the last one
\* begun: a frame evaluates no statement but those of a block, a body, and
\* behind the condition of an if statement or a loop.
LEMMA ErrorIsPlain ==
  ASSUME IInv, LInv, status = "error", NEW i \in DOMAIN stack,
         stack[i].node.kind \in Statements \ {"while"},
         \A j \in i..Len(stack) : /\ j > i => stack[j].node.kind \notin Statements
                                  /\ Behind(stack[j]) \subseteq CallFree
  PROVE  Plain(stack, i)
  <1> DEFINE L == Len(stack)
  <1>1. L \in Nat \ {0} /\ DOMAIN stack = 1..L /\ i \in 1..L /\ top = stack[L] /\ Typed /\ Framed /\ program \in Programs
    BY StackAt DEF IInv, Typed
  <1>2. top.node.kind \notin {"block", "body"} /\ Choosing(top) /\ Len(top.vals) <= Len(Subs(top)) /\ Linked
    BY DEF LInv, Stopped
  <1> HIDE DEF L
  <1>3. \A j \in i..L : j \in DOMAIN stack /\ j \in i..Len(stack) /\ (j = L \/ (j + 1 \in i..L /\ j + 1 > i))
    <2>1. ASSUME NEW j \in i..L PROVE j \in 1..L /\ (j = L \/ (j + 1 \in i..L /\ j + 1 > i))
      BY <1>1
    <2>2. i..L = i..Len(stack)
      BY DEF L
    <2>3. QED
      BY <1>1, <2>1, <2>2
  <1>4. ASSUME NEW j \in i..L, j # L
        PROVE  Follows(stack[j], stack[j + 1]) /\ stack[j + 1].node.kind \notin Statements
    <2>1. j + 1 \in DOMAIN stack /\ j + 1 > 1 /\ (j + 1) - 1 = j /\ j + 1 > i /\ j + 1 \in i..Len(stack)
      <3>1. j + 1 \in i..L /\ j + 1 > i
        BY <1>3, <1>4
      <3>2. j + 1 \in DOMAIN stack /\ j + 1 \in i..Len(stack)
        BY <1>3, <3>1
      <3>3. j \in Int /\ j + 1 > 1 /\ (j + 1) - 1 = j
        <4>1. i \in Int /\ i >= 1
          BY <1>1
        <4>2. QED
          BY <1>4, <4>1
      <3>4. QED
        BY <3>1, <3>2, <3>3
    <2>2. Follows(stack[(j + 1) - 1], stack[j + 1])
      BY <1>2, <2>1 DEF Linked
    <2>3. QED
      BY <2>1, <2>2
  <1>5. ASSUME NEW j \in i..L, j # L, stack[j].node.kind \in {"block", "body", "if"}
        PROVE  stack[j].node.kind = "if" /\ Len(stack[j].vals) = 0
    <2> DEFINE b == stack[j]
               f == stack[j + 1]
               k == Len(b.vals) + 1
    <2>1. Follows(b, f) /\ f.node.kind \notin Statements /\ j \in DOMAIN stack
      BY <1>3, <1>4, <1>5
    <2>2. /\ b.node \in NodeType /\ Len(b.vals) \in Nat /\ Len(Subs(b)) \in Nat /\ Subs(b) \in Seq(PartNodes)
          /\ b.node.kind \notin {"ir_run", "body", "method"} => b.node \in Known
          /\ b.node.kind = "body" => IsBody(b.node)
      BY <1>1, <2>1, FrameIs
    <2>3. b.node.kind \in {"block", "body", "if"}
      BY <1>5
    <2> HIDE DEF b, f
    <2>4. Len(b.vals) < Len(Subs(b)) /\ f.node = Subs(b)[k]
      BY <2>1, <2>3 DEF Follows, Calls, MethodCalls
    <2>5. k \in DOMAIN Subs(b)
      BY <2>2, <2>4
    <2>6. b.node.kind = "if"
      <3> SUFFICES ASSUME b.node.kind # "if" PROVE FALSE
        OBVIOUS
      <3>1. (b.node.kind = "block" /\ b.node \in Known) \/ (b.node.kind = "body" /\ IsBody(b.node))
        BY <2>2, <2>3
      <3>2. Subs(b)[k].kind \in Statements
        BY <1>1, <2>2, <2>5, <3>1, SubsOfBlock
      <3>3. QED
        BY <2>1, <2>4, <3>2
    <2>7. k = 1
      <3>1. b.node \in Known
        BY <2>2, <2>6
      <3>2. k # 1 => Subs(b)[k].kind \in Statements
        BY <2>5, <2>6, <3>1, SubsOfIf
      <3>3. QED
        BY <2>1, <2>4, <3>2
    <2>8. Len(b.vals) = 0
      BY <2>2, <2>7
    <2>9. QED
      BY <2>6, <2>8 DEF b
  <1>6. i \in i..L
    BY <1>1
  <1>7. stack[i].node.kind # "block"
    <2>1. CASE i = L
      BY <1>1, <1>2, <2>1
    <2>2. CASE i # L
      BY <1>5, <1>6, <2>2
    <2>3. QED
      BY <2>1, <2>2
  <1>8. Choosing(stack[i])
    <2>1. CASE i = L
      BY <1>1, <1>2, <2>1
    <2>2. CASE i # L
      <3>1. stack[i].node.kind = "if" => Len(stack[i].vals) = 0
        BY <1>5, <1>6, <2>2
      <3>2. stack[i].vals \in Seq(Held)
        BY <1>1, FrameIs
      <3>3. stack[i].node.kind = "if" => stack[i].vals = <<>>
        BY <3>1, <3>2, EmptySeq
      <3>4. QED
        BY <3>3 DEF Choosing
    <2>3. QED
      BY <2>1, <2>2
  <1>9. ASSUME NEW j \in i..Len(stack)
        PROVE  /\ j > i => stack[j].node.kind \notin Statements \cup {"body"}
               /\ Behind(stack[j]) \subseteq CallFree /\ Len(stack[j].vals) <= Len(Subs(stack[j]))
    <2>1. j \in i..L /\ j \in DOMAIN stack
      BY <1>3 DEF L
    <2>2. CASE j = L
      BY <1>1, <1>2, <1>9, <2>2
    <2>3. CASE j # L
      <3>1. stack[j].node.kind # "body"
        BY <1>5, <2>1, <2>3
      <3>2. Len(stack[j].vals) \in Nat /\ Len(Subs(stack[j])) \in Nat
        BY <1>1, <2>1, FrameIs
      <3>3. Follows(stack[j], stack[j + 1])
        BY <1>4, <2>1, <2>3
      <3>4. Len(stack[j].vals) <= Len(Subs(stack[j]))
        <4>1. CASE stack[j + 1].node.kind = "body"
          <5>1. Len(stack[j].vals) = Len(Subs(stack[j]))
            BY <3>3, <4>1 DEF Follows
          <5>2. QED
            BY <3>2, <5>1
        <4>2. CASE stack[j + 1].node.kind # "body"
          <5>1. Len(stack[j].vals) < Len(Subs(stack[j]))
            BY <3>3, <4>2 DEF Follows
          <5>2. QED
            BY <3>2, <5>1
        <4>3. QED
          BY <4>1, <4>2
      <3>5. QED
        BY <1>9, <3>1, <3>4
    <2>4. QED
      BY <2>2, <2>3
  <1>10. QED
    BY <1>7, <1>8, <1>9 DEF Plain

\* An error is reported at the statement that failed: eval_stmt sets ir->loc
\* before anything else, and nothing called has moved it.
THEOREM ErrorsAreLocated == Spec => []LocationOfError
  <1>1. Init => IInv /\ LInv
    BY InitInvariant, InitReports
  <1>2. IInv /\ LInv /\ [Next]_vars => LInv'
    BY StepReports
  <1>3. IInv /\ LInv => LocationOfError
    <2> SUFFICES ASSUME IInv, LInv, status = "error", NEW i \in DOMAIN stack,
                        stack[i].node.kind \in Statements \ {"while"},
                        \A j \in i..Len(stack) : /\ j > i => stack[j].node.kind \notin Statements
                                                 /\ Behind(stack[j]) \subseteq CallFree
                 PROVE  loc = stack[i].node
      BY DEF LocationOfError
    <2>1. Plain(stack, i)
      BY ErrorIsPlain
    <2>2. returning = NoValue /\ Reported
      BY DEF LInv, Stopped
    <2>3. QED
      BY <2>1, <2>2 DEF Reported
  <1>4. Spec => []IInv
    BY Invariant
  <1>5. QED
    BY <1>1, <1>2, <1>3, <1>4, PTL DEF Spec
=============================================================================
