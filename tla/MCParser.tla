------------------------------ MODULE MCParser ------------------------------
(***************************************************************************)
(* Parser on every short sequence of tokens in the places where most can   *)
(* stand (an initialiser, the body of a function, and the top of a file),  *)
(* and on files written down from known trees: every pair of operators     *)
(* nested in either operand, every kind of operand and of statement.       *)
(***************************************************************************)
EXTENDS Parser, SequencesExt

Initialiser(s) == <<"var", "name", "=">> \o s \o <<";", "EOF">>

ShortExpressions ==
  {Initialiser(s) : s \in BoundedSeq({"name", "(", ")", "{", "}", "=", ","}, 5)} \cup
  {Initialiser(s) : s \in BoundedSeq({"name", "(", ")", "[", "]", "-", "++", ":", "func"}, 4)}

ShortBodies == {<<"func", "name", "(", ")", "{">> \o s \o <<"}", "EOF">> :
            s \in BoundedSeq({"name", "(", ")", "{", "}", ";", "=", "if", "else", "return", "++"}, 4)}

ShortFiles == {s \o <<"EOF">> :
            s \in BoundedSeq({"var", "name", ";", "import", "as", "use", "string", "="}, 4)}

ShortSources == ShortExpressions \cup ShortBodies \cup ShortFiles


VARIABLE tree   \* what tokens was written from, if it was

Name == Node("operand", "name", <<>>)
Leaves == {Name, Node("operand", "number", <<>>), Node("operand", "true", <<>>)}
Args(ns) == Node("args", "", ns)
Block(ns) == Node("block", "{", ns)
Formal == Node("name", "name", <<>>)
Call(e) == Node("call", "(", <<e, Args(<<Name, e>>)>>)

Binary(lhs, rhs) ==
  {Node("binop", o, <<l, r>>) : o \in {"*", "/", "+", "-", "==", "<", "&&", "||"}, l \in lhs, r \in rhs}

Unary(es) ==
  {Node("prefix", o, <<e>>) : o \in {"-", "!", "++"}, e \in es} \cup
  {Node("postfix", o, <<e>>) : o \in {"++", "--"}, e \in es} \cup
  {Node("field", ".", <<e>>) : e \in es} \cup
  {Node("index", "[", <<e, e>>) : e \in es} \cup
  {Call(e) : e \in es} \cup
  {Node("call", "(", <<e, Args(<<>>)>>) : e \in es} \cup
  {Node("method_call", ":", <<e, Args(<<e>>)>>) : e \in es}

Tables(es) ==
  {Node("table", "{", <<Node("ENTRY_NORMAL", "", <<e>>), Node("ENTRY_KEY", "=", <<Name, e>>),
                        Node("ENTRY_INDEX", "[", <<e, Name>>)>>) : e \in es} \cup
  {Node("table", "{", <<>>),
   Node("anon_func", "func", <<Args(<<>>), Block(<<>>)>>),
   Node("anon_func", "func", <<Args(<<Formal, Formal>>), Block(<<Node("return", "return", <<Name>>)>>)>>)}

Simple == {Name} \cup Binary({Name}, {Name}) \cup Unary({Name}) \cup Tables({Name})
Expressions == Simple \cup Binary(Simple, Simple) \cup Unary(Simple) \cup Tables(Simple)

Plain == {
  Node("var", "var", <<>>), Node("var", "var", <<Call(Name)>>),
  Node("assign", "=", <<Node("index", "[", <<Name, Name>>), Name>>),
  Node("return", "return", <<>>), Node("return", "return", <<Call(Name)>>),
  Node("jump", "break", <<>>), Node("jump", "continue", <<>>),
  Call(Name), Node("postfix", "--", <<Name>>), Node("prefix", "++", <<Name>>)}

If(b, c) == Node("if", "if", <<Name, b, c>>)

Nested(stmts) ==
  LET blocks == {Block(<<>>)} \cup {Block(<<a, b>>) : a, b \in stmts}
  IN  blocks \cup {Node("while", "while", <<Call(Name), b>>) : b \in blocks}
      \cup {Node("if", "if", <<Name, b>>) : b \in blocks}
      \cup {If(b, Block(<<>>)) : b \in blocks}
      \cup {If(Block(<<>>), If(Block(<<>>), b)) : b \in blocks}

Bodies == {Block(<<s>>) : s \in Nested(Plain)} \cup
          {Block(<<s, p>>) : s \in Nested({Call(Name)}), p \in Plain}

Declared ==
  {Node("func", "func", <<Args(ns), b>>) : ns \in {<<>>, <<Formal>>, <<Formal, Formal>>}, b \in Bodies}
  \cup {Node("var", "var", <<e>>) : e \in Expressions}
  \cup {Node("import", "import", <<>>), Node("import", "as", <<>>), Node("use", "use", <<>>),
        Node("var", "var", <<>>)}

MCInit ==
  \/ Init /\ tree = NoNode
  \/ /\ tree \in {Node("file", "", <<Node("use", "use", <<>>), d>>) : d \in Declared}
     /\ tokens = Written(tree) \o <<"EOF">>
     /\ parsed = Unparsed

MCNext == Next /\ UNCHANGED tree
MCSpec == MCInit /\ [][MCNext]_<<vars, tree>>

\* The parser gives back the tree a file was written from: operators bind as
\* in Go, the precedence the comment at parser.c:801 names, those of a level
\* from the left, and what follows an operand binds before what precedes it;
\* an else belongs to its if and a "}" to its block.
TreeRecovered ==
  (tree # NoNode /\ parsed # Unparsed) => parsed = Result(tree, Len(tokens))

=============================================================================
