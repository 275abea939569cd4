------------------------------ MODULE Parser ------------------------------
(***************************************************************************)
(* The recursive descent of parser.c.  Each operator named after a         *)
(* function takes the index of current_token and returns the node it makes *)
(* and the index it leaves.  The index 0 means that parser_error has been  *)
(* called: no token is there, so whatever is tried next fails as well.     *)
(* A token is its kind, a name or a literal being one of its kind.         *)
(***************************************************************************)
EXTENDS Integers, Sequences, SequencesExt

CONSTANT Sources   \* sequences of tokens, each with "EOF" at its end only

TokenKinds == {"number", "true", "false", "name", "string", "null",
               "(", ")", "{", "}", "[", "]", "=", ",", ".", ":", ";", "++", "--",
               "+", "-", "!", "*", "/", "%", "==", "!=", "<", "<=", ">", ">=", "&&", "||",
               "var", "func", "if", "else", "for", "while", "return", "continue", "break",
               "import", "as", "use", "EOF"}

ASSUME SourceAssumption ==
  \A s \in Sources : /\ s \in Seq(TokenKinds) /\ s # <<>>
                     /\ \A i \in DOMAIN s : s[i] = "EOF" <=> i = Len(s)

VARIABLES tokens,   \* lexer.tokens
          parsed    \* what parse returned; its place is -1 before the call

vars == <<tokens, parsed>>

\* Every node has a kind, the token that tells it apart, and its parts.
Node(kind, token, sub) == [kind |-> kind, token |-> token, sub |-> sub]
NoNode == Node("none", "", <<>>)

Result(node, at) == [node |-> node, at |-> at]
parser_error == Result(NoNode, 0)

Tok(i) == IF i \in DOMAIN tokens THEN tokens[i] ELSE "none"

\* Faulty: a token that is missing is passed over.
expect_if_there(i, kind) == IF Tok(i) = kind THEN i + 1 ELSE i

\* The position after an expected token.
expect(i, kind) == IF Tok(i) = kind THEN i + 1 ELSE 0

\* Functions that are called before they are defined; level tells the
\* functions for binary operators apart.
RECURSIVE Parsed(_, _, _)
At(rule, level, i) == Parsed(rule, level, i)
Block_at(i) == At("block", 0, i)
If_at(i) == At("if", 0, i)
Level_at(level, i) == At("expr", level, i)

\* expr_mul, expr_plus, expr_equality, expr_land and expr_lor differ only in
\* their operators and in what they call for their operands.
Levels == << {"*", "/", "%"}, {"+", "-"}, {"==", "!=", ">", ">=", "<", "<="}, {"&&"}, {"||"} >>

parse_expr(i) == Level_at(Len(Levels), i)

----------------------------------------------------------------------------
\* Names separated by commas, from i up to the ")": a Result whose node has
\* them as parts.
RECURSIVE MoreNames(_, _)
MoreNames(names, i) ==
  IF Tok(i) # "name" THEN parser_error
  ELSE LET all == Append(names, Node("name", "name", <<>>))
       IN  IF Tok(i + 1) = "," THEN MoreNames(all, i + 2)
           ELSE Result(Node("args", "", all), i + 1)

Parameters(i) ==
  LET names == IF Tok(i) = ")" THEN Result(Node("args", "", <<>>), i) ELSE MoreNames(<<>>, i)
  IN  Result(names.node, expect(names.at, ")"))

\* One entry of a table constant: [e] = v, k = v, or v.
TableEntry(i) ==
  IF Tok(i) = "["
  THEN LET key == parse_expr(i + 1)
           value == parse_expr(expect(expect(key.at, "]"), "="))
       IN  Result(Node("ENTRY_INDEX", "[", <<key.node, value.node>>), value.at)
  ELSE LET expr == parse_expr(i)
           value == parse_expr(expr.at + 1)
       IN  IF Tok(expr.at) = "="
           THEN Result(Node("ENTRY_KEY", "=", <<expr.node, value.node>>), value.at)
           ELSE Result(Node("ENTRY_NORMAL", "", <<expr.node>>), expr.at)

\* Faulty: after a comma there has to be another entry.
RECURSIVE TableEntries_without_trailing_comma(_, _)
TableEntries_without_trailing_comma(entries, i) ==
  LET entry == TableEntry(i)
      all == Append(entries, entry.node)
  IN  IF Tok(entry.at) = "," THEN TableEntries_without_trailing_comma(all, entry.at + 1)
      ELSE Result(Node("table", "{", all), expect(entry.at, "}"))

RECURSIVE TableEntries(_, _)
TableEntries(entries, i) ==
  IF Tok(i) = "}" THEN Result(Node("table", "{", entries), i + 1)
  ELSE LET entry == TableEntry(i)
           all == Append(entries, entry.node)
       IN  IF Tok(entry.at) = "," THEN TableEntries(all, entry.at + 1)
           ELSE Result(Node("table", "{", all), expect(entry.at, "}"))

Literals == {"number", "true", "false", "name", "string", "null"}

expr_operand(i) ==
  CASE Tok(i) \in Literals -> Result(Node("operand", Tok(i), <<>>), i + 1)
    [] Tok(i) = "(" ->
         LET expr == parse_expr(i + 1) IN Result(expr.node, expect(expr.at, ")"))
    [] Tok(i) = "func" ->
         LET args == Parameters(expect(i + 1, "("))
             block == Block_at(args.at)
         IN  Result(Node("anon_func", "func", <<args.node, block.node>>), block.at)
    [] Tok(i) = "{" -> TableEntries(<<>>, i + 1)
    [] OTHER -> parser_error

\* The arguments of a call, from the one at i up to the ")".
RECURSIVE MoreArguments(_, _)
MoreArguments(args, i) ==
  LET arg == parse_expr(i)
      all == Append(args, arg.node)
  IN  IF Tok(arg.at) = "," THEN MoreArguments(all, arg.at + 1)
      ELSE Result(Node("args", "", all), expect(arg.at, ")"))

Arguments(i) == IF Tok(i) = ")" THEN Result(Node("args", "", <<>>), i + 1)
                ELSE MoreArguments(<<>>, i)

\* What stands behind an operand: index, call, field, method call, ++ or --.
Postfix(expr, i) ==
  CASE Tok(i) = "[" ->
         LET index == parse_expr(i + 1)
         IN  Result(Node("index", "[", <<expr, index.node>>), expect(index.at, "]"))
    [] Tok(i) = "(" ->
         LET args == Arguments(i + 1)
         IN  Result(Node("call", "(", <<expr, args.node>>), args.at)
    [] Tok(i) = "." -> Result(Node("field", ".", <<expr>>), expect(i + 1, "name"))
    [] Tok(i) = ":" ->
         LET args == Arguments(expect(expect(i + 1, "name"), "("))
         IN  Result(Node("method_call", ":", <<expr, args.node>>), args.at)
    [] OTHER -> Result(Node("postfix", Tok(i), <<expr>>), i + 1)

RECURSIVE PostfixChain(_)
PostfixChain(r) ==
  IF Tok(r.at) \in {"(", "[", ".", ":", "++", "--"}
  THEN PostfixChain(Postfix(r.node, r.at)) ELSE r

expr_base(i) == PostfixChain(expr_operand(i))

\* Faulty: a prefix operator takes the operand alone, before what follows it.
expr_unary_before_postfix(i) ==
  IF Tok(i) \in {"+", "-", "!", "++", "--"}
  THEN LET rhs == expr_operand(i + 1)
       IN  PostfixChain(Result(Node("prefix", Tok(i), <<rhs.node>>), rhs.at))
  ELSE expr_base(i)

\* At most one prefix operator.
expr_unary(i) ==
  IF Tok(i) \in {"+", "-", "!", "++", "--"}
  THEN LET rhs == expr_base(i + 1)
       IN  Result(Node("prefix", Tok(i), <<rhs.node>>), rhs.at)
  ELSE expr_base(i)

\* Faulty: the right operand is everything that follows.
Chain_to_the_right(level, lhs) ==
  IF Tok(lhs.at) \in Levels[level]
  THEN LET rhs == Level_at(level, lhs.at + 1)
       IN  Result(Node("binop", Tok(lhs.at), <<lhs.node, rhs.node>>), rhs.at)
  ELSE lhs

RECURSIVE Chain(_, _)
Chain(level, lhs) ==
  IF Tok(lhs.at) \in Levels[level]
  THEN LET rhs == Level_at(level - 1, lhs.at + 1)
       IN  Chain(level, Result(Node("binop", Tok(lhs.at), <<lhs.node, rhs.node>>), rhs.at))
  ELSE lhs

expr_level(level, i) == IF level = 0 THEN expr_unary(i)
                        ELSE Chain(level, Level_at(level - 1, i))

----------------------------------------------------------------------------
parse_var(i) ==
  LET named == expect(expect(i, "var"), "name")
      expr == parse_expr(named + 1)
  IN  IF Tok(named) = "=" THEN Result(Node("var", "var", <<expr.node>>), expect(expr.at, ";"))
      ELSE Result(Node("var", "var", <<>>), expect(named, ";"))

parse_return(i) ==
  LET expr == parse_expr(i + 1)
  IN  IF Tok(i + 1) = ";" THEN Result(Node("return", "return", <<>>), i + 2)
      ELSE Result(Node("return", "return", <<expr.node>>), expect(expr.at, ";"))

\* parse_continue and parse_break.
Jump(i) == Result(Node("jump", Tok(i), <<>>), expect(i + 1, ";"))

parse_while(i) ==
  LET cond == parse_expr(i + 1)
      block == Block_at(cond.at)
  IN  Result(Node("while", "while", <<cond.node, block.node>>), block.at)

parse_if(i) ==
  LET cond == parse_expr(i + 1)
      block == Block_at(cond.at)
      otherwise == CASE Tok(block.at + 1) = "{"  -> Block_at(block.at + 1)
                     [] Tok(block.at + 1) = "if" -> If_at(block.at + 1)
                     [] OTHER -> parser_error
  IN  IF Tok(block.at) = "else"
      THEN Result(Node("if", "if", <<cond.node, block.node, otherwise.node>>), otherwise.at)
      ELSE Result(Node("if", "if", <<cond.node, block.node>>), block.at)

\* An expression is a statement when it is a call, ++, -- or assigned to.
ExpressionStatement(i) ==
  LET expr == parse_expr(i)
      value == parse_expr(expr.at + 1)
      increments == expr.node.kind = "postfix"
                    \/ (expr.node.kind = "prefix" /\ expr.node.token \in {"++", "--"})
  IN  CASE Tok(expr.at) = "=" ->
             Result(Node("assign", "=", <<expr.node, value.node>>), expect(value.at, ";"))
        [] Tok(expr.at) # "=" /\ (expr.node.kind \in {"call", "method_call"} \/ increments) ->
             Result(expr.node, expect(expr.at, ";"))
        [] OTHER -> parser_error

Statement(i) ==
  CASE Tok(i) = "if"     -> If_at(i)
    [] Tok(i) = "var"    -> parse_var(i)
    [] Tok(i) = "{"      -> Block_at(i)
    [] Tok(i) = "return" -> parse_return(i)
    [] Tok(i) \in {"continue", "break"} -> Jump(i)
    [] Tok(i) = "while"  -> parse_while(i)
    [] OTHER -> ExpressionStatement(i)

RECURSIVE Statements(_, _)
Statements(stmts, i) ==
  CASE Tok(i) = "}" -> Result(Node("block", "{", stmts), i + 1)
    [] Tok(i) = ";" -> Statements(stmts, i + 1)
    [] OTHER -> LET stmt == Statement(i)
                IN  IF stmt.at = 0 THEN parser_error
                    ELSE Statements(Append(stmts, stmt.node), stmt.at)

parse_block(i) == IF Tok(i) = "{" THEN Statements(<<>>, i + 1) ELSE parser_error

Parsed(rule, level, i) ==
  CASE rule = "expr"  -> expr_level(level, i)
    [] rule = "block" -> parse_block(i)
    [] rule = "if"    -> parse_if(i)

parse_func(i) ==
  LET args == Parameters(expect(expect(i + 1, "name"), "("))
      block == Block_at(args.at)
  IN  Result(Node("func", "func", <<args.node, block.node>>), block.at)

parse_import(i) ==
  LET named == expect(i + 1, "string")
  IN  IF Tok(named) = "as"
      THEN Result(Node("import", "as", <<>>), expect(expect(named + 1, "name"), ";"))
      ELSE Result(Node("import", "import", <<>>), expect(named, ";"))

parse_use(i) == Result(Node("use", "use", <<>>), expect(expect(i + 1, "string"), ";"))

TopLevel(i) ==
  CASE Tok(i) = "var"    -> parse_var(i)
    [] Tok(i) = "func"   -> parse_func(i)
    [] Tok(i) = "import" -> parse_import(i)
    [] Tok(i) = "use"    -> parse_use(i)
    [] OTHER -> parser_error

\* Faulty: a lone ";" is looked for where the file has already ended.
RECURSIVE Declarations_past_end(_, _)
Declarations_past_end(stmts, i) ==
  LET stmt == IF Tok(i) = ";" THEN Result(NoNode, i + 2) ELSE TopLevel(i)
      all == IF Tok(i) = ";" THEN stmts ELSE Append(stmts, stmt.node)
  IN  CASE stmt.at = 0         -> parser_error
        [] Tok(stmt.at) \in {"EOF", "none"} -> Result(Node("file", "", all), stmt.at)
        [] OTHER               -> Declarations_past_end(all, stmt.at)

\* The loop of parse tests for the end of the file after a declaration or a
\* ";", not before the first: a file without tokens is an error.
RECURSIVE Declarations(_, _)
Declarations(stmts, i) ==
  LET stmt == IF Tok(i) = ";" THEN Result(NoNode, i + 1) ELSE TopLevel(i)
      all == IF Tok(i) = ";" THEN stmts ELSE Append(stmts, stmt.node)
  IN  CASE stmt.at = 0         -> parser_error
        [] Tok(stmt.at) = "EOF" -> Result(Node("file", "", all), stmt.at)
        [] OTHER               -> Declarations(all, stmt.at)

Unparsed == Result(NoNode, -1)

Init == tokens \in Sources /\ parsed = Unparsed

parse ==
  /\ parsed = Unparsed
  /\ parsed' = Declarations(<<>>, 1)
  /\ UNCHANGED tokens

Next == parse

Spec == Init /\ [][Next]_vars

----------------------------------------------------------------------------
(***************************************************************************)
(* The grammar, as a way to write a tree down: each node's tokens, with    *)
(* parentheses where the tree needs them and nowhere else.                 *)
(***************************************************************************)
\* How loosely a node binds: 0 for what needs no parentheses in any place, 1
\* for a prefix operator, then Go's five levels.
Looseness(n) ==
  CASE n.kind = "binop"  -> 1 + (CHOOSE l \in DOMAIN Levels : n.token \in Levels[l])
    [] n.kind = "prefix" -> 1
    [] OTHER -> 0

\* A list of texts with commas between them.
Separated(texts) == FlattenSeq([i \in DOMAIN texts |-> (IF i = 1 THEN <<>> ELSE <<",">>) \o texts[i]])

\* Calls, ++ and -- are statements when a ";" follows.
Ended(n, text) ==
  IF n.kind \in {"call", "method_call", "postfix", "prefix"} THEN text \o <<";">> ELSE text

RECURSIVE Written(_)
Written(n) ==
  LET s == [i \in DOMAIN n.sub |-> Written(n.sub[i])]
      all == FlattenSeq(s)
      Operand(i, limit) == IF Looseness(n.sub[i]) > limit THEN <<"(">> \o s[i] \o <<")">> ELSE s[i]
  IN CASE n.kind = "operand"  -> <<n.token>>
       [] n.kind = "name"     -> <<"name">>
       [] n.kind = "args"     -> Separated(s)
       [] n.kind = "anon_func" -> <<"func", "(">> \o s[1] \o <<")">> \o s[2]
       [] n.kind = "func"     -> <<"func", "name", "(">> \o s[1] \o <<")">> \o s[2]
       [] n.kind = "table"    -> <<"{">> \o Separated(s) \o <<"}">>
       [] n.kind = "ENTRY_INDEX" -> <<"[">> \o s[1] \o <<"]", "=">> \o s[2]
       [] n.kind = "ENTRY_KEY" -> s[1] \o <<"=">> \o s[2]
       [] n.kind = "index"    -> Operand(1, 0) \o <<"[">> \o s[2] \o <<"]">>
       [] n.kind = "call"     -> Operand(1, 0) \o <<"(">> \o s[2] \o <<")">>
       [] n.kind = "field"    -> Operand(1, 0) \o <<".", "name">>
       [] n.kind = "method_call" -> Operand(1, 0) \o <<":", "name", "(">> \o s[2] \o <<")">>
       [] n.kind = "postfix"  -> Operand(1, 0) \o <<n.token>>
       [] n.kind = "prefix"   -> <<n.token>> \o Operand(1, 0)
       [] n.kind = "binop"    -> Operand(1, Looseness(n)) \o <<n.token>> \o Operand(2, Looseness(n) - 1)
       [] n.kind = "var"      -> <<"var", "name">> \o (IF s = <<>> THEN <<>> ELSE <<"=">>) \o all \o <<";">>
       [] n.kind = "assign"   -> s[1] \o <<"=">> \o s[2] \o <<";">>
       [] n.kind = "return"   -> <<"return">> \o all \o <<";">>
       [] n.kind = "jump"     -> <<n.token, ";">>
       [] n.kind = "while"    -> <<"while">> \o all
       [] n.kind = "if"       -> <<"if">> \o s[1] \o s[2] \o (IF Len(s) = 3 THEN <<"else">> \o s[3] ELSE <<>>)
       [] n.kind = "block"    -> <<"{">> \o FlattenSeq([i \in DOMAIN s |-> Ended(n.sub[i], s[i])]) \o <<"}">>
       [] n.kind = "import"   -> <<"import", "string">>
                                 \o (IF n.token = "as" THEN <<"as", "name">> ELSE <<>>) \o <<";">>
       [] n.kind = "use"      -> <<"use", "string", ";">>
       [] OTHER -> all   \* a file, an entry that is only a value

Accepted == parsed.at > 0

\* What may be written without a trace in the tree: grouping parentheses, a
\* trailing comma, empty statements.
Loose == {"(", ")", ",", ";"}

\* An accepted file is consumed to its end mark and never beyond, and its tree
\* written down again is the file, but for grouping parentheses, trailing
\* commas and empty statements: no token is lost, read twice or moved.
TreeIsSource ==
  Accepted =>
    /\ parsed.at = Len(tokens)
    /\ SelectSeq(Written(parsed.node) \o <<"EOF">>, LAMBDA t : t \notin Loose)
         = SelectSeq(tokens, LAMBDA t : t \notin Loose)

Count(t, s) == Len(SelectSeq(s, LAMBDA u : u = t))

\* What is missing makes a file unacceptable: its tree is never written with
\* more of the loose tokens than the file has, and with as many of each it is
\* written exactly as the file.
NothingMissing ==
  Accepted =>
    LET written == Written(parsed.node) \o <<"EOF">>
    IN  /\ \A t \in Loose : Count(t, written) <= Count(t, tokens)
        /\ (\A t \in Loose : Count(t, written) = Count(t, tokens)) => written = tokens

=============================================================================
