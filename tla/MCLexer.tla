------------------------------ MODULE MCLexer ------------------------------
(***************************************************************************)
(* Lexer on every short text over one character of each class, and on      *)
(* longer ones put together from known lexemes, with comments, blanks and  *)
(* a "#" line between them: which tokens have to come out is known there.  *)
(***************************************************************************)
EXTENDS Lexer, SequencesExt

MCSingles == {".", "/", "*", "=", "<"}
MCDoubles == {<<"=", "=">>, <<"<", "=">>, <<"&", "&">>}
MCKeywords == {<<"a", "a">>}

\* Every text of up to four characters over the whole alphabet.
AnyText == BoundedSeq({"a", "1", ".", "/", "*", "=", "<", "&", " ", "tab", "nl", "cr",
                       "#", "quote", "?"}, 4)

\* A lexeme with its kind.
Pieces == {
  [kind |-> "IDENT",   lexeme |-> <<"a", "1", "a">>],
  [kind |-> "KEYWORD", lexeme |-> <<"a", "a">>],
  [kind |-> "IDENT",   lexeme |-> <<"a", "a", "a">>],
  [kind |-> "NUMBER",  lexeme |-> <<"1", ".", "1">>],
  [kind |-> "STRING",  lexeme |-> <<>>],
  [kind |-> "STRING",  lexeme |-> <<"a", "nl", "/", "/", "*">>],
  [kind |-> "OP",      lexeme |-> <<"=", "=">>],
  [kind |-> "OP",      lexeme |-> <<"&", "&">>],
  [kind |-> "OP",      lexeme |-> <<"=">>],
  [kind |-> "OP",      lexeme |-> <<".">>],
  [kind |-> "OP",      lexeme |-> <<"/">>]}

\* What may stand between two lexemes: blanks, a line comment, comments with
\* a comment, a quote, a newline or a lone slash inside.
Gaps == {
  <<" ">>, <<"tab", "cr", "nl">>,
  <<" ", "/", "/", "*", "quote", "nl">>,
  <<" ", "/", "*", "/", "*", "a", "*", "/", "quote", "*", "/">>,
  <<" ", "/", "*", "/", "nl", "?", "cr", "*", "*", "/">>}

Written(p) == IF p.kind = "STRING" THEN <<"quote">> \o p.lexeme \o <<"quote">> ELSE p.lexeme

FirstLines == {<<>>, <<"#", "/", "*", "quote", "nl">>}

VARIABLE pieces   \* what the text was put together from, if it was

Composed(first, ps, gaps) == first \o FlattenSeq([i \in DOMAIN ps |-> Written(ps[i]) \o gaps[i]])

PiecesInit ==
  \E first \in FirstLines, n \in 1 .. 2 :
    \E ps \in [1 .. n -> Pieces], gaps \in [1 .. n -> Gaps] :
      /\ pieces = ps
      /\ InitWith(Composed(first, ps, gaps))

MCInit == (Init /\ pieces = <<>>) \/ PiecesInit

MCVars == <<vars, pieces>>
MCNext == Next /\ UNCHANGED pieces
MCSpec == MCInit /\ [][MCNext]_MCVars /\ WF_MCVars(MCNext)

\* lex returns the lexemes a text was put together from, with their kinds,
\* in their order, and nothing from comments, blanks or the "#" line.
PiecesRecovered ==
  pieces # <<>> /\ status # "lexing" =>
    /\ status = "done"
    /\ [i \in 1 .. Len(tokens) - 1 |->
          [kind |-> tokens[i].kind, lexeme |-> Lexeme(tokens[i])]] = pieces

=============================================================================
