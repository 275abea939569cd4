------------------------------- MODULE Lexer -------------------------------
(***************************************************************************)
(* lex() of lexer.c: one action for each branch of its loop.  A character  *)
(* is a member of a small set that has one of each class the code tells    *)
(* apart; the end of the text is the position after its last character,    *)
(* where the C string has its 0.  Scanning a word, a number, a string or a *)
(* line to its end is one step.                                            *)
(***************************************************************************)
EXTENDS Naturals, Sequences, FiniteSets

CONSTANTS Letters,    \* characters of is_alpha, and "_"
          Digits,     \* characters of is_num
          Singles,    \* characters that are tokens by themselves
          Halves,     \* characters that are tokens only in pairs, "&" and "|"
          Doubles,    \* pairs of characters that are one token
          Keywords,   \* lexemes that are not names
          Texts       \* the source texts considered

Blanks == {" ", "tab", "nl", "cr"}
Special == {"#", "quote", "?"}   \* "?" stands for what the language lacks
Characters == Letters \cup Digits \cup Singles \cup Halves \cup Blanks \cup Special
Operators == Singles \cup Halves

\* The code's operators: "." continues a number, "/" and "*" make comments.
\* No character is of two classes, and none is the 0 that ends the text.
ASSUME AlphabetAssumption ==
  LET class == <<Letters, Digits, Singles, Halves, Blanks, Special>>
  IN  /\ {".", "/", "*"} \subseteq Singles
      /\ Doubles \subseteq Operators \X Operators
      /\ \A i, j \in 1 .. 6 : i # j => class[i] \cap class[j] = {}
      /\ "" \notin Characters
      /\ Texts \subseteq Seq(Characters)

VARIABLES text,     \* lexer.data
          ptr,      \* the next character
          line,     \* lexer.line
          offset,   \* lexer.offset
          depth,    \* n, block comments that are open
          tokens,   \* lexer.tokens, each with the place of its lexeme in text
          status    \* "lexing", "done", or "error" once lexer_error exits

vars == <<text, ptr, line, offset, depth, tokens, status>>

Kinds == {"IDENT", "KEYWORD", "STRING", "NUMBER", "OP", "EOF"}

\* The character at position i, "" at the end of the text and beyond.
At(i) == IF i \in DOMAIN text THEN text[i] ELSE ""

\* The first position from i on whose character is outside S.
EndOf(i, S) == CHOOSE j \in i .. Len(text) + 1 :
                 /\ At(j) \notin S
                 /\ \A k \in i .. j - 1 : At(k) \in S

\* The first position from i on that holds c, or the end of the text.
Find(i, c) == EndOf(i, Characters \ {c})

Lexeme(t) == SubSeq(text, t.from, t.to)

InitWith(source) ==
  /\ text = source
  /\ ptr = 1 /\ line = 1 /\ offset = 1
  /\ depth = 0 /\ tokens = <<>> /\ status = "lexing"

Init == \E source \in Texts : InitWith(source)

----------------------------------------------------------------------------
\* Where the main loop is about to look at the character c.
Sees(c) == status = "lexing" /\ depth = 0 /\ At(ptr) = c

\* Where the loop inside a block comment is about to look at c.
InComment(c) == status = "lexing" /\ depth > 0 /\ At(ptr) = c

Move(p, l, o) ==
  /\ ptr' = p /\ line' = l /\ offset' = o
  /\ UNCHANGED <<text, tokens, status>>

\* A "#" that is the very first thing hides its line, but not the newline,
\* which is counted again when the loop meets it.
SkipHashLine ==
  /\ Sees("#") /\ line = 1 /\ offset = 1
  /\ Move(Find(ptr, "nl"), line + 1, 1) /\ UNCHANGED depth

SkipReturn == Sees("cr") /\ Move(ptr + 1, line, offset) /\ UNCHANGED depth

AfterTab(o) == IF o % 4 > 0 THEN o + (o % 4) ELSE o + 4

SkipTab == Sees("tab") /\ Move(ptr + 1, line, AfterTab(offset)) /\ UNCHANGED depth

SkipNewline == Sees("nl") /\ Move(ptr + 1, line + 1, 0) /\ UNCHANGED depth

SkipSpace == Sees(" ") /\ Move(ptr + 1, line, offset + 1) /\ UNCHANGED depth

\* Faulty: eats a newline even where the text ends without one.
SkipLineComment_past_end ==
  /\ Sees("/") /\ At(ptr + 1) = "/"
  /\ Move(Find(ptr + 2, "nl") + 1, line + 1, 1)
  /\ UNCHANGED depth

\* Faulty: the newline after a line comment is left to be counted again.
SkipLineComment_leaving_newline ==
  /\ Sees("/") /\ At(ptr + 1) = "/"
  /\ Move(Find(ptr + 2, "nl"), line + 1, 1)
  /\ UNCHANGED depth

\* A line comment eats its newline and starts the next line at 1, not 0.
SkipLineComment ==
  /\ Sees("/") /\ At(ptr + 1) = "/"
  /\ LET nl == Find(ptr + 2, "nl")
     IN  Move(IF At(nl) = "nl" THEN nl + 1 ELSE nl, line + 1, 1)
  /\ UNCHANGED depth

OpenComment ==
  /\ Sees("/") /\ At(ptr + 1) = "*"
  /\ Move(ptr + 2, line, offset)
  /\ depth' = 1

CommentNewline == InComment("nl") /\ Move(ptr + 1, line + 1, 1) /\ UNCHANGED depth

CommentReturn == InComment("cr") /\ Move(ptr + 1, line, offset) /\ UNCHANGED depth

CommentOpens ==
  /\ InComment("/") /\ At(ptr + 1) = "*"
  /\ Move(ptr + 2, line, offset + 2)
  /\ depth' = depth + 1

\* Faulty: the first end of a comment closes them all.
CommentCloses_at_once ==
  /\ InComment("*") /\ At(ptr + 1) = "/"
  /\ Move(ptr + 2, line, offset + 2)
  /\ depth' = 0

CommentCloses ==
  /\ InComment("*") /\ At(ptr + 1) = "/"
  /\ Move(ptr + 2, line, offset + 2)
  /\ depth' = depth - 1

CommentCharacter ==
  /\ \E c \in Characters \ {"nl", "cr"} : InComment(c)
  /\ <<At(ptr), At(ptr + 1)>> \notin {<<"/", "*">>, <<"*", "/">>}
  /\ Move(ptr + 1, line, offset + 1)
  /\ UNCHANGED depth

----------------------------------------------------------------------------
\* Faulty: a string advances by its lexeme, without its quotes.
add_token_by_lexeme(kind, from, to, next) ==
  /\ tokens' = Append(tokens, [kind |-> kind, from |-> from, to |-> to,
                               line |-> line, offset |-> offset])
  /\ ptr' = next
  /\ offset' = offset + (to + 1 - from)
  /\ UNCHANGED <<text, line, depth, status>>

\* The lexeme from .. to becomes a token; the text is consumed up to next.
add_token(kind, from, to, next) ==
  /\ tokens' = Append(tokens, [kind |-> kind, from |-> from, to |-> to,
                               line |-> line, offset |-> offset])
  /\ ptr' = next
  /\ offset' = offset + (next - ptr)
  /\ UNCHANGED <<text, line, depth, status>>

lexer_error == status' = "error" /\ UNCHANGED <<text, ptr, line, offset, depth, tokens>>

DoubleToken ==
  /\ \E pair \in Doubles : Sees(pair[1]) /\ At(ptr + 1) = pair[2]
  /\ add_token("OP", ptr, ptr + 1, ptr + 2)

\* Faulty: tried before the operators of two characters.
SingleToken_first ==
  /\ \E c \in Singles : Sees(c)
  /\ <<At(ptr), At(ptr + 1)>> \notin {<<"/", "/">>, <<"/", "*">>}
  /\ add_token("OP", ptr, ptr, ptr + 1)

SingleToken ==
  /\ \E c \in Singles : Sees(c)
  /\ <<At(ptr), At(ptr + 1)>> \notin Doubles \cup {<<"/", "/">>, <<"/", "*">>}
  /\ add_token("OP", ptr, ptr, ptr + 1)

Word ==
  /\ \E c \in Letters : Sees(c)
  /\ LET next == EndOf(ptr, Letters \cup Digits)
     IN  add_token("IDENT", ptr, next - 1, next)

\* A newline inside a string is not counted.
String ==
  /\ Sees("quote")
  /\ LET end == Find(ptr + 1, "quote")
     IN  IF At(end) = "quote"
         THEN add_token("STRING", ptr + 1, end - 1, end + 1)
         ELSE lexer_error

Number ==
  /\ \E c \in Digits : Sees(c)
  /\ LET next == EndOf(ptr, Digits \cup {"."})
         dots == {i \in ptr .. next - 1 : At(i) = "."}
     IN  IF Cardinality(dots) > 1
         THEN lexer_error
         ELSE add_token("NUMBER", ptr, next - 1, next)

\* What begins no token: "#" elsewhere than at the start, and half an operator
\* without the other half.
Unexpected ==
  /\ \/ Sees("?") \/ (Sees("#") /\ ~(line = 1 /\ offset = 1))
     \/ \E c \in Halves : Sees(c) /\ <<c, At(ptr + 1)>> \notin Doubles
  /\ lexer_error

\* Faulty: waits for an open comment to be closed.
Finish_outside_comments ==
  /\ status = "lexing" /\ ptr = Len(text) + 1 /\ depth = 0
  /\ status' = "done"
  /\ UNCHANGED <<text, ptr, line, offset, depth, tokens>>

\* The text is consumed, a comment perhaps still open: names that are
\* keywords become keywords, and the end is marked.
Finish ==
  /\ status = "lexing" /\ ptr = Len(text) + 1
  /\ LET Kind(t) == IF t.kind = "IDENT" /\ Lexeme(t) \in Keywords
                    THEN "KEYWORD" ELSE t.kind
         eof == [kind |-> "EOF", from |-> ptr, to |-> ptr - 1, line |-> 0, offset |-> 0]
     IN  tokens' = Append([i \in DOMAIN tokens |->
                             [tokens[i] EXCEPT !.kind = Kind(tokens[i])]], eof)
  /\ status' = "done"
  /\ UNCHANGED <<text, ptr, line, offset, depth>>

Next ==
  \/ SkipHashLine \/ SkipReturn \/ SkipTab \/ SkipNewline \/ SkipSpace
  \/ SkipLineComment \/ OpenComment
  \/ CommentNewline \/ CommentReturn \/ CommentOpens \/ CommentCloses
  \/ CommentCharacter
  \/ DoubleToken \/ SingleToken \/ Word \/ String \/ Number \/ Unexpected
  \/ Finish

\* lex is a loop without waiting: it goes on until it returns or exits.
Spec == Init /\ [][Next]_vars /\ WF_vars(Next)

----------------------------------------------------------------------------
\* The cursor stays within the text and its final 0, and every token is a
\* piece of the text before it.
TypeOK ==
  /\ text \in Seq(Characters)
  /\ ptr \in 1 .. Len(text) + 1
  /\ {line, offset, depth} \subseteq Nat
  /\ status \in {"lexing", "done", "error"}
  /\ \A i \in DOMAIN tokens :
       /\ tokens[i].kind \in Kinds
       /\ {tokens[i].line, tokens[i].offset} \subseteq Nat
       /\ tokens[i].from \in 1 .. ptr /\ tokens[i].to \in 0 .. ptr - 1

Newlines(i, j) == {k \in i .. j : At(k) = "nl"}

HashLine == \E i \in DOMAIN text : At(i) = "#" /\ \A j \in 1 .. i - 1 : At(j) = "cr"

\* The line of a token, which error messages and stack traces print, is one
\* more than the newlines before it, whatever comments they end or stand in.
\* Two exceptions are the code's: newlines inside strings do not count, and
\* after a "#" line every line is one too high.
LinesCounted ==
  \A i \in DOMAIN tokens :
    LET strings == {j \in 1 .. i - 1 : tokens[j].kind = "STRING"}
        uncounted == UNION {Newlines(tokens[j].from, tokens[j].to) : j \in strings}
    IN  tokens[i].kind # "EOF" =>
          tokens[i].line = 1 + Cardinality(Newlines(1, tokens[i].from - 1) \ uncounted)
                             + (IF HashLine THEN 1 ELSE 0)

\* Two tokens on one line are as far apart in their offsets as in the text,
\* unless a tab, a comment or a carriage return stands between them.
OffsetsAgree ==
  \A i, j \in DOMAIN tokens :
    LET first(t) == t.from - (IF t.kind = "STRING" THEN 1 ELSE 0)
        a == first(tokens[i])
        b == first(tokens[j])
        between == {At(k) : k \in a .. b}
        comment == \E k \in a .. b : At(k) = "/" /\ At(k + 1) \in {"/", "*"}
    IN  (i < j /\ tokens[j].kind # "EOF" /\ between \cap {"nl", "tab", "cr"} = {} /\ ~comment)
          => tokens[j].offset = tokens[i].offset + (b - a)

\* Tokens that touch could not have been one longer token: a name takes all
\* its letters, an operator of two characters comes before its parts, and
\* what opens a comment is never an operator.
MaximalMunch ==
  \A i \in 1 .. Len(tokens) - 1 :
    LET t == tokens[i]
        next == At(t.to + 1)
    IN  /\ t.kind \in {"IDENT", "KEYWORD"} => next \notin Letters \cup Digits
        /\ t.kind = "NUMBER" => next \notin Digits \cup {"."}
        /\ (t.kind = "OP" /\ t.from = t.to) =>
             <<At(t.from), next>> \notin Doubles \cup {<<"/", "/">>, <<"/", "*">>}

\* The tokens so far: each has its place in the text, its line and its offset.
Inv == TypeOK /\ LinesCounted /\ OffsetsAgree

\* Lexing returns or exits, whatever the text.
LexEnds == <>(status # "lexing")

=============================================================================
