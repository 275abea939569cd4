---------------------------- MODULE LexerProofs ----------------------------
(***************************************************************************)
(* Proofs about Lexer, for any alphabet and any texts: the line and the    *)
(* offset of every token, and that no token could have been longer.        *)
(*                                                                         *)
(* What Inv says of the tokens follows from what it would say of a token   *)
(* that began at the cursor.                                               *)
(***************************************************************************)
EXTENDS Lexer, Induction

-----------------------------------------------------------------------------
(***************************************************************************)
(* Characters and scans.                                                   *)
(***************************************************************************)
\* No character is of two classes.
LEMMA ClassesDisjoint ==
  /\ \A c \in Letters : c \notin Digits \cup Operators \cup Blanks \cup Special
  /\ \A c \in Digits : c \notin Letters \cup Operators \cup Blanks \cup Special
  /\ \A c \in Operators : c \notin Letters \cup Digits \cup Blanks \cup Special
  /\ "" \notin Letters \cup Digits \cup Operators \cup Blanks \cup Special
  /\ "." \in Singles /\ "/" \in Singles /\ "*" \in Singles
  <1> DEFINE class == <<Letters, Digits, Singles, Halves, Blanks, Special>>
  <1>1. \A i, j \in 1 .. 6 : i # j => class[i] \cap class[j] = {}
    BY AlphabetAssumption
  <1>2. /\ class[1] = Letters /\ class[2] = Digits /\ class[3] = Singles
        /\ class[4] = Halves /\ class[5] = Blanks /\ class[6] = Special
    OBVIOUS
  <1> HIDE DEF class
  <1>3. /\ Letters \cap Digits = {} /\ Letters \cap Operators = {}
        /\ Letters \cap Blanks = {} /\ Letters \cap Special = {}
    <2>1. /\ class[1] \cap class[2] = {} /\ class[1] \cap class[3] = {} /\ class[1] \cap class[4] = {}
          /\ class[1] \cap class[5] = {} /\ class[1] \cap class[6] = {}
      BY <1>1
    <2>2. QED
      BY <1>2, <2>1 DEF Operators
  <1>4. Digits \cap Operators = {} /\ Digits \cap Blanks = {} /\ Digits \cap Special = {}
    <2>1. /\ class[2] \cap class[3] = {} /\ class[2] \cap class[4] = {}
          /\ class[2] \cap class[5] = {} /\ class[2] \cap class[6] = {}
      BY <1>1
    <2>2. QED
      BY <1>2, <2>1 DEF Operators
  <1>5. Operators \cap Blanks = {} /\ Operators \cap Special = {}
    <2>1. /\ class[3] \cap class[5] = {} /\ class[3] \cap class[6] = {}
          /\ class[4] \cap class[5] = {} /\ class[4] \cap class[6] = {}
      BY <1>1
    <2>2. QED
      BY <1>2, <2>1 DEF Operators
  <1>6. "" \notin Letters \cup Digits \cup Operators \cup Blanks \cup Special
    BY AlphabetAssumption DEF Characters, Operators
  <1>7. QED
    BY <1>3, <1>4, <1>5, <1>6, AlphabetAssumption

\* The text is one, and where the cursor may be in it.
HasText == text \in Seq(Characters)
Places == 1 .. Len(text) + 1

\* A scan over S stops at the end of the text.
StopsAtEnd(S) == "" \notin S

\* A text has a length.
LEMMA TextLength ==
  ASSUME HasText
  PROVE  Len(text) \in Nat /\ DOMAIN text = 1 .. Len(text)
  BY DEF HasText

\* A position with a character is within the text.
LEMMA AtCharacter ==
  ASSUME HasText, NEW i
  PROVE  /\ At(i) # "" => i \in 1 .. Len(text)
         /\ i \in 1 .. Len(text) => At(i) \in Characters /\ At(i) # ""
         /\ At(i) \in Characters \cup {""}
  <1>1. DOMAIN text = 1 .. Len(text)
    BY TextLength
  <1>2. \A j \in 1 .. Len(text) : text[j] \in Characters
    BY DEF HasText
  <1>3. QED
    BY <1>1, <1>2, AlphabetAssumption DEF At

\* A scan ends where it says it does.
LEMMA EndOfIs ==
  ASSUME HasText, NEW i \in Places, NEW S, StopsAtEnd(S)
  PROVE  /\ EndOf(i, S) \in i .. Len(text) + 1
         /\ At(EndOf(i, S)) \notin S
         /\ \A k \in i .. EndOf(i, S) - 1 : At(k) \in S
  <1> DEFINE n == Len(text)
             D == {k \in 1 .. n : At(k) \in S}
  <1>1. n \in Nat /\ i \in 1 .. n + 1
    BY TextLength DEF Places
  <1>2. \A k \in D : k \in 1 .. n /\ At(k) \in S
    OBVIOUS
  <1>3. \A k \in Nat : k \notin D /\ k >= 1 => At(k) \notin S
    <2>1. \A k : At(k) # "" => k \in 1 .. n
      BY AtCharacter
    <2>2. QED
      BY <2>1 DEF StopsAtEnd
  <1> HIDE DEF D, n
  <1>4. n + 1 \notin D
    BY <1>1, <1>2
  <1>5. PICK m \in i .. n + 1 : m \notin D /\ \A k \in i .. m - 1 : k \in D
    BY <1>1, <1>4, FirstOutside
  <1>6. At(m) \notin S
    BY <1>1, <1>3, <1>5
  <1>7. \A k \in i .. m - 1 : At(k) \in S
    BY <1>2, <1>5
  <1>8. QED
    BY <1>5, <1>6, <1>7 DEF EndOf, n

\* The first place of c, or the end of the text.
LEMMA FindIs ==
  ASSUME HasText, NEW i \in Places, NEW c \in Characters
  PROVE  /\ Find(i, c) \in i .. Len(text) + 1
         /\ At(Find(i, c)) = c \/ Find(i, c) = Len(text) + 1
         /\ \A k \in i .. Find(i, c) - 1 : At(k) # c /\ At(k) # ""
  <1> DEFINE S == Characters \ {c}
  <1>1. StopsAtEnd(S)
    BY AlphabetAssumption DEF StopsAtEnd
  <1>2. Find(i, c) = EndOf(i, S)
    BY DEF Find
  <1> HIDE DEF S
  <1>3. /\ EndOf(i, S) \in i .. Len(text) + 1
        /\ At(EndOf(i, S)) \notin S
        /\ \A k \in i .. EndOf(i, S) - 1 : At(k) \in S
    BY <1>1, EndOfIs
  <1>4. Len(text) \in Nat
    BY TextLength
  <1>5. At(EndOf(i, S)) = c \/ At(EndOf(i, S)) = ""
    BY <1>3, AtCharacter DEF S
  <1>6. At(Find(i, c)) = c \/ Find(i, c) = Len(text) + 1
    <2>1. SUFFICES ASSUME At(EndOf(i, S)) = "" PROVE EndOf(i, S) = Len(text) + 1
      BY <1>2, <1>5
    <2>2. EndOf(i, S) \notin 1 .. Len(text)
      BY <2>1, AtCharacter
    <2> DEFINE n == Len(text)
               e == EndOf(i, S)
    <2>3. n \in Nat /\ i \in 1 .. n + 1 /\ e \in i .. n + 1 /\ e \notin 1 .. n
      BY <1>3, <1>4, <2>2 DEF Places
    <2> HIDE DEF n, e
    <2>4. e = n + 1
      BY <2>3
    <2>5. QED
      BY <2>4 DEF n, e
  <1>7. \A k : At(k) \in S => At(k) # c /\ At(k) # ""
    BY <1>1 DEF S, StopsAtEnd
  <1>8. QED
    BY <1>2, <1>3, <1>6, <1>7


-----------------------------------------------------------------------------
(***************************************************************************)
(* What the text says of a position: the line it is on and whether a file  *)
(* that is read as a script of its own can still begin there.              *)
(***************************************************************************)
\* Nothing but carriage returns comes before p.
AllReturns(p) == \A k \in 1 .. p - 1 : At(k) = "cr"

\* A "#" that was the first thing stands before p.
HashSeen(p) == \E i \in 1 .. p - 1 : At(i) = "#" /\ AllReturns(i)

\* The line of position p when the newlines of U, those in strings, are left out.
LineAt(p, U) == 1 + Cardinality(Newlines(1, p - 1) \ U) + (IF HashSeen(p) THEN 1 ELSE 0)

\* Nothing in i .. j makes the offsets stray from the distances in the text.
Plain(i, j) ==
  /\ \A k \in i .. j : At(k) \notin {"nl", "tab", "cr"}
  /\ ~ \E k \in i .. j : At(k) = "/" /\ At(k + 1) \in {"/", "*"}

\* Carriage returns up to q are carriage returns up to p, and from p to q.
LEMMA ReturnsSplit ==
  ASSUME NEW p \in Nat, NEW q \in Nat, 1 <= p, p < q
  PROVE  AllReturns(q) <=> AllReturns(p) /\ \A k \in p .. q - 1 : At(k) = "cr"
  BY DEF AllReturns

\* A cursor that moves on does not come to have a leading "#" behind it unless
\* it stood at one.
LEMMA HashSeenKept ==
  ASSUME NEW p \in Nat, NEW q \in Nat, 1 <= p, p < q,
         At(p) = "cr" => q = p + 1,
         At(p) = "#" => ~ AllReturns(p)
  PROVE  HashSeen(q) <=> HashSeen(p)
  <1>1. HashSeen(p) => HashSeen(q)
    BY DEF HashSeen
  <1>2. ASSUME NEW i \in 1 .. q - 1, At(i) = "#", AllReturns(i), i >= p PROVE FALSE
    <2>1. CASE i = p
      BY <1>2, <2>1
    <2>2. CASE i > p
      <3>1. At(p) = "cr"
        BY <1>2, <2>2 DEF AllReturns
      <3>2. QED
        BY <1>2, <2>2, <3>1
    <2>3. QED
      BY <1>2, <2>1, <2>2
  <1>3. HashSeen(q) => HashSeen(p)
    BY <1>2 DEF HashSeen
  <1>4. QED
    BY <1>1, <1>3

\* A "#" that is the first thing is seen once the cursor is past it.
LEMMA HashSeenNow ==
  ASSUME NEW p \in Nat, NEW q \in Nat, 1 <= p, p < q, At(p) = "#", AllReturns(p)
  PROVE  HashSeen(q) /\ ~ HashSeen(p)
  <1>1. HashSeen(q)
    BY DEF HashSeen
  <1>2. ~ HashSeen(p)
    BY DEF HashSeen, AllReturns
  <1>3. QED
    BY <1>1, <1>2

\* The newlines of a stretch of the text are finitely many.
LEMMA NewlinesFinite ==
  ASSUME NEW i \in Nat, NEW j \in Int, NEW U
  PROVE  IsFiniteSet(Newlines(i, j) \ U) /\ Cardinality(Newlines(i, j) \ U) \in Nat
  <1>1. IsFiniteSet(i .. j)
    BY FS_Interval
  <1>2. (Newlines(i, j) \ U) \subseteq i .. j
    BY DEF Newlines
  <1>3. QED
    BY <1>1, <1>2, FS_Subset, FS_CardinalityType

\* A stretch without newlines, or only with some of U, does not change the line.
LEMMA LineKept ==
  ASSUME NEW p \in Nat, NEW q \in Nat, 1 <= p, p < q, NEW U, NEW V,
         \A k \in 1 .. p - 1 : k \in U <=> k \in V,
         \A k \in p .. q - 1 : At(k) = "nl" => k \in V,
         HashSeen(q) <=> HashSeen(p)
  PROVE  LineAt(q, V) = LineAt(p, U)
  <1>1. Newlines(1, q - 1) \ V = Newlines(1, p - 1) \ U
    BY DEF Newlines
  <1>2. QED
    BY <1>1 DEF LineAt

\* A newline is one more line.
LEMMA LineAfterNewline ==
  ASSUME NEW p \in Nat, NEW q \in Nat, 1 <= p, p < q, NEW U,
         At(q - 1) = "nl", q - 1 \notin U,
         \A k \in p .. q - 2 : At(k) # "nl",
         HashSeen(q) <=> HashSeen(p)
  PROVE  LineAt(q, U) = LineAt(p, U) + 1
  <1> DEFINE S == Newlines(1, p - 1) \ U
             T == Newlines(1, q - 1) \ U
  <1>1. T = S \cup {q - 1} /\ q - 1 \notin S
    BY DEF Newlines
  <1>2. IsFiniteSet(S) /\ Cardinality(S) \in Nat
    <2>1. 1 \in Nat /\ p - 1 \in Int
      OBVIOUS
    <2>2. QED
      BY <2>1, NewlinesFinite, Zenon
  <1>3. Cardinality(T) = Cardinality(S) + 1
    <2> HIDE DEF S, T
    <2>1. QED
      BY <1>1, <1>2, FS_AddElement
  <1>4. QED
    BY <1>2, <1>3 DEF LineAt

\* A leading "#" hides its line and counts as one.
LEMMA LineAfterHash ==
  ASSUME NEW p \in Nat, NEW q \in Nat, 1 <= p, p < q, NEW U,
         At(p) = "#", AllReturns(p), \A k \in p .. q - 1 : At(k) # "nl"
  PROVE  LineAt(q, U) = LineAt(p, U) + 1
  <1>1. HashSeen(q) /\ ~ HashSeen(p)
    BY HashSeenNow
  <1>2. Newlines(1, q - 1) \ U = Newlines(1, p - 1) \ U
    BY DEF Newlines
  <1>3. Cardinality(Newlines(1, p - 1) \ U) \in Nat
    <2>1. 1 \in Nat /\ p - 1 \in Int
      OBVIOUS
    <2>2. QED
      BY <2>1, NewlinesFinite, Zenon
  <1>4. /\ LineAt(q, U) = 1 + Cardinality(Newlines(1, q - 1) \ U) + 1
        /\ LineAt(p, U) = 1 + Cardinality(Newlines(1, p - 1) \ U) + 0
    BY <1>1 DEF LineAt
  <1> DEFINE c == Cardinality(Newlines(1, p - 1) \ U)
  <1>5. c \in Nat /\ LineAt(q, U) = 1 + c + 1 /\ LineAt(p, U) = 1 + c + 0
    BY <1>2, <1>3, <1>4
  <1> HIDE DEF c
  <1>6. QED
    BY <1>5

-----------------------------------------------------------------------------
(***************************************************************************)
(* What Inv and MaximalMunch say, for any sequence of tokens of the text.  *)
(***************************************************************************)
Token == [kind : Kinds, from : Nat, to : Nat, line : Nat, offset : Nat]

\* Where the text of a token begins, its quote included.
First(t) == t.from - (IF t.kind = "STRING" THEN 1 ELSE 0)

\* The newlines in the strings before the token i.
StringsBefore(ts, i) ==
  UNION {Newlines(ts[j].from, ts[j].to) : j \in {k \in 1 .. i - 1 : ts[k].kind = "STRING"}}

InStrings(ts) == StringsBefore(ts, Len(ts) + 1)

LineExact(t, U) ==
  t.kind # "EOF" => t.line = 1 + Cardinality(Newlines(1, t.from - 1) \ U)
                               + (IF HashLine THEN 1 ELSE 0)

OffsetExact(t, u) ==
  u.kind # "EOF" /\ Plain(First(t), First(u)) => u.offset = t.offset + (First(u) - First(t))

Munched(t) ==
  /\ t.kind \in {"IDENT", "KEYWORD"} => At(t.to + 1) \notin Letters \cup Digits
  /\ t.kind = "NUMBER" => At(t.to + 1) \notin Digits \cup {"."}
  /\ t.kind = "OP" /\ t.from = t.to =>
       <<At(t.from), At(t.to + 1)>> \notin Doubles \cup {<<"/", "/">>, <<"/", "*">>}

TokensRight(ts) ==
  \A i \in DOMAIN ts :
    /\ LineExact(ts[i], StringsBefore(ts, i))
    /\ Munched(ts[i])
    /\ \A j \in DOMAIN ts : i < j => OffsetExact(ts[i], ts[j])

\* The tokens have the fields they should and stand before p.
Placed(ts, p) ==
  /\ ts \in Seq(Token)
  /\ \A i \in DOMAIN ts : ts[i].from \in 1 .. p /\ ts[i].to \in 0 .. p - 1

\* us is ts with one more token.
OneMore(ts, t, us) ==
  /\ Len(ts) \in Nat /\ Len(us) = Len(ts) + 1
  /\ DOMAIN ts = 1 .. Len(ts) /\ DOMAIN us = 1 .. Len(ts) + 1
  /\ \A i \in 1 .. Len(ts) : us[i] = ts[i]
  /\ us[Len(ts) + 1] = t

\* Append adds one token.
LEMMA AppendIsOneMore ==
  ASSUME NEW ts \in Seq(Token), NEW t \in Token
  PROVE  Append(ts, t) \in Seq(Token) /\ OneMore(ts, t, Append(ts, t))
  BY DEF OneMore

\* The strings before a token are those of the tokens before it.
LEMMA StringsOneMore ==
  ASSUME NEW ts, NEW t, NEW us, OneMore(ts, t, us)
  PROVE  /\ \A i \in 1 .. Len(ts) + 1 : StringsBefore(us, i) = StringsBefore(ts, i)
         /\ InStrings(us) = InStrings(ts) \cup (IF t.kind = "STRING"
                                                THEN Newlines(t.from, t.to) ELSE {})
  <1> DEFINE n == Len(ts)
  <1>1. /\ n \in Nat /\ Len(us) = n + 1
        /\ \A i \in 1 .. n : us[i] = ts[i]
        /\ us[n + 1] = t
    BY DEF OneMore
  <1> HIDE DEF n
  <1>2. \A i \in 1 .. n + 1 : StringsBefore(us, i) = StringsBefore(ts, i)
    <2>1. SUFFICES ASSUME NEW i \in 1 .. n + 1
                   PROVE  StringsBefore(us, i) = StringsBefore(ts, i)
      OBVIOUS
    <2>2. {k \in 1 .. i - 1 : us[k].kind = "STRING"} = {k \in 1 .. i - 1 : ts[k].kind = "STRING"}
      BY <1>1
    <2>3. \A k \in 1 .. i - 1 : us[k] = ts[k]
      BY <1>1
    <2>4. QED
      BY <2>2, <2>3 DEF StringsBefore
  <1>3. InStrings(us) = StringsBefore(us, n + 2)
    BY <1>1 DEF InStrings
  <1>4. InStrings(ts) = StringsBefore(us, n + 1)
    BY <1>1, <1>2 DEF InStrings, n
  <1>5. {k \in 1 .. n + 2 - 1 : us[k].kind = "STRING"} =
          {k \in 1 .. n + 1 - 1 : us[k].kind = "STRING"}
            \cup (IF t.kind = "STRING" THEN {n + 1} ELSE {})
    BY <1>1
  <1>6. StringsBefore(us, n + 2) = StringsBefore(us, n + 1)
          \cup (IF t.kind = "STRING" THEN Newlines(t.from, t.to) ELSE {})
    BY <1>1, <1>5 DEF StringsBefore
  <1>7. QED
    BY <1>2, <1>3, <1>4, <1>6 DEF n

\* Tokens that are right stay so when one more is added that is.
LEMMA RightOneMore ==
  ASSUME NEW ts, NEW t, NEW us, OneMore(ts, t, us), TokensRight(ts),
         LineExact(t, InStrings(ts)), Munched(t),
         \A i \in DOMAIN ts : OffsetExact(ts[i], t)
  PROVE  TokensRight(us)
  <1> DEFINE n == Len(ts)
  <1>1. /\ n \in Nat /\ DOMAIN ts = 1 .. n /\ DOMAIN us = 1 .. n + 1
        /\ \A i \in 1 .. n : us[i] = ts[i]
        /\ us[n + 1] = t
    BY DEF OneMore
  <1>2. /\ \A i \in 1 .. n + 1 : StringsBefore(us, i) = StringsBefore(ts, i)
        /\ InStrings(ts) = StringsBefore(ts, n + 1)
    BY StringsOneMore DEF InStrings
  <1> HIDE DEF n
  <1>3. ASSUME NEW i \in 1 .. n
        PROVE  /\ LineExact(us[i], StringsBefore(us, i)) /\ Munched(us[i])
               /\ \A j \in 1 .. n + 1 : i < j => OffsetExact(us[i], us[j])
    <2>1. us[i] = ts[i] /\ StringsBefore(us, i) = StringsBefore(ts, i)
      BY <1>1, <1>2, <1>3
    <2>2. LineExact(us[i], StringsBefore(us, i)) /\ Munched(us[i])
      BY <1>1, <2>1 DEF TokensRight
    <2>3. ASSUME NEW j \in 1 .. n + 1, i < j PROVE OffsetExact(us[i], us[j])
      <3>1. CASE j = n + 1
        BY <1>1, <2>1, <3>1
      <3>2. CASE j \in 1 .. n
        BY <1>1, <2>1, <2>3, <3>2 DEF TokensRight
      <3>3. QED
        BY <1>1, <3>1, <3>2
    <2>4. QED
      BY <2>2, <2>3
  <1>4. LineExact(us[n + 1], StringsBefore(us, n + 1)) /\ Munched(us[n + 1])
    <2>1. n + 1 \in 1 .. n + 1
      BY <1>1
    <2>2. QED
      BY <1>1, <1>2, <2>1
  <1>5. QED
    BY <1>1, <1>3, <1>4 DEF TokensRight

-----------------------------------------------------------------------------
(***************************************************************************)
(* What holds of the cursor while the text is lexed: p is ptr, l line,     *)
(* o offset, d depth and ts the tokens.                                    *)
(***************************************************************************)
\* Every token begins before the cursor, and none is of a kind Finish makes.
Started(p, ts) ==
  \A i \in DOMAIN ts : ts[i].kind \notin {"EOF", "KEYWORD"} /\ First(ts[i]) \in 1 .. p - 1

\* The line is right, but for one that a comment ends with the text.
LineRight(p, l, ts) == p <= Len(text) => l = LineAt(p, InStrings(ts))

\* The code takes line 1, offset 1 for the beginning of the file; only carriage
\* returns can stand before a place it takes for it.
BeginRight(p, l, o, d, ts) ==
  /\ AllReturns(p) <=> l = 1 /\ o = 1 /\ d = 0
  /\ AllReturns(p) => DOMAIN ts = {}
  /\ l = 1 => o >= 1

\* A comment that is open was opened after every token.
CommentRight(p, d, ts) ==
  d > 0 => \E k \in 1 .. p - 1 : /\ At(k) = "/" /\ At(k + 1) = "*"
                                 /\ \A i \in DOMAIN ts : First(ts[i]) <= k

\* A token that began here would have an offset that agrees with the others.
OffsetRight(p, o, ts) ==
  \A i \in DOMAIN ts :
    Plain(First(ts[i]), p - 1) => o = ts[i].offset + (p - First(ts[i]))

Cursor(p, l, o, d, ts) ==
  /\ HasText
  /\ p \in Nat /\ 1 <= p /\ p <= Len(text) + 1
  /\ l \in Nat /\ 1 <= l /\ o \in Nat /\ d \in Nat
  /\ Placed(ts, p) /\ Started(p, ts)
  /\ LineRight(p, l, ts)
  /\ BeginRight(p, l, o, d, ts)
  /\ CommentRight(p, d, ts)
  /\ OffsetRight(p, o, ts)

\* The fields of a token are what they should be.
LEMMA TokenFields ==
  ASSUME NEW ts, NEW p, Placed(ts, p), NEW i \in DOMAIN ts
  PROVE  /\ ts[i] \in Token
         /\ ts[i].offset \in Nat /\ ts[i].line \in Nat /\ ts[i].kind \in Kinds
         /\ First(ts[i]) \in Int
  <1>1. ts[i] \in Token
    BY DEF Placed
  <1>2. /\ ts[i].offset \in Nat /\ ts[i].line \in Nat /\ ts[i].kind \in Kinds
        /\ ts[i].from \in Nat
    BY <1>1 DEF Token
  <1>3. First(ts[i]) \in Int
    BY <1>2 DEF First
  <1>4. QED
    BY <1>1, <1>2, <1>3

\* The newlines in strings are behind the cursor.
LEMMA StringsBehind ==
  ASSUME NEW ts, NEW p \in Nat, Placed(ts, p)
  PROVE  \A k \in InStrings(ts) : k \in 1 .. p - 1 /\ At(k) = "nl"
  <1>1. \A i \in DOMAIN ts : ts[i].from \in 1 .. p /\ ts[i].to \in 0 .. p - 1
    BY DEF Placed
  <1>2. DOMAIN ts = 1 .. Len(ts) /\ Len(ts) \in Nat
    BY DEF Placed
  <1>3. \A k \in InStrings(ts) : \E i \in 1 .. Len(ts) : k \in Newlines(ts[i].from, ts[i].to)
    <2>1. 1 .. Len(ts) + 1 - 1 = 1 .. Len(ts)
      BY <1>2
    <2>2. QED
      BY <2>1 DEF InStrings, StringsBefore
  <1>4. \A i \in 1 .. Len(ts) : \A k \in Newlines(ts[i].from, ts[i].to) :
           k \in 1 .. p - 1 /\ At(k) = "nl"
    BY <1>1, <1>2 DEF Newlines
  <1>5. QED
    BY <1>3, <1>4

\* A cursor that moves on without a new token keeps what holds of the tokens.
LEMMA MovedOn ==
  ASSUME NEW p, NEW l, NEW o, NEW d, NEW ts, Cursor(p, l, o, d, ts),
         NEW q \in Nat, p < q, q <= Len(text) + 1,
         NEW m \in Nat, NEW u \in Nat, NEW e \in Nat, 1 <= m,
         LineRight(q, m, ts), BeginRight(q, m, u, e, ts), CommentRight(q, e, ts),
         OffsetRight(q, u, ts)
  PROVE  Cursor(q, m, u, e, ts)
  <1>1. p \in Nat /\ 1 <= p /\ Placed(ts, p) /\ Started(p, ts)
    BY DEF Cursor
  <1>2. Placed(ts, q)
    BY <1>1 DEF Placed
  <1>3. Started(q, ts)
    BY <1>1 DEF Started
  <1>4. QED
    BY <1>1, <1>2, <1>3 DEF Cursor

\* After anything but carriage returns the cursor is not taken to be at the
\* beginning of the file.
LEMMA BegunMeanwhile ==
  ASSUME NEW p \in Nat, NEW q \in Nat, 1 <= p, p < q, NEW ts,
         NEW m \in Nat, NEW u \in Nat, NEW e \in Nat,
         \E k \in p .. q - 1 : At(k) # "cr",
         m = 1 => u >= 2 \/ (u >= 1 /\ e > 0)
  PROVE  BeginRight(q, m, u, e, ts)
  <1>1. ~ AllReturns(q)
    BY ReturnsSplit
  <1>2. QED
    BY <1>1 DEF BeginRight

\* A comment that is open stays after every token.
LEMMA CommentKept ==
  ASSUME NEW p \in Nat, NEW q \in Nat, p < q, NEW ts, NEW d, NEW e,
         CommentRight(p, d, ts), d > 0
  PROVE  CommentRight(q, e, ts)
  BY DEF CommentRight

\* In an open comment there are no offsets to agree.
LEMMA OffsetInComment ==
  ASSUME NEW p \in Nat, NEW q \in Nat, 1 <= p, p < q, NEW ts, NEW d, NEW u, d > 0,
         CommentRight(p, d, ts), Started(p, ts)
  PROVE  OffsetRight(q, u, ts)
  <1>1. PICK k \in 1 .. p - 1 : /\ At(k) = "/" /\ At(k + 1) = "*"
                                /\ \A i \in DOMAIN ts : First(ts[i]) <= k
    BY DEF CommentRight
  <1>2. ASSUME NEW i \in DOMAIN ts PROVE ~ Plain(First(ts[i]), q - 1)
    <2>1. k \in First(ts[i]) .. q - 1
      BY <1>1 DEF Started
    <2>2. QED
      BY <1>1, <2>1 DEF Plain
  <1>3. QED
    BY <1>2 DEF OffsetRight

\* Offsets agree after a move by as many characters as the offset grows, and
\* after one over something they need not agree across.
LEMMA OffsetKept ==
  ASSUME NEW p \in Nat, NEW q \in Nat, 1 <= p, p < q, NEW ts, NEW o \in Nat, NEW u \in Nat,
         Placed(ts, p), Started(p, ts), OffsetRight(p, o, ts),
         Plain(p, q - 1) => u = o + (q - p)
  PROVE  OffsetRight(q, u, ts)
  <1>1. SUFFICES ASSUME NEW i \in DOMAIN ts, Plain(First(ts[i]), q - 1)
                 PROVE  u = ts[i].offset + (q - First(ts[i]))
    BY DEF OffsetRight
  <1> DEFINE a == First(ts[i])
             b == ts[i].offset
  <1>2. a \in 1 .. p - 1 /\ b \in Nat
    BY TokenFields DEF Started
  <1>3. Plain(a, p - 1) /\ Plain(p, q - 1)
    <2>1. Plain(a, q - 1)
      BY <1>1
    <2> HIDE DEF a
    <2>2. \A k : (k \in a .. p - 1 \/ k \in p .. q - 1) => k \in a .. q - 1
      BY <1>2
    <2>3. QED
      BY <2>1, <2>2 DEF Plain
  <1>4. o = b + (p - a) /\ u = o + (q - p)
    BY <1>3 DEF OffsetRight
  <1> HIDE DEF a, b
  <1>5. u = b + (q - a)
    BY <1>2, <1>4
  <1>6. QED
    BY <1>5 DEF a, b

-----------------------------------------------------------------------------
(***************************************************************************)
(* The moves of the cursor from p to q.                                    *)
(***************************************************************************)
\* The move passes no newline and counts none.
SameLine(p, q, l, m) == m = l /\ \A k \in p .. q - 1 : At(k) # "nl"

\* The move passes one newline, its last character, and counts it.
NextLine(p, q, l, m) ==
  m = l + 1 /\ At(q - 1) = "nl" /\ \A k \in p .. q - 2 : At(k) # "nl"

\* The line stays right.
LEMMA LineMoves ==
  ASSUME NEW p, NEW l, NEW o, NEW d, NEW ts, Cursor(p, l, o, d, ts),
         NEW q \in Nat, p < q, NEW m,
         At(p) = "cr" => q = p + 1,
         At(p) = "#" => ~ AllReturns(p),
         q <= Len(text) => SameLine(p, q, l, m) \/ NextLine(p, q, l, m)
  PROVE  LineRight(q, m, ts)
  <1> DEFINE U == InStrings(ts)
             n == Len(text)
  <1>1. SUFFICES ASSUME q <= n PROVE m = LineAt(q, U)
    BY DEF LineRight
  <1>2. /\ p \in Nat /\ 1 <= p /\ Placed(ts, p)
        /\ p <= n => l = LineAt(p, U)
    BY DEF Cursor, LineRight
  <1>2a. \A k \in U : k \in 1 .. p - 1
    BY <1>2, StringsBehind
  <1>2b. SameLine(p, q, l, m) \/ NextLine(p, q, l, m)
    BY <1>1
  <1>3. n \in Nat
    BY TextLength DEF Cursor
  <1> HIDE DEF U, n
  <1>4. l = LineAt(p, U)
    <2>1. p <= n
      BY <1>1, <1>2, <1>3
    <2>2. QED
      BY <1>2, <2>1
  <1>5. HashSeen(q) <=> HashSeen(p)
    BY <1>2, HashSeenKept
  <1>6. CASE SameLine(p, q, l, m)
    <2>1. \A k \in p .. q - 1 : At(k) = "nl" => k \in U
      BY <1>6 DEF SameLine
    <2>2. LineAt(q, U) = LineAt(p, U)
      BY <1>2, <1>5, <2>1, LineKept
    <2>3. QED
      BY <1>4, <1>6, <2>2 DEF SameLine
  <1>7. CASE NextLine(p, q, l, m)
    <2>1. q - 1 \notin U
      BY <1>2, <1>2a
    <2>2. LineAt(q, U) = LineAt(p, U) + 1
      BY <1>2, <1>5, <1>7, <2>1, LineAfterNewline DEF NextLine
    <2>3. QED
      BY <1>4, <1>7, <2>2 DEF NextLine
  <1>8. QED
    BY <1>2b, <1>6, <1>7

\* What a move does to the offset: it keeps in step with the text, passes
\* something across which it need not, or happens in a comment.
Kept(p, q, o, u, d, e) ==
  \/ d > 0
  \/ /\ e = 0 \/ (At(p) = "/" /\ At(p + 1) = "*")
     /\ Plain(p, q - 1) => u = o + (q - p)

\* A move over anything but carriage returns keeps what holds of the cursor.
LEMMA CursorMoves ==
  ASSUME NEW p, NEW l, NEW o, NEW d, NEW ts, Cursor(p, l, o, d, ts),
         NEW q \in Nat, p < q, q <= Len(text) + 1,
         NEW m \in Nat, NEW u \in Nat, NEW e \in Nat, 1 <= m,
         At(p) # "cr", At(p) = "#" => ~ AllReturns(p),
         q <= Len(text) => SameLine(p, q, l, m) \/ NextLine(p, q, l, m),
         m = 1 => u >= 2 \/ (u >= 1 /\ e > 0),
         Kept(p, q, o, u, d, e)
  PROVE  Cursor(q, m, u, e, ts)
  <1>1. /\ p \in Nat /\ 1 <= p /\ o \in Nat /\ d \in Nat
        /\ Placed(ts, p) /\ Started(p, ts) /\ CommentRight(p, d, ts) /\ OffsetRight(p, o, ts)
    BY DEF Cursor
  <1>2. LineRight(q, m, ts)
    BY LineMoves
  <1>3. BeginRight(q, m, u, e, ts)
    <2>1. p \in p .. q - 1
      BY <1>1
    <2>2. QED
      BY <1>1, <2>1, BegunMeanwhile
  <1>4. CommentRight(q, e, ts) /\ OffsetRight(q, u, ts)
    <2>1. CASE d > 0
      BY <1>1, <2>1, CommentKept, OffsetInComment
    <2>2. CASE ~ (d > 0)
      <3>1. /\ e = 0 \/ (At(p) = "/" /\ At(p + 1) = "*")
            /\ Plain(p, q - 1) => u = o + (q - p)
        BY <2>2 DEF Kept
      <3>2. OffsetRight(q, u, ts)
        BY <1>1, <3>1, OffsetKept
      <3>3. CommentRight(q, e, ts)
        <4>1. CASE e = 0
          BY <4>1 DEF CommentRight
        <4>2. CASE At(p) = "/" /\ At(p + 1) = "*"
          <5>1. p \in 1 .. q - 1 /\ \A i \in DOMAIN ts : First(ts[i]) <= p
            BY <1>1 DEF Started
          <5>2. QED
            BY <4>2, <5>1 DEF CommentRight
        <4>3. QED
          BY <3>1, <4>1, <4>2
      <3>4. QED
        BY <3>2, <3>3
    <2>3. QED
      BY <2>1, <2>2
  <1>5. QED
    BY <1>2, <1>3, <1>4, MovedOn

\* A carriage return moves nothing but the cursor.
LEMMA CursorMovesOverReturn ==
  ASSUME NEW p, NEW l, NEW o, NEW d, NEW ts, Cursor(p, l, o, d, ts),
         p <= Len(text), At(p) = "cr"
  PROVE  Cursor(p + 1, l, o, d, ts)
  <1> DEFINE q == p + 1
  <1>1. /\ p \in Nat /\ 1 <= p /\ o \in Nat /\ d \in Nat /\ l \in Nat /\ 1 <= l
        /\ Placed(ts, p) /\ Started(p, ts) /\ CommentRight(p, d, ts) /\ OffsetRight(p, o, ts)
        /\ BeginRight(p, l, o, d, ts)
    BY DEF Cursor
  <1>2. q \in Nat /\ p < q /\ q = p + 1 /\ q <= Len(text) + 1 /\ \A k \in p .. q - 1 : k = p
    <2>1. Len(text) \in Nat
      BY TextLength DEF Cursor
    <2> DEFINE n == Len(text)
    <2>2. n \in Nat /\ p <= n
      BY <2>1
    <2> HIDE DEF n
    <2>3. q <= n + 1
      BY <1>1, <2>2
    <2>4. q \in Nat /\ p < q /\ q = p + 1 /\ \A k \in p .. q - 1 : k = p
      BY <1>1
    <2>5. QED
      BY <2>3, <2>4 DEF n
  <1> HIDE DEF q
  <1>3. LineRight(q, l, ts)
    <2>1. SameLine(p, q, l, l)
      BY <1>2 DEF SameLine
    <2>2. QED
      BY <1>2, <2>1, LineMoves
  <1>4. BeginRight(q, l, o, d, ts)
    <2>1. AllReturns(q) <=> AllReturns(p)
      BY <1>1, <1>2, ReturnsSplit
    <2>2. QED
      BY <1>1, <2>1 DEF BeginRight
  <1>5. CommentRight(q, d, ts)
    BY <1>1, <1>2, CommentKept DEF CommentRight
  <1>6. OffsetRight(q, o, ts)
    <2>1. ~ Plain(p, q - 1)
      BY <1>1, <1>2 DEF Plain
    <2>2. QED
      BY <1>1, <1>2, <2>1, OffsetKept
  <1>7. QED
    BY <1>1, <1>2, <1>3, <1>4, <1>5, <1>6, MovedOn DEF q

-----------------------------------------------------------------------------
(***************************************************************************)
(* A new token, with its first character at the cursor p and the cursor    *)
(* behind it at q.                                                         *)
(***************************************************************************)
NewToken(kind, from, to, l, o) ==
  [kind |-> kind, from |-> from, to |-> to, line |-> l, offset |-> o]

\* What add_token is told of the token.
Lexed(kind, from, to, p, q) ==
  /\ kind \in {"IDENT", "STRING", "NUMBER", "OP"}
  /\ from \in Nat /\ to \in Nat /\ q \in Nat
  /\ p < q /\ q <= Len(text) + 1 /\ to <= q - 1
  /\ from = p + (IF kind = "STRING" THEN 1 ELSE 0)
  /\ At(p) \notin {"cr", "#", "nl"}
  /\ \A k \in p .. q - 1 : At(k) = "nl" => kind = "STRING" /\ k \in from .. to

\* Where a token begins, a leading "#" is behind the cursor or nowhere.
LEMMA HashLineSeen ==
  ASSUME HasText, NEW p \in Nat, 1 <= p, p <= Len(text), At(p) \notin {"cr", "#"}
  PROVE  HashLine <=> HashSeen(p)
  <1> DEFINE n == Len(text)
  <1>1. n \in Nat /\ DOMAIN text = 1 .. n /\ p <= n
    BY TextLength
  <1> HIDE DEF n
  <1>2. ASSUME NEW i \in 1 .. n, At(i) = "#", AllReturns(i) PROVE i \in 1 .. p - 1
    BY <1>1, <1>2 DEF AllReturns
  <1>3. HashLine <=> \E i \in 1 .. n : At(i) = "#" /\ AllReturns(i)
    BY <1>1 DEF HashLine, AllReturns
  <1>4. \A i \in 1 .. p - 1 : i \in 1 .. n
    BY <1>1
  <1>5. QED
    BY <1>2, <1>3, <1>4 DEF HashSeen

\* The new token has a place in the text, and its line is right.
LEMMA NewTokenRight ==
  ASSUME NEW p, NEW l, NEW o, NEW ts, Cursor(p, l, o, 0, ts),
         NEW kind, NEW from, NEW to, NEW q, Lexed(kind, from, to, p, q)
  PROVE  LET t == NewToken(kind, from, to, l, o)
         IN  /\ t \in Token /\ First(t) = p /\ t.kind = kind /\ t.from = from /\ t.to = to
             /\ t.offset = o
             /\ LineExact(t, InStrings(ts))
             /\ \A i \in DOMAIN ts : OffsetExact(ts[i], t)
  <1> DEFINE t == NewToken(kind, from, to, l, o)
             U == InStrings(ts)
             n == Len(text)
  <1>1. /\ p \in Nat /\ 1 <= p /\ l \in Nat /\ o \in Nat
        /\ Placed(ts, p) /\ Started(p, ts) /\ LineRight(p, l, ts) /\ OffsetRight(p, o, ts)
        /\ HasText
    BY DEF Cursor
  <1>2. /\ from \in Nat /\ to \in Nat /\ q \in Nat /\ p < q
        /\ from = p + (IF kind = "STRING" THEN 1 ELSE 0)
        /\ kind \in {"IDENT", "STRING", "NUMBER", "OP"}
        /\ At(p) \notin {"cr", "#", "nl"}
    BY DEF Lexed
  <1>3. /\ t.kind = kind /\ t.from = from /\ t.to = to /\ t.line = l /\ t.offset = o
        /\ t \in Token
    BY <1>1, <1>2 DEF NewToken, Token, Kinds
  <1> HIDE DEF t
  <1>4. First(t) = p
    BY <1>1, <1>2, <1>3 DEF First
  <1>5. p <= n
    <2>1. n \in Nat /\ q <= n + 1
      BY <1>1, TextLength DEF Lexed
    <2> HIDE DEF n
    <2>2. QED
      BY <1>1, <1>2, <2>1
  <1>6. LineExact(t, U)
    <2>1. l = LineAt(p, U)
      BY <1>1, <1>5 DEF LineRight
    <2>2. HashLine <=> HashSeen(p)
      BY <1>1, <1>2, <1>5, HashLineSeen
    <2> HIDE DEF U
    <2>3. Newlines(1, from - 1) \ U = Newlines(1, p - 1) \ U
      BY <1>1, <1>2 DEF Newlines
    <2>4. QED
      BY <1>3, <2>1, <2>2, <2>3 DEF LineExact, LineAt
  <1>7. ASSUME NEW i \in DOMAIN ts PROVE OffsetExact(ts[i], t)
    <2>1. SUFFICES ASSUME Plain(First(ts[i]), p) PROVE o = ts[i].offset + (p - First(ts[i]))
      BY <1>3, <1>4 DEF OffsetExact
    <2>2. \A k : k \in First(ts[i]) .. p - 1 => k \in First(ts[i]) .. p
      BY <1>1 DEF Started
    <2>3. Plain(First(ts[i]), p - 1)
      BY <2>1, <2>2 DEF Plain
    <2>4. QED
      BY <1>1, <2>3 DEF OffsetRight
  <1>8. QED
    BY <1>3, <1>4, <1>6, <1>7 DEF t

\* A new token keeps what holds of the cursor and of the tokens.
LEMMA TokenAdded ==
  ASSUME NEW p, NEW l, NEW o, NEW ts, Cursor(p, l, o, 0, ts), TokensRight(ts),
         NEW kind, NEW from, NEW to, NEW q, Lexed(kind, from, to, p, q),
         Munched(NewToken(kind, from, to, l, o))
  PROVE  LET us == Append(ts, NewToken(kind, from, to, l, o))
         IN  Cursor(q, l, o + (q - p), 0, us) /\ TokensRight(us)
  <1> DEFINE t == NewToken(kind, from, to, l, o)
             us == Append(ts, t)
             n == Len(ts)
             u == o + (q - p)
  <1>1. /\ HasText /\ p \in Nat /\ 1 <= p /\ l \in Nat /\ 1 <= l /\ o \in Nat
        /\ Placed(ts, p) /\ Started(p, ts) /\ LineRight(p, l, ts) /\ OffsetRight(p, o, ts)
        /\ BeginRight(p, l, o, 0, ts)
    BY DEF Cursor
  <1>2. /\ from \in Nat /\ to \in Nat /\ q \in Nat /\ p < q /\ to <= q - 1
        /\ from = p + (IF kind = "STRING" THEN 1 ELSE 0)
        /\ kind \in {"IDENT", "STRING", "NUMBER", "OP"}
        /\ At(p) \notin {"cr", "#", "nl"}
        /\ q <= Len(text) + 1
        /\ \A k \in p .. q - 1 : At(k) = "nl" => kind = "STRING" /\ k \in from .. to
    BY DEF Lexed
  <1>3. /\ t \in Token /\ First(t) = p /\ t.kind = kind /\ t.from = from /\ t.to = to
        /\ t.offset = o /\ LineExact(t, InStrings(ts))
        /\ \A i \in DOMAIN ts : OffsetExact(ts[i], t)
    BY NewTokenRight
  <1>4. us \in Seq(Token) /\ OneMore(ts, t, us)
    BY <1>1, <1>3, AppendIsOneMore DEF Placed
  <1>5. Munched(t)
    OBVIOUS
  <1> HIDE DEF t, us
  <1>6. TokensRight(us)
    BY <1>3, <1>4, <1>5, RightOneMore
  <1>7. \A i \in DOMAIN us : (i \in DOMAIN ts /\ us[i] = ts[i]) \/ us[i] = t
    <2>1. /\ n \in Nat /\ DOMAIN ts = 1 .. n /\ DOMAIN us = 1 .. n + 1
          /\ \A i \in 1 .. n : us[i] = ts[i]
          /\ us[n + 1] = t
      BY <1>4 DEF OneMore
    <2> HIDE DEF n
    <2>2. \A i \in 1 .. n + 1 : i \in 1 .. n \/ i = n + 1
      BY <2>1
    <2>3. QED
      BY <2>1, <2>2
  <1>8. u \in Nat
    BY <1>1, <1>2
  <1>9. Placed(us, q)
    <2>1. ASSUME NEW i \in DOMAIN us PROVE us[i].from \in 1 .. q /\ us[i].to \in 0 .. q - 1
      <3>1. CASE i \in DOMAIN ts /\ us[i] = ts[i]
        <4>1. ts[i].from \in 1 .. p /\ ts[i].to \in 0 .. p - 1
          BY <1>1, <3>1 DEF Placed
        <4>2. QED
          BY <1>1, <1>2, <3>1, <4>1
      <3>2. CASE us[i] = t
        BY <1>1, <1>2, <1>3, <3>2
      <3>3. QED
        BY <1>7, <3>1, <3>2
    <2>2. QED
      BY <1>4, <2>1 DEF Placed
  <1>10. Started(q, us)
    <2>1. ASSUME NEW i \in DOMAIN us
          PROVE  us[i].kind \notin {"EOF", "KEYWORD"} /\ First(us[i]) \in 1 .. q - 1
      <3>1. CASE i \in DOMAIN ts /\ us[i] = ts[i]
        BY <1>1, <1>2, <3>1 DEF Started
      <3>2. CASE us[i] = t
        BY <1>1, <1>2, <1>3, <3>2
      <3>3. QED
        BY <1>7, <3>1, <3>2
    <2>2. QED
      BY <2>1 DEF Started
  <1>11. LineRight(q, l, us)
    <2> DEFINE U == InStrings(ts)
               V == InStrings(us)
               m == Len(text)
    <2>1. SUFFICES ASSUME q <= m PROVE l = LineAt(q, V)
      BY DEF LineRight
    <2>2. m \in Nat
      BY <1>1, TextLength
    <2>3. p <= m => l = LineAt(p, U)
      BY <1>1 DEF LineRight
    <2>4. V = U \cup (IF t.kind = "STRING" THEN Newlines(t.from, t.to) ELSE {})
      BY <1>4, StringsOneMore
    <2> HIDE DEF U, V, m
    <2>5. l = LineAt(p, U)
      BY <1>1, <1>2, <2>1, <2>2, <2>3
    <2>6. \A k \in 1 .. p - 1 : k \in U <=> k \in V
      BY <1>1, <1>2, <1>3, <2>4 DEF Newlines
    <2>7. \A k \in p .. q - 1 : At(k) = "nl" => k \in V
      BY <1>2, <1>3, <2>4 DEF Newlines
    <2>8. HashSeen(q) <=> HashSeen(p)
      BY <1>1, <1>2, HashSeenKept
    <2>9. QED
      BY <1>1, <1>2, <2>5, <2>6, <2>7, <2>8, LineKept
  <1>12. BeginRight(q, l, u, 0, us)
    <2>1. p \in p .. q - 1 /\ At(p) # "cr" /\ (l = 1 => u >= 2)
      BY <1>1, <1>2 DEF BeginRight
    <2>2. QED
      BY <1>1, <1>2, <1>8, <2>1, BegunMeanwhile
  <1>13. OffsetRight(q, u, us)
    <2>1. OffsetRight(q, u, ts)
      BY <1>1, <1>2, <1>8, OffsetKept
    <2>2. u = t.offset + (q - First(t))
      BY <1>3
    <2> HIDE DEF u
    <2>3. QED
      BY <1>7, <2>1, <2>2 DEF OffsetRight
  <1>14. CommentRight(q, 0, us)
    BY DEF CommentRight
  <1>15. Cursor(q, l, u, 0, us)
    BY <1>1, <1>2, <1>8, <1>9, <1>10, <1>11, <1>12, <1>13, <1>14 DEF Cursor
  <1>16. QED
    BY <1>6, <1>15 DEF us, t

-----------------------------------------------------------------------------
(***************************************************************************)
(* The inductive invariant.                                                *)
(***************************************************************************)
IInv ==
  /\ HasText /\ ptr \in Nat /\ 1 <= ptr /\ ptr <= Len(text) + 1
  /\ line \in Nat /\ offset \in Nat /\ depth \in Nat
  /\ status \in {"lexing", "done", "error"}
  /\ Placed(tokens, ptr) /\ TokensRight(tokens)
  /\ status = "lexing" => Cursor(ptr, line, offset, depth, tokens)

\* The text stays, and with it what is said of its positions.
LEMMA TextStays ==
  ASSUME text' = text
  PROVE  /\ \A k : At(k)' = At(k)
         /\ \A i, j : Newlines(i, j)' = Newlines(i, j)
         /\ HashLine' <=> HashLine
         /\ \A p : AllReturns(p)' <=> AllReturns(p)
         /\ \A p : HashSeen(p)' <=> HashSeen(p)
         /\ \A i, j : Plain(i, j)' <=> Plain(i, j)
         /\ HasText' <=> HasText
         /\ Len(text)' = Len(text)
  <1>1. \A k : At(k)' = At(k)
    BY DEF At
  <1>2. \A i, j : Newlines(i, j)' = Newlines(i, j)
    BY <1>1 DEF Newlines
  <1>3. HashLine' <=> HashLine
    BY <1>1 DEF HashLine
  <1>4. \A p : AllReturns(p)' <=> AllReturns(p)
    BY <1>1 DEF AllReturns
  <1>5. \A p : HashSeen(p)' <=> HashSeen(p)
    BY <1>1, <1>4 DEF HashSeen
  <1>6. \A i, j : Plain(i, j)' <=> Plain(i, j)
    BY <1>1 DEF Plain
  <1>7. (HasText' <=> HasText) /\ Len(text)' = Len(text)
    BY DEF HasText
  <1>8. QED
    BY <1>1, <1>2, <1>3, <1>4, <1>5, <1>6, <1>7

\* What holds of the new cursor in the old text holds of it after the step.
LEMMA CursorStays ==
  ASSUME text' = text
  PROVE  Cursor(ptr, line, offset, depth, tokens)'
           <=> Cursor(ptr', line', offset', depth', tokens')
  <1>1. InStrings(tokens)' = InStrings(tokens')
    BY TextStays DEF InStrings, StringsBefore
  <1>2. LineRight(ptr, line, tokens)' <=> LineRight(ptr', line', tokens')
    BY TextStays, <1>1 DEF LineRight, LineAt
  <1>3. OffsetRight(ptr, offset, tokens)' <=> OffsetRight(ptr', offset', tokens')
    BY TextStays DEF OffsetRight, First
  <1>4. BeginRight(ptr, line, offset, depth, tokens)' <=> BeginRight(ptr', line', offset', depth', tokens')
    BY TextStays DEF BeginRight
  <1>5. CommentRight(ptr, depth, tokens)' <=> CommentRight(ptr', depth', tokens')
    BY TextStays DEF CommentRight, First
  <1>6. Started(ptr, tokens)' <=> Started(ptr', tokens')
    BY DEF Started, First
  <1>7. Placed(tokens, ptr)' <=> Placed(tokens', ptr')
    BY DEF Placed, Token, Kinds
  <1>8. QED
    BY TextStays, <1>1, <1>2, <1>3, <1>4, <1>5, <1>6, <1>7 DEF Cursor

\* And so does what holds of the new tokens.
LEMMA TokensStay ==
  ASSUME text' = text
  PROVE  TokensRight(tokens)' <=> TokensRight(tokens')
  <1>1. \A i : StringsBefore(tokens, i)' = StringsBefore(tokens', i)
    BY TextStays DEF StringsBefore
  <1>2. \A i : LineExact(tokens[i], StringsBefore(tokens, i))' <=> LineExact(tokens'[i], StringsBefore(tokens', i))
    BY TextStays, <1>1 DEF LineExact
  <1>3. \A i : Munched(tokens[i])' <=> Munched(tokens'[i])
    BY TextStays DEF Munched
  <1>4. \A i, j : OffsetExact(tokens[i], tokens[j])' <=> OffsetExact(tokens'[i], tokens'[j])
    BY TextStays DEF OffsetExact, First
  <1>5. QED
    BY <1>2, <1>3, <1>4 DEF TokensRight

\* A step that goes on lexing need only keep what holds of cursor and tokens.
LEMMA InvAfter ==
  ASSUME text' = text, status' = "lexing",
         Cursor(ptr', line', offset', depth', tokens'), TokensRight(tokens')
  PROVE  IInv'
  <1>1. Cursor(ptr, line, offset, depth, tokens)' /\ TokensRight(tokens)'
    BY CursorStays, TokensStay
  <1>2. (status \in {"lexing", "done", "error"})'
    OBVIOUS
  <1>3. QED
    BY <1>1, <1>2 DEF IInv, Cursor

\* A character stands at p.
Holds(p) == At(p) # ""

\* A character at the cursor leaves room behind it.
LEMMA RoomBehind ==
  ASSUME HasText, NEW p \in Nat, 1 <= p, Holds(p)
  PROVE  p <= Len(text) /\ p + 1 <= Len(text) + 1
  <1> DEFINE n == Len(text)
  <1>1. p \in 1 .. n /\ n \in Nat
    BY AtCharacter, TextLength DEF Holds
  <1> HIDE DEF n
  <1>2. p <= n /\ p + 1 <= n + 1
    BY <1>1
  <1>3. QED
    BY <1>2 DEF n

\* What a move over one character at p does to line, offset and depth.
OneMove(p, l, o, d, m, u, e) ==
  /\ At(p) \notin {"", "cr"} /\ (At(p) = "#" => ~ AllReturns(p))
  /\ m \in Nat /\ u \in Nat /\ e \in Nat
  /\ m = (IF At(p) = "nl" THEN l + 1 ELSE l)
  /\ m = 1 => u >= 2 \/ (u >= 1 /\ e > 0)
  /\ d > 0 \/ (e = 0 /\ (At(p) = "tab" \/ At(p) = "nl" \/ u = o + 1))

\* A move over one character.
LEMMA OneCharacter ==
  ASSUME NEW p, NEW l, NEW o, NEW d, NEW ts, Cursor(p, l, o, d, ts),
         NEW m, NEW u, NEW e, OneMove(p, l, o, d, m, u, e)
  PROVE  Cursor(p + 1, m, u, e, ts)
  <1> DEFINE q == p + 1
  <1>1. HasText /\ p \in Nat /\ 1 <= p /\ l \in Nat /\ 1 <= l /\ o \in Nat
    BY DEF Cursor
  <1>2. q <= Len(text) + 1
    BY <1>1, RoomBehind DEF OneMove, Holds
  <1>3. q \in Nat /\ p < q /\ q = p + 1 /\ (\A k \in p .. q - 1 : k = p)
        /\ (\A k : ~ (k \in p .. q - 2)) /\ q - 1 = p /\ p \in p .. q - 1
    BY <1>1
  <1> HIDE DEF q
  <1>4. SameLine(p, q, l, m) \/ NextLine(p, q, l, m)
    BY <1>1, <1>3 DEF SameLine, NextLine, OneMove
  <1>5. Kept(p, q, o, u, d, e)
    <2>1. At(p) = "tab" \/ At(p) = "nl" => ~ Plain(p, q - 1)
      BY <1>3 DEF Plain
    <2>2. u = o + 1 => u = o + (q - p)
      BY <1>1, <1>3
    <2>3. QED
      BY <2>1, <2>2 DEF Kept, OneMove
  <1>6. /\ At(p) # "cr" /\ (At(p) = "#" => ~ AllReturns(p))
        /\ m \in Nat /\ u \in Nat /\ e \in Nat
        /\ m = 1 => u >= 2 \/ (u >= 1 /\ e > 0)
    BY DEF OneMove
  <1>7. 1 <= m
    <2>1. m = l \/ m = l + 1
      BY DEF OneMove
    <2>2. QED
      BY <1>1, <2>1
  <1>8. Cursor(q, m, u, e, ts)
    BY <1>1, <1>2, <1>3, <1>4, <1>5, <1>6, <1>7, CursorMoves
  <1>9. QED
    BY <1>8 DEF q

\* What a move over the two characters that begin or end a comment does.
CommentMove(p, l, d, u, e) ==
  /\ {At(p), At(p + 1)} \subseteq {"/", "*"}
  /\ u \in Nat /\ e \in Nat
  /\ l = 1 => u >= 2 \/ (u >= 1 /\ e > 0)
  /\ d > 0 \/ (At(p) = "/" /\ At(p + 1) = "*")

\* A move over what begins or ends a comment.
LEMMA TwoCharacters ==
  ASSUME NEW p, NEW l, NEW o, NEW d, NEW ts, Cursor(p, l, o, d, ts),
         NEW u, NEW e, CommentMove(p, l, d, u, e)
  PROVE  Cursor(p + 2, l, u, e, ts)
  <1> DEFINE q == p + 2
             n == Len(text)
  <1>1. HasText /\ p \in Nat /\ 1 <= p /\ l \in Nat /\ 1 <= l /\ o \in Nat
    BY DEF Cursor
  <1>2. q <= n + 1
    <2>1. p + 1 \in Nat /\ 1 <= p + 1
      BY <1>1
    <2>2. Holds(p + 1)
      BY DEF CommentMove, Holds
    <2>3. p + 1 <= n /\ n \in Nat
      BY <1>1, <2>1, <2>2, RoomBehind, TextLength
    <2> HIDE DEF n
    <2>4. QED
      BY <1>1, <2>3
  <1> HIDE DEF n
  <1>3. /\ q \in Nat /\ p < q /\ p \in p .. q - 1 /\ p + 1 \in p .. q - 1
        /\ \A k \in p .. q - 1 : k = p \/ k = p + 1
    BY <1>1
  <1> HIDE DEF q
  <1>4. SameLine(p, q, l, l)
    BY <1>3 DEF SameLine, CommentMove
  <1>5. Kept(p, q, o, u, d, e)
    <2>1. At(p) = "/" /\ At(p + 1) = "*" => ~ Plain(p, q - 1)
      BY <1>3 DEF Plain
    <2>2. QED
      BY <2>1 DEF Kept, CommentMove
  <1>6. /\ At(p) # "cr" /\ At(p) # "#" /\ u \in Nat /\ e \in Nat
        /\ l = 1 => u >= 2 \/ (u >= 1 /\ e > 0)
    BY DEF CommentMove
  <1>7. Cursor(q, l, u, e, ts)
    BY <1>1, <1>2, <1>3, <1>4, <1>5, <1>6, CursorMoves DEF n
  <1>8. QED
    BY <1>7 DEF q


-----------------------------------------------------------------------------
(***************************************************************************)
(* The actions that move the cursor and make no token.                     *)
(***************************************************************************)
\* What is known where the loop looks at the next character.
LEMMA Looking ==
  ASSUME IInv, status = "lexing"
  PROVE  /\ HasText /\ ptr \in Nat /\ 1 <= ptr /\ line \in Nat /\ 1 <= line
         /\ offset \in Nat /\ depth \in Nat
         /\ line = 1 => offset >= 1
         /\ AllReturns(ptr) <=> line = 1 /\ offset = 1 /\ depth = 0
         /\ AllReturns(ptr) => DOMAIN tokens = {}
         /\ Cursor(ptr, line, offset, depth, tokens) /\ TokensRight(tokens)
  BY DEF IInv, Cursor, BeginRight

\* A move over one character keeps the invariant.
LEMMA MoveByOne ==
  ASSUME IInv, status = "lexing", NEW m, NEW u, Move(ptr + 1, m, u),
         OneMove(ptr, line, offset, depth, m, u, depth')
  PROVE  IInv'
  <1>1. Cursor(ptr + 1, m, u, depth', tokens) /\ TokensRight(tokens)
    BY Looking, OneCharacter
  <1>2. /\ ptr' = ptr + 1 /\ line' = m /\ offset' = u
        /\ text' = text /\ tokens' = tokens /\ status' = "lexing"
    BY DEF Move
  <1>3. QED
    BY <1>1, <1>2, InvAfter

\* A move over two characters keeps the invariant.
LEMMA MoveByTwo ==
  ASSUME IInv, status = "lexing", NEW u, Move(ptr + 2, line, u),
         CommentMove(ptr, line, depth, u, depth')
  PROVE  IInv'
  <1>1. Cursor(ptr + 2, line, u, depth', tokens) /\ TokensRight(tokens)
    BY Looking, TwoCharacters
  <1>2. /\ ptr' = ptr + 2 /\ line' = line /\ offset' = u
        /\ text' = text /\ tokens' = tokens /\ status' = "lexing"
    BY DEF Move
  <1>3. QED
    BY <1>1, <1>2, InvAfter

\* A carriage return keeps the invariant.
LEMMA MoveOverReturn ==
  ASSUME IInv, status = "lexing", At(ptr) = "cr", Move(ptr + 1, line, offset), depth' = depth
  PROVE  IInv'
  <1>1. ptr <= Len(text)
    BY Looking, RoomBehind DEF Holds
  <1>2. Cursor(ptr + 1, line, offset, depth, tokens) /\ TokensRight(tokens)
    BY <1>1, Looking, CursorMovesOverReturn
  <1>3. /\ ptr' = ptr + 1 /\ line' = line /\ offset' = offset
        /\ text' = text /\ tokens' = tokens /\ status' = "lexing"
    BY DEF Move
  <1>4. QED
    BY <1>2, <1>3, InvAfter

\* A tab moves the offset on.
LEMMA TabForward ==
  ASSUME NEW o \in Nat
  PROVE  AfterTab(o) \in Nat /\ (o >= 1 => AfterTab(o) >= 2)
  <1>1. o % 4 \in Nat
    OBVIOUS
  <1> DEFINE r == o % 4
  <1> HIDE DEF r
  <1>2. r \in Nat /\ AfterTab(o) = IF r > 0 THEN o + r ELSE o + 4
    BY <1>1 DEF AfterTab, r
  <1>3. QED
    BY <1>2

\* A tab keeps the invariant.
LEMMA KeptByTab ==
  ASSUME IInv, SkipTab PROVE IInv'
  <1>1. status = "lexing" /\ depth = 0 /\ At(ptr) = "tab" /\ depth' = depth
        /\ Move(ptr + 1, line, AfterTab(offset))
    BY DEF SkipTab, Sees
  <1>2. AfterTab(offset) \in Nat /\ (line = 1 => AfterTab(offset) >= 2)
    BY <1>1, Looking, TabForward
  <1>3. OneMove(ptr, line, offset, depth, line, AfterTab(offset), depth')
    BY <1>1, <1>2, Looking DEF OneMove
  <1>4. QED
    BY <1>1, <1>3, MoveByOne

\* A space keeps the invariant.
LEMMA KeptBySpace ==
  ASSUME IInv, SkipSpace PROVE IInv'
  <1>1. status = "lexing" /\ depth = 0 /\ At(ptr) = " " /\ depth' = depth
        /\ Move(ptr + 1, line, offset + 1)
    BY DEF SkipSpace, Sees
  <1>2. offset + 1 \in Nat /\ (line = 1 => offset + 1 >= 2)
    <2>1. offset \in Nat /\ (line = 1 => offset >= 1)
      BY <1>1, Looking
    <2>2. QED
      BY <2>1
  <1>3. OneMove(ptr, line, offset, depth, line, offset + 1, depth')
    BY <1>1, <1>2, Looking DEF OneMove
  <1>4. QED
    BY <1>1, <1>3, MoveByOne

\* A newline keeps the invariant.
LEMMA KeptByNewline ==
  ASSUME IInv, SkipNewline PROVE IInv'
  <1>1. status = "lexing" /\ depth = 0 /\ At(ptr) = "nl" /\ depth' = depth
        /\ Move(ptr + 1, line + 1, 0)
    BY DEF SkipNewline, Sees
  <1>2. line + 1 \in Nat /\ line + 1 # 1 /\ 0 \in Nat
    BY <1>1, Looking
  <1>3. OneMove(ptr, line, offset, depth, line + 1, 0, depth')
    BY <1>1, <1>2, Looking DEF OneMove
  <1>4. QED
    BY <1>1, <1>3, MoveByOne

\* A carriage return, in a comment or not, keeps the invariant.
LEMMA KeptByReturn ==
  ASSUME IInv, SkipReturn \/ CommentReturn PROVE IInv'
  BY MoveOverReturn DEF SkipReturn, CommentReturn, Sees, InComment

\* A newline in a comment keeps the invariant.
LEMMA KeptByCommentNewline ==
  ASSUME IInv, CommentNewline PROVE IInv'
  <1>1. status = "lexing" /\ depth > 0 /\ At(ptr) = "nl" /\ depth' = depth
        /\ Move(ptr + 1, line + 1, 1)
    BY DEF CommentNewline, InComment
  <1>2. line + 1 \in Nat /\ line + 1 # 1 /\ 1 \in Nat
    BY <1>1, Looking
  <1>3. OneMove(ptr, line, offset, depth, line + 1, 1, depth')
    BY <1>1, <1>2, Looking DEF OneMove
  <1>4. QED
    BY <1>1, <1>3, MoveByOne

\* Any other character in a comment keeps the invariant.
LEMMA KeptByCommentCharacter ==
  ASSUME IInv, CommentCharacter PROVE IInv'
  <1>1. status = "lexing" /\ depth > 0 /\ depth' = depth
        /\ At(ptr) \in Characters \ {"nl", "cr"}
        /\ Move(ptr + 1, line, offset + 1)
    BY DEF CommentCharacter, InComment
  <1>2. offset + 1 \in Nat /\ (line = 1 => offset + 1 >= 2)
    <2>1. offset \in Nat /\ (line = 1 => offset >= 1)
      BY <1>1, Looking
    <2>2. QED
      BY <2>1
  <1>3. At(ptr) \notin {"", "cr", "nl"} /\ ~ AllReturns(ptr)
    <2>1. At(ptr) # ""
      BY <1>1, AlphabetAssumption
    <2>2. depth # 0
      BY <1>1, Looking
    <2>3. QED
      BY <1>1, <2>1, <2>2, Looking
  <1>4. OneMove(ptr, line, offset, depth, line, offset + 1, depth')
    BY <1>1, <1>2, <1>3, Looking DEF OneMove
  <1>5. QED
    BY <1>1, <1>4, MoveByOne

\* The beginning of a comment keeps the invariant.
LEMMA KeptByOpenComment ==
  ASSUME IInv, OpenComment PROVE IInv'
  <1>1. status = "lexing" /\ depth = 0 /\ At(ptr) = "/" /\ At(ptr + 1) = "*" /\ depth' = 1
        /\ Move(ptr + 2, line, offset)
    BY DEF OpenComment, Sees
  <1>2. CommentMove(ptr, line, depth, offset, depth')
    BY <1>1, Looking DEF CommentMove
  <1>3. QED
    BY <1>1, <1>2, MoveByTwo

\* A comment in a comment keeps the invariant.
LEMMA KeptByCommentOpens ==
  ASSUME IInv, CommentOpens PROVE IInv'
  <1>1. status = "lexing" /\ depth > 0 /\ At(ptr) = "/" /\ At(ptr + 1) = "*"
        /\ depth' = depth + 1 /\ Move(ptr + 2, line, offset + 2)
    BY DEF CommentOpens, InComment
  <1>2. offset + 2 \in Nat /\ depth + 1 \in Nat /\ offset + 2 >= 2
    BY <1>1, Looking
  <1>3. CommentMove(ptr, line, depth, offset + 2, depth')
    BY <1>1, <1>2, Looking DEF CommentMove
  <1>4. QED
    BY <1>1, <1>3, MoveByTwo

\* The end of a comment keeps the invariant.
LEMMA KeptByCommentCloses ==
  ASSUME IInv, CommentCloses PROVE IInv'
  <1>1. status = "lexing" /\ depth > 0 /\ At(ptr) = "*" /\ At(ptr + 1) = "/"
        /\ depth' = depth - 1 /\ Move(ptr + 2, line, offset + 2)
    BY DEF CommentCloses, InComment
  <1>2. offset + 2 \in Nat /\ depth - 1 \in Nat /\ offset + 2 >= 2
    BY <1>1, Looking
  <1>3. CommentMove(ptr, line, depth, offset + 2, depth')
    BY <1>1, <1>2, Looking DEF CommentMove
  <1>4. QED
    BY <1>1, <1>3, MoveByTwo

\* A scan for the end of the line.
LEMMA FindNewline ==
  ASSUME HasText, NEW i \in Places
  PROVE  /\ Find(i, "nl") \in i .. Len(text) + 1
         /\ At(Find(i, "nl")) = "nl" \/ Find(i, "nl") = Len(text) + 1
         /\ \A k \in i .. Find(i, "nl") - 1 : At(k) # "nl" /\ At(k) # ""
  <1>1. "nl" \in Characters
    BY DEF Characters, Blanks
  <1>2. QED
    BY <1>1, FindIs

\* The "#" line keeps the invariant.
LEMMA KeptByHashLine ==
  ASSUME IInv, SkipHashLine PROVE IInv'
  <1> DEFINE p == ptr
             q == Find(ptr, "nl")
             n == Len(text)
  <1>1. /\ status = "lexing" /\ depth = 0 /\ At(p) = "#" /\ line = 1 /\ offset = 1
        /\ depth' = depth /\ Move(q, line + 1, 1)
    BY DEF SkipHashLine, Sees
  <1>2. /\ HasText /\ p \in Nat /\ 1 <= p /\ n \in Nat /\ p <= n /\ Holds(p)
        /\ AllReturns(p) /\ DOMAIN tokens = {}
        /\ Cursor(p, line, offset, depth, tokens) /\ TokensRight(tokens)
    <2>1. Holds(p)
      BY <1>1 DEF Holds
    <2>2. QED
      BY <1>1, <2>1, Looking, TextLength, RoomBehind
  <1>3. p \in Places
    BY <1>2 DEF Places
  <1>4. /\ q \in p .. n + 1 /\ (At(q) = "nl" \/ q = n + 1)
        /\ \A k \in p .. q - 1 : At(k) # "nl"
    BY <1>2, <1>3, FindNewline
  <1> HIDE DEF p, q, n
  <1>5. q # p
    <2>1. p # n + 1
      BY <1>2
    <2>2. QED
      BY <1>1, <1>4, <2>1
  <1>6. q \in Nat /\ p < q /\ q <= n + 1
    BY <1>2, <1>4, <1>5
  <1>7. LineRight(q, line + 1, tokens)
    <2>1. line = LineAt(p, InStrings(tokens))
      BY <1>2 DEF Cursor, LineRight, n
    <2>2. LineAt(q, InStrings(tokens)) = LineAt(p, InStrings(tokens)) + 1
      BY <1>1, <1>2, <1>4, <1>6, LineAfterHash
    <2>3. QED
      BY <2>1, <2>2 DEF LineRight
  <1>8. BeginRight(q, line + 1, 1, 0, tokens)
    <2>1. p \in p .. q - 1 /\ At(p) # "cr"
      BY <1>1, <1>2, <1>6
    <2>2. line + 1 \in Nat /\ 1 \in Nat /\ 0 \in Nat /\ line + 1 # 1
      BY <1>1
    <2>3. QED
      BY <1>2, <1>6, <2>1, <2>2, BegunMeanwhile
  <1>9. CommentRight(q, 0, tokens) /\ OffsetRight(q, 1, tokens)
    BY <1>2 DEF CommentRight, OffsetRight
  <1>10. line + 1 \in Nat /\ 1 <= line + 1 /\ 1 \in Nat /\ 0 \in Nat
    BY <1>1
  <1>11. Cursor(q, line + 1, 1, 0, tokens)
    BY <1>2, <1>6, <1>7, <1>8, <1>9, <1>10, MovedOn DEF n
  <1>12. /\ ptr' = q /\ line' = line + 1 /\ offset' = 1 /\ depth' = 0
         /\ text' = text /\ tokens' = tokens /\ status' = "lexing"
    BY <1>1 DEF Move
  <1>13. QED
    BY <1>2, <1>11, <1>12, InvAfter

\* A line comment keeps the invariant.
LEMMA KeptByLineComment ==
  ASSUME IInv, SkipLineComment PROVE IInv'
  <1> DEFINE p == ptr
             z == Find(ptr + 2, "nl")
             q == IF At(z) = "nl" THEN z + 1 ELSE z
             n == Len(text)
  <1>1. /\ status = "lexing" /\ depth = 0 /\ At(p) = "/" /\ At(p + 1) = "/"
        /\ depth' = depth /\ Move(q, line + 1, 1)
    BY DEF SkipLineComment, Sees
  <1>2. /\ HasText /\ p \in Nat /\ 1 <= p /\ n \in Nat
        /\ line \in Nat /\ 1 <= line /\ offset \in Nat
        /\ Cursor(p, line, offset, depth, tokens) /\ TokensRight(tokens)
    BY <1>1, Looking, TextLength
  <1>3. p + 2 \in Places
    <2>1. p + 1 \in Nat /\ 1 <= p + 1
      BY <1>2
    <2>2. Holds(p + 1)
      BY <1>1 DEF Holds
    <2>3. p + 1 <= n
      BY <1>2, <2>1, <2>2, RoomBehind
    <2> HIDE DEF n, p
    <2>4. p + 2 \in 1 .. n + 1
      BY <1>2, <2>3
    <2>5. QED
      BY <2>4 DEF n, Places
  <1>4. /\ z \in p + 2 .. n + 1 /\ (At(z) = "nl" \/ z = n + 1)
        /\ \A k \in p + 2 .. z - 1 : At(k) # "nl"
    BY <1>2, <1>3, FindNewline
  <1>5. At(n + 1) = ""
    <2> HIDE DEF n
    <2>1. n + 1 \notin 1 .. n
      BY <1>2
    <2>2. QED
      BY <1>2, <2>1, AtCharacter DEF n
  <1>6. (At(z) = "nl" /\ q = z + 1) \/ (z = n + 1 /\ q = n + 1)
    BY <1>4, <1>5
  <1>6a. At(z) = "nl" => z # n + 1
    BY <1>5
  <1> HIDE DEF z, q, n, p
  <1>7. /\ q \in Nat /\ p < q /\ q <= n + 1 /\ p \in p .. q - 1 /\ p + 1 \in p .. q - 1
        /\ q <= n => z = q - 1 /\ At(z) = "nl"
        /\ \A k \in p .. q - 2 : k = p \/ k = p + 1 \/ k \in p + 2 .. z - 1
    <2>1. CASE At(z) = "nl" /\ q = z + 1
      <3>1. z # n + 1
        BY <1>6a, <2>1
      <3>2. z \in p + 2 .. n + 1 /\ q = z + 1
        BY <1>4, <2>1
      <3>3. /\ q \in Nat /\ p < q /\ q <= n + 1 /\ p \in p .. q - 1 /\ p + 1 \in p .. q - 1
            /\ z = q - 1
            /\ \A k \in p .. q - 2 : k = p \/ k = p + 1 \/ k \in p + 2 .. z - 1
        BY <1>2, <3>1, <3>2
      <3>4. QED
        BY <2>1, <3>3
    <2>2. CASE z = n + 1 /\ q = n + 1
      <3>1. z \in p + 2 .. n + 1
        BY <1>4
      <3>2. QED
        BY <1>2, <2>2, <3>1
    <2>3. QED
      BY <1>6, <2>1, <2>2
  <1>8. q <= n => NextLine(p, q, line, line + 1)
    <2>1. \A k \in p .. q - 2 : At(k) # "nl"
      BY <1>1, <1>4, <1>7
    <2>2. QED
      BY <1>7, <2>1 DEF NextLine
  <1>9. Kept(p, q, offset, 1, depth, 0)
    <2>1. ~ Plain(p, q - 1)
      BY <1>1, <1>7 DEF Plain
    <2>2. QED
      BY <2>1 DEF Kept
  <1>10. line + 1 \in Nat /\ 1 <= line + 1 /\ 1 \in Nat /\ 0 \in Nat /\ line + 1 # 1
    BY <1>2
  <1>11. At(p) # "cr" /\ At(p) # "#"
    BY <1>1
  <1>12. Cursor(q, line + 1, 1, 0, tokens)
    BY <1>2, <1>7, <1>8, <1>9, <1>10, <1>11, CursorMoves DEF n
  <1>13. /\ ptr' = q /\ line' = line + 1 /\ offset' = 1 /\ depth' = 0
         /\ text' = text /\ tokens' = tokens /\ status' = "lexing"
    BY <1>1 DEF Move
  <1>14. QED
    BY <1>2, <1>12, <1>13, InvAfter

-----------------------------------------------------------------------------
(***************************************************************************)
(* The actions that make a token, an error or the end.                     *)
(***************************************************************************)
\* A token keeps the invariant.
LEMMA KeptByToken ==
  ASSUME IInv, status = "lexing", depth = 0, NEW kind, NEW from, NEW to, NEW q,
         add_token(kind, from, to, q), Lexed(kind, from, to, ptr, q),
         Munched(NewToken(kind, from, to, line, offset))
  PROVE  IInv'
  <1> DEFINE us == Append(tokens, NewToken(kind, from, to, line, offset))
             u == offset + (q - ptr)
  <1>1. Cursor(ptr, line, offset, 0, tokens) /\ TokensRight(tokens)
    BY Looking
  <1>2. Cursor(q, line, u, 0, us) /\ TokensRight(us)
    BY <1>1, TokenAdded
  <1>3. /\ ptr' = q /\ line' = line /\ offset' = u /\ depth' = 0
        /\ text' = text /\ tokens' = us /\ status' = "lexing"
    BY DEF add_token, NewToken
  <1> HIDE DEF us, u
  <1>4. QED
    BY <1>2, <1>3, InvAfter

\* An error keeps the invariant.
LEMMA KeptByError ==
  ASSUME IInv, lexer_error PROVE IInv'
  <1>1. /\ text' = text /\ ptr' = ptr /\ line' = line /\ offset' = offset /\ depth' = depth
        /\ tokens' = tokens /\ status' = "error"
    BY DEF lexer_error
  <1>2. TokensRight(tokens)'
    BY <1>1, TokensStay DEF IInv
  <1>3. HasText' /\ Len(text)' = Len(text)
    BY <1>1, TextStays DEF IInv
  <1>4. Placed(tokens, ptr)'
    BY <1>1 DEF IInv, Placed, Token, Kinds
  <1>5. QED
    BY <1>1, <1>2, <1>3, <1>4 DEF IInv

\* The fields of a new token.
LEMMA NewTokenFields ==
  ASSUME NEW kind, NEW from, NEW to, NEW l, NEW o
  PROVE  LET t == NewToken(kind, from, to, l, o)
         IN  t.kind = kind /\ t.from = from /\ t.to = to
  BY DEF NewToken

\* An operator of two characters keeps the invariant.
LEMMA KeptByDouble ==
  ASSUME IInv, DoubleToken PROVE IInv'
  <1> DEFINE p == ptr
             n == Len(text)
  <1>1. PICK pair \in Doubles : Sees(pair[1]) /\ At(p + 1) = pair[2]
    BY DEF DoubleToken
  <1>2. pair[1] \in Operators /\ pair[2] \in Operators
    BY AlphabetAssumption
  <1>3. /\ status = "lexing" /\ depth = 0 /\ At(p) \in Operators /\ At(p + 1) \in Operators
        /\ add_token("OP", p, p + 1, p + 2)
    BY <1>1, <1>2 DEF Sees, DoubleToken
  <1>4. /\ Holds(p + 1)
        /\ At(p) \notin {"cr", "#", "nl"} /\ At(p) # "nl" /\ At(p + 1) # "nl"
    BY <1>3, ClassesDisjoint DEF Holds, Blanks, Special
  <1>5. HasText /\ p \in Nat /\ 1 <= p /\ n \in Nat
    BY <1>3, Looking, TextLength
  <1>6. p + 1 <= n
    <2>1. p + 1 \in Nat /\ 1 <= p + 1
      BY <1>5
    <2>2. QED
      BY <1>4, <1>5, <2>1, RoomBehind
  <1> HIDE DEF p, n
  <1>7. /\ p + 1 \in Nat /\ p + 2 \in Nat /\ p < p + 2 /\ p + 2 <= n + 1 /\ p + 1 <= p + 2 - 1
        /\ p = p + 0 /\ p # p + 1
        /\ \A k \in p .. p + 2 - 1 : k = p \/ k = p + 1
    BY <1>5, <1>6
  <1>8. Lexed("OP", p, p + 1, p, p + 2)
    BY <1>4, <1>5, <1>7 DEF Lexed, n
  <1>9. Munched(NewToken("OP", p, p + 1, line, offset))
    BY <1>7, NewTokenFields DEF Munched
  <1>10. QED
    BY <1>3, <1>8, <1>9, KeptByToken DEF p

\* An operator of one character keeps the invariant.
LEMMA KeptBySingle ==
  ASSUME IInv, SingleToken PROVE IInv'
  <1> DEFINE p == ptr
             n == Len(text)
  <1>1. /\ status = "lexing" /\ depth = 0 /\ At(p) \in Singles
        /\ <<At(p), At(p + 1)>> \notin Doubles \cup {<<"/", "/">>, <<"/", "*">>}
        /\ add_token("OP", p, p, p + 1)
    BY DEF Sees, SingleToken
  <1>2. Holds(p) /\ At(p) \notin {"cr", "#", "nl"} /\ At(p) # "nl"
    BY <1>1, ClassesDisjoint DEF Holds, Operators, Blanks, Special
  <1>3. HasText /\ p \in Nat /\ 1 <= p /\ n \in Nat /\ p + 1 <= n + 1
    BY <1>1, <1>2, Looking, TextLength, RoomBehind
  <1> HIDE DEF p, n
  <1>4. /\ p + 1 \in Nat /\ p < p + 1 /\ p <= p + 1 - 1 /\ p = p + 0
        /\ \A k \in p .. p + 1 - 1 : k = p
    BY <1>3
  <1>5. Lexed("OP", p, p, p, p + 1)
    BY <1>2, <1>3, <1>4 DEF Lexed, n
  <1>6. Munched(NewToken("OP", p, p, line, offset))
    BY <1>1, NewTokenFields DEF Munched
  <1>7. QED
    BY <1>1, <1>5, <1>6, KeptByToken DEF p

\* A word or a number of characters of S ends where its scan does.
LEMMA ScannedToken ==
  ASSUME IInv, status = "lexing", depth = 0, NEW S,
         StopsAtEnd(S), "nl" \notin S, "cr" \notin S, "#" \notin S, At(ptr) \in S,
         NEW kind \in {"IDENT", "NUMBER"}
  PROVE  /\ Lexed(kind, ptr, EndOf(ptr, S) - 1, ptr, EndOf(ptr, S))
         /\ At(EndOf(ptr, S) - 1 + 1) \notin S
  <1> DEFINE p == ptr
             n == Len(text)
             q == EndOf(p, S)
  <1>1. At(p) \notin {"cr", "#", "nl"} /\ Holds(p) /\ At(p) \in S
        /\ \A k : At(k) \in S => At(k) # "nl"
    BY DEF Holds, StopsAtEnd
  <1>2. HasText /\ p \in Nat /\ 1 <= p /\ n \in Nat /\ p <= n
    BY <1>1, Looking, TextLength, RoomBehind
  <1>3. p \in Places
    BY <1>2 DEF Places
  <1>4. q \in p .. n + 1 /\ At(q) \notin S /\ \A k \in p .. q - 1 : At(k) \in S
    BY <1>2, <1>3, EndOfIs
  <1> HIDE DEF p, n, q
  <1>5. q # p
    BY <1>1, <1>4
  <1>6. q \in Nat /\ p < q /\ q <= n + 1 /\ q - 1 \in Nat /\ q - 1 <= q - 1 /\ p = p + 0
        /\ q - 1 + 1 = q
    BY <1>2, <1>4, <1>5
  <1>7. \A k \in p .. q - 1 : At(k) # "nl"
    BY <1>1, <1>4
  <1>8. Lexed(kind, p, q - 1, p, q)
    BY <1>1, <1>2, <1>6, <1>7 DEF Lexed, n
  <1>9. QED
    BY <1>4, <1>6, <1>8 DEF p, q

\* A word keeps the invariant.
LEMMA KeptByWord ==
  ASSUME IInv, Word PROVE IInv'
  <1> DEFINE S == Letters \cup Digits
             q == EndOf(ptr, S)
  <1>1. /\ status = "lexing" /\ depth = 0 /\ At(ptr) \in S
        /\ add_token("IDENT", ptr, q - 1, q)
    BY DEF Word, Sees
  <1>2. StopsAtEnd(S) /\ "nl" \notin S /\ "cr" \notin S /\ "#" \notin S
    BY ClassesDisjoint DEF StopsAtEnd, Blanks, Special
  <1>3. Lexed("IDENT", ptr, q - 1, ptr, q) /\ At(q - 1 + 1) \notin S
    <2> HIDE DEF S
    <2>1. QED
      BY <1>1, <1>2, ScannedToken
  <1> HIDE DEF q
  <1>4. Munched(NewToken("IDENT", ptr, q - 1, line, offset))
    BY <1>3, NewTokenFields DEF Munched
  <1>5. QED
    BY <1>1, <1>3, <1>4, KeptByToken

\* A number keeps the invariant.
LEMMA KeptByNumber ==
  ASSUME IInv, Number PROVE IInv'
  <1> DEFINE S == Digits \cup {"."}
             q == EndOf(ptr, S)
  <1>1. /\ status = "lexing" /\ depth = 0 /\ At(ptr) \in S
        /\ lexer_error \/ add_token("NUMBER", ptr, q - 1, q)
    BY DEF Number, Sees
  <1>2. StopsAtEnd(S) /\ "nl" \notin S /\ "cr" \notin S /\ "#" \notin S
    BY ClassesDisjoint DEF StopsAtEnd, Blanks, Special
  <1>3. Lexed("NUMBER", ptr, q - 1, ptr, q) /\ At(q - 1 + 1) \notin S
    <2> HIDE DEF S
    <2>1. QED
      BY <1>1, <1>2, ScannedToken
  <1> HIDE DEF q
  <1>4. Munched(NewToken("NUMBER", ptr, q - 1, line, offset))
    BY <1>3, NewTokenFields DEF Munched
  <1>5. QED
    BY <1>1, <1>3, <1>4, KeptByToken, KeptByError

\* A string keeps the invariant.
LEMMA KeptByString ==
  ASSUME IInv, String PROVE IInv'
  <1> DEFINE p == ptr
             n == Len(text)
             e == Find(p + 1, "quote")
  <1>1. /\ status = "lexing" /\ depth = 0 /\ At(p) = "quote"
        /\ \/ lexer_error
           \/ At(e) = "quote" /\ add_token("STRING", p + 1, e - 1, e + 1)
    BY DEF String, Sees
  <1>2. SUFFICES ASSUME At(e) = "quote", add_token("STRING", p + 1, e - 1, e + 1)
                 PROVE  IInv'
    BY <1>1, KeptByError
  <1>3. Holds(p) /\ Holds(e) /\ At(p) \notin {"cr", "#", "nl"} /\ At(e) # "nl"
        /\ "quote" \in Characters
    BY <1>1, <1>2 DEF Holds, Characters, Special
  <1>4. HasText /\ p \in Nat /\ 1 <= p /\ n \in Nat /\ p <= n
    BY <1>1, <1>3, Looking, TextLength, RoomBehind
  <1>5. p + 1 \in Places
    <2> HIDE DEF p, n
    <2>1. p + 1 \in 1 .. n + 1
      BY <1>4
    <2>2. QED
      BY <2>1 DEF Places, n
  <1>6. e \in p + 1 .. n + 1
    BY <1>3, <1>4, <1>5, FindIs
  <1> HIDE DEF e, p, n
  <1>7. e \in Nat /\ 1 <= e
    BY <1>4, <1>6
  <1>8. e <= n
    BY <1>3, <1>4, <1>7, RoomBehind DEF n
  <1>9. /\ p + 1 \in Nat /\ e - 1 \in Nat /\ e + 1 \in Nat
        /\ p < e + 1 /\ e + 1 <= n + 1 /\ e - 1 <= e + 1 - 1
    BY <1>4, <1>6, <1>8
  <1>9a. \A k \in p .. e + 1 - 1 : k = p \/ k = e \/ k \in p + 1 .. e - 1
    BY <1>4, <1>6, <1>8
  <1>10. Lexed("STRING", p + 1, e - 1, p, e + 1)
    <2>1. At(p) # "nl"
      BY <1>3
    <2>2. \A k \in p .. e + 1 - 1 : At(k) = "nl" => k \in p + 1 .. e - 1
      BY <1>3, <1>9a, <2>1
    <2>3. At(p) \notin {"cr", "#", "nl"}
      BY <1>3
    <2> DEFINE i == p + 1
               j == e - 1
               q == e + 1
    <2>4. /\ i \in Nat /\ j \in Nat /\ q \in Nat /\ p < q /\ q <= n + 1
          /\ j <= q - 1 /\ i = p + 1
      BY <1>4, <1>7, <1>9
    <2>4a. \A k \in p .. q - 1 : At(k) = "nl" => k \in i .. j
      BY <1>4, <1>7, <2>2
    <2> HIDE DEF i, j, q
    <2>5. Lexed("STRING", i, j, p, q)
      BY <2>3, <2>4, <2>4a DEF Lexed, n
    <2>6. QED
      BY <2>5 DEF i, j, q
  <1>11. Munched(NewToken("STRING", p + 1, e - 1, line, offset))
    BY NewTokenFields DEF Munched
  <1>12. QED
    BY <1>1, <1>2, <1>10, <1>11, KeptByToken DEF p

\* Tokens of which some names have become keywords.
Renamed(ts, us) ==
  /\ us \in Seq(Token) /\ Len(us) = Len(ts) /\ DOMAIN us = DOMAIN ts
  /\ \A i \in DOMAIN ts :
       /\ us[i].from = ts[i].from /\ us[i].to = ts[i].to
       /\ us[i].line = ts[i].line /\ us[i].offset = ts[i].offset
       /\ us[i].kind = ts[i].kind \/ (ts[i].kind = "IDENT" /\ us[i].kind = "KEYWORD")

\* They are as right as before.
LEMMA RightRenamed ==
  ASSUME NEW ts, NEW us, Renamed(ts, us), TokensRight(ts), NEW n \in Nat, DOMAIN ts = 1 .. n
  PROVE  TokensRight(us)
  <1>1. ASSUME NEW i \in 1 .. n
        PROVE  /\ us[i].from = ts[i].from /\ us[i].to = ts[i].to
               /\ us[i].line = ts[i].line /\ us[i].offset = ts[i].offset
               /\ us[i].kind = ts[i].kind \/ (ts[i].kind = "IDENT" /\ us[i].kind = "KEYWORD")
    BY DEF Renamed
  <1>2. \A i \in 1 .. n : First(us[i]) = First(ts[i])
    BY <1>1 DEF First
  <1>3. \A i \in 1 .. n : StringsBefore(us, i) = StringsBefore(ts, i)
    <2>1. SUFFICES ASSUME NEW i \in 1 .. n PROVE StringsBefore(us, i) = StringsBefore(ts, i)
      OBVIOUS
    <2>2. \A k \in 1 .. i - 1 : k \in 1 .. n
      OBVIOUS
    <2>3. {k \in 1 .. i - 1 : us[k].kind = "STRING"} = {k \in 1 .. i - 1 : ts[k].kind = "STRING"}
      BY <1>1, <2>2
    <2>4. \A k \in 1 .. i - 1 : us[k].from = ts[k].from /\ us[k].to = ts[k].to
      BY <1>1, <2>2
    <2>5. QED
      BY <2>3, <2>4 DEF StringsBefore
  <1>4. ASSUME NEW i \in 1 .. n
        PROVE  /\ LineExact(us[i], StringsBefore(us, i)) /\ Munched(us[i])
               /\ \A j \in 1 .. n : i < j => OffsetExact(us[i], us[j])
    <2>1. LineExact(ts[i], StringsBefore(ts, i)) /\ Munched(ts[i])
      BY DEF TokensRight
    <2>2. LineExact(us[i], StringsBefore(us, i))
      BY <1>1, <1>3, <2>1 DEF LineExact
    <2>3. Munched(us[i])
      BY <1>1, <2>1 DEF Munched
    <2>4. ASSUME NEW j \in 1 .. n, i < j PROVE OffsetExact(us[i], us[j])
      <3>1. OffsetExact(ts[i], ts[j])
        BY <2>4 DEF TokensRight
      <3>2. us[j].kind # "EOF" => ts[j].kind # "EOF"
        BY <1>1
      <3>3. QED
        BY <1>1, <1>2, <3>1, <3>2 DEF OffsetExact
    <2>5. QED
      BY <2>2, <2>3, <2>4
  <1>5. QED
    BY <1>4 DEF TokensRight, Renamed

\* The end of the text keeps the invariant.
LEMMA KeptByFinish ==
  ASSUME IInv, Finish PROVE IInv'
  <1> DEFINE Kind(t) == IF t.kind = "IDENT" /\ Lexeme(t) \in Keywords
                        THEN "KEYWORD" ELSE t.kind
             eof == [kind |-> "EOF", from |-> ptr, to |-> ptr - 1, line |-> 0, offset |-> 0]
             us == [i \in DOMAIN tokens |-> [tokens[i] EXCEPT !.kind = Kind(tokens[i])]]
             n == Len(tokens)
  <1>1. /\ text' = text /\ ptr' = ptr /\ line' = line /\ offset' = offset /\ depth' = depth
        /\ status' = "done" /\ tokens' = Append(us, eof)
    BY DEF Finish
  <1>2. /\ HasText /\ ptr \in Nat /\ 1 <= ptr /\ Placed(tokens, ptr) /\ TokensRight(tokens)
    BY DEF IInv
  <1>3. n \in Nat /\ DOMAIN tokens = 1 .. n /\ \A i \in 1 .. n : tokens[i] \in Token
    BY <1>2 DEF Placed
  <1>4. ASSUME NEW i \in 1 .. n
        PROVE  /\ us[i] \in Token
               /\ us[i].from = tokens[i].from /\ us[i].to = tokens[i].to
               /\ us[i].line = tokens[i].line /\ us[i].offset = tokens[i].offset
               /\ us[i].kind = tokens[i].kind
                    \/ (tokens[i].kind = "IDENT" /\ us[i].kind = "KEYWORD")
    <2>1. tokens[i] \in Token /\ us[i] = [tokens[i] EXCEPT !.kind = Kind(tokens[i])]
      BY <1>3
    <2>2. Kind(tokens[i]) = tokens[i].kind
            \/ (tokens[i].kind = "IDENT" /\ Kind(tokens[i]) = "KEYWORD")
      OBVIOUS
    <2>3. Kind(tokens[i]) \in Kinds
      BY <2>1, <2>2 DEF Token, Kinds
    <2> HIDE DEF us, Kind
    <2>4. QED
      BY <2>1, <2>2, <2>3 DEF Token
  <1>5. us \in Seq(Token) /\ Len(us) = n /\ DOMAIN us = 1 .. n
    <2>1. us = [i \in 1 .. n |-> us[i]]
      BY <1>3
    <2> HIDE DEF us
    <2>2. QED
      BY <1>3, <1>4, <2>1
  <1>6. eof \in Token /\ eof.kind = "EOF" /\ eof.from = ptr /\ eof.to = ptr - 1
    BY <1>2 DEF Token, Kinds
  <1> HIDE DEF us, eof
  <1>7. Renamed(tokens, us)
    BY <1>3, <1>4, <1>5 DEF Renamed
  <1>8. TokensRight(us)
    BY <1>2, <1>3, <1>7, RightRenamed
  <1>9. Append(us, eof) \in Seq(Token) /\ OneMore(us, eof, Append(us, eof))
    BY <1>5, <1>6, AppendIsOneMore
  <1>10. TokensRight(Append(us, eof))
    <2>1. Munched(eof) /\ LineExact(eof, InStrings(us))
          /\ \A i \in DOMAIN us : OffsetExact(us[i], eof)
      BY <1>6 DEF Munched, LineExact, OffsetExact
    <2>2. QED
      BY <1>8, <1>9, <2>1, RightOneMore
  <1>11. Placed(Append(us, eof), ptr)
    <2> DEFINE vs == Append(us, eof)
    <2>1. /\ DOMAIN vs = 1 .. n + 1 /\ vs[n + 1] = eof
          /\ \A i \in 1 .. n : vs[i] = us[i]
      BY <1>5, <1>9 DEF OneMore
    <2> HIDE DEF vs, n
    <2>2. \A i \in 1 .. n : tokens[i].from \in 1 .. ptr /\ tokens[i].to \in 0 .. ptr - 1
      BY <1>2, <1>3 DEF Placed
    <2>3. ptr \in 1 .. ptr /\ ptr - 1 \in 0 .. ptr - 1
      BY <1>2
    <2>4. \A i \in 1 .. n + 1 : i \in 1 .. n \/ i = n + 1
      BY <1>3
    <2>5. \A i \in 1 .. n + 1 : vs[i].from \in 1 .. ptr /\ vs[i].to \in 0 .. ptr - 1
      BY <1>4, <1>6, <2>1, <2>2, <2>3, <2>4
    <2>6. QED
      BY <1>9, <2>1, <2>5 DEF Placed, vs
  <1>12. TokensRight(tokens)'
    BY <1>1, <1>10, TokensStay
  <1>13. Placed(tokens, ptr)'
    BY <1>1, <1>11 DEF Placed, Token, Kinds
  <1>14. HasText' /\ Len(text)' = Len(text)
    BY <1>1, <1>2, TextStays
  <1>15. QED
    BY <1>1, <1>12, <1>13, <1>14 DEF IInv

-----------------------------------------------------------------------------
(***************************************************************************)
(* The theorems.                                                           *)
(***************************************************************************)
\* A text about to be lexed satisfies the invariant.
LEMMA InitGood == Init => IInv
  <1>1. SUFFICES ASSUME Init PROVE IInv
    OBVIOUS
  <1>2. /\ text \in Texts /\ ptr = 1 /\ line = 1 /\ offset = 1
        /\ depth = 0 /\ tokens = <<>> /\ status = "lexing"
    BY <1>1 DEF Init, InitWith
  <1>3. HasText
    BY <1>2, AlphabetAssumption DEF HasText
  <1>4. Len(text) \in Nat /\ tokens \in Seq(Token) /\ DOMAIN tokens = {} /\ Len(tokens) = 0
    BY <1>2, <1>3, TextLength
  <1>5. 1 <= Len(text) + 1
    <2> DEFINE n == Len(text)
    <2>1. n \in Nat
      BY <1>4
    <2> HIDE DEF n
    <2>2. 1 <= n + 1
      BY <2>1
    <2>3. QED
      BY <2>2 DEF n
  <1>6. Placed(tokens, 1) /\ Started(1, tokens) /\ OffsetRight(1, 1, tokens)
        /\ TokensRight(tokens) /\ CommentRight(1, 0, tokens)
    BY <1>4 DEF Placed, Started, OffsetRight, TokensRight, CommentRight
  <1>7. AllReturns(1) /\ ~ HashSeen(1)
    BY DEF AllReturns, HashSeen
  <1>8. BeginRight(1, 1, 1, 0, tokens)
    BY <1>4, <1>7 DEF BeginRight
  <1>9. LineRight(1, 1, tokens)
    <2>1. Newlines(1, 1 - 1) \ InStrings(tokens) = {}
      BY DEF Newlines
    <2>2. LineAt(1, InStrings(tokens)) = 1
      BY <1>7, <2>1, FS_EmptySet DEF LineAt
    <2>3. QED
      BY <2>2 DEF LineRight
  <1>10. QED
    BY <1>2, <1>3, <1>5, <1>6, <1>8, <1>9 DEF IInv, Cursor

\* Every step keeps the invariant.
LEMMA NextGood == IInv /\ [Next]_vars => IInv'
  <1>1. SUFFICES ASSUME IInv, [Next]_vars PROVE IInv'
    OBVIOUS
  <1>2. CASE UNCHANGED vars
    <2>1. /\ text' = text /\ ptr' = ptr /\ line' = line /\ offset' = offset
          /\ depth' = depth /\ tokens' = tokens /\ status' = status
      BY <1>2 DEF vars
    <2>2. TokensRight(tokens)' /\ HasText' /\ Len(text)' = Len(text)
      BY <1>1, <2>1, TokensStay, TextStays DEF IInv
    <2>3. Placed(tokens, ptr)'
      BY <1>1, <2>1 DEF IInv, Placed, Token, Kinds
    <2>4. status' = "lexing" => Cursor(ptr, line, offset, depth, tokens)'
      BY <1>1, <2>1, CursorStays DEF IInv
    <2>5. QED
      BY <1>1, <2>1, <2>2, <2>3, <2>4 DEF IInv
  <1>3. CASE SkipHashLine \/ SkipReturn \/ SkipTab \/ SkipNewline \/ SkipSpace \/ SkipLineComment
    BY <1>1, <1>3, KeptByHashLine, KeptByReturn, KeptByTab, KeptByNewline, KeptBySpace,
       KeptByLineComment
  <1>4. CASE OpenComment \/ CommentNewline \/ CommentReturn \/ CommentOpens
              \/ CommentCloses \/ CommentCharacter
    BY <1>1, <1>4, KeptByOpenComment, KeptByCommentNewline, KeptByReturn,
       KeptByCommentOpens, KeptByCommentCloses, KeptByCommentCharacter
  <1>5. CASE DoubleToken \/ SingleToken \/ Word \/ String \/ Number
    BY <1>1, <1>5, KeptByDouble, KeptBySingle, KeptByWord, KeptByString, KeptByNumber
  <1>6. CASE Unexpected
    BY <1>1, <1>6, KeptByError DEF Unexpected
  <1>7. CASE Finish
    BY <1>1, <1>7, KeptByFinish
  <1>8. QED
    BY <1>1, <1>2, <1>3, <1>4, <1>5, <1>6, <1>7 DEF Next

\* The invariant holds throughout.
THEOREM LexingSound == Spec => []IInv
  BY InitGood, NextGood, PTL DEF Spec

\* What TokensRight says is what Inv and MaximalMunch say.
LEMMA TokensAreRight ==
  ASSUME IInv
  PROVE  Inv /\ MaximalMunch
  <1> DEFINE n == Len(tokens)
  <1>1. n \in Nat /\ DOMAIN tokens = 1 .. n /\ TokensRight(tokens)
    BY DEF IInv, Placed
  <1>2. TypeOK
    <2>1. \A i \in DOMAIN tokens :
            /\ tokens[i].kind \in Kinds
            /\ {tokens[i].line, tokens[i].offset} \subseteq Nat
            /\ tokens[i].from \in 1 .. ptr /\ tokens[i].to \in 0 .. ptr - 1
      BY TokenFields DEF IInv, Placed
    <2>2. Len(text) \in Nat
      BY TextLength DEF IInv
    <2>3. ptr \in 1 .. Len(text) + 1
      BY <2>2 DEF IInv
    <2>4. QED
      BY <2>1, <2>3 DEF IInv, HasText, TypeOK
  <1>3. LinesCounted
    BY <1>1 DEF TokensRight, LineExact, StringsBefore, LinesCounted
  <1>4. OffsetsAgree
    BY <1>1 DEF TokensRight, OffsetExact, Plain, First, OffsetsAgree
  <1>5. MaximalMunch
    <2> HIDE DEF n
    <2>1. \A i \in 1 .. n - 1 : i \in 1 .. n
      BY <1>1
    <2>2. QED
      BY <1>1, <2>1 DEF TokensRight, Munched, MaximalMunch, n
  <1>6. QED
    BY <1>2, <1>3, <1>4, <1>5 DEF Inv

\* Every token is a piece of the text with the right line, and its offset
\* agrees with those of the tokens on its line.
THEOREM PlacesExact == Spec => []Inv
  BY LexingSound, TokensAreRight, PTL

\* No token could have been longer.
THEOREM TokensMaximal == Spec => []MaximalMunch
  BY LexingSound, TokensAreRight, PTL
=============================================================================
