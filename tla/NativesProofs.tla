--------------------------- MODULE NativesProofs ---------------------------
(***************************************************************************)
(* Proofs about Natives, for buffers of any size and any arguments: input  *)
(* returns the lines of stdin, format what it was asked for, and str2num   *)
(* reads back what num2str wrote to half a millionth.                      *)
(***************************************************************************)
EXTENDS Natives, Induction

-----------------------------------------------------------------------------
(***************************************************************************)
(* Lines.                                                                  *)
(***************************************************************************)
Below(e) == {f \in LineEnds : f < e}

\* The n-th end of a line, from 0, is e.
IsEnd(n, e) == e \in LineEnds /\ Cardinality(Below(e)) = n

\* There are finitely many ends, all of them positions.
LEMMA EndsFinite ==
  ASSUME typed \in Text
  PROVE  /\ LineEnds \subseteq 0..Len(typed) /\ LineEnds \subseteq Nat /\ IsFiniteSet(LineEnds)
         /\ Cardinality(LineEnds) \in Nat
         /\ \A e : IsFiniteSet(Below(e)) /\ Cardinality(Below(e)) \in Nat
                   /\ Cardinality(Below(e)) <= Cardinality(LineEnds)
  <1>1. Len(typed) \in Nat /\ DOMAIN typed = 1..Len(typed)
    BY DEF Text
  <1>2. LineEnds \subseteq 0..Len(typed)
    BY <1>1 DEF LineEnds
  <1>3. IsFiniteSet(0..Len(typed))
    BY <1>1, FS_Interval
  <1>4. IsFiniteSet(LineEnds)
    BY <1>2, <1>3, FS_Subset
  <1>5. Cardinality(LineEnds) \in Nat
    BY <1>4, FS_CardinalityType
  <1>6. ASSUME NEW e
        PROVE  IsFiniteSet(Below(e)) /\ Cardinality(Below(e)) \in Nat
               /\ Cardinality(Below(e)) <= Cardinality(LineEnds)
    <2>1. Below(e) \in SUBSET LineEnds
      BY DEF Below
    <2>2. QED
      BY <1>4, <2>1, FS_Subset, FS_CardinalityType
  <1>7. 0..Len(typed) \subseteq Nat
    BY <1>1
  <1>8. QED
    BY <1>2, <1>4, <1>5, <1>6, <1>7

\* What comes after an end and before the next is counted once.
LEMMA OneMoreEnd ==
  ASSUME typed \in Text, NEW n \in Nat, NEW d, IsEnd(n, d),
         NEW U, U = Below(d) \cup {d}
  PROVE  IsFiniteSet(U) /\ Cardinality(U) = n + 1
  <1>1. IsFiniteSet(Below(d)) /\ d \notin Below(d)
    <2>1. d \in Nat
      BY EndsFinite DEF IsEnd
    <2>2. d \notin Below(d)
      BY <2>1 DEF Below
    <2>3. QED
      BY <2>2, EndsFinite
  <1>2. QED
    BY <1>1, FS_AddElement DEF IsEnd

\* The ends of lines are in order.
LEMMA EndsOrdered ==
  ASSUME typed \in Text, NEW n \in Nat, NEW m \in Nat, NEW d, NEW e, IsEnd(n, d), IsEnd(m, e), d < e
  PROVE  n < m
  <1>1. d \in Nat /\ e \in Nat
    BY EndsFinite DEF IsEnd
  <1>2. Below(d) \cup {d} \subseteq Below(e)
    <2>1. ASSUME NEW f \in LineEnds, f < d PROVE f < e
      <3>1. f \in Nat
        BY EndsFinite
      <3>2. QED
        BY <1>1, <2>1, <3>1
    <2>2. QED
      BY <2>1 DEF Below, IsEnd
  <1> DEFINE U == Below(d) \cup {d}
  <1>3. IsFiniteSet(U) /\ Cardinality(U) = n + 1
    <2>1. U = Below(d) \cup {d}
      OBVIOUS
    <2> HIDE DEF U
    <2>2. QED
      BY <2>1, OneMoreEnd
  <1>4. U \in SUBSET Below(e) /\ IsFiniteSet(Below(e)) /\ Cardinality(Below(e)) = m
    BY <1>2, EndsFinite DEF IsEnd
  <1> HIDE DEF U
  <1>5. Cardinality(U) <= Cardinality(Below(e))
    BY <1>4, FS_Subset
  <1>6. QED
    BY <1>3, <1>4, <1>5

\* There is one n-th end, which End finds.
LEMMA EndIs ==
  ASSUME typed \in Text, NEW n \in Nat, NEW e, IsEnd(n, e)
  PROVE  End(n) = e
  <1> DEFINE Q(x) == Cardinality({f \in LineEnds : f < x}) = n
  <1>1. e \in LineEnds /\ Q(e)
    BY DEF IsEnd, Below
  <1>2. End(n) \in LineEnds /\ Q(End(n))
    BY <1>1 DEF End
  <1>3. IsEnd(n, End(n))
    BY <1>2 DEF IsEnd, Below
  <1>4. e \in Nat /\ End(n) \in Nat
    BY <1>1, <1>2, EndsFinite
  <1>5. ~(e < End(n)) /\ ~(End(n) < e)
    BY <1>3, EndsOrdered
  <1>6. QED
    BY <1>4, <1>5

\* The next end after the n-th is the one after which there is no nearer one.
LEMMA NextEnd ==
  ASSUME typed \in Text, NEW n \in Nat, NEW d, IsEnd(n, d),
         NEW e \in LineEnds, d < e, \A f \in LineEnds : ~(d < f /\ f < e)
  PROVE  IsEnd(n + 1, e) /\ n + 1 < Cardinality(LineEnds)
  <1>1. d \in Nat /\ e \in Nat /\ LineEnds \subseteq Nat
    BY EndsFinite DEF IsEnd
  <1>2. Below(e) = Below(d) \cup {d}
    <2>1. ASSUME NEW f \in LineEnds PROVE f < e <=> f < d \/ f = d
      <3>1. f \in Nat /\ ~(d < f /\ f < e)
        BY <1>1
      <3>2. QED
        BY <1>1, <3>1
    <2>2. QED
      BY <2>1 DEF Below, IsEnd
  <1>3. Cardinality(Below(e)) = n + 1 /\ IsFiniteSet(Below(e))
    BY <1>2, OneMoreEnd
  <1>4. Below(e) \cup {e} \subseteq LineEnds
    BY DEF Below
  <1>5. e \notin Below(e)
    BY <1>1 DEF Below
  <1> DEFINE U == Below(e) \cup {e}
  <1>6. Cardinality(U) = n + 2 /\ IsFiniteSet(U)
    BY <1>3, <1>5, FS_AddElement
  <1>7. U \in SUBSET LineEnds
    BY <1>4
  <1> HIDE DEF U
  <1>8. Cardinality(U) <= Cardinality(LineEnds)
    BY <1>7, EndsFinite, FS_Subset
  <1>9. QED
    BY <1>3, <1>6, <1>8, EndsFinite DEF IsEnd

\* While there are more ends than n + 1 there is one after the n-th.
LEMMA MoreEnds ==
  ASSUME typed \in Text, NEW n \in Nat, NEW d, IsEnd(n, d), n + 1 < Cardinality(LineEnds)
  PROVE  \E e \in LineEnds : d < e /\ IsEnd(n + 1, e)
  <1> DEFINE A == {f \in LineEnds : d < f}
  <1>1. d \in Nat /\ LineEnds \subseteq Nat
    BY EndsFinite DEF IsEnd
  <1>2. A # {}
    <2>1. SUFFICES ASSUME A = {} PROVE FALSE
      OBVIOUS
    <2>2. LineEnds = Below(d) \cup {d}
      <3>1. ASSUME NEW f \in LineEnds PROVE f < d \/ f = d
        <4>1. f \in Nat /\ ~(d < f)
          BY <1>1, <2>1
        <4>2. QED
          BY <1>1, <4>1
      <3>2. QED
        BY <3>1 DEF Below, IsEnd
    <2>3. Cardinality(LineEnds) = n + 1
      BY <2>2, OneMoreEnd
    <2>4. QED
      BY <2>3
  <1>3. PICK e \in A : \A f \in A : e <= f
    <2>1. A \in SUBSET Nat
      BY <1>1
    <2> HIDE DEF A
    <2>2. QED
      BY <1>2, <2>1, LeastElement
  <1>4. e \in LineEnds /\ d < e /\ \A f \in LineEnds : ~(d < f /\ f < e)
    BY <1>1, <1>3
  <1> HIDE DEF A
  <1>5. QED
    BY <1>4, NextEnd

-----------------------------------------------------------------------------
(***************************************************************************)
(* What input has read.                                                    *)
(***************************************************************************)
\* How many characters of stdin have been read.
Pos == Len(typed) - Len(stdin)

IOType ==
  /\ typed \in Text /\ stdin \in Text /\ lines \in Seq(Text)
  /\ Len(stdin) <= Len(typed)
  /\ \A i \in 1..Len(stdin) : stdin[i] = typed[Pos + i]

\* InputGivesLines claims nothing any more: a line did not fit, or the last one
\* is not ended.
Broken == \/ Len(lines) >= Cardinality(LineEnds)
          \/ \E i \in 1..Len(lines) : ~(Len(Line(i)) < BufferSize)

\* Between two calls the position is after a newline; during a call the buffer
\* has what comes after that newline, until the end of stdin.
LinesRead ==
  \E d : /\ IsEnd(Len(lines), d)
         /\ lines = [i \in 1..Len(lines) |-> Line(i)]
         /\ status = "running" /\ ~Reading => Pos = d
         /\ Reading => /\ d <= Pos
                       /\ \A k \in d + 1..Pos : typed[k] # Newline
                       /\ stdin # <<>> => buffer = SubSeq(typed, d + 1, Pos)

LinesSoFar == Return \notin ToSet(typed) => Broken \/ LinesRead

\* Everything about the lines that were typed stays.
LEMMA TypedStays ==
  ASSUME typed' = typed
  PROVE  /\ LineEnds' = LineEnds
         /\ \A n : Line(n)' = Line(n)
         /\ \A n, e : IsEnd(n, e)' <=> IsEnd(n, e)
  BY DEF LineEnds, Line, End, IsEnd, Below

\* Dropping a character moves the position on by one.
LEMMA OneDropped ==
  ASSUME NEW u \in Text, u # <<>>, NEW p \in Int, NEW t, \A i \in 1..Len(u) : u[i] = t[p + i]
  PROVE  /\ Tail(u) \in Text /\ Len(Tail(u)) = Len(u) - 1 /\ Len(u) \in Nat \ {0}
         /\ Head(u) = u[1] /\ u[1] = t[p + 1] /\ u[1] \in Characters
         /\ \A i \in 1..Len(Tail(u)) : Tail(u)[i] = u[i + 1] /\ Tail(u)[i] = t[(p + 1) + i]
  <1>1. /\ Tail(u) \in Text /\ Len(u) \in Nat \ {0} /\ Len(Tail(u)) = Len(u) - 1 /\ Head(u) = u[1]
        /\ \A i \in 1..Len(Tail(u)) : Tail(u)[i] = u[i + 1]
    BY DEF Text
  <1>2. u[1] = t[p + 1] /\ u[1] \in Characters
    <2>1. 1 \in 1..Len(u)
      BY <1>1
    <2>2. QED
      BY <2>1 DEF Text
  <1>3. ASSUME NEW i \in 1..Len(Tail(u)) PROVE u[i + 1] = t[(p + 1) + i]
    <2>1. i + 1 \in 1..Len(u) /\ (p + 1) + i = p + (i + 1)
      BY <1>1
    <2>2. QED
      BY <2>1
  <1>4. QED
    BY <1>1, <1>2, <1>3

\* Reading moves one position on, but for the end of stdin; without carriage
\* returns it gives the character there.
LEMMA ConsumeEffect ==
  ASSUME IOType, Consume, typed' = typed, lines' \in Seq(Text)
  PROVE  /\ IOType' /\ Pos \in 0..Len(typed) /\ Len(typed) \in Nat
         /\ stdin = <<>> => stdin' = <<>> /\ Pos' = Pos /\ Pos = Len(typed)
         /\ stdin # <<>> /\ Return \notin ToSet(typed) =>
              /\ Pos' = Pos + 1 /\ Pos + 1 \in 1..Len(typed)
              /\ NextChar = typed[Pos + 1] /\ typed[Pos + 1] \in Characters
  <1>1. Len(typed) \in Nat /\ Len(stdin) \in Nat /\ DOMAIN typed = 1..Len(typed) /\ Pos \in 0..Len(typed)
    BY DEF IOType, Text, Pos
  <1>2. CASE stdin = <<>>
    <2>1. stdin' = stdin /\ Len(stdin) = 0
      BY <1>2 DEF Consume
    <2>2. IOType'
      BY <2>1 DEF IOType, Pos
    <2>3. QED
      BY <1>1, <1>2, <2>1, <2>2 DEF Pos, IOType
  <1>3. CASE stdin # <<>>
    <2> DEFINE v == Tail(stdin)
    <2>1. /\ v \in Text /\ Len(v) = Len(stdin) - 1 /\ Len(stdin) \in Nat \ {0}
          /\ Head(stdin) = stdin[1] /\ stdin[1] = typed[Pos + 1] /\ stdin[1] \in Characters
          /\ \A i \in 1..Len(v) : v[i] = stdin[i + 1] /\ v[i] = typed[(Pos + 1) + i]
      <3>1. stdin \in Text /\ \A i \in 1..Len(stdin) : stdin[i] = typed[Pos + i]
        BY DEF IOType
      <3>2. QED
        BY <1>1, <1>3, <3>1, OneDropped
    <2> HIDE DEF v
    <2>2. Pos + 1 \in 1..Len(typed)
      BY <1>1, <2>1 DEF Pos, IOType
    <2>3. CASE stdin' = v
      <3>1. Pos' = Pos + 1
        <4>1. Len(stdin') = Len(stdin) - 1 /\ Len(stdin) \in Int /\ Len(typed') = Len(typed)
          BY <2>1, <2>3
        <4>2. QED
          BY <1>1, <4>1 DEF Pos
      <3>2. Len(stdin') <= Len(typed)
        BY <1>1, <2>1, <2>3 DEF IOType
      <3>3. \A i \in 1..Len(stdin') : stdin'[i] = typed'[Pos' + i]
        BY <2>1, <2>3, <3>1
      <3>4. IOType'
        BY <2>1, <2>3, <3>2, <3>3 DEF IOType
      <3>5. Return \notin ToSet(typed) => NextChar = typed[Pos + 1]
        <4>1. SUFFICES ASSUME Return \notin ToSet(typed) PROVE NextChar = typed[Pos + 1]
          OBVIOUS
        <4>2. stdin[1] # Return
          BY <1>1, <2>1, <2>2, <4>1 DEF ToSet
        <4>3. QED
          BY <1>3, <2>1, <4>2 DEF NextChar, LineEndAhead
      <3>6. QED
        BY <1>1, <1>3, <2>1, <2>2, <3>1, <3>4, <3>5
    <2>4. CASE LineEndAhead /\ stdin' = Tail(v)
      <3>1. Len(stdin) >= 2 /\ stdin[1] = Return
        BY <2>4 DEF LineEndAhead
      <3>2. v # <<>>
        BY <2>1, <3>1
      <3>3. /\ Tail(v) \in Text /\ Len(Tail(v)) = Len(v) - 1 /\ Len(v) \in Nat
            /\ \A i \in 1..Len(Tail(v)) : Tail(v)[i] = typed[((Pos + 1) + 1) + i]
        <4>1. PICK q : q = Pos + 1
          OBVIOUS
        <4>2. q \in Int /\ \A i \in 1..Len(v) : v[i] = typed[q + i]
          BY <1>1, <2>1, <4>1
        <4>3. /\ Tail(v) \in Text /\ Len(Tail(v)) = Len(v) - 1 /\ Len(v) \in Nat
              /\ \A i \in 1..Len(Tail(v)) : Tail(v)[i] = typed[(q + 1) + i]
          BY <2>1, <3>2, <4>2, OneDropped
        <4>4. QED
          BY <4>1, <4>3
      <3>4. Pos' = (Pos + 1) + 1
        <4>1. Len(stdin') = Len(stdin) - 2 /\ Len(stdin) \in Int /\ Len(typed') = Len(typed)
          BY <2>1, <2>4, <3>3
        <4>2. QED
          BY <1>1, <4>1 DEF Pos
      <3>5. Len(stdin') <= Len(typed)
        BY <1>1, <2>1, <2>4, <3>3 DEF IOType
      <3>6. \A i \in 1..Len(stdin') : stdin'[i] = typed'[Pos' + i]
        BY <2>4, <3>3, <3>4
      <3>7. IOType'
        BY <2>4, <3>3, <3>5, <3>6 DEF IOType
      <3>8. Return \in ToSet(typed)
        BY <1>1, <2>1, <2>2, <3>1 DEF ToSet
      <3>9. QED
        BY <1>1, <1>3, <3>7, <3>8
    <2>5. QED
      BY <1>3, <2>3, <2>4 DEF Consume, v
  <1>4. QED
    BY <1>2, <1>3

\* A claim that is lost stays lost.
LEMMA BrokenStays ==
  ASSUME IOType, typed' = typed, Broken, lines' = lines \/ \E t : lines' = Append(lines, t)
  PROVE  Broken'
  <1>1. Len(lines) \in Nat /\ Cardinality(LineEnds) \in Nat
    BY EndsFinite DEF IOType
  <1>2. Len(lines') \in Nat /\ Len(lines) <= Len(lines')
    BY <1>1 DEF IOType
  <1>3. LineEnds' = LineEnds /\ \A n : Line(n)' = Line(n)
    BY TypedStays
  <1>4. CASE Len(lines) >= Cardinality(LineEnds)
    BY <1>1, <1>2, <1>3, <1>4 DEF Broken
  <1>5. CASE \E i \in 1..Len(lines) : ~(Len(Line(i)) < BufferSize)
    <2>1. PICK i \in 1..Len(lines) : ~(Len(Line(i)) < BufferSize)
      BY <1>5
    <2>2. i \in 1..Len(lines')
      BY <1>1, <1>2
    <2>3. ~(Len(Line(i)') < BufferSize)
      BY <1>3, <2>1
    <2>4. QED
      BY <2>2, <2>3 DEF Broken
  <1>6. QED
    BY <1>4, <1>5 DEF Broken

\* The last line returned is the next of stdin.
LEMMA OneMoreLine ==
  ASSUME IOType, typed' = typed, NEW t \in Text, lines' = Append(lines, t),
         lines = [i \in 1..Len(lines) |-> Line(i)], t = Line(Len(lines) + 1)
  PROVE  /\ Len(lines') = Len(lines) + 1 /\ Len(lines) \in Nat
         /\ lines' = [i \in 1..Len(lines') |-> Line(i)']
  <1>1. Len(lines) \in Nat /\ Len(lines') = Len(lines) + 1 /\ lines' \in Seq(Text)
    BY DEF IOType
  <1>2. \A n : Line(n)' = Line(n)
    BY TypedStays
  <1>3. ASSUME NEW i \in 1..Len(lines') PROVE lines'[i] = Line(i)
    <2>1. CASE i = Len(lines) + 1
      BY <1>1, <2>1
    <2>2. CASE i # Len(lines) + 1
      <3>1. i \in 1..Len(lines)
        BY <1>1, <2>2
      <3>2. lines'[i] = lines[i]
        BY <1>1, <3>1 DEF IOType
      <3>3. QED
        BY <3>1, <3>2
    <2>3. QED
      BY <2>1, <2>2
  <1>4. lines' = [i \in 1..Len(lines') |-> lines'[i]]
    BY <1>1
  <1>5. QED
    BY <1>1, <1>2, <1>3, <1>4

\* Natives that read nothing leave all this as it is.
LEMMA QuietLines ==
  ASSUME IOType, LinesSoFar, UNCHANGED <<stdin, typed, lines>>, ~Reading, ~Reading',
         status' = "running" => status = "running"
  PROVE  IOType' /\ LinesSoFar'
  <1>1. IOType' /\ Pos' = Pos /\ (Return \notin ToSet(typed))' = (Return \notin ToSet(typed))
    BY DEF IOType, Pos, ToSet
  <1>2. ASSUME LinesRead PROVE LinesRead'
    <2>1. PICK d : /\ IsEnd(Len(lines), d)
                   /\ lines = [i \in 1..Len(lines) |-> Line(i)]
                   /\ status = "running" /\ ~Reading => Pos = d
      BY <1>2 DEF LinesRead
    <2>2. IsEnd(Len(lines), d)' /\ lines' = [i \in 1..Len(lines') |-> Line(i)']
      BY <2>1, TypedStays
    <2>3. status' = "running" /\ ~Reading' => Pos' = d
      BY <1>1, <2>1
    <2>4. QED
      BY <2>2, <2>3 DEF LinesRead
  <1>3. Broken => Broken'
    BY BrokenStays
  <1>4. QED
    BY <1>1, <1>2, <1>3 DEF LinesSoFar

\* A call of input begins where the last one ended.
LEMMA InputLines ==
  ASSUME IOType, LinesSoFar, Idle, NEW f \in {"input", "input_hidden"}, NEW a, input(f, a)
  PROVE  IOType' /\ LinesSoFar'
  <1>1. UNCHANGED <<stdin, typed, lines, status>> /\ status = "running" /\ ~Reading /\ buffer' = <<>>
    BY DEF input, Idle, history, Reading
  <1>2. IOType' /\ Pos' = Pos /\ (Return \notin ToSet(typed))' = (Return \notin ToSet(typed))
    BY <1>1 DEF IOType, Pos, ToSet
  <1>3. ASSUME LinesRead PROVE LinesRead'
    <2>1. PICK d : /\ IsEnd(Len(lines), d)
                   /\ lines = [i \in 1..Len(lines) |-> Line(i)]
                   /\ status = "running" /\ ~Reading => Pos = d
      BY <1>3 DEF LinesRead
    <2>2. IsEnd(Len(lines), d)' /\ lines' = [i \in 1..Len(lines') |-> Line(i)']
      BY <1>1, <2>1, TypedStays
    <2>3. Pos' = d /\ d \in Nat
      BY <1>1, <1>2, <2>1, EndsFinite DEF IsEnd, IOType
    <2>4. SubSeq(typed', d + 1, Pos') = <<>> /\ d + 1..Pos' = {}
      BY <1>2, <2>3 DEF IOType, Text
    <2>5. Reading'
      BY <1>1 DEF input, Reading
    <2>6. QED
      BY <1>1, <2>2, <2>3, <2>4, <2>5 DEF LinesRead
  <1>4. Broken => Broken'
    BY <1>1, BrokenStays
  <1>5. QED
    BY <1>2, <1>3, <1>4 DEF LinesSoFar

\* A character read is the next one of the line, or the end of stdin.
LEMMA StoreLines ==
  ASSUME IOType, LinesSoFar, InputStore
  PROVE  IOType' /\ LinesSoFar'
  <1>1. /\ UNCHANGED <<typed, lines, status, native, active>> /\ Reading /\ Reading' /\ Consume
        /\ NextChar # Newline /\ buffer' = Append(buffer, NextChar)
    BY DEF InputStore, history, Reading
  <1>2. /\ IOType' /\ Pos \in 0..Len(typed) /\ Len(typed) \in Nat
        /\ stdin = <<>> => stdin' = <<>> /\ Pos' = Pos /\ Pos = Len(typed)
        /\ stdin # <<>> /\ Return \notin ToSet(typed) =>
             /\ Pos' = Pos + 1 /\ Pos + 1 \in 1..Len(typed)
             /\ NextChar = typed[Pos + 1] /\ typed[Pos + 1] \in Characters
    <2>1. lines' \in Seq(Text)
      BY <1>1 DEF IOType
    <2>2. QED
      BY <1>1, <2>1, ConsumeEffect
  <1>3. (Return \notin ToSet(typed))' = (Return \notin ToSet(typed))
    BY <1>1
  <1>4. ASSUME LinesRead, Return \notin ToSet(typed) PROVE LinesRead'
    <2>1. PICK d : /\ IsEnd(Len(lines), d)
                   /\ lines = [i \in 1..Len(lines) |-> Line(i)]
                   /\ d <= Pos /\ \A k \in d + 1..Pos : typed[k] # Newline
                   /\ stdin # <<>> => buffer = SubSeq(typed, d + 1, Pos)
      BY <1>1, <1>4 DEF LinesRead
    <2>2. IsEnd(Len(lines), d)' /\ lines' = [i \in 1..Len(lines') |-> Line(i)']
      BY <1>1, <2>1, TypedStays
    <2>3. d \in Nat
      BY <2>1, EndsFinite DEF IsEnd, IOType
    <2>4. CASE stdin = <<>>
      <3>1. stdin' = <<>> /\ Pos' = Pos
        BY <1>2, <2>4
      <3>2. QED
        BY <1>1, <2>1, <2>2, <3>1 DEF LinesRead
    <2>5. CASE stdin # <<>>
      <3>1. Pos' = Pos + 1 /\ Pos + 1 \in 1..Len(typed)
        BY <1>2, <1>4, <2>5
      <3>2. NextChar = typed[Pos + 1]
        BY <1>2, <1>4, <2>5
      <3>3. d <= Pos' /\ \A k \in d + 1..Pos' : typed[k] # Newline
        <4>1. ASSUME NEW k \in d + 1..Pos' PROVE typed[k] # Newline
          <5>1. k \in d + 1..Pos \/ k = Pos + 1
            BY <1>2, <2>3, <3>1
          <5>2. QED
            BY <1>1, <2>1, <3>2, <5>1
        <4>2. QED
          BY <1>2, <2>1, <2>3, <3>1, <4>1
      <3>4. buffer' = SubSeq(typed, d + 1, Pos')
        <4>1. buffer' = Append(SubSeq(typed, d + 1, Pos), typed[Pos + 1])
          BY <1>1, <2>1, <2>5, <3>2
        <4>2. Append(SubSeq(typed, d + 1, Pos), typed[Pos + 1]) = SubSeq(typed, d + 1, Pos + 1)
          BY <1>2, <2>1, <2>3, <3>1 DEF IOType, Text
        <4>3. QED
          BY <3>1, <4>1, <4>2
      <3>5. QED
        BY <1>1, <2>2, <3>3, <3>4 DEF LinesRead
    <2>6. QED
      BY <2>4, <2>5
  <1>5. Broken => Broken'
    BY <1>1, BrokenStays
  <1>6. QED
    BY <1>2, <1>3, <1>4, <1>5 DEF LinesSoFar

\* A NUL ends everything.
LEMMA NulLines ==
  ASSUME IOType, LinesSoFar, InputNul
  PROVE  IOType' /\ LinesSoFar'
  <1>1. UNCHANGED <<typed, lines>> /\ Reading /\ status' = "undefined" /\ ~Reading'
    BY DEF InputNul, history, Reading
  <1>2. IOType'
    <2>1. lines' \in Seq(Text)
      BY <1>1 DEF IOType
    <2>2. CASE Consume
      BY <1>1, <2>1, <2>2, ConsumeEffect
    <2>3. CASE stdin' = stdin
      BY <1>1, <2>1, <2>3 DEF IOType, Pos
    <2>4. QED
      BY <2>2, <2>3 DEF InputNul
  <1>3. ASSUME LinesRead PROVE LinesRead'
    <2>1. PICK d : IsEnd(Len(lines), d) /\ lines = [i \in 1..Len(lines) |-> Line(i)]
      BY <1>3 DEF LinesRead
    <2>2. IsEnd(Len(lines), d)' /\ lines' = [i \in 1..Len(lines') |-> Line(i)']
      BY <1>1, <2>1, TypedStays
    <2>3. QED
      BY <1>1, <2>2 DEF LinesRead
  <1>4. Broken => Broken'
    BY <1>1, BrokenStays
  <1>5. QED
    BY <1>1, <1>2, <1>3, <1>4 DEF LinesSoFar

\* The position is where the content of input's buffer ends.
BufferRight ==
  /\ buffer \in Text /\ offset \in Nat
  /\ Reading => offset = Len(buffer) /\ offset <= BufferSize

\* A newline ends the call: the line is the next one of stdin.
LEMMA LineLines ==
  ASSUME IOType, BufferRight, LinesSoFar, InputLine
  PROVE  IOType' /\ LinesSoFar'
  <1> DEFINE t == SubSeq(buffer, 1, offset)
  <1>1. /\ UNCHANGED <<typed, status, native>> /\ Reading /\ ~Reading' /\ Consume
        /\ NextChar = Newline /\ lines' = Append(lines, t)
    BY DEF InputLine, InputReturns, Reading
  <1>2. t = buffer /\ t \in Text
    BY <1>1 DEF BufferRight, Text
  <1> HIDE DEF t
  <1>3. stdin # <<>>
    BY <1>1 DEF NextChar, EOF, NUL, Newline
  <1>4. /\ IOType' /\ Pos \in 0..Len(typed) /\ Len(typed) \in Nat
        /\ Return \notin ToSet(typed) =>
             Pos' = Pos + 1 /\ Pos + 1 \in 1..Len(typed) /\ NextChar = typed[Pos + 1]
    <2>1. lines' \in Seq(Text)
      BY <1>1, <1>2 DEF IOType
    <2>2. QED
      BY <1>1, <1>3, <2>1, ConsumeEffect
  <1>5. (Return \notin ToSet(typed))' = (Return \notin ToSet(typed))
    BY <1>1
  <1>6. ASSUME LinesRead, Return \notin ToSet(typed) PROVE LinesRead'
    <2>0. PICK n, e : n = Len(lines) /\ e = Pos + 1
      OBVIOUS
    <2>1. PICK d : /\ IsEnd(n, d)
                   /\ lines = [i \in 1..n |-> Line(i)]
                   /\ d <= Pos /\ \A k \in d + 1..Pos : typed[k] # Newline
                   /\ buffer = SubSeq(typed, d + 1, Pos)
      BY <1>1, <1>3, <1>6, <2>0 DEF LinesRead
    <2>2. n \in Nat /\ d \in Nat /\ d \in LineEnds
      BY <2>0, <2>1, EndsFinite DEF IsEnd, IOType
    <2>3. typed[e] = Newline
      BY <1>1, <1>4, <1>6, <2>0
    <2>4. e \in LineEnds /\ d < e
      BY <1>4, <1>6, <2>0, <2>1, <2>2, <2>3 DEF LineEnds, IOType, Text
    <2>5. ASSUME NEW f \in LineEnds, d < f, f < e PROVE FALSE
      <3>1. f \in Nat /\ f \in d + 1..Pos
        BY <1>4, <2>0, <2>2, <2>5, EndsFinite DEF IOType
      <3>2. typed[f] = Newline
        BY <2>2, <2>5, <3>1 DEF LineEnds
      <3>3. QED
        BY <2>1, <3>1, <3>2
    <2>6. IsEnd(n + 1, e)
      BY <2>1, <2>2, <2>4, <2>5, NextEnd DEF IOType
    <2>7. End(n) = d /\ End(n + 1) = e
      BY <2>1, <2>2, <2>6, EndIs DEF IOType
    <2>8. Line(n + 1) = SubSeq(typed, d + 1, Pos)
      <3>1. (n + 1) - 1 = n /\ e - 1 = Pos
        BY <1>4, <2>0, <2>2
      <3>2. QED
        BY <2>7, <3>1 DEF Line
    <2>9. t = Line(n + 1)
      BY <1>2, <2>1, <2>8
    <2>10. Len(lines') = n + 1 /\ lines' = [i \in 1..Len(lines') |-> Line(i)']
      BY <1>1, <1>2, <2>0, <2>1, <2>9, OneMoreLine
    <2>11. IsEnd(n + 1, e)'
      BY <1>1, <2>6, TypedStays
    <2>12. IsEnd(Len(lines), e)'
      BY <2>10, <2>11 DEF IsEnd, Below
    <2>13. Pos' = e
      BY <1>4, <1>6, <2>0
    <2>14. QED
      BY <1>1, <2>10, <2>12, <2>13 DEF LinesRead
  <1>7. Broken => Broken'
    BY <1>1, BrokenStays
  <1>8. QED
    BY <1>4, <1>5, <1>6, <1>7 DEF LinesSoFar

\* A full buffer ends the call: the line had no room for its NUL.
LEMMA FullLines ==
  ASSUME IOType, BufferRight, LinesSoFar, InputFull
  PROVE  IOType' /\ LinesSoFar'
  <1> DEFINE t == SubSeq(buffer, 1, offset - 1)
  <1>1. /\ UNCHANGED <<typed, status, native>> /\ Reading /\ ~Reading' /\ Consume
        /\ offset = BufferSize /\ lines' = Append(lines, t)
    BY DEF InputFull, InputReturns, Reading, Full
  <1>2. t \in Text /\ Len(buffer) = BufferSize /\ BufferSize \in Nat
    BY <1>1, SizeAssumption DEF BufferRight, Text
  <1> HIDE DEF t
  <1>3. IOType' /\ Pos \in 0..Len(typed) /\ Len(typed) \in Nat /\ (stdin = <<>> => Pos = Len(typed))
    <2>1. lines' \in Seq(Text)
      BY <1>1, <1>2 DEF IOType
    <2>2. QED
      BY <1>1, <2>1, ConsumeEffect
  <1>4. (Return \notin ToSet(typed))' = (Return \notin ToSet(typed))
    BY <1>1
  <1>5. ASSUME LinesRead PROVE Broken'
    <2>0. PICK n : n = Len(lines)
      OBVIOUS
    <2>1. PICK d : /\ IsEnd(n, d)
                   /\ d <= Pos /\ \A k \in d + 1..Pos : typed[k] # Newline
                   /\ stdin # <<>> => buffer = SubSeq(typed, d + 1, Pos)
      BY <1>1, <1>5, <2>0 DEF LinesRead
    <2>2. n \in Nat /\ d \in Nat /\ Cardinality(LineEnds) \in Nat
      BY <2>0, <2>1, EndsFinite DEF IsEnd, IOType
    <2>3. Len(lines') = n + 1
      BY <1>1, <1>2, <2>0, <2>2 DEF IOType
    <2>4. LineEnds' = LineEnds /\ \A i : Line(i)' = Line(i)
      BY <1>1, TypedStays
    <2>5. CASE ~(n + 1 < Cardinality(LineEnds))
      <3>1. n + 1 >= Cardinality(LineEnds)
        BY <2>2, <2>5
      <3>2. QED
        BY <2>3, <2>4, <3>1 DEF Broken
    <2>6. CASE n + 1 < Cardinality(LineEnds)
      <3>1. PICK e \in LineEnds : d < e /\ IsEnd(n + 1, e)
        BY <2>1, <2>2, <2>6, MoreEnds DEF IOType
      <3>2. e \in 1..Len(typed) /\ typed[e] = Newline
        BY <1>3, <2>2, <3>1 DEF LineEnds, IOType, Text
      <3>3. Pos < e
        <4>1. e \notin d + 1..Pos
          BY <2>1, <3>2
        <4>2. QED
          BY <1>3, <2>2, <3>1, <3>2, <4>1
      <3>4. stdin # <<>>
        BY <1>3, <3>2, <3>3
      <3>5. Len(buffer) = Pos - d
        BY <1>3, <2>1, <2>2, <3>4 DEF IOType, Text
      <3>6. End(n) = d /\ End(n + 1) = e
        BY <2>1, <2>2, <3>1, EndIs DEF IOType
      <3>7. Line(n + 1) = SubSeq(typed, d + 1, e - 1)
        <4>1. (n + 1) - 1 = n
          BY <2>2
        <4>2. QED
          BY <3>6, <4>1 DEF Line
      <3>8. Len(Line(n + 1)) = e - 1 - d
        <4>1. typed \in Seq(Characters) /\ d + 1 \in Nat /\ e - 1 \in Nat /\ d + 1 >= 1
              /\ e - 1 <= Len(typed) /\ (e - 1) - (d + 1) + 1 = e - 1 - d /\ e - 1 - d >= 0
          BY <1>3, <2>2, <3>1, <3>2 DEF IOType, Text
        <4> DEFINE x == d + 1
                   y == e - 1
        <4>2. Len(SubSeq(typed, x, y)) = IF x <= y THEN y - x + 1 ELSE 0
          <5>1. typed \in Seq(Characters) /\ x \in Int /\ y \in Int
            BY <4>1
          <5> HIDE DEF x, y
          <5>2. QED
            BY <5>1
        <4>3. QED
          BY <2>2, <3>2, <3>7, <4>1, <4>2
      <3>9. ~(Len(Line(n + 1)) < BufferSize)
        BY <1>2, <1>3, <2>2, <3>2, <3>3, <3>5, <3>8
      <3>10. n + 1 \in 1..Len(lines')
        BY <2>2, <2>3
      <3>11. ~(Len(Line(n + 1)') < BufferSize)
        BY <2>4, <3>9
      <3>12. QED
        BY <3>10, <3>11 DEF Broken
    <2>7. QED
      BY <2>5, <2>6
  <1>6. Broken => Broken'
    BY <1>1, BrokenStays
  <1>7. QED
    BY <1>3, <1>4, <1>5, <1>6 DEF LinesSoFar

\* The claim of InputGivesLines follows.
LEMMA LinesGiven == IOType /\ LinesSoFar => InputGivesLines
  <1>1. ASSUME IOType, LinesSoFar, Len(lines) < Cardinality(LineEnds),
               \A i \in 1..Len(lines) : Len(Line(i)) < BufferSize, Return \notin ToSet(typed)
        PROVE  lines = [i \in 1..Len(lines) |-> Line(i)]
    <2>1. Len(lines) \in Nat /\ Cardinality(LineEnds) \in Nat
      BY <1>1, EndsFinite DEF IOType
    <2>2. ~Broken
      BY <1>1, <2>1 DEF Broken
    <2>3. LinesRead
      BY <1>1, <2>2 DEF LinesSoFar
    <2>4. QED
      BY <2>3 DEF LinesRead
  <1>2. QED
    BY <1>1 DEF InputGivesLines

-----------------------------------------------------------------------------
(***************************************************************************)
(* Texts put together.                                                     *)
(***************************************************************************)
\* f gives what the first texts of t are together, by how many they are.
Joins(t, n, f) == f = [i \in 1..n |-> IF i = 1 THEN t[i] ELSE f[i - 1] \o t[i]]

\* There is such a function, and FlattenSeq is its last value.
LEMMA JoinsExists ==
  ASSUME NEW n \in Nat \ {0}, NEW t
  PROVE  \E f : Joins(t, n, f)
  <1> DEFINE S == {m \in Nat : m = 0 \/ \E f : Joins(t, m, f)}
  <1>1. 0 \in S
    OBVIOUS
  <1>2. ASSUME NEW m \in Nat, m \in S PROVE m + 1 \in S
    <2>1. CASE m = 0
      <3>1. Joins(t, 1, [i \in 1..1 |-> t[1]])
        BY DEF Joins
      <3>2. QED
        BY <2>1, <3>1
    <2>2. CASE m # 0
      <3>1. PICK f : Joins(t, m, f)
        BY <1>2, <2>2
      <3> DEFINE g == [i \in 1..m + 1 |-> IF i = m + 1 THEN f[m] \o t[m + 1] ELSE f[i]]
      <3>2. ASSUME NEW i \in 1..m + 1
            PROVE  g[i] = IF i = 1 THEN t[i] ELSE g[i - 1] \o t[i]
        <4>1. \A j \in 1..m : f[j] = IF j = 1 THEN t[j] ELSE f[j - 1] \o t[j]
          BY <3>1 DEF Joins
        <4>2. CASE i = m + 1
          <5>1. i # 1 /\ i - 1 = m /\ m \in 1..m + 1 /\ m # m + 1
            BY <2>2, <4>2
          <5>2. g[i] = f[m] \o t[m + 1] /\ g[m] = f[m]
            BY <4>2, <5>1
          <5>3. QED
            BY <4>2, <5>1, <5>2
        <4>3. CASE i # m + 1
          <5>1. i \in 1..m /\ g[i] = f[i]
            BY <4>3
          <5>2. i # 1 => i - 1 \in 1..m /\ i - 1 # m + 1
            BY <5>1
          <5>3. i # 1 => g[i - 1] = f[i - 1]
            BY <5>2
          <5>4. QED
            BY <4>1, <5>1, <5>3
        <4>4. QED
          BY <4>2, <4>3
      <3>3. g = [i \in 1..m + 1 |-> g[i]]
        OBVIOUS
      <3> HIDE DEF g
      <3>4. Joins(t, m + 1, g)
        BY <3>2, <3>3 DEF Joins
      <3>5. QED
        BY <3>4
    <2>3. QED
      BY <2>1, <2>2
  <1> HIDE DEF S
  <1>3. Nat \subseteq S
    BY <1>1, <1>2, SetInduction
  <1>4. n \in S
    BY <1>3
  <1>5. QED
    BY <1>4 DEF S

LEMMA FlattenIs ==
  ASSUME NEW T, NEW t \in Seq(T), Len(t) # 0
  PROVE  \E f : Joins(t, Len(t), f) /\ FlattenSeq(t) = f[Len(t)]
  <1>1. Len(t) \in Nat \ {0}
    OBVIOUS
  <1> DEFINE R(f) == f = [i \in 1..Len(t) |-> IF i = 1 THEN t[i] ELSE f[i - 1] \o t[i]]
             g == CHOOSE f : R(f)
  <1>2. \E f : R(f)
    BY <1>1, JoinsExists DEF Joins
  <1>3. R(g)
    BY <1>2
  <1>4. FlattenSeq(t) = g[Len(t)]
    BY <1>1 DEF FlattenSeq
  <1> HIDE DEF g
  <1>5. QED
    BY <1>3, <1>4 DEF Joins

Alike(t, u, k) == \A i \in 1..k : t[i] = u[i]

\* What the first texts are together depends on these alone.
LEMMA JoinsAgree ==
  ASSUME NEW m \in Nat, NEW n \in Nat, NEW k \in 0..m, k <= n,
         NEW t, NEW u, Alike(t, u, k),
         NEW f, NEW g, Joins(t, m, f), Joins(u, n, g)
  PROVE  Alike(f, g, k)
  <1> DEFINE S == {i \in 0..k : i = 0 \/ f[i] = g[i]}
  <1>1. 0 \in S
    OBVIOUS
  <1>2. ASSUME NEW i \in 0..k - 1, i \in S PROVE i + 1 \in S
    <2>1. i + 1 \in 1..m /\ i + 1 \in 1..n /\ i + 1 \in 1..k /\ (i + 1) - 1 = i
      OBVIOUS
    <2>2. f[i + 1] = IF i + 1 = 1 THEN t[i + 1] ELSE f[i] \o t[i + 1]
      BY <2>1 DEF Joins
    <2>3. g[i + 1] = IF i + 1 = 1 THEN u[i + 1] ELSE g[i] \o u[i + 1]
      BY <2>1 DEF Joins
    <2>4. i = 0 \/ f[i] = g[i]
      BY <1>2
    <2>5. f[i + 1] = g[i + 1]
      BY <2>1, <2>2, <2>3, <2>4 DEF Alike
    <2>6. QED
      BY <2>1, <2>5
  <1> HIDE DEF S
  <1>3. 0..k \subseteq S
    BY <1>1, <1>2, BoundedInduction
  <1>4. QED
    BY <1>3 DEF S, Alike

\* Two texts are one.
LEMMA TextJoin ==
  ASSUME NEW x \in Text, NEW y \in Text
  PROVE  /\ x \o y \in Text /\ Len(x \o y) = Len(x) + Len(y)
         /\ \A i \in 1..Len(x) : (x \o y)[i] = x[i]
         /\ \A i \in 1..Len(y) : (x \o y)[Len(x) + i] = y[i]
  <1>1. x \in Seq(Characters) /\ y \in Seq(Characters)
    BY DEF Text
  <1>2. x \o y \in Seq(Characters) /\ Len(x \o y) = Len(x) + Len(y)
    BY <1>1
  <1>3. \A i \in 1..Len(x) : (x \o y)[i] = x[i]
    BY <1>1
  <1>4. \A i \in 1..Len(y) : (x \o y)[Len(x) + i] = y[i]
    BY <1>1
  <1>5. QED
    BY <1>2, <1>3, <1>4 DEF Text

LEMMA TextEmpty ==
  /\ <<>> \in Text /\ Len(<<>>) = 0
  /\ \A x \in Text : <<>> \o x = x /\ Len(x) \in Nat
  <1>1. <<>> \in Seq(Characters) /\ Len(<<>>) = 0
    OBVIOUS
  <1>2. \A x \in Seq(Characters) : <<>> \o x = x /\ Len(x) \in Nat
    OBVIOUS
  <1>3. QED
    BY <1>1, <1>2 DEF Text

\* What texts are together is a text.
LEMMA JoinsType ==
  ASSUME NEW n \in Nat, NEW t \in Seq(Text), Len(t) = n, NEW f, Joins(t, n, f)
  PROVE  \A i \in 1..n : f[i] \in Text
  <1> DEFINE S == {i \in 0..n : i = 0 \/ f[i] \in Text}
  <1>1. 0 \in S
    OBVIOUS
  <1>2. ASSUME NEW i \in 0..n - 1, i \in S PROVE i + 1 \in S
    <2>1. i + 1 \in 1..n /\ (i + 1) - 1 = i /\ t[i + 1] \in Text
      OBVIOUS
    <2>2. f[i + 1] = IF i + 1 = 1 THEN t[i + 1] ELSE f[i] \o t[i + 1]
      BY <2>1 DEF Joins
    <2>3. i = 0 \/ f[i] \in Text
      BY <1>2
    <2>4. f[i + 1] \in Text
      <3>1. CASE i = 0
        BY <2>1, <2>2, <3>1
      <3>2. CASE i # 0
        <4>1. f[i + 1] = f[i] \o t[i + 1]
          <5>1. i + 1 # 1
            BY <3>2
          <5>2. QED
            BY <2>2, <5>1
        <4>2. QED
          BY <2>1, <2>3, <3>2, <4>1, TextJoin
      <3>3. QED
        BY <3>1, <3>2
    <2>5. QED
      BY <2>1, <2>4
  <1> HIDE DEF S
  <1>3. 0..n \subseteq S
    BY <1>1, <1>2, BoundedInduction
  <1>4. QED
    BY <1>3 DEF S

\* No texts together are the empty one; one more comes at the end.
LEMMA FlattenType ==
  ASSUME NEW t \in Seq(Text)
  PROVE  FlattenSeq(t) \in Text /\ (Len(t) = 0 => FlattenSeq(t) = <<>>)
  <1>1. CASE Len(t) = 0
    <2>1. t = <<>> /\ FlattenSeq(t) = t
      BY <1>1 DEF FlattenSeq
    <2>2. QED
      BY <2>1, TextEmpty
  <1>2. CASE Len(t) # 0
    <2>1. PICK f : Joins(t, Len(t), f) /\ FlattenSeq(t) = f[Len(t)]
      BY <1>2, FlattenIs
    <2>2. Len(t) \in Nat /\ Len(t) \in 1..Len(t)
      BY <1>2
    <2>3. f[Len(t)] \in Text
      BY <2>1, <2>2, JoinsType
    <2>4. QED
      BY <1>2, <2>1, <2>3
  <1>3. QED
    BY <1>1, <1>2

LEMMA FlattenOneMore ==
  ASSUME NEW k \in Nat, NEW t \in Seq(Text), NEW u \in Seq(Text), Len(t) = k, Len(u) = k + 1,
         \A i \in 1..k : t[i] = u[i]
  PROVE  FlattenSeq(u) = FlattenSeq(t) \o u[k + 1]
  <1>1. PICK g : Joins(u, k + 1, g) /\ FlattenSeq(u) = g[k + 1]
    BY FlattenIs
  <1>2. g[k + 1] = IF k + 1 = 1 THEN u[k + 1] ELSE g[k] \o u[k + 1]
    <2>1. k + 1 \in 1..k + 1 /\ (k + 1) - 1 = k
      OBVIOUS
    <2>2. QED
      BY <1>1, <2>1 DEF Joins
  <1>3. CASE k = 0
    <2>1. FlattenSeq(t) = <<>> /\ u[k + 1] \in Text
      <3>1. k + 1 \in 1..Len(u)
        OBVIOUS
      <3>2. u[k + 1] \in Text
        BY <3>1
      <3>3. QED
        BY <1>3, <3>2, FlattenType
    <2>2. <<>> \o u[k + 1] = u[k + 1]
      BY <2>1, TextEmpty
    <2>3. QED
      BY <1>1, <1>2, <1>3, <2>1, <2>2
  <1>4. CASE k # 0
    <2>1. PICK f : Joins(t, k, f) /\ FlattenSeq(t) = f[k]
      BY <1>4, FlattenIs
    <2>2. f[k] = g[k]
      <3>1. k \in 0..k /\ k <= k + 1 /\ k \in 1..k /\ k + 1 \in Nat
        BY <1>4
      <3>2. Alike(f, g, k)
        <4> DEFINE n == k + 1
        <4>1. n \in Nat /\ k <= n /\ k \in 0..k /\ Joins(u, n, g)
          BY <1>1, <3>1
        <4> HIDE DEF n
        <4>2. QED
          <5>1. Alike(t, u, k)
            BY DEF Alike
          <5>2. Joins(t, k, f)
            BY <2>1
          <5>3. QED
            BY <4>1, <5>1, <5>2, JoinsAgree
      <3>3. QED
        BY <3>1, <3>2 DEF Alike
    <2>3. g[k + 1] = g[k] \o u[k + 1]
      <3>1. k + 1 # 1
        BY <1>4
      <3>2. QED
        BY <1>2, <3>1
    <2>4. QED
      BY <1>1, <2>1, <2>2, <2>3
  <1>5. QED
    BY <1>3, <1>4

-----------------------------------------------------------------------------
(***************************************************************************)
(* Numbers.                                                                *)
(***************************************************************************)
\* What the digits of k are when g gives those of smaller numbers.
DigitsFrom(g, k) == IF k < 10 THEN <<Digits[k + 1]>> ELSE g[k \div 10] \o <<Digits[(k % 10) + 1]>>

Written(n, g) == g = [k \in 0..n |-> DigitsFrom(g, k)]

\* Only a smaller number is needed.
LEMMA TenthIsSmaller ==
  ASSUME NEW k \in Nat
  PROVE  /\ k \div 10 \in Nat /\ (k % 10) \in 0..9 /\ k = 10 * (k \div 10) + (k % 10)
         /\ k >= 10 => k \div 10 < k /\ k \div 10 # 0
  OBVIOUS

LEMMA WrittenExists ==
  ASSUME NEW n \in Nat
  PROVE  \E g : Written(n, g)
  <1> DEFINE S == {m \in Nat : \E g : Written(m, g)}
  <1>1. 0 \in S
    <2> DEFINE g == [k \in 0..0 |-> <<Digits[1]>>]
    <2>1. ASSUME NEW k \in 0..0 PROVE g[k] = DigitsFrom(g, k)
      <3>1. k = 0
        OBVIOUS
      <3>2. QED
        BY <3>1 DEF DigitsFrom
    <2>2. g = [k \in 0..0 |-> g[k]]
      OBVIOUS
    <2> HIDE DEF g
    <2>3. Written(0, g)
      BY <2>1, <2>2 DEF Written
    <2>4. QED
      BY <2>3
  <1>2. ASSUME NEW m \in Nat, m \in S PROVE m + 1 \in S
    <2>1. PICK f : Written(m, f)
      BY <1>2
    <2> DEFINE g == [k \in 0..m + 1 |-> IF k = m + 1 THEN DigitsFrom(f, k) ELSE f[k]]
    <2>2. \A k \in 0..m : g[k] = f[k] /\ f[k] = DigitsFrom(f, k)
      BY <2>1 DEF Written
    <2>3. g = [k \in 0..m + 1 |-> g[k]] /\ g[m + 1] = DigitsFrom(f, m + 1)
      OBVIOUS
    <2> HIDE DEF g
    <2>4. ASSUME NEW k \in 0..m + 1 PROVE DigitsFrom(f, k) = DigitsFrom(g, k)
      <3>1. CASE k < 10
        BY <3>1 DEF DigitsFrom
      <3>2. CASE ~(k < 10)
        <4>1. k \div 10 \in 0..m
          BY <3>2, TenthIsSmaller
        <4>2. f[k \div 10] = g[k \div 10]
          BY <2>2, <4>1
        <4>3. QED
          BY <3>2, <4>2 DEF DigitsFrom
      <3>3. QED
        BY <3>1, <3>2
    <2>5. ASSUME NEW k \in 0..m + 1 PROVE g[k] = DigitsFrom(g, k)
      <3>1. CASE k = m + 1
        BY <2>3, <2>4, <3>1
      <3>2. CASE k # m + 1
        <4>1. k \in 0..m
          BY <3>2
        <4>2. QED
          BY <2>2, <2>4, <4>1
      <3>3. QED
        BY <3>1, <3>2
    <2>6. Written(m + 1, g)
      BY <2>3, <2>5 DEF Written
    <2>7. QED
      BY <2>6
  <1> HIDE DEF S
  <1>3. Nat \subseteq S
    BY <1>1, <1>2, SetInduction
  <1>4. n \in S
    BY <1>3
  <1>5. QED
    BY <1>4 DEF S

\* Two such functions agree where both are defined.
LEMMA WrittenAgree ==
  ASSUME NEW m \in Nat, NEW n \in Nat, m <= n, NEW f, NEW g, Written(m, f), Written(n, g)
  PROVE  \A k \in 0..m : f[k] = g[k]
  <1>1. SUFFICES ASSUME {k \in 0..m : f[k] # g[k]} # {} PROVE FALSE
    OBVIOUS
  <1> DEFINE B == {k \in 0..m : f[k] # g[k]}
  <1>2. PICK k \in B : \A j \in B : k <= j
    <2>1. B \in SUBSET Nat /\ B # {}
      BY <1>1
    <2> HIDE DEF B
    <2>2. QED
      BY <2>1, LeastElement
  <1>3. k \in 0..m /\ k \in 0..n /\ f[k] # g[k] /\ \A j \in 0..m : j < k => f[j] = g[j]
    BY <1>2
  <1>4. f[k] = DigitsFrom(f, k) /\ g[k] = DigitsFrom(g, k)
    BY <1>3 DEF Written
  <1>5. DigitsFrom(f, k) = DigitsFrom(g, k)
    <2>1. CASE k < 10
      BY <2>1 DEF DigitsFrom
    <2>2. CASE ~(k < 10)
      <3>1. k \div 10 \in 0..m /\ k \div 10 < k
        BY <1>3, <2>2, TenthIsSmaller
      <3>2. f[k \div 10] = g[k \div 10]
        BY <1>3, <3>1
      <3>3. QED
        BY <2>2, <3>2 DEF DigitsFrom
    <2>3. QED
      BY <2>1, <2>2
  <1>6. QED
    BY <1>3, <1>4, <1>5

\* digits is what its definition says.
LEMMA DigitsAre == \A k \in Nat : digits[k] = DigitsFrom(digits, k)
  <1> DEFINE R(d) == d = [n \in Nat |-> IF n < 10 THEN <<Digits[n + 1]>>
                                        ELSE d[n \div 10] \o <<Digits[(n % 10) + 1]>>]
             W(n) == CHOOSE g : Written(n, g)
             h == [n \in Nat |-> W(n)[n]]
  <1>1. \A n \in Nat : Written(n, W(n))
    BY WrittenExists
  <1>2. \A n \in Nat : h[n] = W(n)[n]
    OBVIOUS
  <1>3. h = [n \in Nat |-> h[n]]
    OBVIOUS
  <1> HIDE DEF h, W
  <1>4. ASSUME NEW n \in Nat PROVE h[n] = DigitsFrom(h, n)
    <2>1. W(n)[n] = DigitsFrom(W(n), n)
      <3>1. n \in 0..n
        OBVIOUS
      <3>2. QED
        BY <1>1, <3>1 DEF Written
    <2>2. CASE n < 10
      BY <1>2, <2>1, <2>2 DEF DigitsFrom
    <2>3. CASE ~(n < 10)
      <3>1. n \div 10 \in Nat /\ n \div 10 <= n /\ n \div 10 \in 0..n \div 10
        BY <2>3, TenthIsSmaller
      <3> DEFINE t == n \div 10
      <3>2. W(t)[t] = W(n)[t]
        <4>1. t \in Nat /\ t <= n /\ t \in 0..t
          BY <3>1
        <4> HIDE DEF t
        <4>2. Written(t, W(t)) /\ Written(n, W(n))
          BY <1>1, <4>1
        <4>3. QED
          BY <4>1, <4>2, WrittenAgree
      <3>3. h[n \div 10] = W(n)[n \div 10]
        BY <1>2, <3>1, <3>2
      <3>4. QED
        BY <1>2, <2>1, <2>3, <3>3 DEF DigitsFrom
    <2>4. QED
      BY <2>2, <2>3
  <1>5. R(h)
    BY <1>3, <1>4 DEF DigitsFrom
  <1>6. digits = CHOOSE d : R(d)
    BY DEF digits
  <1>7. R(digits)
    BY <1>5, <1>6
  <1>8. QED
    BY <1>7 DEF DigitsFrom

\* f counts what the digits of t denote, by how many of them have been read.
Counts(t, n, f) == f = [i \in 0..n |-> IF i = 0 THEN 0 ELSE 10 * f[i - 1] + DigitOf(t[i])]

LEMMA CountsExists ==
  ASSUME NEW n \in Nat, NEW t
  PROVE  \E f : Counts(t, n, f)
  <1> DEFINE S == {m \in Nat : \E f : Counts(t, m, f)}
  <1>1. 0 \in S
    <2>1. Counts(t, 0, [i \in 0..0 |-> 0])
      BY DEF Counts
    <2>2. QED
      BY <2>1
  <1>2. ASSUME NEW m \in Nat, m \in S PROVE m + 1 \in S
    <2>1. PICK f : Counts(t, m, f)
      BY <1>2
    <2> DEFINE g == [i \in 0..m + 1 |-> IF i = m + 1 THEN 10 * f[m] + DigitOf(t[m + 1]) ELSE f[i]]
    <2>2. \A i \in 0..m : g[i] = f[i] /\ f[i] = IF i = 0 THEN 0 ELSE 10 * f[i - 1] + DigitOf(t[i])
      BY <2>1 DEF Counts
    <2>3. g = [i \in 0..m + 1 |-> g[i]] /\ g[m + 1] = 10 * f[m] + DigitOf(t[m + 1])
      OBVIOUS
    <2> HIDE DEF g
    <2>4. ASSUME NEW i \in 0..m + 1 PROVE g[i] = IF i = 0 THEN 0 ELSE 10 * g[i - 1] + DigitOf(t[i])
      <3>1. CASE i = m + 1
        <4>1. i # 0 /\ i - 1 = m /\ m \in 0..m
          BY <3>1
        <4>2. g[i - 1] = f[m]
          BY <2>2, <4>1
        <4>3. QED
          BY <2>3, <3>1, <4>1, <4>2
      <3>2. CASE i # m + 1
        <4>1. i \in 0..m /\ (i # 0 => i - 1 \in 0..m)
          BY <3>2
        <4>2. g[i] = f[i] /\ (i # 0 => g[i - 1] = f[i - 1])
          BY <2>2, <4>1
        <4>3. QED
          BY <2>2, <4>1, <4>2
      <3>3. QED
        BY <3>1, <3>2
    <2>5. Counts(t, m + 1, g)
      BY <2>3, <2>4 DEF Counts
    <2>6. QED
      BY <2>5
  <1> HIDE DEF S
  <1>3. Nat \subseteq S
    BY <1>1, <1>2, SetInduction
  <1>4. n \in S
    BY <1>3
  <1>5. QED
    BY <1>4 DEF S

LEMMA ValueIs ==
  ASSUME NEW t \in Text
  PROVE  \E f : Counts(t, Len(t), f) /\ ValueOf(t) = f[Len(t)]
  <1>1. Len(t) \in Nat
    BY DEF Text
  <1> DEFINE R(f) == f = [i \in 0..Len(t) |-> IF i = 0 THEN 0 ELSE 10 * f[i - 1] + DigitOf(t[i])]
             g == CHOOSE f : R(f)
  <1>2. \E f : R(f)
    BY <1>1, CountsExists DEF Counts
  <1>3. R(g)
    BY <1>2
  <1>4. ValueOf(t) = g[Len(t)]
    BY DEF ValueOf
  <1> HIDE DEF g
  <1>5. QED
    BY <1>3, <1>4 DEF Counts

\* What the first digits denote depends on these alone.
LEMMA CountsAgree ==
  ASSUME NEW k \in Nat, NEW n \in Nat, k <= n, NEW t, NEW u, Alike(t, u, k),
         NEW f, NEW g, Counts(t, k, f), Counts(u, n, g)
  PROVE  f[k] = g[k]
  <1> DEFINE S == {i \in 0..k : f[i] = g[i]}
  <1>1. 0 \in S
    <2>1. 0 \in 0..k /\ 0 \in 0..n
      OBVIOUS
    <2>2. f[0] = 0 /\ g[0] = 0
      BY <2>1 DEF Counts
    <2>3. QED
      BY <2>2
  <1>2. ASSUME NEW i \in 0..k - 1, i \in S PROVE i + 1 \in S
    <2>1. i + 1 \in 0..k /\ i + 1 \in 0..n /\ i + 1 \in 1..k /\ (i + 1) - 1 = i /\ i + 1 # 0
      OBVIOUS
    <2>2. f[i + 1] = 10 * f[i] + DigitOf(t[i + 1])
      BY <2>1 DEF Counts
    <2>3. g[i + 1] = 10 * g[i] + DigitOf(u[i + 1])
      BY <2>1 DEF Counts
    <2>4. f[i] = g[i] /\ t[i + 1] = u[i + 1]
      BY <1>2, <2>1 DEF Alike
    <2>5. QED
      BY <2>1, <2>2, <2>3, <2>4
  <1> HIDE DEF S
  <1>3. 0..k \subseteq S
    BY <1>1, <1>2, BoundedInduction
  <1>4. QED
    BY <1>3 DEF S

\* One more digit after those of t.
LEMMA ValueOneMore ==
  ASSUME NEW t \in Text, NEW c \in Characters
  PROVE  /\ ValueOf(t \o <<c>>) = 10 * ValueOf(t) + DigitOf(c)
         /\ t = <<>> => ValueOf(t) = 0
  <1> DEFINE u == t \o <<c>>
  <1>1. PICK k \in Nat : k = Len(t)
    BY DEF Text
  <1>2. /\ u \in Text /\ Len(u) = k + 1 /\ u[k + 1] = c /\ \A i \in 1..k : u[i] = t[i]
    BY <1>1 DEF Text
  <1> HIDE DEF u
  <1>3. PICK f : Counts(t, k, f) /\ ValueOf(t) = f[k]
    BY <1>1, ValueIs
  <1>4. PICK g : Counts(u, k + 1, g) /\ ValueOf(u) = g[k + 1]
    BY <1>2, ValueIs
  <1>5. g[k + 1] = 10 * g[k] + DigitOf(c)
    <2>1. k + 1 \in 0..k + 1 /\ k + 1 # 0 /\ (k + 1) - 1 = k
      OBVIOUS
    <2>2. QED
      BY <1>2, <1>4, <2>1 DEF Counts
  <1>6. f[k] = g[k]
    <2> DEFINE n == k + 1
    <2>1. n \in Nat /\ k <= n /\ Counts(u, n, g) /\ Alike(t, u, k)
      BY <1>2, <1>4 DEF Alike
    <2> HIDE DEF n
    <2>2. QED
      BY <1>3, <2>1, CountsAgree
  <1>7. t = <<>> => ValueOf(t) = 0
    <2>1. SUFFICES ASSUME t = <<>> PROVE ValueOf(t) = 0
      OBVIOUS
    <2>2. k = 0 /\ 0 \in 0..k
      BY <1>1, <2>1
    <2>3. QED
      BY <1>3, <2>2 DEF Counts
  <1>8. QED
    BY <1>3, <1>4, <1>5, <1>6, <1>7 DEF u

IsDigit(c) == c \in Decimal

DigitCharacters == {"0", "1", "2", "3", "4", "5", "6", "7", "8", "9"}

LEMMA DigitsRange ==
  /\ \A i \in 1..10 : Digits[i] \in DigitCharacters
  /\ \A c : IsDigit(c) => c \in DigitCharacters
  <1>1. DOMAIN Digits = 1..10
    BY DEF Digits
  <1>2. ASSUME NEW i \in 1..10 PROVE Digits[i] \in DigitCharacters
    <2>1. i \in {1, 2, 3, 4, 5, 6, 7, 8, 9, 10}
      OBVIOUS
    <2>2. QED
      BY <2>1 DEF Digits, DigitCharacters
  <1>3. QED
    BY <1>1, <1>2 DEF IsDigit, Decimal, ToSet

\* One more character after a text.
LEMMA TextAppend ==
  ASSUME NEW t \in Text, NEW c \in Characters
  PROVE  /\ t \o <<c>> \in Text /\ Len(t) \in Nat /\ Len(t \o <<c>>) = Len(t) + 1
         /\ \A i \in 1..Len(t) : (t \o <<c>>)[i] = t[i]
         /\ (t \o <<c>>)[Len(t) + 1] = c
  BY DEF Text

\* The ten digits are told apart.
LEMMA DigitIs ==
  ASSUME NEW d \in 0..9
  PROVE  /\ Digits[d + 1] \in Characters /\ IsDigit(Digits[d + 1]) /\ DigitOf(Digits[d + 1]) = d
         /\ Digits[d + 1] \notin {Blank, "-", "."}
  <1>1. \A i, j \in 0..9 : Digits[i + 1] = Digits[j + 1] => i = j
    BY DEF Digits
  <1>2. DOMAIN Digits = 1..10 /\ d + 1 \in 1..10
    BY DEF Digits
  <1>3. IsDigit(Digits[d + 1])
    BY <1>2 DEF IsDigit, Decimal, ToSet
  <1>4. DigitOf(Digits[d + 1]) = d
    BY <1>1 DEF DigitOf
  <1>5. Digits[d + 1] \in Characters /\ Digits[d + 1] \notin {Blank, "-", "."}
    <2>1. Digits[d + 1] \in DigitCharacters
      BY <1>2, DigitsRange
    <2>2. Digits[d + 1] \notin {Blank, "-", "."}
      BY <2>1 DEF DigitCharacters, Blank
    <2>3. QED
      BY <1>2, <2>2, CharacterAssumption DEF ToSet
  <1>6. QED
    BY <1>3, <1>4, <1>5

\* What surrounds digits is none.
LEMMA NoDigits ==
  ~IsDigit(".") /\ ~IsDigit("-") /\ ~IsDigit("+") /\ \A c \in Spaces : ~IsDigit(c)
  <1>1. ASSUME NEW c, IsDigit(c) PROVE c \in DigitCharacters
    BY <1>1, DigitsRange
  <1>2. /\ "." \notin DigitCharacters /\ "-" \notin DigitCharacters /\ "+" \notin DigitCharacters
        /\ \A c \in Spaces : c \notin DigitCharacters
    BY DEF DigitCharacters, Spaces, Blank, Newline, Return
  <1>3. QED
    BY <1>1, <1>2

AllDigits(t) == \A i \in 1..Len(t) : IsDigit(t[i])

\* What printf writes for a number that is not negative.
DigitsGood(n) ==
  /\ digits[n] \in Text /\ Len(digits[n]) \in Nat \ {0} /\ AllDigits(digits[n])
  /\ ValueOf(digits[n]) = n

LEMMA DigitsRight == \A n \in Nat : DigitsGood(n)
  <1>1. SUFFICES ASSUME {n \in Nat : ~DigitsGood(n)} # {} PROVE FALSE
    OBVIOUS
  <1> DEFINE B == {n \in Nat : ~DigitsGood(n)}
  <1>2. PICK n \in B : \A m \in B : n <= m
    <2>1. B \in SUBSET Nat /\ B # {}
      BY <1>1
    <2> HIDE DEF B
    <2>2. QED
      BY <2>1, LeastElement
  <1>3. n \in Nat /\ ~DigitsGood(n) /\ \A m \in Nat : m < n => DigitsGood(m)
    BY <1>2
  <1> HIDE DEF B
  <1>4. CASE n < 10
    <2> DEFINE c == Digits[n + 1]
    <2>1. n \in 0..9
      BY <1>3, <1>4
    <2>2. c \in Characters /\ IsDigit(c) /\ DigitOf(c) = n
      BY <2>1, DigitIs
    <2>3. digits[n] = <<c>>
      BY <1>3, <1>4, DigitsAre DEF DigitsFrom
    <2> HIDE DEF c
    <2>4. <<c>> \in Text /\ Len(<<c>>) = 1 /\ <<>> \o <<c>> = <<c>> /\ <<c>>[1] = c
      <3>1. <<c>> \in Seq(Characters) /\ Len(<<c>>) = 1 /\ <<c>>[1] = c
        BY <2>2
      <3>2. QED
        BY <3>1, TextEmpty DEF Text
    <2>5. ValueOf(<<c>>) = n
      <3>1. ValueOf(<<>> \o <<c>>) = 10 * ValueOf(<<>>) + DigitOf(c) /\ ValueOf(<<>>) = 0
        BY <2>2, TextEmpty, ValueOneMore
      <3>2. 10 * 0 + n = n
        BY <1>3
      <3>3. QED
        BY <2>2, <2>4, <3>1, <3>2
    <2>6. AllDigits(<<c>>)
      <3>1. ASSUME NEW i \in 1..Len(<<c>>) PROVE IsDigit(<<c>>[i])
        <4>1. i = 1
          BY <2>4
        <4>2. QED
          BY <2>2, <2>4, <4>1
      <3>2. QED
        BY <3>1 DEF AllDigits
    <2>7. QED
      BY <1>3, <2>3, <2>4, <2>5, <2>6 DEF DigitsGood
  <1>5. CASE ~(n < 10)
    <2>1. PICK q, d : q = n \div 10 /\ d = (n % 10)
      OBVIOUS
    <2>2. q \in Nat /\ q < n /\ d \in 0..9 /\ n = 10 * q + d
      BY <1>3, <1>5, <2>1, TenthIsSmaller
    <2>3. DigitsGood(q)
      BY <1>3, <2>2
    <2> DEFINE c == Digits[d + 1]
               t == digits[q]
    <2>4. c \in Characters /\ IsDigit(c) /\ DigitOf(c) = d
      BY <2>2, DigitIs
    <2>5. digits[n] = t \o <<c>>
      BY <1>3, <1>5, <2>1, DigitsAre DEF DigitsFrom
    <2>6. t \in Text /\ Len(t) \in Nat \ {0} /\ AllDigits(t) /\ ValueOf(t) = q
      BY <2>3 DEF DigitsGood
    <2> HIDE DEF c, t
    <2>7. /\ t \o <<c>> \in Text /\ Len(t \o <<c>>) = Len(t) + 1
          /\ \A i \in 1..Len(t) : (t \o <<c>>)[i] = t[i]
          /\ (t \o <<c>>)[Len(t) + 1] = c
      BY <2>4, <2>6, TextAppend
    <2>8. AllDigits(t \o <<c>>)
      <3>1. ASSUME NEW i \in 1..Len(t) + 1 PROVE IsDigit((t \o <<c>>)[i])
        <4>1. i \in 1..Len(t) \/ i = Len(t) + 1
          BY <2>6
        <4>2. QED
          BY <2>4, <2>6, <2>7, <4>1 DEF AllDigits
      <3>2. QED
        BY <2>7, <3>1 DEF AllDigits
    <2>9. ValueOf(t \o <<c>>) = n
      <3>1. ValueOf(t \o <<c>>) = 10 * ValueOf(t) + DigitOf(c)
        BY <2>4, <2>6, ValueOneMore
      <3>2. QED
        BY <2>2, <2>4, <2>6, <3>1
    <2>10. QED
      BY <1>3, <2>5, <2>6, <2>7, <2>8, <2>9 DEF DigitsGood
  <1>6. QED
    BY <1>4, <1>5

\* A function from 1..n to characters is a text.
LEMMA TextOf ==
  ASSUME NEW n \in Nat, NEW f, f = [i \in 1..n |-> f[i]], \A i \in 1..n : f[i] \in Characters
  PROVE  f \in Text /\ Len(f) = n
  BY DEF Text

\* What comes after the first k characters.
LEMMA AfterIs ==
  ASSUME NEW y \in Text, NEW k \in Nat, k <= Len(y)
  PROVE  /\ After(y, k) \in Text /\ Len(After(y, k)) = Len(y) - k
         /\ \A i \in 1..Len(y) - k : After(y, k)[i] = y[k + i]
  <1>1. y \in Seq(Characters) /\ Len(y) \in Nat /\ k + 1 \in Nat \ {0}
    BY DEF Text
  <1> DEFINE v == SubSeq(y, k + 1, Len(y))
  <1>2. v \in Seq(Characters) /\ Len(v) = Len(y) - k
    BY <1>1
  <1>3. ASSUME NEW i \in 1..Len(y) - k PROVE v[i] = y[k + i]
    <2>1. v[i] = y[(k + 1) + i - 1]
      BY <1>1
    <2>2. (k + 1) + i - 1 = k + i
      BY <1>1
    <2>3. QED
      BY <2>1, <2>2
  <1>4. QED
    BY <1>2, <1>3 DEF After, Text

\* The characters of S a text begins with end before the first that is not one.
LEMMA RunIs ==
  ASSUME NEW y \in Text, NEW S, NEW k \in 0..Len(y), \A i \in 1..k : y[i] \in S,
         k < Len(y) => y[k + 1] \notin S
  PROVE  Run(y, S) = k
  <1>1. Len(y) \in Nat
    BY DEF Text
  <1> DEFINE Q(j) == /\ \A i \in 1..j : y[i] \in S
                     /\ j < Len(y) => y[j + 1] \notin S
             x == CHOOSE j \in 0..Len(y) : Q(j)
  <1>2. x \in 0..Len(y) /\ Q(x)
    BY <1>1
  <1>3. Run(y, S) = x
    BY DEF Run
  <1> HIDE DEF x
  <1>4. ~(x < k)
    <2>1. SUFFICES ASSUME x < k PROVE FALSE
      OBVIOUS
    <2>2. x + 1 \in 1..k /\ x < Len(y)
      BY <1>1, <1>2, <2>1
    <2>3. QED
      BY <1>2, <2>2
  <1>5. ~(k < x)
    <2>1. SUFFICES ASSUME k < x PROVE FALSE
      OBVIOUS
    <2>2. k + 1 \in 1..x /\ k < Len(y)
      BY <1>1, <1>2, <2>1
    <2>3. QED
      BY <1>2, <2>2
  <1>6. QED
    BY <1>1, <1>2, <1>3, <1>4, <1>5

LEMMA RunAll ==
  ASSUME NEW y \in Text, NEW S, \A i \in 1..Len(y) : y[i] \in S
  PROVE  Run(y, S) = Len(y) /\ SubSeq(y, 1, Len(y)) = y
  <1>1. Len(y) \in Nat /\ Len(y) \in 0..Len(y) /\ y \in Seq(Characters)
    BY DEF Text
  <1>2. Run(y, S) = Len(y)
    BY <1>1, RunIs
  <1>3. SubSeq(y, 1, Len(y)) = y
    BY <1>1
  <1>4. QED
    BY <1>2, <1>3

\* Every text has such a beginning, if only the empty one.
LEMMA RunType ==
  ASSUME NEW y \in Text, NEW S
  PROVE  Run(y, S) \in 0..Len(y)
  <1> DEFINE A == {j \in 1..Len(y) : y[j] \notin S}
  <1>1. Len(y) \in Nat
    BY DEF Text
  <1>2. CASE A = {}
    <2>1. Len(y) \in 0..Len(y) /\ \A i \in 1..Len(y) : y[i] \in S
      BY <1>1, <1>2
    <2>2. Run(y, S) = Len(y)
      BY <1>1, <2>1, RunIs
    <2>3. QED
      BY <2>1, <2>2
  <1>3. CASE A # {}
    <2>1. PICK j \in A : \A i \in A : j <= i
      <3>1. A \in SUBSET Nat
        OBVIOUS
      <3> HIDE DEF A
      <3>2. QED
        BY <1>3, <3>1, LeastElement
    <2>2. j \in 1..Len(y) /\ y[j] \notin S
      OBVIOUS
    <2>3. ASSUME NEW i \in 1..j - 1 PROVE y[i] \in S
      <3>1. i \in 1..Len(y) /\ ~(j <= i)
        BY <1>1, <2>2
      <3>2. QED
        BY <2>1, <3>1
    <2>4. j - 1 \in 0..Len(y) /\ (j - 1) + 1 = j
      BY <1>1, <2>2
    <2> HIDE DEF A
    <2>5. Run(y, S) = j - 1
      BY <2>2, <2>3, <2>4, RunIs
    <2>6. QED
      BY <2>4, <2>5
  <1>4. QED
    BY <1>2, <1>3

\* What printf writes for a text is one.
LEMMA CStringType ==
  ASSUME NEW t \in Text
  PROVE  CString(t) \in Text
  <1>1. PICK k \in 0..Len(t) : CString(t) = SubSeq(t, 1, k)
    BY RunType DEF CString
  <1>2. QED
    BY <1>1 DEF Text

\* Rounding moves a number by half a millionth at most.
LEMMA RoundedIs ==
  ASSUME NEW m \in Nat
  PROVE  Rounded(m) \in Nat /\ 10 * Rounded(m) - m \in -5..5
  <1>1. (m + 5) \div 10 \in Nat /\ 10 * ((m + 5) \div 10) - m \in -5..5
    OBVIOUS
  <1>2. (m + 4) \div 10 \in Nat /\ 10 * ((m + 4) \div 10) - m \in -5..5
    OBVIOUS
  <1>3. QED
    BY <1>1, <1>2 DEF Rounded

LEMMA MillionParts ==
  ASSUME NEW r \in Nat
  PROVE  /\ r \div Million \in Nat /\ r % Million \in Nat /\ r % Million < Million
         /\ r = Million * (r \div Million) + (r % Million)
  <1>1. Million = 1000000
    BY SMT DEF Million
  <1>2. /\ r \div 1000000 \in Nat /\ r % 1000000 \in Nat /\ r % 1000000 < 1000000
        /\ r = 1000000 * (r \div 1000000) + (r % 1000000)
    BY SMT
  <1>3. QED
    BY <1>1, <1>2, SMT

\* The digits of a number below a million, one by one.
LEMMA SixDigits ==
  ASSUME NEW k \in Nat, k < Million
  PROVE  /\ \A i \in 1..6 : (k \div Tens[i]) % 10 \in 0..9
         /\ k = 100000 * ((k \div Tens[1]) % 10) + 10000 * ((k \div Tens[2]) % 10)
                + 1000 * ((k \div Tens[3]) % 10) + 100 * ((k \div Tens[4]) % 10)
                + 10 * ((k \div Tens[5]) % 10) + ((k \div Tens[6]) % 10)
  <1>1. /\ Tens[1] = 100000 /\ Tens[2] = 10000 /\ Tens[3] = 1000 /\ Tens[4] = 100 /\ Tens[5] = 10
        /\ Tens[6] = 1
    BY SMT DEF Tens
  <1>2. k \in Nat /\ k < 1000000
    BY SMT DEF Million
  <1>3. ASSUME NEW i \in 1..6 PROVE (k \div Tens[i]) % 10 \in 0..9
    <2>1. Tens[i] \in {100000, 10000, 1000, 100, 10, 1}
      BY <1>1, SMT
    <2>2. k \div Tens[i] \in Nat
      BY <1>2, <2>1, SMT
    <2>3. QED
      BY <2>2, SMT
  <1>4. /\ k = 10 * (k \div 10) + ((k \div 1) % 10) /\ k \div 10 = 10 * (k \div 100) + ((k \div 10) % 10)
        /\ k \div 100 = 10 * (k \div 1000) + ((k \div 100) % 10)
        /\ k \div 1000 = 10 * (k \div 10000) + ((k \div 1000) % 10)
        /\ k \div 10000 = 10 * (k \div 100000) + ((k \div 10000) % 10)
        /\ k \div 100000 = ((k \div 100000) % 10)
    BY <1>2, SMT
  <1>5. QED
    BY <1>1, <1>2, <1>3, <1>4, SMT

LEMMA DecimalsRight ==
  ASSUME NEW k \in Nat, k < Million, NEW d, d = decimals(k)
  PROVE  /\ d \in Text /\ Len(d) = 6 /\ \A i \in 1..6 : d[i] \in Decimal /\ d[i] \in Characters
         /\ k = 100000 * DigitOf(d[1]) + 10000 * DigitOf(d[2]) + 1000 * DigitOf(d[3])
                + 100 * DigitOf(d[4]) + 10 * DigitOf(d[5]) + DigitOf(d[6])
         /\ \A i \in 1..6 : DigitOf(d[i]) \in 0..9
  <1> DEFINE e(i) == (k \div Tens[i]) % 10
  <1>1. /\ \A i \in 1..6 : e(i) \in 0..9
        /\ k = 100000 * e(1) + 10000 * e(2) + 1000 * e(3) + 100 * e(4) + 10 * e(5) + e(6)
    BY SixDigits
  <1>2. d = [i \in 1..6 |-> Digits[e(i) + 1]]
    BY DEF decimals
  <1> HIDE DEF e
  <1>3. ASSUME NEW i \in 1..6
        PROVE  d[i] \in Characters /\ d[i] \in Decimal /\ DigitOf(d[i]) = e(i)
    BY <1>1, <1>2, DigitIs DEF IsDigit
  <1>4. d \in Text /\ Len(d) = 6
    <2>1. d = [i \in 1..6 |-> d[i]] /\ \A i \in 1..6 : d[i] \in Characters
      BY <1>2, <1>3
    <2>2. QED
      BY <2>1, TextOf
  <1>5. /\ DigitOf(d[1]) = e(1) /\ DigitOf(d[2]) = e(2) /\ DigitOf(d[3]) = e(3) /\ DigitOf(d[4]) = e(4)
        /\ DigitOf(d[5]) = e(5) /\ DigitOf(d[6]) = e(6)
    BY <1>3
  <1>6. QED
    BY <1>1, <1>3, <1>4, <1>5

\* A numeral and one more character of s behind it.
LEMMA ValueNext ==
  ASSUME NEW g \in Text, NEW s \in Text, NEW i \in Nat, i < Len(s)
  PROVE  ValueOf(g \o SubSeq(s, 1, i + 1)) = 10 * ValueOf(g \o SubSeq(s, 1, i)) + DigitOf(s[i + 1])
  <1>1. g \in Seq(Characters) /\ s \in Seq(Characters) /\ Len(s) \in Nat /\ Len(g) \in Nat
    BY DEF Text
  <1>2. i + 1 \in 1..Len(s) /\ i \in 0..Len(s) /\ s[i + 1] \in Characters
    BY <1>1
  <1> DEFINE a == SubSeq(s, 1, i)
             b == SubSeq(s, 1, i + 1)
             c == s[i + 1]
  <1>3. /\ a \in Seq(Characters) /\ Len(a) = i /\ \A j \in 1..i : a[j] = s[j]
        /\ b \in Seq(Characters) /\ Len(b) = i + 1 /\ \A j \in 1..i + 1 : b[j] = s[j]
    BY <1>1, <1>2
  <1> HIDE DEF a, b
  <1>4. b = a \o <<c>>
    <2>1. a \o <<c>> \in Seq(Characters) /\ Len(a \o <<c>>) = i + 1
      BY <1>2, <1>3
    <2>2. ASSUME NEW j \in 1..i + 1 PROVE b[j] = (a \o <<c>>)[j]
      BY <1>2, <1>3
    <2>3. QED
      BY <1>3, <2>1, <2>2
  <1>5. g \o b = (g \o a) \o <<c>>
    BY <1>1, <1>2, <1>3, <1>4
  <1>6. g \o a \in Text
    BY <1>1, <1>3 DEF Text
  <1>7. QED
    BY <1>2, <1>5, <1>6, ValueOneMore DEF a, b

Point == <<".">>
Pointed(g, d) == (g \o Point) \o d

\* What printf writes for a number of millionths: digits, a ".", six digits.
LEMMA UnsignedIs ==
  ASSUME NEW r \in Nat, NEW g, g = digits[r \div Million], NEW d, d = decimals(r % Million)
  PROVE  /\ g \in Text /\ Len(g) \in Nat \ {0} /\ AllDigits(g)
         /\ ValueOf(g) = r \div Million /\ r \div Million \in Nat
         /\ d \in Text /\ Len(d) = 6 /\ \A i \in 1..6 : d[i] \in Decimal
         /\ unsigned_f(r) = Pointed(g, d)
  <1>1. r \div Million \in Nat /\ r % Million \in Nat /\ r % Million < Million
    BY MillionParts
  <1>2. g \in Text /\ Len(g) \in Nat \ {0} /\ AllDigits(g) /\ ValueOf(g) = r \div Million
    BY <1>1, DigitsRight DEF DigitsGood
  <1>3. d \in Text /\ Len(d) = 6 /\ \A i \in 1..6 : d[i] \in Decimal
    BY <1>1, DecimalsRight
  <1>4. QED
    BY <1>1, <1>2, <1>3 DEF unsigned_f, Pointed, Point

\* A text that is g as far as g goes begins with g.
LEMMA BeginningIs ==
  ASSUME NEW y \in Text, NEW g \in Text, Len(g) <= Len(y), \A i \in 1..Len(g) : y[i] = g[i]
  PROVE  SubSeq(y, 1, Len(g)) = g
  <1>1. y \in Seq(Characters) /\ g \in Seq(Characters) /\ Len(g) \in Nat /\ Len(g) \in 0..Len(y)
    BY DEF Text
  <1>2. SubSeq(y, 1, Len(g)) \in Seq(Characters) /\ Len(SubSeq(y, 1, Len(g))) = Len(g)
    BY <1>1
  <1>3. \A i \in 1..Len(g) : SubSeq(y, 1, Len(g))[i] = g[i]
    BY <1>1
  <1>4. QED
    BY <1>1, <1>2, <1>3

\* sscanf finds the digits before a "." and those behind it.
LEMMA PartsFound ==
  ASSUME NEW g \in Text, Len(g) # 0, AllDigits(g),
         NEW d \in Text, \A i \in 1..Len(d) : d[i] \in Decimal,
         NEW u, u = Pointed(g, d)
  PROVE  /\ Whole(u) = g /\ Fraction(u) = d /\ g # <<>>
         /\ u \in Text /\ u # <<>> /\ u[1] \in Decimal
  <1>1. "." \in Characters
    BY CharacterAssumption
  <1>2. PICK h : h = g \o <<".">>
    OBVIOUS
  <1>3. /\ h \in Text /\ Len(g) \in Nat /\ Len(h) = Len(g) + 1
        /\ \A i \in 1..Len(g) : h[i] = g[i]
        /\ h[Len(g) + 1] = "."
    BY <1>1, <1>2, TextAppend
  <1>4. u = h \o d
    BY <1>2 DEF Pointed, Point
  <1>5. /\ u \in Text /\ Len(u) = Len(h) + Len(d)
        /\ \A i \in 1..Len(h) : u[i] = h[i]
        /\ \A i \in 1..Len(d) : u[Len(h) + i] = d[i]
    <2>1. h \o d \in Text /\ Len(h \o d) = Len(h) + Len(d)
      BY <1>3, TextJoin
    <2>2. \A i \in 1..Len(h) : (h \o d)[i] = h[i]
      BY <1>3, TextJoin
    <2>3. \A i \in 1..Len(d) : (h \o d)[Len(h) + i] = d[i]
      BY <1>3, TextJoin
    <2>4. QED
      BY <1>4, <2>1, <2>2, <2>3
  <1>6. Len(d) \in Nat
    BY TextEmpty
  <1>7. /\ \A i \in 1..Len(g) : u[i] = g[i]
        /\ u[Len(g) + 1] = "."
    <2>1. Len(g) + 1 \in 1..Len(h) /\ \A i \in 1..Len(g) : i \in 1..Len(h)
      BY <1>3
    <2>2. QED
      BY <1>3, <1>5, <2>1
  <1>8. Len(g) < Len(u) /\ Len(g) \in 0..Len(u) /\ Len(u) \in Nat \ {0}
    BY <1>3, <1>5, <1>6
  <1>9. \A i \in 1..Len(g) : u[i] \in Decimal
    BY <1>7 DEF AllDigits, IsDigit
  <1>10. Whole(u) = g
    <2>1. u[Len(g) + 1] \notin Decimal
      BY <1>7, NoDigits DEF IsDigit
    <2>2. Run(u, Decimal) = Len(g)
      BY <1>5, <1>8, <1>9, <2>1, RunIs
    <2>3. SubSeq(u, 1, Len(g)) = g
      BY <1>5, <1>7, <1>8, BeginningIs
    <2>4. QED
      BY <2>2, <2>3 DEF Whole
  <1>11. After(u, Len(g) + 1) = d
    <2>1. PICK v : v = After(u, Len(h))
      OBVIOUS
    <2>2. Len(h) \in Nat /\ Len(h) <= Len(u) /\ Len(u) - Len(h) = Len(d)
      BY <1>3, <1>5, <1>6
    <2>3. v \in Text /\ Len(v) = Len(u) - Len(h) /\ \A i \in 1..Len(u) - Len(h) : v[i] = u[Len(h) + i]
      BY <1>5, <2>1, <2>2, AfterIs
    <2>4. \A i \in 1..Len(d) : v[i] = d[i]
      BY <1>5, <2>2, <2>3
    <2>5. v \in Seq(Characters) /\ d \in Seq(Characters) /\ Len(v) = Len(d)
      BY <2>2, <2>3 DEF Text
    <2>6. v = d
      BY <2>4, <2>5
    <2>7. QED
      BY <1>3, <2>1, <2>6
  <1>12. Fraction(u) = d
    <2>1. u[Len(g) + 1] \notin Decimal
      BY <1>7, NoDigits DEF IsDigit
    <2>2. Run(u, Decimal) = Len(g)
      BY <1>5, <1>8, <1>9, <2>1, RunIs
    <2>3. SubSeq(d, 1, Run(d, Decimal)) = d
      BY RunAll
    <2>4. Fraction(u) = SubSeq(After(u, Len(g) + 1), 1, Run(After(u, Len(g) + 1), Decimal))
      BY <1>7, <1>8, <2>2 DEF Fraction
    <2>5. QED
      BY <1>11, <2>3, <2>4
  <1>13. u[1] \in Decimal /\ g # <<>> /\ u # <<>>
    <2>1. 1 \in 1..Len(g)
      BY <1>3
    <2>2. g # <<>> /\ u # <<>>
      BY <1>3, <1>8
    <2>3. QED
      BY <1>9, <2>1, <2>2
  <1>14. QED
    BY <1>5, <1>10, <1>12, <1>13

\* So it does in what printf wrote.
LEMMA MillionthsFound ==
  ASSUME NEW r \in Nat, NEW u, u = unsigned_f(r)
  PROVE  /\ Whole(u) = digits[r \div Million] /\ Fraction(u) = decimals(r % Million) /\ Whole(u) # <<>>
         /\ u \in Text /\ u # <<>> /\ u[1] \in Decimal
  <1>1. PICK g, d : g = digits[r \div Million] /\ d = decimals(r % Million)
    OBVIOUS
  <1>2. /\ g \in Text /\ Len(g) # 0 /\ AllDigits(g)
        /\ d \in Text /\ Len(d) = 6 /\ \A i \in 1..6 : d[i] \in Decimal
        /\ u = Pointed(g, d)
    BY <1>1, UnsignedIs
  <1>3. \A i \in 1..Len(d) : d[i] \in Decimal
    BY <1>2
  <1>4. /\ Whole(u) = g /\ Fraction(u) = d /\ g # <<>>
        /\ u \in Text /\ u # <<>> /\ u[1] \in Decimal
    BY <1>2, <1>3, PartsFound
  <1>5. QED
    BY <1>1, <1>4

\* And they denote that number of millionths.
LEMMA ValueRight ==
  ASSUME NEW r \in Nat
  PROVE  ValueOf(digits[r \div Million] \o Seven(decimals(r % Million))) = 10 * r
  <1> DEFINE g == digits[r \div Million]
             d == decimals(r % Million)
             s == Seven(d)
             V(i) == ValueOf(g \o SubSeq(s, 1, i))
             w == r \div Million
             k == r % Million
  <1>1. g \in Text /\ ValueOf(g) = w /\ w \in Nat
    BY UnsignedIs
  <1>2. /\ d \in Text /\ Len(d) = 6 /\ \A i \in 1..6 : d[i] \in Characters /\ DigitOf(d[i]) \in 0..9
        /\ k = 100000 * DigitOf(d[1]) + 10000 * DigitOf(d[2]) + 1000 * DigitOf(d[3])
               + 100 * DigitOf(d[4]) + 10 * DigitOf(d[5]) + DigitOf(d[6])
        /\ r = Million * w + k
    <2>1. r % Million \in Nat /\ r % Million < Million /\ r = Million * (r \div Million) + (r % Million)
      BY MillionParts
    <2>2. QED
      BY <2>1, DecimalsRight
  <1> HIDE DEF g, d, w, k
  <1>3. "0" \in Characters /\ DigitOf("0") = 0
    <2>1. 0 \in 0..9 /\ Digits[0 + 1] = "0"
      BY DEF Digits
    <2>2. QED
      BY <2>1, DigitIs
  <1>4. /\ s \in Text /\ Len(s) = 7 /\ s[7] = "0" /\ \A i \in 1..6 : s[i] = d[i]
    <2>1. s = [i \in 1..7 |-> IF i <= 6 THEN d[i] ELSE "0"]
      BY <1>2 DEF Seven
    <2> HIDE DEF s
    <2>2. s = [i \in 1..7 |-> s[i]] /\ \A i \in 1..7 : s[i] \in Characters
      BY <1>2, <1>3, <2>1
    <2>3. s \in Text /\ Len(s) = 7
      BY <2>2, TextOf
    <2>4. QED
      BY <2>1, <2>3
  <1> HIDE DEF s
  <1>5. V(0) = w /\ V(7) = ValueOf(g \o s)
    <2>1. SubSeq(s, 1, 0) = <<>> /\ SubSeq(s, 1, 7) = s /\ g \o <<>> = g
      BY <1>1, <1>4 DEF Text
    <2>2. QED
      BY <1>1, <2>1
  <1>6. ASSUME NEW i \in 0..6 PROVE V(i + 1) = 10 * V(i) + DigitOf(s[i + 1])
    <2>1. i \in Nat /\ i < Len(s)
      BY <1>4
    <2>2. QED
      BY <1>1, <1>4, <2>1, ValueNext
  <1> HIDE DEF V
  <1>7. /\ V(1) = 10 * V(0) + DigitOf(d[1]) /\ V(2) = 10 * V(1) + DigitOf(d[2])
        /\ V(3) = 10 * V(2) + DigitOf(d[3]) /\ V(4) = 10 * V(3) + DigitOf(d[4])
        /\ V(5) = 10 * V(4) + DigitOf(d[5]) /\ V(6) = 10 * V(5) + DigitOf(d[6])
        /\ V(7) = 10 * V(6) + 0
    <2>1. ASSUME NEW i \in 1..6 PROVE V(i) = 10 * V(i - 1) + DigitOf(d[i])
      <3>1. i - 1 \in 0..6 /\ (i - 1) + 1 = i
        OBVIOUS
      <3>2. V((i - 1) + 1) = 10 * V(i - 1) + DigitOf(s[(i - 1) + 1])
        BY <1>6, <3>1
      <3>3. QED
        BY <1>4, <3>1, <3>2
    <2>2. V(6 + 1) = 10 * V(6) + DigitOf(s[6 + 1])
      BY <1>6
    <2>3. V(7) = 10 * V(6) + 0
      BY <1>3, <1>4, <2>2
    <2>4. QED
      BY <2>1, <2>3
  <1>8. V(7) = 10 * r
    <2>1. PICK a, b, c, e, f, h : /\ a = DigitOf(d[1]) /\ b = DigitOf(d[2]) /\ c = DigitOf(d[3])
                                  /\ e = DigitOf(d[4]) /\ f = DigitOf(d[5]) /\ h = DigitOf(d[6])
      OBVIOUS
    <2>2. a \in Int /\ b \in Int /\ c \in Int /\ e \in Int /\ f \in Int /\ h \in Int
      BY <1>2, <2>1
    <2>3. V(1) = 10 * w + a /\ V(2) = 100 * w + 10 * a + b
      BY <1>1, <1>5, <1>7, <2>1, <2>2
    <2>4. V(3) = 1000 * w + 100 * a + 10 * b + c
      BY <1>1, <1>7, <2>1, <2>2, <2>3
    <2>5. V(4) = 10000 * w + 1000 * a + 100 * b + 10 * c + e
      BY <1>1, <1>7, <2>1, <2>2, <2>4
    <2>6. V(5) = 100000 * w + 10000 * a + 1000 * b + 100 * c + 10 * e + f
      BY <1>1, <1>7, <2>1, <2>2, <2>5
    <2>7. V(6) = 1000000 * w + 100000 * a + 10000 * b + 1000 * c + 100 * e + 10 * f + h
      BY <1>1, <1>7, <2>1, <2>2, <2>6
    <2>8. V(6) = r
      BY <1>1, <1>2, <2>1, <2>2, <2>7, SMT DEF Million
    <2>9. QED
      BY <1>7, <2>8
  <1>9. QED
    BY <1>5, <1>8 DEF g, s, d

\* What printf writes for a number: a sign, and digits that are no space.
LEMMA PercentIs ==
  ASSUME NEW n \in Int, NEW r, r = Rounded(Magnitude(n)), NEW u, u = unsigned_f(r)
  PROVE  /\ r \in Nat /\ percent_f(n) \in Text /\ percent_f(n) # <<>> /\ percent_f(n)[1] \notin Spaces
         /\ Unsigned(percent_f(n)) = u
         /\ percent_f(n)[1] = "-" <=> n < 0
  <1>1. Magnitude(n) \in Nat
    BY DEF Magnitude
  <1>2. r \in Nat
    BY <1>1, RoundedIs
  <1>3. u \in Text /\ u # <<>>
    BY <1>2, MillionthsFound
  <1>4. u[1] \in Decimal /\ Len(u) \in Nat \ {0}
    <2>1. u[1] \in Decimal
      BY <1>2, MillionthsFound
    <2>2. Len(u) \in Nat \ {0}
      BY <1>3 DEF Text
    <2>3. QED
      BY <2>1, <2>2
  <1>5. u[1] \notin {"-", "+"} /\ u[1] \notin Spaces
    BY <1>4, NoDigits DEF IsDigit
  <1>6. percent_f(n) = Sign(n) \o u
    BY DEF percent_f
  <1>7. CASE n < 0
    <2>1. Sign(n) = <<"-">> /\ "-" \in Characters
      BY <1>7, CharacterAssumption DEF Sign
    <2> DEFINE x == <<"-">> \o u
    <2>2. /\ x \in Seq(Characters) /\ Len(x) = Len(u) + 1 /\ x[1] = "-"
          /\ \A i \in 1..Len(u) : x[i + 1] = u[i]
      <3>1. <<"-">> \in Text /\ Len(<<"-">>) = 1 /\ <<"-">>[1] = "-"
        BY <2>1 DEF Text
      <3>2. QED
        BY <1>3, <3>1 DEF Text
    <2> HIDE DEF x
    <2>3. Tail(x) = u
      <3>1. u \in Seq(Characters) /\ x # <<>>
        BY <1>3, <1>4, <2>2 DEF Text
      <3>2. Tail(x) \in Seq(Characters) /\ Len(Tail(x)) = Len(u)
        BY <1>4, <2>2, <3>1
      <3>3. \A i \in 1..Len(u) : Tail(x)[i] = u[i]
        BY <1>4, <2>2, <3>1
      <3>4. QED
        BY <3>1, <3>2, <3>3
    <2>4. percent_f(n) = x /\ x # <<>>
      BY <1>4, <1>6, <2>1, <2>2 DEF x
    <2>5. "-" \notin Spaces
      BY DEF Spaces, Blank, Newline, Return
    <2>6. QED
      BY <1>2, <1>7, <2>2, <2>3, <2>4, <2>5 DEF Unsigned, Text
  <1>8. CASE ~(n < 0)
    <2>1. percent_f(n) = u
      BY <1>3, <1>6, <1>8, TextEmpty DEF Sign
    <2>2. u # <<>>
      BY <1>4
    <2>3. QED
      BY <1>2, <1>3, <1>5, <1>8, <2>1, <2>2 DEF Unsigned
  <1>9. QED
    BY <1>7, <1>8

\* sscanf reads the millionths that printf wrote.
LEMMA ReadsWhatWasWritten ==
  ASSUME NEW n \in Int, NEW r, r = Rounded(Magnitude(n))
  PROVE  sscanf(percent_f(n)) = NumberValue(IF n < 0 THEN -(10 * r) ELSE 10 * r)
  <1> DEFINE u == unsigned_f(r)
             x == percent_f(n)
  <1>1. /\ r \in Nat /\ x \in Text /\ x # <<>> /\ x[1] \notin Spaces /\ Unsigned(x) = u
        /\ x[1] = "-" <=> n < 0
    BY PercentIs
  <1>2. /\ Whole(u) = digits[r \div Million] /\ Fraction(u) = decimals(r % Million)
        /\ ValueOf(Whole(u) \o Seven(Fraction(u))) = 10 * r
    BY <1>1, MillionthsFound, ValueRight
  <1>3. Whole(u) # <<>>
    BY <1>1, MillionthsFound
  <1> HIDE DEF u, x
  <1>4. After(x, Run(x, Spaces)) = x
    <2>1. Len(x) \in Nat /\ 0 \in 0..Len(x) /\ x \in Seq(Characters)
      BY <1>1 DEF Text
    <2>2. Run(x, Spaces) = 0
      BY <1>1, <2>1, RunIs
    <2>3. After(x, 0) = SubSeq(x, 1, Len(x))
      BY DEF After
    <2>4. SubSeq(x, 1, Len(x)) = x
      BY <2>1
    <2>5. QED
      BY <2>2, <2>3, <2>4
  <1>5. sscanf(x) = NumberValue(IF x[1] = "-" THEN -(10 * r) ELSE 10 * r)
    BY <1>1, <1>2, <1>3, <1>4 DEF sscanf
  <1>6. QED
    BY <1>1, <1>5 DEF x

\* What snprintf writes is the beginning of what it was to write.
LEMMA SnprintfIs ==
  ASSUME NEW t \in Text, NEW size \in Nat \ {0}
  PROVE  /\ snprintf(size, t) \in Text /\ Len(snprintf(size, t)) \in Nat /\ Len(t) \in Nat
         /\ Len(snprintf(size, t)) = IF Len(t) < size THEN Len(t) ELSE size - 1
         /\ \A i \in 1..Len(snprintf(size, t)) : snprintf(size, t)[i] = t[i]
         /\ Len(t) < size => snprintf(size, t) = t
  <1> DEFINE k == IF Len(t) < size THEN Len(t) ELSE size - 1
  <1>1. t \in Seq(Characters)
    BY DEF Text
  <1>2. Len(t) \in Nat /\ k \in 0..Len(t)
    BY <1>1
  <1>3. snprintf(size, t) = SubSeq(t, 1, k) /\ (Len(t) < size => k = Len(t))
    BY DEF snprintf
  <1> HIDE DEF k
  <1>4. /\ SubSeq(t, 1, k) \in Seq(Characters) /\ Len(SubSeq(t, 1, k)) = k
        /\ \A i \in 1..k : SubSeq(t, 1, k)[i] = t[i]
        /\ SubSeq(t, 1, Len(t)) = t
    BY <1>1, <1>2
  <1>5. QED
    BY <1>2, <1>3, <1>4 DEF k, Text

\* A number survives both conversions to half a millionth, if the buffer has
\* room for what is written.
LEMMA NumberSurvives ==
  ASSUME NEW n \in Int, Len(percent_f(n)) < NumberSize,
         NEW back, back = sscanf(snprintf(NumberSize, percent_f(n)))
  PROVE  back.kind = "number" /\ back.num % 10 = 0 /\ back.num - n \in -5..5
  <1> DEFINE r == Rounded(Magnitude(n))
             m == IF n < 0 THEN -(10 * r) ELSE 10 * r
  <1>1. percent_f(n) \in Text /\ NumberSize \in Nat \ {0}
    BY PercentIs, SizeAssumption
  <1>2. snprintf(NumberSize, percent_f(n)) = percent_f(n)
    BY <1>1, SnprintfIs
  <1>3. back = NumberValue(m)
    BY <1>2, ReadsWhatWasWritten
  <1>4. r \in Nat /\ 10 * r - Magnitude(n) \in -5..5
    <2>1. Magnitude(n) \in Nat
      BY DEF Magnitude
    <2>2. QED
      BY <2>1, RoundedIs
  <1> HIDE DEF r
  <1>5. m % 10 = 0 /\ m - n \in -5..5
    <2>1. CASE n < 0
      <3>1. m = 10 * (-r) /\ Magnitude(n) = -n
        BY <1>4, <2>1 DEF Magnitude
      <3>2. m % 10 = 0
        BY <1>4, <3>1
      <3>3. QED
        BY <1>4, <3>1, <3>2
    <2>2. CASE ~(n < 0)
      <3>1. m = 10 * r /\ Magnitude(n) = n
        BY <2>2 DEF Magnitude
      <3>2. QED
        BY <1>4, <3>1
    <2>3. QED
      BY <2>1, <2>2
  <1>6. back.kind = "number" /\ back.num = m
    BY <1>3 DEF NumberValue, Value
  <1>7. QED
    BY <1>5, <1>6

-----------------------------------------------------------------------------
(***************************************************************************)
(* What format has written.                                                *)
(***************************************************************************)
\* What the first k arguments are together.
Together(k) == FlattenSeq([i \in 1..k |-> Formatted(args[i])])

\* The buffer has what was asked for so far, if that and a NUL fit it.
FormatSoFar ==
  Formatting => /\ next \in 1..Len(args) + 1
                /\ offset = Len(Together(next - 1))
                /\ offset < BufferSize => buffer = Together(next - 1)
                /\ Len(buffer) < BufferSize /\ Len(buffer) <= offset

\* Arguments are values, and what is written for them is text.
LEMMA ArgumentType ==
  ASSUME args \in Arguments
  PROVE  /\ Len(args) \in Nat /\ DOMAIN args = 1..Len(args)
         /\ \A i \in 1..Len(args) : /\ args[i].text \in Text /\ args[i].num \in Int
                                    /\ args[i].kind = "number" => args[i] = NumberValue(args[i].num)
                                    /\ Formatted(args[i]) \in Text
  <1> DEFINE R == [kind : STRING, num : Int, text : Text]
  <1>1. args \in Seq(R)
    BY ArgumentAssumption
  <1> HIDE DEF R
  <1>2. Len(args) \in Nat /\ DOMAIN args = 1..Len(args) /\ \A i \in 1..Len(args) : args[i] \in R
    BY <1>1
  <1>3. ASSUME NEW i \in 1..Len(args)
        PROVE  /\ args[i].text \in Text /\ args[i].num \in Int
               /\ args[i].kind = "number" => args[i] = NumberValue(args[i].num)
               /\ Formatted(args[i]) \in Text
    <2>1. args[i].text \in Text /\ args[i].num \in Int
      BY <1>2 DEF R
    <2>2. args[i].kind = "number" => args[i] = NumberValue(args[i].num)
      BY <1>2, ArgumentAssumption
    <2>3. percent_f(args[i].num) \in Text /\ CString(args[i].text) \in Text
      BY <2>1, PercentIs, CStringType
    <2>4. Null \in Text
      <3>1. DOMAIN Null = 1..6
        BY DEF Null
      <3>2. \A j \in 1..6 : Null[j] \in Characters
        BY <3>1, CharacterAssumption DEF ToSet
      <3>3. Null = [j \in 1..6 |-> Null[j]]
        BY DEF Null
      <3>4. QED
        BY <3>2, <3>3 DEF Text
    <2>5. QED
      BY <2>1, <2>2, <2>3, <2>4, TextEmpty DEF Formatted
  <1>4. QED
    BY <1>2, <1>3

\* One argument after another.
LEMMA TogetherIs ==
  ASSUME args \in Arguments
  PROVE  /\ Together(0) = <<>>
         /\ \A k \in 0..Len(args) : Together(k) \in Text /\ Len(Together(k)) \in Nat
         /\ \A k \in 0..Len(args) - 1 : Together(k + 1) = Together(k) \o Formatted(args[k + 1])
         /\ Wanted = Together(Len(args))
  <1> DEFINE F(k) == [i \in 1..k |-> Formatted(args[i])]
  <1>1. /\ Len(args) \in Nat /\ DOMAIN args = 1..Len(args)
        /\ \A i \in 1..Len(args) : Formatted(args[i]) \in Text
    BY ArgumentType
  <1>2. ASSUME NEW k \in 0..Len(args)
        PROVE  F(k) \in Seq(Text) /\ Len(F(k)) = k /\ k \in Nat
               /\ \A i \in 1..k : F(k)[i] = Formatted(args[i])
    BY <1>1, <1>2
  <1>3. ASSUME NEW k \in 0..Len(args) PROVE Together(k) \in Text /\ Len(Together(k)) \in Nat
    <2>1. FlattenSeq(F(k)) \in Text
      BY <1>2, FlattenType
    <2>2. QED
      BY <2>1, TextEmpty DEF Together
  <1>4. Together(0) = <<>>
    <2>1. 0 \in 0..Len(args)
      BY <1>1
    <2>2. FlattenSeq(F(0)) = <<>>
      BY <1>2, <2>1, FlattenType
    <2>3. QED
      BY <2>2 DEF Together
  <1>5. ASSUME NEW k \in 0..Len(args) - 1
        PROVE  Together(k + 1) = Together(k) \o Formatted(args[k + 1])
    <2> DEFINE t == F(k)
               u == F(k + 1)
    <2>1. k \in 0..Len(args) /\ k + 1 \in 0..Len(args) /\ k \in Nat /\ k + 1 \in 1..k + 1
      BY <1>1
    <2>2. t \in Seq(Text) /\ Len(t) = k /\ \A i \in 1..k : t[i] = Formatted(args[i])
      BY <1>2, <2>1
    <2>3. u \in Seq(Text) /\ Len(u) = k + 1 /\ \A i \in 1..k + 1 : u[i] = Formatted(args[i])
      BY <1>2, <2>1
    <2>4. Together(k) = FlattenSeq(t) /\ Together(k + 1) = FlattenSeq(u)
      BY DEF Together
    <2> HIDE DEF t, u
    <2>5. \A i \in 1..k : t[i] = u[i]
      BY <2>1, <2>2, <2>3
    <2>6. FlattenSeq(u) = FlattenSeq(t) \o u[k + 1]
      BY <2>1, <2>2, <2>3, <2>5, FlattenOneMore
    <2>7. QED
      BY <2>1, <2>3, <2>4, <2>6
  <1>6. Wanted = Together(Len(args))
    BY <1>1 DEF Wanted, Together
  <1>7. QED
    BY <1>3, <1>4, <1>5, <1>6

\* More arguments are at least as long.
LEMMA TogetherGrows ==
  ASSUME args \in Arguments, NEW k \in 0..Len(args)
  PROVE  Len(Together(k)) <= Len(Wanted)
  <1> DEFINE n == Len(args)
             S == {j \in 0..n - k : Len(Together(k)) <= Len(Together(k + j))}
  <1>1. n \in Nat /\ n - k \in Nat
    BY ArgumentType
  <1>2. 0 \in S
    BY <1>1, TogetherIs
  <1>3. ASSUME NEW j \in 0..(n - k) - 1, j \in S PROVE j + 1 \in S
    <2>1. k + j \in 0..n - 1 /\ k + j \in 0..n /\ (k + j) + 1 = k + (j + 1) /\ j + 1 \in 0..n - k
          /\ (k + j) + 1 \in 1..n /\ (k + j) + 1 \in 0..n
      BY <1>1
    <2>2. Together((k + j) + 1) = Together(k + j) \o Formatted(args[(k + j) + 1])
      BY <2>1, TogetherIs
    <2>3. Formatted(args[(k + j) + 1]) \in Text /\ Together(k + j) \in Text
      BY <2>1, ArgumentType, TogetherIs
    <2>4. Len(Together((k + j) + 1)) = Len(Together(k + j)) + Len(Formatted(args[(k + j) + 1]))
          /\ Len(Formatted(args[(k + j) + 1])) \in Nat
      BY <2>2, <2>3, TextJoin, TextEmpty
    <2>5. Len(Together(k)) <= Len(Together(k + j)) /\ Len(Together(k + j)) \in Nat
          /\ Len(Together(k)) \in Nat
      BY <1>3, <2>1, TogetherIs
    <2>6. Len(Together(k)) <= Len(Together((k + j) + 1))
      BY <2>4, <2>5
    <2>7. QED
      BY <2>1, <2>6
  <1>4. 0..n - k \subseteq S
    <2> HIDE DEF S
    <2>1. QED
      BY <1>1, <1>2, <1>3, BoundedInduction
  <1>5. n - k \in S /\ k + (n - k) = n
    <2> HIDE DEF S
    <2>1. n - k \in 0..n - k /\ k + (n - k) = n
      BY <1>1
    <2>2. QED
      BY <1>4, <2>1
  <1>6. QED
    BY <1>5, TogetherIs

-----------------------------------------------------------------------------
(***************************************************************************)
(* The inductive invariant.                                                *)
(***************************************************************************)
Statuses == {"running", "error", "aborted", "undefined"}
Kinds == {"number", "string", "null"}

\* What is known of the last call.
CallRight ==
  /\ native \in Called \cup {"none"} /\ active \in BOOLEAN /\ calls \in 0..MaxCalls
  /\ status \in Statuses /\ result.kind \in Kinds
  /\ native # "none" => args \in Arguments
  /\ active => native \in {"input", "input_hidden", "format"} /\ calls < MaxCalls
  /\ active /\ native = "format" => args # <<>>

\* What num2str returned.
NumberWritten ==
  native = "num2str" /\ status = "running"
    => ~active /\ NumbersOnly(args, 1) /\ result = Num2Str(args[1].num)

IInv == CallRight /\ IOType /\ BufferRight /\ LinesSoFar /\ FormatSoFar /\ FormatExact /\ NumberWritten

LEMMA InitIInv == Init => IInv
  <1> SUFFICES ASSUME Init PROVE IInv
    OBVIOUS
  <1>1. /\ native = "none" /\ active = FALSE /\ buffer = <<>> /\ offset = 0 /\ lines = <<>>
        /\ typed = stdin /\ stdin \in Text /\ status = "running" /\ calls = 0
        /\ result.kind = "null"
    BY InputAssumption DEF Init, null_value, Value
  <1>2. CallRight
    <2>1. active \in BOOLEAN /\ ~active
      BY <1>1
    <2>2. calls \in 0..MaxCalls
      BY <1>1, SizeAssumption
    <2>3. status \in Statuses /\ result.kind \in Kinds
      BY <1>1 DEF Statuses, Kinds
    <2>4. QED
      BY <1>1, <2>1, <2>2, <2>3 DEF CallRight
  <1>3. /\ IOType /\ Pos = 0
    <2>1. Len(typed) \in Nat /\ Pos = 0
      BY <1>1, TextEmpty DEF Pos
    <2>2. \A i \in 1..Len(stdin) : Pos + i = i
      BY <1>1, <2>1
    <2>3. lines \in Seq(Text)
      BY <1>1
    <2>4. QED
      BY <1>1, <2>1, <2>2, <2>3 DEF IOType
  <1>4. BufferRight
    BY <1>1, TextEmpty DEF BufferRight, Reading
  <1>5. LinesSoFar
    <2>1. IsEnd(0, 0)
      <3>1. Below(0) = {} /\ 0 \in LineEnds
        BY <1>1, EndsFinite DEF Below, LineEnds, Text
      <3>2. QED
        BY <3>1, FS_EmptySet DEF IsEnd
    <2>2. Len(lines) = 0 /\ lines = [i \in 1..0 |-> Line(i)]
      BY <1>1
    <2>3. ~Reading
      BY <1>1 DEF Reading
    <2>4. LinesRead
      BY <1>3, <2>1, <2>2, <2>3 DEF LinesRead
    <2>5. QED
      BY <2>4 DEF LinesSoFar
  <1>6. FormatSoFar /\ FormatExact /\ NumberWritten
    BY <1>1 DEF FormatSoFar, FormatExact, NumberWritten, Formatting
  <1>7. QED
    BY <1>2, <1>3, <1>4, <1>5, <1>6 DEF IInv

\* A native of one step that is not num2str and not format.
LEMMA ReturnsStep ==
  ASSUME IInv, Idle, NEW f \in Called, NEW a \in Arguments, NEW v, NEW t, Returns(f, a, v, t),
         v.kind \in Kinds,
         f = "num2str" => NumbersOnly(a, 1) /\ v = Num2Str(a[1].num),
         f = "format" => a = <<>>
  PROVE  IInv'
  <1>1. /\ status = "running" /\ active = FALSE /\ calls < MaxCalls /\ native' = f /\ args' = a
        /\ result' = v /\ calls' = calls + 1
        /\ UNCHANGED <<stdin, active, buffer, offset, next, status, typed, lines>>
    BY DEF Returns, Idle, locals, history, IInv, CallRight
  <1>2. ~Reading /\ ~Reading' /\ ~Formatting'
    BY <1>1 DEF Reading, Formatting
  <1>3. CallRight'
    BY <1>1, SizeAssumption DEF IInv, CallRight
  <1>4. IOType' /\ LinesSoFar'
    BY <1>1, <1>2, QuietLines DEF IInv
  <1>5. BufferRight' /\ FormatSoFar'
    BY <1>1, <1>2 DEF IInv, BufferRight, FormatSoFar
  <1>6. FormatExact'
    BY <1>1 DEF FormatExact
  <1>7. NumberWritten'
    BY <1>1 DEF NumberWritten
  <1>8. QED
    BY <1>3, <1>4, <1>5, <1>6, <1>7 DEF IInv

\* A native that ends the program.
LEMMA EndsStep ==
  ASSUME IInv, Idle, NEW f \in Called \ {"format"}, NEW a \in Arguments, NEW how \in {"error", "aborted"},
         Ends(f, a, how)
  PROVE  IInv'
  <1>1. /\ status = "running" /\ active = FALSE /\ native' = f /\ args' = a /\ status' = how
        /\ UNCHANGED <<stdin, active, buffer, offset, next, result, calls, typed, lines>>
    BY DEF Ends, Idle, io, locals, history, IInv, CallRight
  <1>2. ~Reading /\ ~Reading' /\ ~Formatting'
    BY <1>1 DEF Reading, Formatting
  <1>3. CallRight'
    BY <1>1 DEF IInv, CallRight, Statuses
  <1>4. IOType' /\ LinesSoFar'
    BY <1>1, <1>2, QuietLines DEF IInv
  <1>5. BufferRight' /\ FormatSoFar'
    BY <1>1, <1>2 DEF IInv, BufferRight, FormatSoFar
  <1>6. FormatExact' /\ NumberWritten'
    BY <1>1 DEF FormatExact, NumberWritten
  <1>7. QED
    BY <1>3, <1>4, <1>5, <1>6 DEF IInv

\* A native that writes or returns at once, one by one.
LEMMA CallStep ==
  ASSUME IInv, Idle, NEW a \in Arguments,
         print(a) \/ println(a) \/ type(a) \/ str2num(a) \/ num2str(a) \/ len(a) \/ pow(a) \/ sqrt(a)
  PROVE  IInv'
  <1>1. null_value.kind = "null" /\ \A n : NumberValue(n).kind = "number" /\ StringValue(n).kind = "string"
    BY DEF null_value, NumberValue, StringValue, Value
  <1>2. {"number", "string", "null"} = Kinds
    BY DEF Kinds
  <1>3. /\ "print" \in Called /\ "println" \in Called /\ "type" \in Called /\ "str2num" \in Called
        /\ "num2str" \in Called /\ "len" \in Called /\ "pow" \in Called /\ "sqrt" \in Called
    BY DEF Called
  <1>4. ASSUME print(a) PROVE IInv'
    BY <1>1, <1>2, <1>3, <1>4, ReturnsStep DEF print
  <1>5. ASSUME println(a) PROVE IInv'
    BY <1>1, <1>2, <1>3, <1>5, ReturnsStep DEF println
  <1>6. ASSUME type(a) PROVE IInv'
    <2>1. CASE Returns("type", a, StringValue(<<a[1].kind>>), <<>>)
      BY <1>1, <1>2, <1>3, <2>1, ReturnsStep
    <2>2. CASE Ends("type", a, "aborted") \/ Ends("type", a, "error")
      BY <1>3, <2>2, EndsStep
    <2>3. QED
      BY <1>6, <2>1, <2>2 DEF type
  <1>7. ASSUME str2num(a) PROVE IInv'
    <2>1. CASE Len(a) # 1
      BY <1>3, <1>7, <2>1, EndsStep DEF str2num
    <2>2. CASE Len(a) = 1
      <3>1. sscanf(a[1].text).kind \in {"null", "number"}
        BY <1>1 DEF sscanf
      <3>2. QED
        BY <1>1, <1>2, <1>3, <1>7, <2>2, <3>1, ReturnsStep DEF str2num
    <2>3. QED
      BY <2>1, <2>2
  <1>8. ASSUME num2str(a) PROVE IInv'
    <2>1. Num2Str(a[1].num).kind = "string"
      BY <1>1 DEF Num2Str
    <2>2. CASE NumbersOnly(a, 1)
      BY <1>2, <1>3, <1>8, <2>1, <2>2, ReturnsStep DEF num2str
    <2>3. CASE ~NumbersOnly(a, 1)
      BY <1>3, <1>8, <2>3, EndsStep DEF num2str
    <2>4. QED
      BY <2>2, <2>3
  <1>9. ASSUME len(a) PROVE IInv'
    <2>1. CASE Returns("len", a, NumberValue(a[1].num * Unit), <<>>)
      BY <1>1, <1>2, <1>3, <2>1, ReturnsStep
    <2>2. CASE Ends("len", a, "error")
      BY <1>3, <2>2, EndsStep
    <2>3. QED
      BY <1>9, <2>1, <2>2 DEF len
  <1>10. ASSUME pow(a) PROVE IInv'
    <2>1. ASSUME NEW n, Returns("pow", a, NumberValue(n * Unit), <<>>) PROVE IInv'
      BY <1>1, <1>2, <1>3, <2>1, ReturnsStep
    <2>2. CASE Ends("pow", a, "error")
      BY <1>3, <2>2, EndsStep
    <2>3. QED
      BY <1>10, <2>1, <2>2 DEF pow
  <1>11. ASSUME sqrt(a) PROVE IInv'
    <2>1. ASSUME NEW n, Returns("sqrt", a, NumberValue(n * Unit), <<>>) PROVE IInv'
      BY <1>1, <1>2, <1>3, <2>1, ReturnsStep
    <2>2. CASE Ends("sqrt", a, "error")
      BY <1>3, <2>2, EndsStep
    <2>3. QED
      BY <1>11, <2>1, <2>2 DEF sqrt
  <1>12. QED
    BY <1>4, <1>5, <1>6, <1>7, <1>8, <1>9, <1>10, <1>11

\* A character is one, whichever function reads it.
LEMMA NextCharacter ==
  ASSUME IOType
  PROVE  NextChar \in Characters
  <1>1. EOF \in Characters /\ NUL \in Characters /\ Newline \in Characters
    BY CharacterAssumption
  <1>2. stdin # <<>> => Head(stdin) \in Characters
    BY DEF IOType, Text
  <1>3. QED
    BY <1>1, <1>2 DEF NextChar

\* The calls and rounds of input.
LEMMA InputStep ==
  ASSUME IInv, (Idle /\ \E a \in Arguments, f \in {"input", "input_hidden"} : input(f, a))
               \/ InputFull \/ InputLine \/ InputStore \/ InputNul
  PROVE  IInv'
  <1>1. ASSUME Idle, NEW a \in Arguments, NEW f \in {"input", "input_hidden"}, input(f, a) PROVE IInv'
    <2>1. /\ native' = f /\ args' = a /\ active' = TRUE /\ buffer' = <<>> /\ offset' = 0
          /\ status' = status /\ status = "running" /\ calls' = calls /\ calls < MaxCalls /\ result' = result
      BY <1>1 DEF input, Idle
    <2>2. native' # "format" /\ native' # "num2str" /\ native' \in Called /\ active' \in BOOLEAN
      BY <2>1 DEF Called
    <2>3. CallRight'
      BY <2>1, <2>2 DEF IInv, CallRight
    <2>4. IOType' /\ LinesSoFar'
      BY <1>1, InputLines DEF IInv
    <2>5. BufferRight'
      BY <2>1, SizeAssumption, TextEmpty DEF BufferRight
    <2>6. FormatSoFar' /\ FormatExact' /\ NumberWritten'
      BY <2>2 DEF FormatSoFar, FormatExact, NumberWritten, Formatting
    <2>7. QED
      BY <2>3, <2>4, <2>5, <2>6 DEF IInv
  <1>2. ASSUME Reading, UNCHANGED <<native, args>>, CallRight', IOType', LinesSoFar', BufferRight'
        PROVE  IInv'
    <2>1. native' # "format" /\ native' # "num2str"
      BY <1>2 DEF Reading
    <2>2. FormatSoFar' /\ FormatExact' /\ NumberWritten'
      BY <2>1 DEF FormatSoFar, FormatExact, NumberWritten, Formatting
    <2>3. QED
      BY <1>2, <2>2 DEF IInv
  <1>3. ASSUME Reading, NEW t, InputReturns(t) PROVE CallRight' /\ BufferRight'
    <2>1. /\ UNCHANGED <<native, args, buffer, offset, status>> /\ active' = FALSE /\ calls' = calls + 1
          /\ result'.kind = "string" /\ active
      BY <1>3 DEF InputReturns, locals, StringValue, Value, Reading
    <2>2. CallRight'
      <3>1. calls' \in 0..MaxCalls
        BY <2>1, SizeAssumption DEF IInv, CallRight
      <3>2. result'.kind \in Kinds /\ active' \in BOOLEAN /\ ~active'
        BY <2>1 DEF Kinds
      <3>3. QED
        BY <2>1, <3>1, <3>2 DEF IInv, CallRight
    <2>3. BufferRight'
      BY <1>3, <2>1 DEF BufferRight, Reading, IInv
    <2>4. QED
      BY <2>2, <2>3
  <1>4. ASSUME InputFull PROVE IInv'
    <2>1. Reading /\ UNCHANGED <<native, args>> /\ InputReturns(SubSeq(buffer, 1, offset - 1))
      BY <1>4 DEF InputFull, InputReturns
    <2>2. CallRight' /\ BufferRight'
      BY <1>3, <2>1
    <2>3. IOType' /\ LinesSoFar'
      BY <1>4, FullLines DEF IInv
    <2>4. QED
      BY <1>2, <2>1, <2>2, <2>3
  <1>5. ASSUME InputLine PROVE IInv'
    <2>1. Reading /\ UNCHANGED <<native, args>> /\ InputReturns(SubSeq(buffer, 1, offset))
      BY <1>5 DEF InputLine, InputReturns
    <2>2. CallRight' /\ BufferRight'
      BY <1>3, <2>1
    <2>3. IOType' /\ LinesSoFar'
      BY <1>5, LineLines DEF IInv
    <2>4. QED
      BY <1>2, <2>1, <2>2, <2>3
  <1>6. ASSUME InputStore PROVE IInv'
    <2>1. /\ Reading /\ UNCHANGED <<native, args, active, result, status, calls>> /\ offset # BufferSize
          /\ buffer' = Append(buffer, NextChar) /\ offset' = offset + 1
      BY <1>6 DEF InputStore, Full
    <2>2. CallRight'
      BY <2>1 DEF IInv, CallRight
    <2>3. IOType' /\ LinesSoFar'
      BY <1>6, StoreLines DEF IInv
    <2>4. buffer \in Seq(Characters) /\ NextChar \in Characters
      BY NextCharacter DEF IInv, BufferRight, Text
    <2>5. buffer' \in Text /\ Len(buffer') = Len(buffer) + 1
      BY <2>1, <2>4 DEF Text
    <2>6. BufferRight'
      BY <2>1, <2>5, SizeAssumption DEF IInv, BufferRight
    <2>7. QED
      BY <1>2, <2>1, <2>2, <2>3, <2>6
  <1>7. ASSUME InputNul PROVE IInv'
    <2>1. /\ Reading /\ status' = "undefined"
          /\ UNCHANGED <<native, args, active, buffer, offset, result, calls>>
      BY <1>7 DEF InputNul, locals
    <2>2. CallRight'
      BY <2>1 DEF IInv, CallRight, Statuses
    <2>3. IOType' /\ LinesSoFar'
      BY <1>7, NulLines DEF IInv
    <2>4. BufferRight'
      BY <2>1 DEF IInv, BufferRight, Reading
    <2>5. QED
      BY <1>2, <2>1, <2>2, <2>3, <2>4
  <1>8. QED
    BY <1>1, <1>4, <1>5, <1>6, <1>7

\* format begins.
LEMMA FormatBegins ==
  ASSUME IInv, Idle, NEW a \in Arguments, format(a)
  PROVE  IInv'
  <1>1. CASE a = <<>>
    <2>1. Returns("format", a, null_value, <<>>) /\ null_value.kind \in Kinds /\ "format" \in Called
      BY <1>1 DEF format, null_value, Value, Kinds, Called
    <2>2. QED
      BY <1>1, <2>1, ReturnsStep
  <1>2. CASE a # <<>>
    <2>1. /\ status = "running" /\ active = FALSE /\ calls < MaxCalls
          /\ native' = "format" /\ args' = a /\ active' = TRUE /\ buffer' = <<>> /\ offset' = 0 /\ next' = 1
          /\ UNCHANGED <<stdin, typed, lines, result, status, calls>>
      BY <1>2 DEF format, Idle, io, history, IInv, CallRight
    <2>2. ~Reading /\ ~Reading' /\ "format" \in Called /\ active' \in BOOLEAN
      BY <2>1 DEF Reading, Called
    <2>3. CallRight'
      BY <1>2, <2>1, <2>2 DEF IInv, CallRight
    <2>4. IOType' /\ LinesSoFar'
      BY <2>1, <2>2, QuietLines DEF IInv
    <2>5. BufferRight'
      BY <2>1, <2>2, TextEmpty DEF BufferRight
    <2>6. FormatSoFar'
      <3>1. Len(args') \in Nat
        BY <2>1, ArgumentAssumption
      <3>2. Together(0)' = <<>>
        <4>1. Together(0)' = FlattenSeq([i \in 1..0 |-> Formatted(args'[i])])
          BY DEF Together
        <4>2. [i \in 1..0 |-> Formatted(args'[i])] = <<>> /\ <<>> \in Seq(Text) /\ Len(<<>>) = 0
          OBVIOUS
        <4>3. QED
          BY <4>1, <4>2, FlattenType
      <3>3. next' - 1 = 0
        BY <2>1
      <3>4. Together(next - 1)' = <<>>
        <4>1. [i \in 1..next' - 1 |-> Formatted(args'[i])] = [i \in 1..0 |-> Formatted(args'[i])]
          BY <3>3
        <4>2. QED
          BY <3>2, <4>1 DEF Together
      <3>5. QED
        BY <2>1, <3>1, <3>4, SizeAssumption, TextEmpty DEF FormatSoFar
    <2>7. FormatExact' /\ NumberWritten'
      BY <2>1 DEF FormatExact, NumberWritten
    <2>8. QED
      BY <2>3, <2>4, <2>5, <2>6, <2>7 DEF IInv
  <1>3. QED
    BY <1>1, <1>2

\* The rounds of format.
LEMMA FormatNextStep ==
  ASSUME IInv, FormatNext
  PROVE  IInv'
  <1> DEFINE text == Formatted(args[next])
             writes == args[next].kind \in {"string", "number", "null"}
             before == Together(next - 1)
  <1>1. /\ Formatting /\ next <= Len(args) /\ args \in Arguments
        /\ UNCHANGED <<stdin, typed, lines, native, args, active, result, calls>>
    BY DEF FormatNext, Formatting, io, history, IInv, CallRight, Called
  <1>2. /\ ~Reading /\ ~Reading' /\ active' /\ native' = "format" /\ status = "running"
        /\ status' \in Statuses
    BY <1>1 DEF Reading, Formatting, FormatNext, IInv, CallRight, Statuses
  <1>3. CallRight'
    BY <1>1, <1>2 DEF IInv, CallRight
  <1>4. IOType' /\ LinesSoFar'
    BY <1>1, <1>2, QuietLines DEF IInv
  <1>5. /\ Len(args) \in Nat /\ next \in 1..Len(args) /\ next - 1 \in 0..Len(args) /\ next \in 0..Len(args)
        /\ (next - 1) + 1 = next /\ next - 1 \in 0..Len(args) - 1
    BY <1>1, ArgumentType DEF FormatSoFar, IInv
  <1>6. /\ text \in Text /\ before \in Text /\ Len(text) \in Nat /\ Len(before) \in Nat
        /\ Together(next) = before \o text /\ Len(before) <= Len(Wanted) /\ Len(Wanted) \in Nat
    <2>1. text \in Text
      BY <1>1, <1>5, ArgumentType
    <2>2. before \in Text /\ Len(Together(Len(args))) \in Nat /\ Wanted = Together(Len(args))
      BY <1>1, <1>5, TogetherIs
    <2>3. Together((next - 1) + 1) = before \o Formatted(args[(next - 1) + 1])
      BY <1>1, <1>5, TogetherIs
    <2>4. Len(before) <= Len(Wanted)
      BY <1>1, <1>5, TogetherGrows
    <2>5. QED
      BY <1>5, <2>1, <2>2, <2>3, <2>4, TextEmpty
  <1>7. \A k : Together(k)' = Together(k)
    BY <1>1 DEF Together
  <1>8. Wanted' = Wanted
    BY <1>1 DEF Wanted
  <1>9. /\ offset = Len(before) /\ (offset < BufferSize => buffer = before)
        /\ Len(buffer) < BufferSize /\ Len(buffer) <= offset /\ buffer \in Text /\ Len(buffer) \in Nat
        /\ BufferSize \in Nat \ {0} /\ offset \in Nat
    BY <1>1, TextEmpty, SizeAssumption DEF IInv, FormatSoFar, BufferRight
  <1>10. NumberWritten'
    BY <1>2 DEF NumberWritten
  <1>11. ~writes => text = <<>>
    BY DEF Formatted
  <1>12. IF writes /\ Room < 0 THEN status' = "undefined" /\ UNCHANGED locals
         ELSE /\ buffer' = IF writes /\ Room > 0 THEN buffer \o snprintf(Room, text) ELSE buffer
              /\ offset' = offset + Len(text) /\ next' = next + 1 /\ status' = status
    BY DEF FormatNext
  <1> HIDE DEF text, before, writes
  <1>13. CASE writes /\ Room < 0
    <2>1. status' = "undefined" /\ UNCHANGED <<buffer, offset, next>>
      BY <1>12, <1>13 DEF locals
    <2>2. Len(Wanted) > BufferSize
      BY <1>6, <1>9, <1>13 DEF Room
    <2>3. BufferRight' /\ FormatSoFar' /\ FormatExact'
      <3>1. BufferRight'
        BY <1>2, <1>9, <2>1 DEF BufferRight
      <3>2. FormatSoFar'
        BY <2>1 DEF FormatSoFar, Formatting
      <3>3. FormatExact'
        BY <1>2, <1>8, <2>2 DEF FormatExact
      <3>4. QED
        BY <3>1, <3>2, <3>3
    <2>4. QED
      BY <1>3, <1>4, <1>10, <2>3 DEF IInv
  <1>14. CASE ~(writes /\ Room < 0)
    <2> DEFINE piece == snprintf(Room, text)
    <2>1. /\ buffer' = IF writes /\ Room > 0 THEN buffer \o piece ELSE buffer
          /\ offset' = offset + Len(text) /\ next' = next + 1 /\ status' = "running"
      BY <1>2, <1>12, <1>14
    <2>2. offset' = Len(Together(next)) /\ offset' \in Nat
      BY <1>6, <1>9, <2>1, TextJoin
    <2>3. /\ buffer' \in Text /\ Len(buffer') < BufferSize /\ Len(buffer') <= offset'
          /\ offset' < BufferSize => buffer' = Together(next)
      <3>1. CASE writes /\ Room > 0
        <4>1. Room \in Nat \ {0} /\ buffer' = buffer \o piece /\ Room = BufferSize - offset
          BY <1>9, <2>1, <3>1 DEF Room
        <4>2. /\ piece \in Text /\ Len(piece) \in Nat
              /\ Len(piece) = IF Len(text) < Room THEN Len(text) ELSE Room - 1
              /\ Len(text) < Room => piece = text
          BY <1>6, <4>1, SnprintfIs
        <4>3. buffer = before
          BY <1>9, <4>1
        <4> HIDE DEF piece
        <4>4. buffer' \in Text /\ Len(buffer') = Len(buffer) + Len(piece)
          BY <1>9, <4>1, <4>2, TextJoin
        <4>5. Len(buffer') < BufferSize /\ Len(buffer') <= offset'
          BY <1>6, <1>9, <2>1, <4>1, <4>2, <4>3, <4>4
        <4>6. ASSUME offset' < BufferSize PROVE buffer' = Together(next)
          <5>1. Len(text) < Room
            BY <1>6, <1>9, <2>1, <4>1, <4>6
          <5>2. QED
            BY <1>6, <4>1, <4>2, <4>3, <5>1
        <4>7. QED
          BY <4>4, <4>5, <4>6
      <3>2. CASE writes /\ ~(Room > 0)
        <4>1. buffer' = buffer /\ ~(offset < BufferSize)
          BY <1>9, <2>1, <3>2 DEF Room
        <4>2. ~(offset' < BufferSize) /\ offset <= offset'
          <5>1. offset \in Nat /\ Len(text) \in Nat /\ BufferSize \in Nat
            BY <1>6, <1>9
          <5>2. QED
            BY <2>1, <4>1, <5>1
        <4>3. Len(buffer') <= offset'
          <5>1. Len(buffer) <= offset /\ Len(buffer) \in Nat /\ offset \in Nat /\ offset' \in Nat
            BY <1>9, <2>2
          <5>2. QED
            BY <4>1, <4>2, <5>1
        <4>4. QED
          BY <1>9, <4>1, <4>2, <4>3
      <3>3. CASE ~writes
        <4>1. buffer' = buffer /\ text = <<>> /\ Len(text) = 0
          BY <1>11, <2>1, <3>3
        <4>2. Together(next) = before /\ offset' = offset
          <5>1. before \o <<>> = before
            BY <1>6 DEF Text
          <5>2. QED
            BY <1>6, <1>9, <2>1, <4>1, <5>1
        <4>3. QED
          BY <1>9, <4>1, <4>2
      <3>4. QED
        BY <3>1, <3>2, <3>3
    <2> HIDE DEF piece
    <2>4. BufferRight'
      BY <1>2, <2>2, <2>3 DEF BufferRight
    <2>5. FormatSoFar'
      <3>1. next' \in 1..Len(args') + 1 /\ next' - 1 = next
        BY <1>1, <1>5, <2>1
      <3>2. Together(next - 1)' = Together(next)
        <4>1. [i \in 1..next' - 1 |-> Formatted(args'[i])] = [i \in 1..next |-> Formatted(args[i])]
          BY <1>1, <3>1
        <4>2. QED
          BY <4>1 DEF Together
      <3>3. QED
        BY <2>2, <2>3, <3>1, <3>2 DEF FormatSoFar
    <2>6. FormatExact'
      BY <1>2, <2>1 DEF FormatExact
    <2>7. QED
      BY <1>3, <1>4, <1>10, <2>4, <2>5, <2>6 DEF IInv
  <1>15. QED
    BY <1>13, <1>14

\* format returns.
LEMMA FormatReturnsStep ==
  ASSUME IInv, FormatReturns
  PROVE  IInv'
  <1>1. /\ Formatting /\ next > Len(args) /\ args \in Arguments
        /\ UNCHANGED <<stdin, typed, lines, native, args, buffer, offset, next>>
    BY DEF FormatReturns, Formatting, io, history, locals, IInv, CallRight, Called
  <1>2. /\ ~Reading /\ ~Reading' /\ active /\ native' = "format" /\ status = "running"
    BY <1>1 DEF Reading, Formatting
  <1>3. IOType' /\ LinesSoFar'
    BY <1>1, <1>2, QuietLines DEF IInv
  <1>4. BufferRight' /\ NumberWritten'
    BY <1>1, <1>2 DEF IInv, BufferRight, NumberWritten
  <1>5. next = Len(args) + 1 /\ next - 1 = Len(args) /\ Len(args) \in Nat
    BY <1>1, ArgumentType DEF FormatSoFar, IInv
  <1>6. /\ offset = Len(Wanted) /\ (offset < BufferSize => buffer = Wanted)
        /\ offset \in Nat /\ BufferSize \in Nat /\ Wanted \in Text
    <2>1. Wanted = Together(next - 1) /\ Wanted \in Text
      BY <1>1, <1>5, TogetherIs
    <2>2. QED
      BY <1>1, <2>1, SizeAssumption DEF IInv, FormatSoFar, BufferRight
  <1>7. Wanted' = Wanted
    BY <1>1 DEF Wanted
  <1>8. CASE offset > BufferSize
    <2>1. status' = "undefined" /\ UNCHANGED <<active, result, calls>>
      BY <1>8 DEF FormatReturns
    <2>2. CallRight'
      BY <1>1, <2>1 DEF IInv, CallRight, Statuses
    <2>3. FormatSoFar'
      BY <2>1 DEF FormatSoFar, Formatting
    <2>4. FormatExact'
      BY <1>2, <1>6, <1>7, <1>8, <2>1 DEF FormatExact
    <2>5. QED
      BY <1>3, <1>4, <2>2, <2>3, <2>4 DEF IInv
  <1>9. CASE ~(offset > BufferSize)
    <2>1. /\ result' = StringValue(buffer \o [i \in 1..(offset - Len(buffer)) |-> NUL])
          /\ active' = FALSE /\ calls' = calls + 1 /\ status' = status
      BY <1>9 DEF FormatReturns
    <2>2. CallRight'
      <3>1. calls' \in 0..MaxCalls
        BY <1>2, <2>1, SizeAssumption DEF IInv, CallRight
      <3>2. result'.kind \in Kinds
        BY <2>1 DEF Kinds, StringValue, Value
      <3>3. QED
        BY <1>1, <2>1, <3>1, <3>2 DEF IInv, CallRight
    <2>3. FormatSoFar'
      BY <2>1 DEF FormatSoFar, Formatting
    <2>4. ASSUME Len(Wanted) < BufferSize PROVE result' = StringValue(Wanted)
      <3>1. buffer = Wanted /\ offset - Len(buffer) = 0
        BY <1>6, <2>4
      <3>2. buffer \o [i \in 1..0 |-> NUL] = buffer
        BY <1>6, <3>1 DEF Text
      <3>3. QED
        BY <2>1, <3>1, <3>2
    <2>5. FormatExact'
      BY <1>2, <1>7, <2>1, <2>4 DEF FormatExact
    <2>6. QED
      BY <1>3, <1>4, <2>2, <2>3, <2>5 DEF IInv
  <1>10. QED
    BY <1>8, <1>9

LEMMA NextIInv == IInv /\ [Next]_vars => IInv'
  <1> SUFFICES ASSUME IInv, [Next]_vars PROVE IInv'
    OBVIOUS
  <1>1. ASSUME Idle, NEW a \in Arguments, Call(a) PROVE IInv'
    BY <1>1, CallStep, FormatBegins, InputStep DEF Call
  <1>2. CASE InputFull \/ InputLine \/ InputStore \/ InputNul
    BY <1>2, InputStep
  <1>3. CASE FormatNext
    BY <1>3, FormatNextStep
  <1>4. CASE FormatReturns
    BY <1>4, FormatReturnsStep
  <1>5. CASE UNCHANGED vars
    <2>1. UNCHANGED <<stdin, native, args, active, buffer, offset, next, result, status, calls, typed, lines>>
      BY <1>5 DEF vars, io, locals, history
    <2>2. Reading' = Reading /\ Formatting' = Formatting
      BY <2>1 DEF Reading, Formatting
    <2>3. CallRight' /\ BufferRight' /\ NumberWritten'
      BY <2>1, <2>2 DEF IInv, CallRight, BufferRight, NumberWritten
    <2>4. IOType' /\ LinesSoFar'
      <3>1. CASE ~Reading
        BY <2>1, <2>2, <3>1, QuietLines DEF IInv
      <3>2. CASE Reading
        <4>1. IOType' /\ Pos' = Pos /\ (Return \notin ToSet(typed))' = (Return \notin ToSet(typed))
          BY <2>1 DEF IInv, IOType, Pos, ToSet
        <4>2. ASSUME LinesRead PROVE LinesRead'
          <5>1. PICK d : /\ IsEnd(Len(lines), d)
                         /\ lines = [i \in 1..Len(lines) |-> Line(i)]
                         /\ d <= Pos /\ \A k \in d + 1..Pos : typed[k] # Newline
                         /\ stdin # <<>> => buffer = SubSeq(typed, d + 1, Pos)
            BY <3>2, <4>2 DEF LinesRead
          <5>2. IsEnd(Len(lines), d)' /\ lines' = [i \in 1..Len(lines') |-> Line(i)']
            BY <2>1, <5>1, TypedStays
          <5>3. QED
            BY <2>1, <2>2, <3>2, <4>1, <5>1, <5>2 DEF LinesRead
        <4>3. Broken => Broken'
          BY <2>1, BrokenStays DEF IInv
        <4>4. QED
          BY <4>1, <4>2, <4>3 DEF IInv, LinesSoFar
      <3>3. QED
        BY <3>1, <3>2
    <2>5. FormatSoFar' /\ FormatExact'
      <3>1. Together(next - 1)' = Together(next - 1) /\ Wanted' = Wanted
        BY <2>1 DEF Together, Wanted
      <3>2. QED
        BY <2>1, <2>2, <3>1 DEF IInv, FormatSoFar, FormatExact
    <2>6. QED
      BY <2>3, <2>4, <2>5 DEF IInv
  <1>6. QED
    BY <1>1, <1>2, <1>3, <1>4, <1>5 DEF Next

\* str2num reads back what num2str has returned.
LEMMA ReadBack == IInv => RoundTrip
  <1> DEFINE back == sscanf(result.text)
  <1> SUFFICES ASSUME IInv, native = "num2str", status = "running",
                      Len(percent_f(args[1].num)) < NumberSize
               PROVE  back.kind = "number" /\ back.num % 10 = 0 /\ back.num - args[1].num \in -5..5
    BY DEF RoundTrip
  <1>1. NumbersOnly(args, 1) /\ result = Num2Str(args[1].num) /\ args \in Arguments
    <2>1. native # "none"
      OBVIOUS
    <2>2. QED
      BY <2>1 DEF IInv, NumberWritten, CallRight
  <1>2. 1 \in 1..Len(args) /\ 1 \in DOMAIN args
    BY <1>1, ArgumentType DEF NumbersOnly
  <1>3. args[1].num \in Int
    BY <1>1, <1>2, ArgumentType
  <1>4. result.text = snprintf(NumberSize, percent_f(args[1].num))
    BY <1>1 DEF Num2Str, StringValue, Value
  <1>5. back = sscanf(snprintf(NumberSize, percent_f(args[1].num)))
    BY <1>4
  <1> HIDE DEF back
  <1>6. QED
    BY <1>3, <1>5, NumberSurvives

LEMMA TypesRight == IInv => TypeOK
  BY DEF IInv, CallRight, BufferRight, FormatSoFar, TypeOK, Kinds, Statuses

\* The invariant of the natives: what a buffer has is exactly what was read or
\* asked for so far, up to where that no longer fits.  It is needed because the
\* properties speak of the end of a call only.
THEOREM Invariant == Spec => []IInv
  BY InitIInv, NextIInv, PTL DEF Spec

\* No native reads or writes beyond its buffer where what it is asked for fits,
\* format then returns all of it, and str2num reads back what num2str wrote to
\* half a millionth, whichever way halves are rounded.
THEOREM BuffersKept == Spec => []Inv
  <1>1. IInv => Inv
    BY ReadBack, TypesRight DEF IInv, Inv
  <1>2. QED
    BY <1>1, Invariant, PTL

\* Successive calls of input return the successive lines of stdin, as long as
\* each fits the buffer with its NUL: none is skipped, cut or returned twice.
THEOREM InputReturnsLines == Spec => []InputGivesLines
  <1>1. IInv => InputGivesLines
    BY LinesGiven DEF IInv
  <1>2. QED
    BY <1>1, Invariant, PTL
=============================================================================
