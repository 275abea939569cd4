------------------------------ MODULE Natives ------------------------------
(***************************************************************************)
(* The native functions of runtime.c, called one after the other with any  *)
(* arguments.  input and format are loops over a buffer of fixed size,     *)
(* written here one round at a time.  A text is a sequence of characters.  *)
(***************************************************************************)
EXTENDS Integers, Sequences, FiniteSets, SequencesExt

CONSTANTS Characters,     \* what a char can be
          Inputs,         \* what stdin may hold
          Arguments,      \* the argument lists considered
          TiesUp,         \* see Rounded
          BufferSize,     \* INPUT_BUFFER_SIZE and FORMAT_BUFFER_SIZE, 4096
          NumberSize,     \* the buffer of num2str, 128
          MaxCalls        \* bound of the model: how many natives are called

ASSUME SizeAssumption == BufferSize \in Nat \ {0} /\ NumberSize \in Nat \ {0} /\ MaxCalls \in Nat

Called == {"print", "println", "type", "input", "input_hidden", "str2num", "num2str", "format",
           "len", "pow", "sqrt"}
Newline == "\n"
Return == "\r"
NUL == "NUL"
Blank == " "
EOF == "EOF"   \* what getchar's -1 is as a char: a character like any other
Digits == <<"0", "1", "2", "3", "4", "5", "6", "7", "8", "9">>
Null == <<"(", "n", "u", "l", "l", ")">>   \* what is printed for null

Text == Seq(Characters)

ASSUME CharacterAssumption ==
  {Newline, Return, NUL, EOF, Blank, "-", "."} \cup ToSet(Digits) \cup ToSet(Null) \subseteq Characters

\* A value has its kind and, if it is a number or a text, what it holds.
Value(kind, num, text) == [kind |-> kind, num |-> num, text |-> text]
NumberValue(n) == Value("number", n, <<>>)
StringValue(t) == Value("string", 0, t)
null_value == Value("null", 0, <<>>)

ASSUME InputAssumption == Inputs \subseteq Text
ASSUME ArgumentAssumption ==
  \A a \in Arguments :
    /\ a \in Seq([kind : STRING, num : Int, text : Text])
    /\ \A i \in DOMAIN a : a[i].kind = "number" => a[i] = NumberValue(a[i].num)

\* A number is counted in ten-millionths, one decimal more than "%f" writes.
Unit == 10000000

VARIABLES stdin,    \* the characters not read yet
          out,      \* the values printf was given
          native, args,         \* the last call
          active,               \* whether it is still being executed
          buffer, offset, next, \* next: the argument format is at
          result, status, calls,
          typed, lines          \* history: all of stdin, what input returned

io == <<stdin, out>>
locals == <<buffer, offset, next>>
history == <<typed, lines>>
vars == <<io, native, args, active, locals, result, status, calls, history>>

Init ==
  /\ stdin \in Inputs /\ out = <<>>
  /\ native = "none" /\ args = <<>> /\ active = FALSE
  /\ buffer = <<>> /\ offset = 0 /\ next = 1
  /\ typed = stdin /\ lines = <<>>
  /\ result = null_value /\ status = "running" /\ calls = 0

----------------------------------------------------------------------------
(* Conversions, by the C library: external.                                *)
digits[n \in Nat] == IF n < 10 THEN <<Digits[n + 1]>> ELSE digits[n \div 10] \o <<Digits[(n % 10) + 1]>>

\* "%f" writes the nearest millionths.  A number that looks halfway between two
\* is a double a little below or, if it is one of TiesUp, above.
Rounded(m) == IF m \in TiesUp THEN (m + 5) \div 10 ELSE (m + 4) \div 10

Million == 1000000
Tens == <<100000, 10000, 1000, 100, 10, 1>>
decimals(k) == [i \in 1..6 |-> Digits[((k \div Tens[i]) % 10) + 1]]

Magnitude(n) == IF n < 0 THEN -n ELSE n
Sign(n) == IF n < 0 THEN <<"-">> ELSE <<>>
unsigned_f(k) == digits[k \div Million] \o <<".">> \o decimals(k % Million)
percent_f(n) == Sign(n) \o unsigned_f(Rounded(Magnitude(n)))

\* How many characters at the beginning of t are in S.
Run(t, S) == CHOOSE k \in 0..Len(t) : /\ \A i \in 1..k : t[i] \in S
                                      /\ k < Len(t) => t[k + 1] \notin S
After(t, k) == SubSeq(t, k + 1, Len(t))

\* "%.*s" stops at a NUL before the length it is given.
CString(t) == SubSeq(t, 1, Run(t, Characters \ {NUL}))

\* What printf is given for a value, nothing for a function; how "%g" spells a
\* number is left out.
print_value(v) ==
  CASE v.kind = "string" -> <<StringValue(CString(v.text))>>
    [] v.kind = "number" -> <<v>>
    [] v.kind = "null"   -> <<StringValue(Null)>>
    [] v.kind = "table"  -> <<StringValue(<<"{}">>)>>
    [] OTHER -> <<>>

Printed(values) == FlattenSeq([i \in DOMAIN values |-> print_value(values[i])])

\* What format has written for a value.
Formatted(v) ==
  CASE v.kind = "string" -> CString(v.text)
    [] v.kind = "number" -> percent_f(v.num)
    [] v.kind = "null"   -> Null
    [] OTHER -> <<>>

\* snprintf into size bytes: one less is text, and all of it is counted.
snprintf(size, text) == SubSeq(text, 1, IF Len(text) < size THEN Len(text) ELSE size - 1)

\* sscanf with "%lf": white space, a sign, digits with a "." before, between or
\* behind them; what follows is not read.  Of the decimals seven count.  Left
\* out: exponents, hexadecimal numerals, "inf" and "nan".
Decimal == ToSet(Digits)
DigitOf(c) == CHOOSE d \in 0..9 : Digits[d + 1] = c
ValueOf(t) == LET upto[i \in 0..Len(t)] == IF i = 0 THEN 0 ELSE 10 * upto[i - 1] + DigitOf(t[i])
              IN  upto[Len(t)]

Spaces == {Blank, Newline, Return}
Unsigned(t) == IF t # <<>> /\ t[1] \in {"-", "+"} THEN Tail(t) ELSE t

Whole(t) == SubSeq(t, 1, Run(t, Decimal))
Fraction(t) == LET w == Run(t, Decimal)
                   u == After(t, w + 1)
               IN  IF w < Len(t) /\ t[w + 1] = "." THEN SubSeq(u, 1, Run(u, Decimal)) ELSE <<>>
Seven(f) == [i \in 1..7 |-> IF i <= Len(f) THEN f[i] ELSE "0"]

sscanf(text) ==
  LET rest == After(text, Run(text, Spaces))
      body == Unsigned(rest)
      m == ValueOf(Whole(body) \o Seven(Fraction(body)))
  IN  IF Whole(body) = <<>> /\ Fraction(body) = <<>> THEN null_value
      ELSE NumberValue(IF rest[1] = "-" THEN -m ELSE m)

----------------------------------------------------------------------------
(* Calls.                                                                  *)
\* When a native may be called.
Idle == status = "running" /\ ~active /\ calls < MaxCalls

\* A native that is one step: it returns a value and prints some.
Returns(f, a, value, printed) ==
  /\ native' = f /\ args' = a /\ result' = value /\ out' = out \o printed /\ calls' = calls + 1
  /\ UNCHANGED <<stdin, active, locals, status, history>>

\* A native that ends the program: by ir_error or by an assertion.
Ends(f, a, how) ==
  /\ native' = f /\ args' = a /\ status' = how
  /\ UNCHANGED <<io, active, locals, result, calls, history>>

NumbersOnly(a, n) == Len(a) = n /\ \A i \in DOMAIN a : a[i].kind = "number"

print(a) == Returns("print", a, null_value, Printed(a))
println(a) == Returns("println", a, null_value, Printed(a) \o <<StringValue(<<Newline>>)>>)

\* The kinds runtime_type has a case for: userdata, which gfx makes, is none.
KindsOfType == {"number", "string", "null", "table", "function"}

type(a) ==
  CASE Len(a) # 1 -> Ends("type", a, "aborted")
    [] Len(a) = 1 /\ a[1].kind \in KindsOfType -> Returns("type", a, StringValue(<<a[1].kind>>), <<>>)
    [] OTHER -> Ends("type", a, "error")

\* The assertion on the number of arguments comes before the error for it.
str2num(a) ==
  IF Len(a) # 1 THEN Ends("str2num", a, "aborted")
  ELSE Returns("str2num", a, IF a[1].kind = "string" THEN sscanf(a[1].text) ELSE null_value, <<>>)

\* Faulty: the buffer has no room for the digits of a large number.
Num2Str_short(n) == StringValue(snprintf(NumberSize - 6, percent_f(n)))

Num2Str(n) == StringValue(snprintf(NumberSize, percent_f(n)))

num2str(a) == IF NumbersOnly(a, 1) THEN Returns("num2str", a, Num2Str(a[1].num), <<>>)
              ELSE Ends("num2str", a, "error")

\* len is the map's counter, which a table value carries here as its number.
len(a) == IF Len(a) = 1 /\ a[1].kind = "table" THEN Returns("len", a, NumberValue(a[1].num * Unit), <<>>)
          ELSE Ends("len", a, "error")

\* The C library computes pow and sqrt: any number may come out.
pow(a) == IF NumbersOnly(a, 2) THEN \E n \in 0..1 : Returns("pow", a, NumberValue(n * Unit), <<>>)
          ELSE Ends("pow", a, "error")
sqrt(a) == IF NumbersOnly(a, 1) THEN \E n \in 0..1 : Returns("sqrt", a, NumberValue(n * Unit), <<>>)
           ELSE Ends("sqrt", a, "error")

----------------------------------------------------------------------------
(* input and input_hidden: print the arguments, then read characters.      *)
input(f, a) ==
  /\ native' = f /\ args' = a /\ active' = TRUE /\ buffer' = <<>> /\ offset' = 0
  /\ out' = out \o Printed(a)
  /\ UNCHANGED <<stdin, next, result, status, calls, history>>

Reading == status = "running" /\ active /\ native \in {"input", "input_hidden"}

\* The build is for Windows (timings.c has nothing else).  input reads with
\* getchar, for which both characters of a line's end are one newline.
\* input_hidden reads with bs_getch, which takes a carriage return for a
\* newline and leaves c = 0 at the end; that there is a standard input is assumed.
LineEndAhead == Len(stdin) >= 2 /\ stdin[1] = Return /\ stdin[2] = Newline

NextChar ==
  CASE stdin = <<>> -> IF native = "input" THEN EOF ELSE NUL
    [] stdin # <<>> /\ native = "input" -> IF LineEndAhead THEN Newline ELSE Head(stdin)
    [] OTHER -> IF Head(stdin) = Return THEN Newline ELSE Head(stdin)

Consume == stdin' = CASE stdin = <<>> -> stdin
                      [] native = "input" /\ LineEndAhead -> Tail(Tail(stdin))
                      [] OTHER -> Tail(stdin)

\* make_string_slow: the text up to the first NUL, which must be there.
InputReturns(text) ==
  /\ Consume
  /\ result' = StringValue(text) /\ active' = FALSE /\ calls' = calls + 1
  /\ lines' = Append(lines, text)
  /\ UNCHANGED <<out, native, args, locals, status, typed>>

\* Faulty: the test for a full buffer comes one character late.
Full_one_late == offset > BufferSize

Full == offset = BufferSize

\* A full buffer's last character makes room for the NUL; the character just
\* read is dropped as well, be it a newline.
InputFull == Reading /\ NextChar # NUL /\ Full /\ InputReturns(SubSeq(buffer, 1, offset - 1))

\* Faulty: the newline is left for the next call.
InputLine_leaving_newline ==
  /\ Reading /\ ~Full /\ NextChar = Newline
  /\ result' = StringValue(buffer) /\ active' = FALSE /\ calls' = calls + 1
  /\ lines' = Append(lines, buffer)
  /\ UNCHANGED <<io, native, args, locals, status, typed>>

InputLine == Reading /\ ~Full /\ NextChar = Newline /\ InputReturns(SubSeq(buffer, 1, offset))

\* Faulty: the end of the input is waited out.
InputStore_but_eof ==
  /\ Reading /\ ~Full /\ NextChar \notin {NUL, Newline}
  /\ IF NextChar = EOF THEN UNCHANGED <<buffer, offset>>
     ELSE buffer' = Append(buffer, NextChar) /\ offset' = offset + 1
  /\ Consume
  /\ UNCHANGED <<out, native, args, active, next, result, status, calls, history>>

InputStore ==
  /\ Reading /\ ~Full /\ NextChar \notin {NUL, Newline}
  /\ buffer' = Append(buffer, NextChar) /\ offset' = offset + 1
  /\ Consume
  /\ UNCHANGED <<out, native, args, active, next, result, status, calls, history>>

\* A NUL ends the loop with the buffer unterminated, and so does c = 0 where
\* bs_getch cannot read: ReadConsoleA fails on what is no console.
InputNul ==
  /\ Reading
  /\ \/ NextChar = NUL /\ Consume
     \/ native = "input_hidden" /\ UNCHANGED stdin
  /\ status' = "undefined"
  /\ UNCHANGED <<out, native, args, active, locals, result, calls, history>>

----------------------------------------------------------------------------
(* format: offset is the sum of what snprintf returns, which counts what   *)
(* it had no room for; buffer is what has been written.                    *)
format(a) ==
  IF a = <<>> THEN Returns("format", a, null_value, <<>>)
  ELSE /\ native' = "format" /\ args' = a /\ active' = TRUE
       /\ buffer' = <<>> /\ offset' = 0 /\ next' = 1
       /\ UNCHANGED <<io, result, status, calls, history>>

Formatting == status = "running" /\ active /\ native = "format"

\* Faulty: room for the NUL is set aside twice.
Room_one_less == BufferSize - offset - 1

Room == BufferSize - offset

\* The next argument; beyond the buffer's end the size wraps around.
FormatNext ==
  /\ Formatting /\ next <= Len(args)
  /\ LET text == Formatted(args[next])
         writes == args[next].kind \in {"string", "number", "null"}
     IN  IF writes /\ Room < 0
         THEN status' = "undefined" /\ UNCHANGED locals
         ELSE /\ buffer' = IF writes /\ Room > 0 THEN buffer \o snprintf(Room, text) ELSE buffer
              /\ offset' = offset + Len(text)
              /\ next' = next + 1 /\ status' = status
  /\ UNCHANGED <<io, native, args, active, result, calls, history>>

\* The result is offset bytes of the buffer; what snprintf cut is a NUL there.
FormatReturns ==
  /\ Formatting /\ next > Len(args)
  /\ IF offset > BufferSize THEN status' = "undefined" /\ UNCHANGED <<active, result, calls>>
     ELSE /\ result' = StringValue(buffer \o [i \in 1..(offset - Len(buffer)) |-> NUL])
          /\ active' = FALSE /\ calls' = calls + 1 /\ status' = status
  /\ UNCHANGED <<io, native, args, locals, history>>

Call(a) == \/ print(a) \/ println(a) \/ type(a) \/ str2num(a) \/ num2str(a) \/ len(a) \/ pow(a)
           \/ sqrt(a) \/ format(a) \/ \E f \in {"input", "input_hidden"} : input(f, a)

Next ==
  \/ Idle /\ \E a \in Arguments : Call(a)
  \/ InputFull \/ InputLine \/ InputStore \/ InputNul \/ FormatNext \/ FormatReturns

Spec == Init /\ [][Next]_vars
FairSpec == Spec /\ WF_vars(Next)

----------------------------------------------------------------------------
(* Properties.                                                             *)
\* The position in input's buffer is where its content ends and never beyond
\* the buffer; format's content leaves room for a NUL.
TypeOK ==
  /\ native \in Called \cup {"none"} /\ active \in BOOLEAN /\ calls \in 0..MaxCalls
  /\ Reading => offset = Len(buffer) /\ offset <= BufferSize
  /\ Formatting => Len(buffer) < BufferSize /\ Len(buffer) <= offset
  /\ result.kind \in {"number", "string", "null"}
  /\ status \in {"running", "error", "aborted", "undefined"}

\* Successive calls of input return the successive lines of stdin, as long as
\* these fit the buffer with a NUL; the lines are told by where the newlines
\* are, not by how they are read.  Of a stdin with carriage returns nothing is
\* claimed: input_hidden leaves the newline behind one to the next call.
LineEnds == {0} \cup {i \in DOMAIN typed : typed[i] = Newline}
End(n) == CHOOSE e \in LineEnds : Cardinality({f \in LineEnds : f < e}) = n
Line(n) == SubSeq(typed, End(n - 1) + 1, End(n) - 1)

InputGivesLines ==
  LET n == Len(lines)
      ended == n < Cardinality(LineEnds)
  IN  (ended /\ (\A i \in 1..n : Len(Line(i)) < BufferSize) /\ Return \notin ToSet(typed))
        => lines = [i \in 1..n |-> Line(i)]

\* A call of input ends, at the end of the file too, where the characters it
\* reads fill the buffer.
InputEnds == Reading ~> ~Reading

\* What format was asked for, put together.
Wanted == FlattenSeq([i \in DOMAIN args |-> Formatted(args[i])])

\* format returns all of what it was asked for if that and a NUL fit the
\* buffer, and only otherwise reads or writes beyond it.
FormatExact ==
  (native = "format" /\ args # <<>>) =>
    /\ status = "undefined" => Len(Wanted) > BufferSize
    /\ ~active /\ Len(Wanted) < BufferSize => result = StringValue(Wanted)

\* str2num reads what num2str wrote as a number of millionths that is half a
\* millionth away at most, unless what "%f" writes does not fit the buffer of
\* num2str.
RoundTrip ==
  LET back == sscanf(result.text)
  IN  (native = "num2str" /\ status = "running" /\ ~active /\ Len(percent_f(args[1].num)) < NumberSize)
        => /\ back.kind = "number" /\ back.num % 10 = 0
           /\ back.num - args[1].num \in -5..5

\* The buffers of fixed size: no native reads or writes beyond one where what
\* it is asked for fits, and what they hold is what was asked for.
Inv == TypeOK /\ FormatExact /\ RoundTrip

=============================================================================
