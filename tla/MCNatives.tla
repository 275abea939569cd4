----------------------------- MODULE MCNatives -----------------------------
(***************************************************************************)
(* Natives with buffers of a few characters: lines of stdin and texts for  *)
(* format that are shorter than, as long as and longer than the buffer,    *)
(* with numbers of eight characters and more among them.                   *)
(***************************************************************************)
EXTENDS Natives

AllCharacters == {Newline, Return, NUL, EOF, Blank, "-", "+", ".", "x"} \cup ToSet(Digits) \cup ToSet(Null)

Xs(n) == [i \in 1..n |-> "x"]

\* Up to three lines of up to one character more than the buffer has, ended or
\* not; a NUL, or either kind of line end, between two.
LineTexts == {Xs(n) : n \in {0, 1, BufferSize - 1, BufferSize, BufferSize + 1}}
Ended(t) == t \o <<Newline>>
LineInputs == {Ended(s) \o Ended(t) \o u : s, t, u \in LineTexts}
              \cup {s \o e \o t : s, t \in LineTexts, e \in {<<Newline>>, <<NUL>>, <<Return>>, <<Return, Newline>>}}
Prompts == {<<>>, <<StringValue(<<"x">>)>>}

\* Numbers in ten-millionths: whole ones, and fractions that are cut, rounded
\* up to a whole one, rounded to 0, and halfway between two millionths.
Numbers == {NumberValue(n * Unit) : n \in {0, 7, -45, 123, -123}}
           \cup {NumberValue(n) : n \in {1234567, 1234565, -1234565, 1234575, 9999999, -4, -5, 1999999995}}
HalvesUp == {5, 1234565, 1999999995}

\* Every kind of value, one at a time and in lists of two and three.
Texts == {<<"1", "2">>, <<Blank, Newline, "-", "3", "x">>, <<"+", "5", ".">>, <<".", "5", "-">>, <<"-", ".">>,
          <<"1", ".", "2", "3", "4", "5", "6", "7", "8", "9">>, <<"x", NUL, "x">>}
Values == Numbers \cup {StringValue(t) : t \in Texts}
          \cup {null_value, Value("table", 2, <<>>), Value("function", 0, <<>>), Value("userdata", 0, <<>>)}
Some == {NumberValue(7 * Unit), NumberValue(-123 * Unit), null_value, Value("table", 2, <<>>),
         StringValue(<<"x", NUL, "x">>)} \cup {StringValue(Xs(n)) : n \in {4, 5, 7, 9, 16}}
Few == {NumberValue(7 * Unit), null_value, StringValue(Xs(1)), StringValue(Xs(8))}
ValueLists == {<<>>} \cup {<<v>> : v \in Values} \cup {<<v, w>> : v, w \in Some} \cup {<<v, w, u>> : v, w, u \in Few}

AllInputs == LineInputs \cup {<<>>}
AllArguments == ValueLists \cup Prompts

\* Where there is something to read, two calls without other arguments than a
\* prompt; with nothing to read, one call with any arguments.
MCNext ==
  /\ IF typed = <<>> THEN calls = 0 ELSE args' \in Prompts
  /\ Next

MCSpec == Init /\ [][MCNext]_vars /\ WF_vars(MCNext)
=============================================================================
