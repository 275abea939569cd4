# Verification of the BadScript interpreter

BadScript is a small dynamically typed language. Its interpreter is one C
program (`src/src/main.c` includes every other file), single-threaded, built
without `NDEBUG`, so its assertions are live. This directory holds TLA+ models
of it, the TLC configurations that check them and the proofs TLAPS checks.

## 1. Inventory

Paths are relative to the repository; `ir.c` stands for `src/src/ir.c` and so on.

| component | code | state | operations | interacts with |
|---|---|---|---|---|
| collector | `ir.c` 462-866 | colour and list links of every object, three list heads | `gc_mark`, `gc_do_greys`, `gc_add_to_grey`, `gc_add_to_black`, `gc_remove_from_list`, `gc_mark_*`, `gc_free_*` | called before every statement; reads scopes, tables, syntax tree; releases to the pools |
| object lists | `ir.c` 506-568 | `prev`, `next`, list heads | unlink, push | used by the collector and by every `alloc_*` |
| scopes and call stack | `ir.c` 256-387 | `scope_stack`, `callstack`, `Scope.parent`, `Scope.symbols` | `push_scope`, `pop_scope`, `scope_add`, `scope_get`, `scope_set`, `push_call`, `pop_call` | evaluator; roots of the collector |
| evaluator | `ir.c` 1491-2021 | the C stack (arguments, operands, return value), `loc` | `eval_stmt`, `eval_function`, `call_function`, `eval_value`, `do_assign`, `eval_binop`, ... | calls itself, natives and the collector |
| conversion | `ir.c` 1277-1462, 2023-2135 | AST to `Value`/`Stmt` objects | `convert_node_to_stmt`, `expr_to_value`, imports | parser; at run time for table constants |
| start-up | `main.c`, `ir.c` 1409-1489, 2137-2152, `parser.c` 1012-1050 | arguments, file and global scope, C stack of imports | `main`, `init_ir`, `convert_top_levels_to_ir`, `ir_import_file`, `ir_use_library`, `add_globals`, `ir_run` | everything |
| map | `common.c` 111-233 | slots, `len`, `cap` | `map_get`, `map_put_hash`, `map_grow`, `map_free` | scopes and tables |
| pool | `common.c` 235-327 | current, old and free buckets, counts | `pool_alloc`, `pool_release` | one pool each for values, scopes and statements |
| strings and arrays | `common.c` 1-109 | - | copies, doubling arrays | everywhere |
| lexer | `lexer.c` | cursor, line, offset, tokens | `lex` | parser |
| parser | `parser.c` | index of `current_token` | recursive descent, one function per rule | lexer, conversion |
| natives | `runtime.c` | stdin, buffers of 4096 and 128 characters | `print`, `format`, `input`, `str2num`, ... | evaluator |
| graphics | `gfx.c` | `inited`, `should_close`, window, renderer | one native per function of `gfx` | evaluator, SDL, a user |
| timings | `timings.c` | list of sections | start, stop, print | `main` |

What is hard here is not concurrency but *interleaving by call*: the collector
runs a bounded amount of work at the start of every statement, so the program
changes the object graph between any two pieces of a collection cycle, and a
statement deep in a called function collects while its callers are half-way
through expressions. The other hard parts are pointer structures updated in
place (three intrusive lists, a probing hash table, a bucket allocator), limits
(fixed buffers, load factor), positions and look-ahead in the lexer and parser,
start-up order, and, in `gfx`, the one true partner that acts by itself: a user
whose events arrive between the calls of a script. Nothing is persisted, nothing
runs in another thread, no messages are exchanged.

What makes each component correct:

* collector: nothing the program can read is freed; what it cannot read is freed
  in the end; the assertions on colours never fail.
* object lists: the links of each list hold exactly the objects of its colour.
* scopes: a name resolves in the block, the enclosing blocks, the file, the
  globals, and never in a caller; scopes in use are not freed; pushes and pops
  pair up on every way out.
* evaluator: everything is evaluated in the order of the text and as often as
  the forms say; an error is reported where it is; calls and loops end.
* map: a lookup returns the last value put under the hash, across growth; every
  probe ends.
* pool: an address handed out is not in use; a reclaimed bucket is empty.
* lexer: every token and position is the source's; lexing ends.
* parser: nothing of an accepted file is lost, moved or missing; operators bind
  as the grammar says.
* start-up: declarations and imports take effect in the order of the text, each
  once; options, script and arguments are told apart.
* natives: buffers are kept, and what `docs/runtime.md` says they return.
* graphics: what is drawn is shown, and a closed window is told to the script.

## 2. Modules

| module | models | kind |
|---|---|---|
| `Collector` | `gc_do_greys`, `gc_mark`, `gc_mark_*`, `gc_free_*`, scopes, the C stack of calls, and an arbitrary program | component |
| `CollectorProofs` | theorems about `Collector` | proofs |
| `Induction` | induction on naturals and on repeated steps, for the other proofs | lemmas |
| `GCLists` | the three intrusive lists, pointer by pointer | detailed specification |
| `TriColour` | three disjoint sets of objects | abstract specification of `GCLists` |
| `HashMap` | the open-addressing table | detailed specification |
| `AbstractMap` | a partial function | abstract specification of `HashMap` |
| `Pool` | the bucket allocator | component |
| `MemoryProofs` | theorems about `GCLists` and `HashMap`, the refinements of `TriColour` and `AbstractMap` among them, and about `Pool` | proofs |
| `Lexer` | `lex` | component |
| `LexerProofs` | theorems about `Lexer` | proofs |
| `Parser` | `parse` and every function below it | component, pure |
| `Evaluator` | statements, expressions, calls and their values | component |
| `EvaluatorProofs` | theorems about `Evaluator` | proofs |
| `Conversion` | `convert_node_to_stmt`, and the order in which a tree says things happen | component, pure |
| `Startup` | `main`: command line, files, imports, declarations, sections | composition |
| `StartupProofs` | theorems about `Startup` | proofs |
| `Natives` | `runtime.c` | component |
| `NativesProofs` | theorems about `Natives` | proofs |
| `Graphics` | `gfx.c` beside SDL and a user | component and environment |
| `GraphicsProofs` | theorems about `Graphics` | proofs |
| `MC...` | constants, inputs and, for three of them, what an input was made from | model checking |

`Collector` treats lists as sets, maps as functions and allocation as "some
address whose object is free". `GCLists`, `HashMap` and `Pool` are what
justifies each of these three simplifications. `Collector` and `Evaluator` are
two views of the same code: the first keeps which objects a program can reach
and when it collects, and lets the program do anything; the second keeps values,
names and order of one program at a time, and collects nothing.

Definitions named like `Refs_without_parent` or `Recycled_one_early` are faulty
variants. No specification uses them; putting one in the place of the
definition that follows it breaks the property paired with it in `PROJECT.json`,
which shows that the property can fail.

### Collector

| state | code |
|---|---|
| `color[o]` | `GCObject.color`; `"free"` when the pool has the memory |
| `parent`, `symbols`, `table` | `Scope.parent`, `Scope.symbols`, `Value.table.map` |
| `stack` | `ir->scope_stack` |
| `frames` | one record per active `call_function`: how long `scope_stack` was, and the C locals (left operands, evaluated arguments, tables) the caller still needs |
| `reg`, `held` | the value an `eval_value` has just returned, and those kept in C locals meanwhile |
| `pc`, `work` | between statements, in `gc_do_greys`, or in a statement; what is left of `work` |
| `status` | running; `exit` after `ir_error` or the end of `main`; aborted by an assertion; undefined behaviour |

Every object of the collector is an element of `Scopes`, `Data` (values made at
run time) or `Code` (`Value`s and `Stmt`s of function bodies, made once by
`init_ir`; `Children` is the syntax tree). `eval_stmt` enters `gc_do_greys`;
`gc_mark_object` is one round of its loop, for any grey object, since the order
of the grey list does not matter to the properties; `gc_pause` and `gc_sweep`
are its two ends. Then the statement evaluates: `alloc_value`, `eval_null`,
`eval_name`, `eval_field`, `hold` and `use_held` in any order, stores and calls.
It ends with `scope_add`, `scope_set`, `table_put`, a block, a return or none of
these. Stores inside an expression leave it running (`GoesOn`): `x++` gives `x` a
new number and goes on with the old one in a C local (`ir.c:1983`), and a table
constant puts its entries into a new table one after the other (`ir.c:1915`). In
both a value or table that nothing else has yet (`Fresh`) takes part. Since
expressions are evaluated in any order, what a program does to objects the model
can do, with one exception, functions that a table constant creates while it runs
(section 6): an invariant of the model holds for every program without these.

Where a claim does not hold for every program, four constants restrict the
programs, not the interpreter:

* `UsesNull`: the program creates, passes or stores `null`, explicitly, by
  reading a missing entry or by using the result of a call that returns nothing;
* `SharedOverwrite`: it overwrites a value that something else, or a table it
  holds, still shares. When it is `FALSE` an overwritten value is a table of
  plain values held once, or the same value again;
* `HoldsAcrossCalls`: it calls a function while an operand or argument is
  waiting in a C local;
* `KeepsOverwritten`: inside an expression it overwrites a value that it goes on
  using, as the increment in `y = x++` does. When it is `FALSE`, increments whose
  value is dropped and `++x` are still there.

### GCLists and TriColour

`mem` is what the C code writes: colour, `next`, `prev`, three heads. Each list
operation of the code is an operator on `mem` that repeats its assignments in
their order; `pc` walks through `gc_do_greys`. Which objects an object refers to
is left open: after marking, any live object may be shaded. The refinement maps
each list to the set of objects of its colour; `TriColour` says that only white
objects are reclaimed and only when nothing is grey.

### HashMap and AbstractMap

The specification is `MapSpec`, as it shares a module of theorems with those of
the lists and the pool (`MapInit`, `MapNext`, `MapInv`, `NullValue`).

A map is a record of `entries`, `len` and `cap`. `SlotOf` is where both probing
loops stop. `map_grow` re-inserts slot by slot, and `put` is `map_put_hash`
with its growth. A free and a new owner are one action, because `pool_alloc`
zeroes what it hands out. `answer` is the hash of the last call and what it
stored or returned, so that the refinement compares every lookup with its own
hash. Keys are not stored in the code either, so hashes stand for keys. A slot
whose hash is 0 counts as empty; `AbstractMap` therefore allows the entry under
0, and only that one, to disappear at any store. Distinct keys with the same
hash are one key to the map: a limit of the code the abstract specification
shares.

### Pool

Here, too, the specification has names of its own (`PoolInit`, `PoolNext`,
`PoolIInv`). Lists of buckets are sets, objects have the address (bucket, slot)
their header was written at. `pool_alloc` is three actions: room in the current bucket, a
recycled bucket, a new one. `pool_release` lowers the owner's count and moves
every old bucket with count 0 to the free ones, resetting its fill level, and
lowers the `buckets` counter, modulo the width of `size_t`, exactly as the code
does.

### Lexer

| state | code |
|---|---|
| `text`, `ptr` | `lexer.data` and the cursor; the position after the last character is the C string's 0 |
| `line`, `offset` | the fields of the same name |
| `depth` | `n` of the loop in a block comment |
| `tokens` | the array returned, each token with the place of its lexeme |

There is one action for each branch of the main loop and of the loop inside
block comments. Characters are members of small sets, one for each class the
code tells apart; scanning a word, a number, a string or a line is one step.
Operators and keywords are constants.

### Parser

Every function of the recursive descent is an operator of the same name that
takes the index of `current_token` and returns the node it makes and the index
it leaves; index 0 is the exit in `parser_error`. A token is its kind alone. The
five functions for binary operators differ only in their operators and share
`expr_level`. `parse` is the one action. `Written` is the grammar in the other
direction, independent of the functions: it writes a tree down with the fewest
parentheses, and the properties compare what goes in with what comes out.

### Evaluator and Conversion

| state | code |
|---|---|
| `program` | the converted functions, with parameters and bodies |
| `stack` | the C stack: a frame for each statement, expression, block or body under evaluation, its scope and the values of its parts so far |
| `scopes` | the global scope, the file scope, then `ir->scope_stack`, with `parent` and `symbols` |
| `callstack`, `loc` | `ir->callstack` by name, `ir->loc` |
| `tables` | every table made, by number: tables are references |
| `returning` | the value of a return statement while `eval_stmt` returns `true` |
| `status` | running, finished, an error of `ir_error`, an assertion, undefined behaviour |

`Subs` states which parts of a node the code evaluates, in which order and how
often; `Fault` states what is wrong with a frame at each point, in the order of
the code's tests. `Descend` begins a part, `eval_value`, `assign`, `var`, ...
end a node when its parts are there; `return` and `unwind` are the ways
`eval_stmt` returns early. `print` and `len` stand for the natives.

The programs are a constant, so that theorems can be about all of them:
`Programs`, with `Nodes`, every node of them, `Anonymous`, the functions that
function expressions stand for, and `CallFree`, the nodes below which nothing is
called. `Grammatical` states what the parser and the conversion make: how many
parts each kind of node has and of which kinds these may be. `Conversion` makes
such programs from syntax trees as `convert_node_to_stmt` does: an increment that
is a statement becomes an assignment, a call whose value is dropped a statement.
Number literals are digits up to 2, and `/` and `%` are left out: neither scopes,
calls nor locations depend on which numbers there are.

### Startup

`phase` is how far `main` is; `imports` is the C stack of
`convert_top_levels_to_ir`, one frame per file being read. A function body is the
one name it reads, `main`'s call is what it returns, a path is a sequence of
names. Ways to stop that are no orderly exit have a status each: the assertion on
an empty call stack, the one on `import ... as`, `var x;` at top level,
the path of an import from a file named without a directory, a C stack
exhausted by imports, and a file of nothing but semicolons. That parses, to an
array without elements, whose first one `for_array` loads (`common.c:69`) before it
looks at the size: a read at address 0, in the unoptimised build of `build.bat`.
`timings_init`, `start_section`, `stop_current_section` and `timings_print_all` keep
the total and the list of sections. Each time stamp is a reading of its own of a
clock that does not go back, so time may pass inside a section and between two.

### Natives

`input` and `format` are loops over a buffer and run one round per step; every
other native is one step that returns, prints or ends the program. `snprintf` is
modelled by what it writes and by what it returns, which is more when the text
does not fit; `%.*s` stops at a NUL inside a string. The build is the one for
Windows: `getchar` makes one newline of the two characters of a line's end and
gives the end of the file as a character like any other, `bs_getch` takes a
carriage return for a newline and leaves 0 at the end.

Numbers are counted in ten-millionths, one decimal more than `%f` writes, which
rounds to the nearest millionth. What looks like a tie in ten decimals is a double
a little below or above; `TiesUp` are those above, any set. `sscanf` reads white
space, a sign, digits and a point, and counts seven decimals. `%f` and `sscanf`
are external. `out` is the values `printf` was given, as how `%g` spells a number is
left out; so are exponents, hexadecimal numerals, `inf` and `nan` in `sscanf`.
`typed` and `lines` are history. `Characters` is what a `char` can be: a theorem
needs a set that texts are made of, and the instance lists the characters it uses.

### Graphics

Windows are numbered as SDL makes them, a renderer has the number of its window
and 0 is `NULL`. Each native of `gfx` is an action with its refusals (not
initialised, wrong arguments) and its outcomes; `close_button`, `other_event` and
`key` are the user, who acts between any two calls. `canvas` is what SDL has been
told to draw; `drawn`, `pressed` and `noticed` are history.

## 3. Runs

| run | shows | bounds |
|---|---|---|
| `collector_any` | programs of every kind: scopes and function bodies are never collected, lookup is lexical, unreachable values and scopes come back; the inductive invariant | one scope beyond the three fixed ones, a function with one statement, one value |
| `collector_disciplined` | with all four program constants `FALSE`, nothing readable is freed and no assertion fails | two values, one more scope, a function |
| `collector_shared` | `SharedOverwrite` alone leads to the assertion `Invalid color!` | the same |
| `gclists` | the links of each list are exactly its colour; the lists refine `TriColour`; a sweep ends | five objects |
| `hash_map` | the map refines `AbstractMap`, every probe ends; `len()` goes wrong under hash 0 only | five hashes that collide at the three capacities, 0 among them; capacities 4, 8, 16 |
| `pool` | no memory is handed out twice, lists stay apart, one idle bucket at most | four objects, six buckets of two |
| `lexer` | lines and offsets, longest tokens, the tokens a text was made from, the end | every text of up to four characters over fifteen, a lone `&` among them; texts of one or two lexemes with five kinds of gaps and perhaps a `#` line |
| `parser` | an accepted file is read to its end and is its tree; a tree is recovered | initialisers of up to five tokens, bodies and files of up to four; trees of two operators, statements in statements |
| `evaluator` | order and number of evaluations, scopes and call stack on every way out, place of errors, callers' variables, the end | main with fixed declarations and one statement of every form, or two with branches |
| `startup` | order of declarations and imports, use of natives before they are there, the command line, sections, the end | scripts of up to three declarations, two imported files; command lines of up to three arguments; six nested imports; a clock of two readings |
| `natives` | buffers are kept, `input` returns the lines and ends, `format` is exact where it fits, what `str2num` makes of `num2str` is half a millionth off at most | buffers of 16 and 11 characters, lines of up to 17, results of `format` up to 34, two calls of `input` or one of any native |
| `graphics` | a closed window is told, what is drawn is shown; the inductive invariant | two windows, one texture, two strokes, two events |

Why the bounds are enough to see the interesting cases:

* `Work` is 2 where the code has 5: a cycle must span several statements, and
  with the six or seven objects of an instance 5 would finish most cycles at
  once. The proofs hold for every `Work`.
* A lost object needs a marked holder, a white object and one assignment between
  two pieces of a cycle: two values, the scope of `main` and one more, as the
  counterexample shows. An unreachable one needs no second value.
* List bugs show when unlinking a head, an inner and a last element; five
  objects in three lists have all of these beside a second non-empty list.
* A capacity of 4 is the smallest at which half full is more than one entry;
  hashes 3, 15 and 31 share the last slot of four, the latter two that of eight
  and of sixteen, so probes wrap around the end.
* With four objects at most three old buckets hold a live object, one is idle,
  one is being retired, and one is new: six buckets never run out.
* The lexer looks one character ahead, so two adjacent characters meet every
  branch; four leave room for something before and after, and the composed
  texts hold nested comments, strings over two lines and what follows them.
* The parser looks one token ahead (two at `else if`). Trees with one operator
  inside each operand of another decide precedence and associativity for every
  pair; deeper trees repeat pairs.
* Programs of one statement around fixed declarations meet every form with
  every kind of value in every operand, a call inside it included; two statements
  are needed only where the first may leave, so only branches are paired. Values
  stay small because every program ends.
* Two files that import each other or the same third need three files. Six
  imports exceed the longest chain without a cycle, which is two.
* A clock that shows two times lets it pass or not at any one reading, and the
  order of two readings is all the property compares.
* A number takes eight characters under `%f` at least. A buffer of 16 has lists of
  one number and a text and of two numbers one shorter than itself, as long as it
  and longer, and lines likewise. What `format` truncates must be followed by
  another argument: three. The numbers for `num2str` include fractions that are
  rounded up to a whole number, down to -0 and at ties, and one too long for its
  buffer of 11.
* Two windows are one that is replaced; a frame of two strokes has an order; two
  events are a close and one before or after it.

Runs set `CHECK_DEADLOCK FALSE` where what is modelled ends: programs, lexing,
parsing, start-up and natives end, and a script using `gfx` may fail. `gclists`,
`hash_map` and `pool` check for deadlock.

Addresses are finite, so `Collector`'s allocation waits when there is none left,
where the code would ask the system for more. That does not touch the safety
properties, but it does mean that `GarbageReclaimed` says nothing about
programs that allocate faster than five objects per statement are marked.

`MCGraphics` splits the scripts in two, those that draw without a user and those
that wait for one and draw little, since strokes and events do not meet in
`gfx.c`; the proofs have no such restriction. `MCNatives` gives values to natives
where there is nothing to read.

### Fairness

* `Collector!FairSpec`: weak fairness of `Collect`, since `gc_do_greys` is a
  loop that returns; of `end_stmt`, since an expression that calls no function is
  finite; and of `eval_stmt`, which says that the program keeps running. A
  program blocked in `input` or looping on an empty block collects nothing, and
  the property claims nothing about it. Fairness is on starting a statement, not
  on any particular statement, and not on returning from calls: what only a
  caller's scope keeps is reachable.
* `GCLists!Spec`: weak fairness of `Collect`, for the same reason.
* `Lexer`, `Evaluator`, `Startup`: weak fairness of the next step. They are
  sequential code that never waits, so they stop only by ending.
* `Natives`: weak fairness of the next step; `getchar` is taken to deliver, a
  character or the end of the file. Someone who types nothing keeps `input`
  waiting, which is its purpose.
* `Graphics!FairSpec`: weak fairness of `update()` and of `should_close()`.
  `docs/gfx.md` line 50 requires that `update` be called regularly, and the scripts
  in `src/tests` that open a window are loops around both. Nothing is assumed of
  the user.

## 4. What the checks found

`collector_shared` shows that the interpreter can hit the assertion
`assert(!"Invalid color!")` of `gc_remove_from_list` (`ir.c:540`): there is no
write barrier in `scope_set` and `table_put`. In `n.next = list; list = n;` the old
list may be white and `n` black; the scope lets go of it before it is marked, and
the sweep frees it. Three more ways lead to the same assertion; setting the one
constant in `CollectorDisciplined.cfg` gives a counterexample for each:

* `UsesNull = TRUE`: `null_value` (`ir.c:161`) is a static object with colour 0.
  As soon as a scope, a table or a function body that holds it is marked the
  program aborts, a statement or a few after `var x = null;`.
* `HoldsAcrossCalls = TRUE`: operands and arguments waiting in C locals during a
  call are not roots of `gc_mark`. In a build of the interpreter `(3 + 4) + f()`,
  with a long loop in `f`, gave a wrong number.
* `KeepsOverwritten = TRUE`: in `var y = x++;`, in a block whose scope is already
  black while that of `x` is not, the old number leaves an unmarked scope, goes into
  a marked one and is freed. `src/tests/incdec.bs` line 6 has such an expression,
  `arr[i++] = i`; there the old number is only a key, and nothing is lost.

`collector_disciplined` finds no other way to lose an object, and the proofs say
that there is none: programs that avoid all four are safe.

The models contain, because the code does, these departures from what comments,
documents or the rest of the code suggest:

* lexer: a tab adds `offset % 4` instead of what is missing to a multiple of 4
  (`lexer.c:263`); newlines in strings are not counted; after a `#` line every
  line is one too high; the column starts at 0 after a newline and at 1 after a
  comment.
* parser: an empty file is an error; `parser_error` reports the
  lexer's line and offset, which are those of the end of the file by then
  (`parser.c:467`).
* evaluator: `--` in an expression fails an assertion because its test is for
  `++` (`ir.c:1998`); a call of something that is no function fails an assertion
  before the test that would report it (`ir.c:1871`); `break` and `continue` have
  no case (`ir.c:1586`); `x.f = v` does not test that `x` is a table
  (`ir.c:1505`); `&&` and `||` evaluate both sides; an operand of `++` is
  evaluated again to store it; after a call in an expression, errors are reported
  at the last statement of the callee (`ir.c:1524`).
* start-up: an error outside any function fails the assertion that there is a
  call (`ir.c:257`); `var x;` at top level converts `NULL` (`ir.c:1429`);
  `import ... as` parses the file and then fails an assertion (`ir.c:1458`); the
  loop for an import's directory runs off the front of a name without one
  (`parser.c:1021`); a file of semicolons alone is read at address 0 (`common.c:69`); natives are bound after initialisers have run.
* natives: `docs/runtime.md` line 38 says of `format` that it gives what `print`
  prints; but numbers get six decimals where `print` has `%g`, and a table, printed
  as `{}`, gives nothing. Line 126 says `num2str(123)` is `"123"`; it is
  `"123.000000"`. A result of `format` that is longer than the buffer is read beyond
  it, and one of exactly its size ends with a NUL; `str2num` accepts a number with anything behind it; `type` of a
  texture is an error; the newline after a line of exactly 4096 characters is
  dropped together with the line's last character; a line that ends with carriage
  return and newline makes `input_hidden` return twice, the second time nothing.
* graphics: a texture's size is read after the surface is freed (`gfx.c:183`); the
  test of `clear` reads its second argument three times (`gfx.c:112`);
  `draw_texture` reads a table without `data` through `NULL` (`gfx.c:212`).
* elsewhere: the entry under hash 0 is forgotten, yet disturbs nothing else; pool
  counters `buckets` drift; leaving `prev` unset when allocating is harmless,
  because grey objects are only ever unlinked at the head.

## 5. Proofs

All theorems hold for every value of the constants that satisfies the named
assumptions of the module: `ScopeAssumption`, `KindAssumption`,
`CodeAssumption`, `BindingAssumption` and `ProgramAssumption` in `Collector`
(the fixed scopes are distinct, kinds are disjoint and memory is finite, ...),
`NullAssumption` and `FiniteAssumption` in `GCLists`, `HashAssumption`,
`ValueAssumption` and `CapAssumption` in `HashMap`, `PoolAssumption` in `Pool`,
`AlphabetAssumption` in `Lexer`, `BoundAssumption` in `Graphics`,
`SizeAssumption`, `CharacterAssumption`, `InputAssumption` and
`ArgumentAssumption` in `Natives` (buffers hold something; digits, newline and so
on are characters; stdin and strings are finite texts, numbers any number of
ten-millionths), `StartAssumption` in
`Startup` (command lines, paths and files are finite, the clock does not go back,
no native is called `gfx`), `GrammarAssumption`, `CallFreeAssumption` and
`ProgramAssumption` in `Evaluator` (nodes are what the parser and the conversion
make, `CallFree` is what its name says, programs have a function `main`). They hold
whatever the four program constants of `Collector` say, except where
`Disciplined` is a hypothesis.

`Induction` holds what the others need of induction, stated about sets and
functions: the induction theorems of the library take an operator, which no
installed prover can instantiate. A set of naturals that is not empty has a
least element (from the library's theorem on well-founded orders of the
naturals), hence induction and bounded induction as statements about a set, and
`Iteration`: what a function defined by recursion on the naturals is.

`CollectorProofs`, for programs of every kind: `TypeCorrect`, `ScopesAreSafe`,
`CallsAreLexical`, `LookupIsLexical`, `ProgramTextIsSafe`, from `Invariant`
(`Spec => []IInv`). `CallsAreLexical` says of each scope on the stack what its
parent is: the scope under it, or the file scope where a call begins
(`ScopesLinked`). It needs `FramesNested` (no call begins at the top
of the stack, so a block entered there hangs below it) and `ScopesMarked` (a new
scope is free, so it is none of those on the stack, and a sweep leaves the
parents of those alone). `LookupIsLexical` follows the chain to its end: the
scopes on the stack are distinct and none is one of the two fixed ones
(`StackProper`), so the chain from the top is the scopes of the running call
from the top down, then the file's and the global one, it is the only one that
steps as `scope_get` does, and there are enough scopes for it. Neither of the
other two is inductive. That a
scope on the stack is not free is kept only because no sweep finds it white:
`gc_mark` greys the whole stack when a cycle starts, new scopes are born grey,
and colours only darken until the sweep (`ScopesMarked`). The parents are kept
because a black scope's parent is grey or black, and at a sweep nothing is grey.
The file scope is reached from `stack[1]` (`RootScopes`), which exists because
calls own disjoint non-empty pieces of the stack (`FramesNested`): popping one
never pops the scope of the caller. Function bodies are kept because the
top-level bindings cannot be overwritten (`scope_set` refuses functions), so
every cycle starts with the function values grey, and a black code object has no
white child (`TextMarked`); at the sweep the black code objects are closed under
`Children` and contain the top-level functions, which by `CodeAssumption` makes
them all of `Code`. `CodeAssumption` says that every piece of code hangs below a
function bound at top level: true of what `convert_top_levels_to_ir` makes, not
of functions that a table constant creates while the program runs, which are
outside the model.

`CollectorProofs`, for disciplined programs: `DisciplinedLosesNothing`
(`NothingLost`) and `DisciplinedNeverAborts` (`NoInvalidColor`), from
`MarkingGuards` (`KeptInv`). `Disciplined` is what the run `collector_disciplined`
assumes: the four program constants are `FALSE` and no text holds the static
null. `collector_shared` and the three experiments of section 4 show that each of
the four is needed. The usual invariants of incremental marking, that a black
object has no white child or that a white one hangs below a grey one, are false
here: there is no write barrier, and a black scope may well be given a white
value that is also in a table. What is true is weaker. Call a set closed if it
contains the grey objects and, with a white or grey object, the white values that
object refers to. A value is `Guarded` if, when white, it is in every closed set.
`ValuesGuarded` says so of everything that a scope in use, a black table or a C
local holds. It survives the steps of a program because what is overwritten is a
plain value held once or a table of such values: it leads nowhere else, and what
it was the last reference to need not be kept, the statement included, which may go
on after the store but not with what it has overwritten; because marking an object removes
it from the closed sets no faster than it adds its children; and because new
objects are grey. When a sweep begins nothing is grey, so the empty set is closed
and nothing that the program holds is white: everything reachable is black.
`ValuesAlive` follows, and says of freed objects that only other garbage refers
to them. `NothingHeld` (no temporary outlives its statement) and
`LeftScopesMarked` (a left scope that is still grey has a parent that needs no
marking) close the induction; what `NothingLost` calls reachable is then a subset
of live scopes and values that are there. TLC has checked `KeptInv` on the
instance of `collector_disciplined` as well.

`MemoryProofs`, for the lists: `ListsStayExact` (`Inv`) and `ListsImplementSets`
(`RefinesTriColour`), from `ListsGood`, which says of each list that there is an
order of exactly the objects of its colour along which `next` leads, and `prev`
leads back, except that the `prev` of an object on the grey list may be unset.
Pushing puts an object in front of the order; unlinking a head or, off the grey
list, any element takes it out. That `gc_add_to_grey` unlinks a white object from
the middle of its list is therefore right, and that allocation leaves `prev` as
it was is harmless because grey objects leave only from the head. `ListsExact` and
`PrevLinksUsable` follow the links by a recursive function, which is the order
itself, by induction on the position. In the refinement every step of the code's loops is a step of `TriColour` or none; that
the sweep's loops stop when the set is empty is `HeadOfColour`.

`MemoryProofs`, for the map: `EveryProbeEnds` (`MapInv`), `LenStaysExact` and
`MapImplementsFunction` (`RefinesAbstractMap`), from `MapSound`. A map is `Sound`
if its capacity is 0 or a power of two above 1, half of it at most is used, every
claimed slot is where a probe for its hash ends, and `len` is at least the
number of claimed slots (they differ under hash 0 only); a slot that nobody has
claimed may hold a value only where a probe for 0 ends, and a map of length 0
holds none. Since some slot is empty, both probing loops end; since slots are
never emptied one by one, what precedes an entry stays claimed and the entry is
found. `map_grow` is a loop over the old slots, and what it has
copied after `i` of them is shown by induction on `i`. The refinement maps the
slots to a function of hashes: a call of `put` changes it at one hash, and
perhaps forgets the entry under 0.

`LexerProofs`: `PlacesExact` (`Inv`) and `TokensMaximal` (`MaximalMunch`), from
`LexingSound`, for texts of any length over any alphabet, with characters that are
tokens by themselves and others, like `&` and `|`, that are tokens in pairs only. The
invariant speaks of a
token that would begin at the cursor: its line is one more than the newlines
before it outside strings, or two more after a `#` line, and its offset agrees with
every earlier token from which no newline, tab, carriage return or comment
separates it. It claims the line only while text remains, because a line comment
that ends with the text counts one too many. Where a comment is open, its
beginning comes after every token. The code takes line 1, offset 1 for the
beginning of the file, where a `#` line may stand; the invariant says that outside
a comment this holds exactly as long as only carriage returns have been read.

`NativesProofs`: `BuffersKept` (`Inv`) and `InputReturnsLines`
(`InputGivesLines`), from `Invariant`, for buffers of any size. `LinesSoFar` says
of a running call of `input` that its buffer is what was typed from the newline
that ended the last line to the character read last, and of the time between
calls that this newline was the character read last; both hold until a line does
not fit or is not ended, after which the property claims nothing. That a line so
read is the next one is a matter of counting: the newlines are a finite set of
positions, and the least one above the n-th is the one that n + 1 ends precede.
`FormatSoFar` says that `offset` is the length of all arguments so far, written
or not, and that the buffer has exactly these while `offset` is below its size.
So `offset` goes beyond it only if all arguments together do, which is when the
size handed to `snprintf` wraps around. `RoundTrip` is about conversions, of every
number in ten-millionths: `percent_f` writes a sign, the digits of the whole part,
a point and six decimals of the magnitude rounded to millionths. `digits` writes a
number as its last digit after those of a tenth of it, `sscanf` counts from the
front, and that the one undoes the other is shown by induction on the number. What
is read back is then the rounded magnitude with a 0 for the seventh decimal, which
is 5 ten-millionths away at most; where all of it fits, `num2str` has cut off
nothing.

`MemoryProofs`, for the pool: `MemoryIsNotShared`, `BucketsStayApart`,
`AtMostOneIdle` and `PoolTypeCorrect`, from `PoolInvariant`. A bucket may be recycled because its count is
the number of objects in use in it (`Counted`, by the cardinality theorems), so
count 0 means none; every object lies below the fill level of its bucket
(`Placed`), so the next slot is unused. `OneIdleBucket` needs `IdleIsRecent`:
while an idle bucket exists nothing has been released since it was retired, so
all objects of the current bucket are alive and it cannot become a second one.

`StartupProofs`: `StartUpInOrder` (`Inv`), `FilesReadOnce` (`ReadOnce`),
`NativesComeTooLate` (`NativesTooLate`) and `NamesInPlace` (`ImportsInPlace`),
from `Invariant`, for any files that import each other in any way. `Importing`
says what is known while declarations are done: a frame of the C stack has the
end of its file still to do, one that waits for an import has done some of it
(`Framed`); every declaration of every file read has had its effect or waits in a
frame (`Effects`); every file but the script was imported by one read before
(`Imports`). Nothing in the code remembers what has been imported, and no step
refuses a second reading, so that a program which starts has none is a fact about
whole behaviours (`Once`). A file whose first declaration binds a name cannot
begin twice, since the name is there; a file whose first declaration is an import
is followed by the file it names, so two readings of one file are followed by two
readings of another, and so on to the last file read, which is followed by none.
The proof takes the latest file that was read before and meets a later one.
`NativesTooLate` reads the effects off `Effects` when the stack is empty.

`NamesInPlace` compares with `Declared`, a recursive function over the files.
`InPlace` says, for every function that answers what each file declares
(`Reading`), that the names bound so far followed by those the frames have still
to declare (`Left`) are what it answers for the script: each step moves one
declaration from the second part to the first, or replaces an import by the names
of its file, whether or not imports form a cycle. What such a function is worth
is settled at the end only: when all declarations are done files import only
files read later, so the function exists and is unique (`DeclaredExists`,
`DeclaredTyped`, by induction from the last file read to the first). Rules for
`FlattenSeq`, which the community modules define by recursion, are proved on the
way (`FlattenFirst`).

`GraphicsProofs`: `CloseIsAnswered`, `FramesAreShown` and `TypeCorrect`, from
`Invariant`. That `should_close` answers by what the user has done needs two
facts no step states by itself: a close that was made is either noted in the flag
or still among the events (`pressed = (should_close \/ ClosesIn(events))`), and
polling is the only way from one to the other. That `present` shows what was
drawn needs that a pair of window and renderer always has the canvas to which
everything since the last `present` has gone, and that a window not created yet
has an empty canvas: a new pair starts an empty frame, and a renderer that
failed leaves no pair. The proof has one lemma per function of `gfx`, over the
four lemmas that the functions share as they share code (refusing, stopping,
setting a colour, drawing).

`EvaluatorProofs`: `ScopesAndCallsBalanced` (`Inv`), `CallersSafe`
(`CallersUntouched`) and `ErrorsAreLocated` (`LocationOfError`), for any programs
of the grammar, of any size and nesting. `FramesBalanced` says which scopes and
calls there are, and is not inductive: a step that ends a frame has to know that
the last scope is that frame's and no other's. `Invariant` therefore describes
every frame by the one before it. `Framed` says what nodes frames have and that
they keep what they were handed; `Scoped`, that the scope of a frame is the one of
the frame before it, or the next one if it is a block or body that is not empty,
and that the last frame is in the last scope, so that ending it may take that scope
away; `Parented`, that a body's scope hangs below the file's and a block's below
the one before it; `Inside` and `Unwinding`, that statements are executed in
functions only, so that a return always finds the body it ends; `Called`, that
the call stack names the bodies in order. `Typed` is more than a type: values
refer to functions of the program and to tables there are, and a table constant's
number is the one its table is about to get. `CallersSafe` follows the parents: in
a function they lead from scope to scope down to the function's own and from there
to the file's, so that the scope in which a name is found, a recursive function of
the scopes, is none of a caller's.

That `ir->loc` is where an error occurs is `LInv`, on top of `Invariant`.
`Linked` says that every frame evaluates the part that the frame before it waits
for, so that the nodes of the frames are a path through the program. `Reported`
says: if a frame's statement is the last one begun (`Plain`: no statement after it
on the stack, nothing evaluated behind it that calls a function or is a
statement), its node is `loc`, since `Descend` sets `loc` at every statement, and
other steps only finish parts. An `if` statement is plain until its condition has
been tested; after that the statement it chose is below it. `Stopped` and
`Filled` say where errors occur: never while a return unwinds, and in no block or
body, so that the statement the error is in is plain.

Model-checked only:

* `Parser`, a recursive descent over tokens by recursive operators, without which
  it would not look like the code; TLAPS does not support these. That the trees it
  returns are `Grammatical` is one of the things this leaves to reading, and to
  `TreeRecovered`.
* `LeftToRight`, which compares what is printed with a fold over the syntax tree:
  that is induction over trees, and so is everything about the recursive
  `convert_node_to_stmt`. Both are in `Conversion`, on which no proof depends.
* `PiecesRecovered` and `TreeRecovered`, which compare with how an input was made
  and belong to the instances.
* The liveness properties (`GarbageReclaimed`, `SweepEnds`, `LexEnds`, `InputEnds`,
  `Ends` and the like): TLAPS does not reason about fairness.

## 6. Not modelled, and plan

Not modelled, and why:

* strings and arrays (`common.c` 1-109): copies and doubling capacities without
  state of their own; every module has sequences for them.
* The arrays that values and nodes share: `expr_to_value` hands the entries of a
  table constant to every value made of it, and `gc_free_value` frees them.
  `Evaluator` converts literals afresh each time, as the code does, but has no
  arrays to free. Functions made by table constants while a program runs are
  left out of `Collector` for the same reason: `Code` would grow.
* Allocation faster than marking, which needs counts in place of objects.
* The values of `/` and `%` and of numbers that are no integers; keys of one
  table with the same hash, which depend on an external function.
* `msgbox`, a dialog of Windows; the table of key names in `gfx.c`; the printed
  form of timings; how `%g` spells a number; usage texts; the texts of errors.
* `force_gc` and the second pool of `common.c`: commented out in the source.

Next, in this order:

1. `Conversion`: arrays shared between the syntax tree and values, and functions
   created by table constants.
2. Allocation against marking, with counts for objects.
