----------------------------- MODULE Collector -----------------------------
(***************************************************************************)
(* The incremental tri-colour collector of src/src/ir.c together with the  *)
(* interpreter that runs beside it in one thread.                          *)
(*                                                                         *)
(* eval_stmt calls gc_do_greys before every statement; gc_do_greys marks   *)
(* at most `work` grey objects and, when none is left, frees every white   *)
(* object, turns the black ones white and greys the roots for the next     *)
(* cycle.  Between two statements the interpreter changes the object graph *)
(* without telling the collector: there is no write barrier, and values    *)
(* held only in C locals are not roots.                                    *)
(*                                                                         *)
(* Abstractions.  Expressions are not spelled out: a statement evaluates   *)
(* in any order, keeps any number of values in C locals, and goes on after *)
(* the stores an expression can contain (x++, the entries of a table       *)
(* constant).  The grey list is a set, so marking in any order covers the  *)
(* LIFO order of the code.  Every run-time value is a table, a number or a *)
(* string being one that is never written.  Initialisation (init_ir, with  *)
(* the collector off) is the initial state.                                *)
(***************************************************************************)
EXTENDS Naturals, Sequences, FiniteSets

CONSTANTS
    Scopes,         \* addresses of Scope objects
    Data,           \* addresses of Value objects made while running
    Code,           \* Value and Stmt objects of function bodies, made by init_ir
    TopLevel,       \* the function values bound in the global and file scopes
    Functions,      \* the code objects that are function values
    Children,       \* [Code -> SUBSET (Code \cup {NullValue})]: the syntax tree
    Names,          \* symbol names
    Fields,         \* table keys
    Param,          \* the name of the parameter of main
    GlobalScope, FileScope, MainScope,
    ArgTable,       \* the table of arguments given to main
    InitData,       \* what top-level initialisers and ir_run allocate, ArgTable included
    InitEntries,    \* what these tables hold
    GlobalSymbols, FileSymbols,   \* what init_ir binds in the two outer scopes
    NullValue,      \* the static null_value, on no list and of no colour
    Nil,            \* the C null pointer
    Work,           \* objects marked per statement: 5 in the code
    \* What the interpreted program does; they restrict the program, not the code.
    UsesNull,       \* it creates, passes or stores null
    SharedOverwrite,  \* it overwrites values that are also kept elsewhere
    HoldsAcrossCalls, \* it keeps a temporary in an expression across a call
    KeepsOverwritten  \* it goes on using a value it has overwritten, as the x++ of y = x++ does

Objects == Scopes \cup Data \cup Code
Values == Data \cup Code \cup {NullValue}
Colors == {"free", "white", "grey", "black"}

ASSUME ScopeAssumption ==
    /\ {GlobalScope, FileScope, MainScope} \subseteq Scopes
    /\ GlobalScope # FileScope /\ GlobalScope # MainScope /\ FileScope # MainScope

ASSUME KindAssumption ==
    /\ Scopes \cap Data = {} /\ Scopes \cap Code = {} /\ Data \cap Code = {}
    /\ {NullValue, Nil} \cap Objects = {} /\ NullValue # Nil
    /\ IsFiniteSet(Objects)
    /\ ArgTable \in InitData /\ InitData \subseteq Data
    /\ Param \in Names

\* Every code object hangs below a function bound at top level.
ASSUME CodeAssumption ==
    /\ TopLevel \subseteq Functions /\ Functions \subseteq Code
    /\ Children \in [Code -> SUBSET (Code \cup {NullValue})]
    /\ \A S \in SUBSET Code :
          (TopLevel \subseteq S /\ \A c \in S : Children[c] \cap Code \subseteq S) => S = Code

\* A top-level `var x = null;` is left out: gc_mark aborts on it in init_ir.
ASSUME BindingAssumption ==
    /\ GlobalSymbols \in [Names -> InitData \cup TopLevel \cup {Nil}]
    /\ FileSymbols \in [Names -> InitData \cup TopLevel \cup {Nil}]
    /\ InitEntries \in [InitData -> [Fields -> InitData \cup TopLevel \cup {Nil}]]
    /\ \A f \in TopLevel : \E n \in Names : FileSymbols[n] = f \/ GlobalSymbols[n] = f

ASSUME ProgramAssumption ==
    /\ Work \in Nat \ {0}
    /\ {UsesNull, SharedOverwrite, HoldsAcrossCalls, KeepsOverwritten} \subseteq BOOLEAN

VARIABLES
    color,      \* GCObject.color, or "free" for a released address
    parent,     \* Scope.parent
    symbols,    \* Scope.symbols
    table,      \* the map of a table value
    stack,      \* ir->scope_stack
    frames,     \* C stack: per active call its scope_stack base and the caller's temporaries
    reg,        \* value the expression being evaluated has just produced
    held,       \* values kept in C locals (left operands, arguments, tables) meanwhile
    pc,         \* "next": between statements, "mark": in gc_do_greys, "eval": in a statement
    work,       \* work left in gc_do_greys
    status      \* "running", "exited" (exit), "aborted" (assert) or "undefined"

heap == <<color, parent, symbols, table>>
vars == <<color, parent, symbols, table, stack, frames, reg, held, pc, work, status>>

StackFrames == [base : Nat, held : SUBSET Values]

TypeOK ==
    /\ color \in [Objects -> Colors]
    /\ parent \in [Scopes -> Scopes \cup {Nil}]
    /\ symbols \in [Scopes -> [Names -> Values \cup {Nil}]]
    /\ table \in [Data -> [Fields -> Values \cup {Nil}]]
    /\ stack \in Seq(Scopes)
    /\ frames \in Seq(StackFrames)
    /\ reg \in Values \cup {Nil}
    /\ held \subseteq Values
    /\ pc \in {"next", "mark", "eval"}
    /\ work \in Nat
    /\ status \in {"running", "exited", "aborted", "undefined"}

NoSymbols == [n \in Names |-> Nil]
NoEntries == [k \in Fields |-> Nil]

Last(s) == s[Len(s)]
Top == Last(stack)
Frame == Last(frames)

(***************************************************************************)
(* After init_ir and the entry of ir_run: nothing has been marked yet, and *)
(* main's scope is on the stack with its argument.                         *)
(***************************************************************************)
Init ==
    /\ color = [o \in Objects |->
                  IF o \in Code \cup InitData \cup {GlobalScope, FileScope, MainScope}
                  THEN "grey" ELSE "free"]
    /\ parent = [s \in Scopes |-> IF s = MainScope THEN FileScope
                                  ELSE IF s = FileScope THEN GlobalScope ELSE Nil]
    /\ symbols = [s \in Scopes |->
                    IF s = GlobalScope THEN GlobalSymbols
                    ELSE IF s = FileScope THEN FileSymbols
                    ELSE IF s = MainScope THEN [NoSymbols EXCEPT ![Param] = ArgTable]
                    ELSE NoSymbols]
    /\ table = [d \in Data |-> IF d \in InitData THEN InitEntries[d] ELSE NoEntries]
    /\ stack = <<MainScope>>
    /\ frames = <<[base |-> 0, held |-> {}]>>
    /\ reg = Nil /\ held = {}
    /\ pc = "next" /\ work = 0 /\ status = "running"

-----------------------------------------------------------------------------
(***************************************************************************)
(* The collector.                                                          *)
(***************************************************************************)
White == {o \in Objects : color[o] = "white"}
Grey == {o \in Objects : color[o] = "grey"}

\* Faulty variants of a definition stand before it, named after what they get
\* wrong; no behaviour of Spec uses them, they show that a property can fail.
Refs_without_parent(o) ==
    (IF o \in Scopes THEN {symbols[o][n] : n \in Names}
     ELSE IF o \in Data THEN {table[o][k] : k \in Fields}
     ELSE Children[o]) \ {Nil}

Refs_without_syntax(o) ==
    (IF o \in Scopes THEN {symbols[o][n] : n \in Names} \cup {parent[o]}
     ELSE IF o \in Data THEN {table[o][k] : k \in Fields}
     ELSE {}) \ {Nil}

Refs_without_tables(o) ==
    (IF o \in Scopes THEN {symbols[o][n] : n \in Names} \cup {parent[o]}
     ELSE IF o \in Data THEN {}
     ELSE Children[o]) \ {Nil}

\* What gc_mark_value, gc_mark_stmt and gc_mark_scope hand to gc_add_to_grey.
Refs(o) ==
    (IF o \in Scopes THEN {symbols[o][n] : n \in Names} \cup {parent[o]}
     ELSE IF o \in Data THEN {table[o][k] : k \in Fields}
     ELSE Children[o]) \ {Nil}

RootRefs_without_stack ==
    {symbols[s][n] : s \in {GlobalScope, FileScope}, n \in Names} \ {Nil}

\* The objects gc_mark hands to gc_add_to_grey.
RootRefs ==
    ({symbols[s][n] : s \in {GlobalScope, FileScope}, n \in Names}
       \cup {stack[i] : i \in 1..Len(stack)}) \ {Nil}

\* gc_remove_from_list asserts on an object whose colour is none of the three.
InvalidColor(refs, col) == \E o \in refs : o = NullValue \/ (o \in Objects /\ col[o] = "free")

\* gc_add_to_grey on every object of refs.
Shade(refs, col) ==
    [o \in Objects |-> IF o \in refs /\ col[o] = "white" THEN "grey" ELSE col[o]]

eval_stmt ==
    /\ status = "running" /\ pc = "next"
    /\ pc' = "mark" /\ work' = Work
    /\ reg' = Nil /\ held' = {}
    /\ UNCHANGED <<heap, stack, frames, status>>

gc_mark_object_without_budget(o) ==
    /\ status = "running" /\ pc = "mark"
    /\ color[o] = "grey"
    /\ ~InvalidColor(Refs(o), color)
    /\ color' = Shade(Refs(o), [color EXCEPT ![o] = "black"])
    /\ work' = work - 1
    /\ UNCHANGED <<parent, symbols, table, stack, frames, reg, held, pc, status>>

gc_mark_object(o) ==
    /\ status = "running" /\ pc = "mark"
    /\ color[o] = "grey" /\ work > 0
    /\ IF InvalidColor(Refs(o), color)
       THEN /\ status' = "aborted"
            /\ UNCHANGED <<color, work>>
       ELSE /\ color' = Shade(Refs(o), [color EXCEPT ![o] = "black"])
            /\ work' = work - 1
            /\ UNCHANGED status
    /\ UNCHANGED <<parent, symbols, table, stack, frames, reg, held, pc>>

\* The two loops of the sweep: white objects go, black ones turn white.
Swept_leaving_black ==
    [o \in Objects |-> IF color[o] = "white" THEN "free" ELSE color[o]]

Swept ==
    [o \in Objects |-> IF color[o] = "white" THEN "free"
                       ELSE IF color[o] = "black" THEN "white"
                       ELSE color[o]]

gc_pause ==
    /\ status = "running" /\ pc = "mark"
    /\ Grey # {} /\ work = 0
    /\ pc' = "eval"
    /\ UNCHANGED <<heap, stack, frames, reg, held, work, status>>

\* gc_free_value and gc_free_scope empty the object's map before releasing it.
gc_sweep ==
    /\ status = "running" /\ pc = "mark"
    /\ Grey = {}
    /\ IF InvalidColor(RootRefs, Swept)
       THEN /\ status' = "aborted"
            /\ UNCHANGED <<heap, pc, work>>
       ELSE /\ color' = Shade(RootRefs, Swept)
            /\ parent' = [s \in Scopes |-> IF s \in White THEN Nil ELSE parent[s]]
            /\ symbols' = [s \in Scopes |-> IF s \in White THEN NoSymbols ELSE symbols[s]]
            /\ table' = [d \in Data |-> IF d \in White THEN NoEntries ELSE table[d]]
            /\ pc' = "eval" /\ work' = 0
            /\ UNCHANGED status
    /\ UNCHANGED <<stack, frames, reg, held>>

-----------------------------------------------------------------------------
(***************************************************************************)
(* Evaluating an expression.                                               *)
(***************************************************************************)
Evaluating == status = "running" /\ pc = "eval"

\* The scope s, its parent, the parent of that one, and so on outwards.
Outwards(s) ==
    LET up[k \in 0..Cardinality(Scopes)] ==
            IF k = 0 THEN s ELSE IF up[k-1] = Nil THEN Nil ELSE parent[up[k-1]]
    IN up

\* The scope scope_get and scope_set find n in, going up the parents.
Holder(n) ==
    LET up == Outwards(Top)
    IN {up[k] : k \in {k \in 0..Cardinality(Scopes) :
                         /\ up[k] # Nil /\ symbols[up[k]][n] # Nil
                         /\ \A j \in 0..(k-1) : symbols[up[j]][n] = Nil}}

ir_error ==
    /\ status' = "exited"
    /\ UNCHANGED <<heap, stack, frames, reg, held, pc, work>>

alloc_value_white(d) ==
    /\ Evaluating
    /\ color[d] = "free"
    /\ color' = [color EXCEPT ![d] = "white"]
    /\ table' = [table EXCEPT ![d] = NoEntries]
    /\ reg' = d
    /\ UNCHANGED <<parent, symbols, stack, frames, held, pc, work, status>>

\* make_number_value, make_string_value, a table constant: a fresh, grey value.
alloc_value(d) ==
    /\ Evaluating
    /\ color[d] = "free"
    /\ color' = [color EXCEPT ![d] = "grey"]
    /\ table' = [table EXCEPT ![d] = NoEntries]
    /\ reg' = d
    /\ UNCHANGED <<parent, symbols, stack, frames, held, pc, work, status>>

eval_null ==
    /\ Evaluating /\ UsesNull
    /\ reg' = NullValue
    /\ UNCHANGED <<heap, stack, frames, held, pc, work, status>>

eval_name(n) ==
    /\ Evaluating
    /\ IF \E s \in Scopes : s \in Holder(n)
       THEN /\ \E s \in Scopes : s \in Holder(n) /\ reg' = symbols[s][n]
            /\ UNCHANGED <<heap, stack, frames, held, pc, work, status>>
       ELSE ir_error

\* A missing entry evaluates to null_value.
eval_field(k) ==
    /\ Evaluating
    /\ reg \in Data
    /\ \/ /\ table[reg][k] # Nil
          /\ reg' = table[reg][k]
       \/ /\ table[reg][k] = Nil /\ UsesNull
          /\ reg' = NullValue
    /\ UNCHANGED <<heap, stack, frames, held, pc, work, status>>

\* The value moves to a C local while the rest of the expression is evaluated.
hold ==
    /\ Evaluating
    /\ reg # Nil
    /\ held' = held \cup {reg} /\ reg' = Nil
    /\ UNCHANGED <<heap, stack, frames, pc, work, status>>

\* It comes back, for the last time or not.
use_held ==
    /\ Evaluating
    /\ \E v \in held : reg' = v /\ held' \in {held, held \ {v}}
    /\ UNCHANGED <<heap, stack, frames, pc, work, status>>

-----------------------------------------------------------------------------
(***************************************************************************)
(* The effects of statements.                                              *)
(***************************************************************************)
Done ==
    /\ pc' = "next" /\ reg' = Nil /\ held' = {}

end_stmt ==
    /\ Evaluating
    /\ Done
    /\ UNCHANGED <<heap, stack, frames, work, status>>

scope_add(n) ==
    /\ Evaluating
    /\ reg # Nil
    /\ IF symbols[Top][n] # Nil
       THEN ir_error
       ELSE /\ symbols' = [symbols EXCEPT ![Top][n] = reg]
            /\ Done
            /\ UNCHANGED <<color, parent, table, stack, frames, work, status>>

\* The scopes a running statement can resolve a name through.
Live == {GlobalScope, FileScope} \cup {stack[i] : i \in 1..Len(stack)}

\* The variables and table entries the program can still read that hold v.
SymbolsHolding(v) == {e \in Live \X Names : symbols[e[1]][e[2]] = v}
EntriesHolding(v) == {e \in Data \X Fields : table[e[1]][e[2]] = v}

\* Overwriting v loses nothing the program keeps: v is a plain value held once.
Unshared(v) ==
    /\ v \in Data => /\ \A k \in Fields : table[v][k] \notin Data
                     /\ \A e, f \in SymbolsHolding(v) \cup EntriesHolding(v) : e = f

MayOverwrite(v) == SharedOverwrite \/ v \in {Nil, reg} \/ Unshared(v)

\* A value just made, that no variable and no table has yet.
Fresh(v) == v \in Data /\ SymbolsHolding(v) \cup EntriesHolding(v) = {}

\* A store inside an expression, in place of v: the statement goes on with reg and
\* with its C locals, one of which may still be v (the result of x++ is the old x).
GoesOn(v) ==
    /\ v \in held => KeepsOverwritten
    /\ UNCHANGED <<reg, held, pc>>

\* do_assign of a statement, or of an increment: the value is then a new number.
scope_set(n) ==
    /\ Evaluating
    /\ reg # Nil
    /\ IF \E s \in Scopes : s \in Holder(n) /\ symbols[s][n] \notin Functions
       THEN \E s \in Scopes :
              /\ s \in Holder(n)
              /\ symbols[s][n] \notin Functions
              /\ MayOverwrite(symbols[s][n])
              /\ symbols' = [symbols EXCEPT ![s][n] = reg]
              /\ Done \/ (Fresh(reg) /\ GoesOn(symbols[s][n]))
              /\ UNCHANGED <<color, parent, table, stack, frames, work, status>>
       ELSE ir_error

\* do_assign to an entry of t, or an entry of the table constant t.  A released
\* table still points to its freed entries: map_grow frees them twice.
table_put(t, k) ==
    /\ Evaluating
    /\ t \in held /\ reg # Nil
    /\ IF color[t] = "free"
       THEN /\ status' = "undefined"
            /\ UNCHANGED <<heap, stack, frames, reg, held, pc, work>>
       ELSE /\ MayOverwrite(table[t][k])
            /\ table' = [table EXCEPT ![t][k] = reg]
            /\ Done \/ ((Fresh(reg) \/ Fresh(t)) /\ GoesOn(table[t][k]))
            /\ UNCHANGED <<color, parent, symbols, stack, frames, work, status>>

-----------------------------------------------------------------------------
(***************************************************************************)
(* Scopes: blocks, calls and returns.                                      *)
(***************************************************************************)
push_scope(s, up, syms) ==
    /\ color[s] = "free"
    /\ color' = [color EXCEPT ![s] = "grey"]
    /\ parent' = [parent EXCEPT ![s] = up]
    /\ symbols' = [symbols EXCEPT ![s] = syms]
    /\ stack' = Append(stack, s)

enter_block(s) ==
    /\ Evaluating
    /\ push_scope(s, Top, NoSymbols)
    /\ Done
    /\ UNCHANGED <<table, frames, work, status>>

\* The end of the block: a while then evaluates its condition again, without
\* gc_do_greys; any other statement is over.
leave_block ==
    /\ status = "running" /\ pc = "next"
    /\ Len(stack) > Frame.base + 1
    /\ stack' = SubSeq(stack, 1, Len(stack) - 1)
    /\ pc' \in {"next", "eval"}
    /\ reg' = Nil /\ held' = {}
    /\ UNCHANGED <<heap, frames, work, status>>

call_function_below_caller(s) ==
    /\ Evaluating
    /\ \E args \in [Names -> held \cup {reg, Nil}], kept \in SUBSET held :
          /\ kept # {} => HoldsAcrossCalls
          /\ push_scope(s, Top, args)
          /\ frames' = Append(frames, [base |-> Len(stack), held |-> kept])
    /\ Done
    /\ UNCHANGED <<table, work, status>>

\* The arguments are in reg and in C locals; the caller may still need some of these.
call_function(s) ==
    /\ Evaluating
    /\ \E args \in [Names -> held \cup {reg, Nil}], kept \in SUBSET held :
          /\ kept # {} => HoldsAcrossCalls
          /\ push_scope(s, FileScope, args)
          /\ frames' = Append(frames, [base |-> Len(stack), held |-> kept])
    /\ Done
    /\ UNCHANGED <<table, work, status>>

\* pop_scope up to the caller's scope, and back into the caller's expression.
PopFrame(v) ==
    /\ stack' = SubSeq(stack, 1, Frame.base)
    /\ frames' = SubSeq(frames, 1, Len(frames) - 1)
    /\ held' = Frame.held
    /\ reg' = v
    /\ pc' = "eval"
    /\ status' = IF Len(frames) = 1 THEN "exited" ELSE status
    /\ UNCHANGED <<heap, work>>

\* A call that returns nothing evaluates to null_value; a program without null
\* only makes such calls as statements, which drop the value.
NoResult == IF UsesNull THEN NullValue ELSE Nil

eval_return ==
    /\ Evaluating
    /\ PopFrame(IF reg = Nil THEN NoResult ELSE reg)

fall_off ==
    /\ status = "running" /\ pc = "next"
    /\ Len(stack) = Frame.base + 1
    /\ PopFrame(NoResult)

-----------------------------------------------------------------------------
Collect == gc_pause \/ gc_sweep \/ \E o \in Objects : gc_mark_object(o)

Evaluate ==
    \/ \E d \in Data : alloc_value(d)
    \/ eval_null
    \/ \E n \in Names : eval_name(n)
    \/ \E k \in Fields : eval_field(k)
    \/ hold
    \/ use_held

Effect ==
    \/ end_stmt
    \/ \E n \in Names : scope_add(n)
    \/ \E n \in Names : scope_set(n)
    \/ \E t \in Data, k \in Fields : table_put(t, k)

Control ==
    \/ \E s \in Scopes : enter_block(s)
    \/ leave_block
    \/ \E s \in Scopes : call_function(s)
    \/ eval_return
    \/ fall_off

Next == eval_stmt \/ Collect \/ Evaluate \/ Effect \/ Control

Spec == Init /\ [][Next]_vars

\* gc_do_greys runs to its end, an expression is finite, and a program that
\* neither ends nor stops keeps starting statements.
FairSpec == Spec /\ WF_vars(Collect) /\ WF_vars(end_stmt) /\ WF_vars(eval_stmt)

-----------------------------------------------------------------------------
(***************************************************************************)
(* Properties.                                                             *)
(***************************************************************************)
\* The scope and its parents.
ChainOf(s) == {Outwards(s)[k] : k \in 0..Cardinality(Scopes)} \ {Nil}

\* Whatever the program does, no scope that a running statement can resolve a
\* name through is ever collected: the scopes on scope_stack, the file scope and
\* the global scope, and whatever a parent link leads to (gc_mark greys only the
\* first kind and relies on the parent links for the other two).
ScopesSafe ==
    status = "running" =>
        /\ \A i \in 1..Len(stack) : color[stack[i]] # "free"
        /\ color[FileScope] # "free" /\ color[GlobalScope] # "free"
        /\ \A s \in Scopes :
              color[s] # "free" /\ parent[s] # Nil => color[parent[s]] # "free"

\* Whatever the program does, no part of a function body is ever collected, so
\* call_function may walk its statements and expressions across any number of
\* cycles although nothing on the C stack keeps them.
ProgramTextSafe == \A c \in Code : color[c] # "free"

\* Name lookup in a call sees the scopes of that call, then the file scope and
\* the global scope, and never a variable of a caller (eval_function hangs the
\* scope of a call below file_scope, not below the caller's scope).
LexicalScoping ==
    status = "running" =>
        ChainOf(Top) = {stack[i] : i \in (Frame.base + 1)..Len(stack)} \cup {FileScope, GlobalScope}

\* What the program can still read.
Roots ==
    (Live \cup {reg} \cup held \cup UNION {frames[i].held : i \in 1..Len(frames)}) \ {Nil}

Reachable ==
    LET Grow(S) == S \cup UNION {Refs(o) : o \in S \cap Objects}
        reach[k \in 0..Cardinality(Objects)] ==
            IF k = 0 THEN Roots ELSE Grow(reach[k-1])
    IN reach[Cardinality(Objects)]

\* Nothing the program can still read has been freed: neither a variable, nor a
\* table entry, nor a temporary (gc_do_greys frees what it has not marked).
NothingLost ==
    status = "running" => \A o \in Reachable \cap Objects : color[o] # "free"

\* The assertion of gc_remove_from_list: every object the collector is handed
\* is white, grey or black.
NoInvalidColor == status # "aborted"

\* What the program can no longer read is freed in the end, while it runs.
GarbageReclaimed ==
    \A o \in Data \cup Scopes :
        (status = "running" /\ color[o] # "free" /\ o \notin Reachable)
            ~> (status # "running" \/ color[o] = "free")

-----------------------------------------------------------------------------
(***************************************************************************)
(* The inductive invariant behind ScopesSafe and ProgramTextSafe.          *)
(***************************************************************************)
Marked == {"grey", "black"}

\* The calls own disjoint, non-empty pieces of scope_stack.
FramesNested ==
    status = "running" =>
        /\ Len(frames) > 0 /\ frames[1].base = 0
        /\ \A i, j \in 1..Len(frames) : i < j => frames[i].base < frames[j].base
        /\ Frame.base < Len(stack)

\* A scope on the stack hangs below the one under it, but the first scope of
\* each call below the file scope: LexicalScoping without its recursion.
ScopesLinked ==
    status = "running" =>
        /\ parent[FileScope] = GlobalScope
        /\ \A i \in 1..Len(stack) :
              parent[stack[i]] = IF \E f \in 1..Len(frames) : frames[f].base = i - 1
                                 THEN FileScope ELSE stack[i - 1]

\* The outermost scope of the stack leads to the file and the global scope.
RootScopes ==
    /\ parent[FileScope] = GlobalScope
    /\ color[FileScope] # "free" /\ color[GlobalScope] # "free"
    /\ status = "running" => parent[stack[1]] = FileScope

\* No scope is on the stack twice, and the chain of parents ends.
StackProper ==
    /\ parent[GlobalScope] = Nil
    /\ \A i, j \in 1..Len(stack) : stack[i] = stack[j] => i = j
    /\ \A i \in 1..Len(stack) : stack[i] \notin {FileScope, GlobalScope}

\* No sweep leaves a scope of the stack white, and marking follows the parents.
ScopesMarked ==
    /\ \A i \in 1..Len(stack) : color[stack[i]] \in Marked
    /\ \A s \in Scopes : parent[s] # Nil =>
          /\ color[s] = "black" => color[parent[s]] \in Marked
          /\ color[s] # "free" => color[parent[s]] # "free"

\* Every function bound at top level is still bound, and is marked whenever a
\* cycle starts; marking follows the syntax tree.
TextMarked ==
    /\ \A f \in TopLevel : color[f] \in Marked
    /\ \A f \in TopLevel : \E s \in {GlobalScope, FileScope}, n \in Names : symbols[s][n] = f
    /\ \A c \in Code : color[c] = "black" =>
          \A e \in Children[c] \cap Code : color[e] \in Marked

IInv ==
    /\ TypeOK
    /\ FramesNested
    /\ RootScopes
    /\ ScopesLinked
    /\ StackProper
    /\ ScopesMarked
    /\ TextMarked
    /\ ProgramTextSafe

-----------------------------------------------------------------------------
(***************************************************************************)
(* The inductive invariant behind NothingLost and NoInvalidColor, for the  *)
(* programs that need no write barrier.                                    *)
(***************************************************************************)
Disciplined ==
    /\ ~UsesNull /\ ~SharedOverwrite /\ ~HoldsAcrossCalls /\ ~KeepsOverwritten
    /\ \A c \in Code : NullValue \notin Children[c]

\* S has what is grey, and every white value that marking finds from it.
ClosedUnderMarking(S) ==
    /\ Grey \subseteq S
    /\ \A o \in S : color[o] \in {"white", "grey"} => Refs(o) \cap White \cap Data \subseteq S

\* If v is white, marking will find it in this cycle.
Guarded(v) ==
    v \in White \cap Data => \A S \in SUBSET Objects : ClosedUnderMarking(S) => v \in S

Alive(v) == v # NullValue /\ (v \in Objects => color[v] # "free")

\* Marking will still find what the program can read without a table that is
\* itself still to be marked: a reference leaves an unmarked object only when it
\* was the last one.
ValuesGuarded ==
    status = "running" =>
        /\ \A s \in Live, n \in Names : Guarded(symbols[s][n])
        /\ \A d \in Data, k \in Fields : color[d] = "black" => Guarded(table[d][k])
        /\ \A v \in {reg} \cup held : Guarded(v)

\* The values in the scopes that can be read or marked, and in tables, are there.
ValuesAlive ==
    status = "running" =>
        /\ \A s \in Scopes, n \in Names :
              s \in Live \/ color[s] = "grey" => Alive(symbols[s][n])
        /\ \A d \in Data, k \in Fields : color[d] # "free" => Alive(table[d][k])
        /\ \A v \in {reg} \cup held : Alive(v)

\* What a statement computes does not outlive it, in any of the calls.
NothingHeld ==
    status = "running" =>
        /\ \A i \in 1..Len(frames) : frames[i].held = {}
        /\ pc = "mark" => reg = Nil /\ held = {}

\* Marking a scope that has been left meets no other that has.
LeftScopesMarked ==
    status = "running" =>
        \A s \in Scopes : color[s] = "grey" /\ parent[s] # Nil =>
            parent[s] \in {FileScope, GlobalScope} \/ color[parent[s]] \in Marked

KeptInv ==
    /\ IInv
    /\ ValuesGuarded
    /\ ValuesAlive
    /\ NothingHeld
    /\ LeftScopesMarked
    /\ status \in {"running", "exited"}

=============================================================================
