-------------------------- MODULE CollectorProofs --------------------------
(***************************************************************************)
(* Theorems about Collector for every heap size, program and Work: scopes  *)
(* a statement can resolve names through, and the text of the program, are *)
(* never collected; names are looked up lexically; and of a disciplined    *)
(* program nothing it can read is collected and no assertion fails.        *)
(***************************************************************************)
EXTENDS Collector, Induction

USE DEF Colors, Objects, Values

\* What pop_scope and the return from a call leave of a stack.
LEMMA Prefix ==
  ASSUME NEW S, NEW s \in Seq(S), NEW n \in 0..Len(s)
  PROVE  /\ SubSeq(s, 1, n) \in Seq(S)
         /\ Len(SubSeq(s, 1, n)) = n
         /\ \A i \in 1..n : SubSeq(s, 1, n)[i] = s[i]
  OBVIOUS

\* The initial state satisfies the typing part (init_ir and ir_run's entry).
LEMMA TypeInit == Init => TypeOK
  <1> SUFFICES ASSUME Init PROVE TypeOK
    OBVIOUS
  <1> USE ScopeAssumption, KindAssumption, CodeAssumption, BindingAssumption
  <1>1. color \in [Objects -> Colors] /\ parent \in [Scopes -> Scopes \cup {Nil}]
    BY DEF Init
  <1>2. symbols \in [Scopes -> [Names -> Values \cup {Nil}]]
    BY DEF Init, NoSymbols
  <1>3. table \in [Data -> [Fields -> Values \cup {Nil}]]
    BY DEF Init, NoEntries
  <1>4. stack \in Seq(Scopes) /\ frames \in Seq(StackFrames)
    <2>1. [base |-> 0, held |-> {}] \in StackFrames
      BY DEF StackFrames
    <2>2. QED
      BY <2>1 DEF Init
  <1>5. QED
    BY <1>1, <1>2, <1>3, <1>4 DEF Init, TypeOK

\* The last element of a sequence of the right type, and its prefixes.
LEMMA FrameType ==
  ASSUME TypeOK, FramesNested, status = "running"
  PROVE  /\ Frame \in StackFrames
         /\ Frame.base \in 0..(Len(stack) - 1)
         /\ Len(frames) \in Nat \ {0} /\ Len(stack) \in Nat \ {0}
         /\ Top \in Scopes
         /\ stack[1] \in Scopes
  <1>1. Len(frames) \in Nat /\ Len(stack) \in Nat
    BY DEF TypeOK
  <1>2. Len(frames) > 0 /\ Frame.base < Len(stack)
    BY DEF FramesNested
  <1>3. Frame \in StackFrames
    BY <1>1, <1>2 DEF TypeOK, Frame, Last
  <1>4. Frame.base \in Nat
    BY <1>3 DEF StackFrames
  <1>5. Top \in Scopes /\ stack[1] \in Scopes
    BY <1>1, <1>2, <1>4 DEF TypeOK, Top, Last
  <1>6. QED
    BY <1>1, <1>2, <1>3, <1>4, <1>5

\* A step of the collector keeps the types.
LEMMA TypeCollect ==
  ASSUME TypeOK, Collect
  PROVE  TypeOK'
  <1> USE CodeAssumption, KindAssumption
  <1>1. CASE gc_pause
    BY <1>1 DEF gc_pause, TypeOK, heap
  <1>2. CASE gc_sweep
    <2>1. Swept \in [Objects -> Colors]
      BY DEF TypeOK, Swept
    <2>2. Shade(RootRefs, Swept) \in [Objects -> Colors]
      BY <2>1 DEF Shade
    <2>3. CASE InvalidColor(RootRefs, Swept)
      BY <1>2, <2>3 DEF gc_sweep, TypeOK, heap
    <2>4. CASE ~InvalidColor(RootRefs, Swept)
      <3>1. color' \in [Objects -> Colors]
        BY <1>2, <2>2, <2>4 DEF gc_sweep
      <3>2. /\ parent' \in [Scopes -> Scopes \cup {Nil}]
            /\ symbols' \in [Scopes -> [Names -> Values \cup {Nil}]]
            /\ table' \in [Data -> [Fields -> Values \cup {Nil}]]
        BY <1>2, <2>4 DEF gc_sweep, TypeOK, NoSymbols, NoEntries
      <3>3. /\ pc' = "eval" /\ work' = 0
            /\ UNCHANGED <<status, stack, frames, reg, held>>
        BY <1>2, <2>4 DEF gc_sweep
      <3>4. QED
        BY <3>1, <3>2, <3>3 DEF TypeOK
    <2>5. QED
      BY <2>3, <2>4
  <1>3. ASSUME NEW o \in Objects, gc_mark_object(o)
        PROVE  TypeOK'
    BY <1>3 DEF gc_mark_object, TypeOK, Shade
  <1>4. QED
    BY <1>1, <1>2, <1>3 DEF Collect

\* An evaluation or the effect of a statement keeps the types.
LEMMA TypeEvaluate ==
  ASSUME TypeOK, FramesNested, Evaluate \/ Effect
  PROVE  TypeOK'
  <1> USE KindAssumption DEF TypeOK, heap, Evaluating
  <1>1. ASSUME NEW d \in Data, alloc_value(d)
        PROVE  TypeOK'
    BY <1>1 DEF alloc_value, NoEntries
  <1>2. CASE eval_null
    BY <1>2 DEF eval_null
  <1>3. ASSUME NEW n \in Names, eval_name(n)
        PROVE  TypeOK'
    BY <1>3 DEF eval_name, ir_error
  <1>4. ASSUME NEW k \in Fields, eval_field(k)
        PROVE  TypeOK'
    BY <1>4 DEF eval_field
  <1>5. CASE hold \/ use_held
    BY <1>5 DEF hold, use_held
  <1>6. CASE end_stmt
    BY <1>6 DEF end_stmt, Done
  <1>7. ASSUME NEW n \in Names, scope_add(n)
        PROVE  TypeOK'
    <2>1. status = "running"
      BY <1>7 DEF scope_add
    <2>2. Top \in Scopes
      BY <2>1, FrameType
    <2>3. CASE symbols[Top][n] # Nil
      BY <1>7, <2>3 DEF scope_add, ir_error
    <2>4. CASE symbols[Top][n] = Nil
      <3>1. symbols' = [symbols EXCEPT ![Top][n] = reg]
        BY <1>7, <2>4 DEF scope_add
      <3>2. symbols' \in [Scopes -> [Names -> Values \cup {Nil}]]
        BY <2>2, <3>1
      <3>3. QED
        BY <1>7, <2>4, <3>2 DEF scope_add, Done
    <2>5. QED
      BY <2>3, <2>4
  <1>8. ASSUME NEW n \in Names, scope_set(n)
        PROVE  TypeOK'
    <2>1. CASE ir_error
      BY <2>1 DEF ir_error
    <2>2. ASSUME NEW s \in Scopes, symbols' = [symbols EXCEPT ![s][n] = reg],
                 Done \/ GoesOn(symbols[s][n]),
                 UNCHANGED <<color, parent, table, stack, frames, work, status>>
          PROVE  TypeOK'
      <3>1. symbols' \in [Scopes -> [Names -> Values \cup {Nil}]]
        BY <2>2
      <3>2. QED
        BY <2>2, <3>1 DEF Done, GoesOn
    <2>3. QED
      BY <1>8, <2>1, <2>2 DEF scope_set
  <1>9. ASSUME NEW t \in Data, NEW k \in Fields, table_put(t, k)
        PROVE  TypeOK'
    <2>1. CASE color[t] = "free"
      BY <1>9, <2>1 DEF table_put
    <2>2. CASE color[t] # "free"
      <3>1. table' = [table EXCEPT ![t][k] = reg]
        BY <1>9, <2>2 DEF table_put
      <3>2. table' \in [Data -> [Fields -> Values \cup {Nil}]]
        BY <3>1
      <3>3. QED
        BY <1>9, <2>2, <3>2 DEF table_put, Done, GoesOn
    <2>3. QED
      BY <2>1, <2>2
  <1>10. QED
    BY <1>1, <1>2, <1>3, <1>4, <1>5, <1>6, <1>7, <1>8, <1>9 DEF Evaluate, Effect

\* Entering and leaving scopes keeps the types.
LEMMA TypeControl ==
  ASSUME TypeOK, FramesNested, Control
  PROVE  TypeOK'
  <1> USE ScopeAssumption, KindAssumption DEF Evaluating
  <1>0. status = "running"
    BY DEF Control, enter_block, leave_block, call_function, eval_return, fall_off
  <1>a. /\ Frame \in StackFrames
        /\ Frame.base \in 0..(Len(stack) - 1)
        /\ Len(frames) \in Nat \ {0} /\ Len(stack) \in Nat \ {0}
        /\ Top \in Scopes
    BY <1>0, FrameType
  <1>1. ASSUME NEW s \in Scopes, NEW up \in Scopes,
               NEW syms \in [Names -> Values \cup {Nil}], push_scope(s, up, syms)
        PROVE  /\ color' \in [Objects -> Colors]
               /\ parent' \in [Scopes -> Scopes \cup {Nil}]
               /\ symbols' \in [Scopes -> [Names -> Values \cup {Nil}]]
               /\ stack' \in Seq(Scopes)
    BY <1>1 DEF push_scope, TypeOK
  <1>2. NoSymbols \in [Names -> Values \cup {Nil}]
    BY DEF NoSymbols
  <1>3. ASSUME NEW s \in Scopes, enter_block(s)
        PROVE  TypeOK'
    <2>1. push_scope(s, Top, NoSymbols)
      BY <1>3 DEF enter_block
    <2>2. QED
      BY <1>1, <1>2, <1>3, <1>a, <2>1 DEF enter_block, TypeOK, Done
  <1>4. CASE leave_block
    <2>1. SubSeq(stack, 1, Len(stack) - 1) \in Seq(Scopes)
      BY <1>a, Prefix DEF TypeOK
    <2>2. QED
      BY <1>4, <2>1 DEF leave_block, TypeOK, heap
  <1>5. ASSUME NEW s \in Scopes, call_function(s)
        PROVE  TypeOK'
    <2>1. PICK args \in [Names -> held \cup {reg, Nil}], kept \in SUBSET held :
             /\ push_scope(s, FileScope, args)
             /\ frames' = Append(frames, [base |-> Len(stack), held |-> kept])
      BY <1>5 DEF call_function
    <2>2. args \in [Names -> Values \cup {Nil}]
      BY DEF TypeOK
    <2>3. [base |-> Len(stack), held |-> kept] \in StackFrames
      BY <1>a DEF TypeOK, StackFrames
    <2>4. frames' \in Seq(StackFrames)
      BY <2>1, <2>3 DEF TypeOK
    <2>5. /\ color' \in [Objects -> Colors]
          /\ parent' \in [Scopes -> Scopes \cup {Nil}]
          /\ symbols' \in [Scopes -> [Names -> Values \cup {Nil}]]
          /\ stack' \in Seq(Scopes)
      BY <1>1, <2>1, <2>2
    <2>6. reg' = Nil /\ held' = {} /\ pc' = "next" /\ UNCHANGED <<table, work, status>>
      BY <1>5 DEF call_function, Done
    <2>7. QED
      BY <2>4, <2>5, <2>6 DEF TypeOK
  <1>6. ASSUME NEW v \in Values \cup {Nil}, PopFrame(v)
        PROVE  TypeOK'
    <2>1. SubSeq(stack, 1, Frame.base) \in Seq(Scopes)
      BY <1>a, Prefix DEF TypeOK
    <2>2. SubSeq(frames, 1, Len(frames) - 1) \in Seq(StackFrames)
      BY <1>a, Prefix DEF TypeOK
    <2>3. Frame.held \subseteq Values
      BY <1>a DEF StackFrames
    <2>4. QED
      BY <1>6, <2>1, <2>2, <2>3 DEF PopFrame, TypeOK, heap
  <1>7. CASE eval_return
    BY <1>6, <1>7 DEF eval_return, NoResult, TypeOK
  <1>8. CASE fall_off
    BY <1>6, <1>8 DEF fall_off, NoResult
  <1>9. QED
    BY <1>3, <1>4, <1>5, <1>7, <1>8 DEF Control

\* Every step keeps the types.
LEMMA TypeStep ==
  ASSUME TypeOK, FramesNested, [Next]_vars
  PROVE  TypeOK'
  <1>1. CASE eval_stmt
    BY <1>1, ProgramAssumption, KindAssumption DEF eval_stmt, TypeOK, heap
  <1>2. CASE UNCHANGED vars
    BY <1>2 DEF vars, TypeOK
  <1>3. QED
    BY <1>1, <1>2, TypeCollect, TypeEvaluate, TypeControl DEF Next

-----------------------------------------------------------------------------
(***************************************************************************)
(* What each kind of step does to the heap and the stacks.                 *)
(***************************************************************************)
\* Steps that neither collect, allocate nor enter or leave a scope.
Quiet == UNCHANGED <<color, parent, stack, frames>>

\* A step of the collector is one of these kinds, by what it does to the colours
\* and the scopes.
LEMMA Kinds ==
  ASSUME Next
  PROVE  /\ status = "running"
         /\ \/ Quiet
            \/ \E o \in Objects : gc_mark_object(o)
            \/ gc_sweep
            \/ \E d \in Data : alloc_value(d)
            \/ Control
  <1> USE DEF Quiet, heap, Evaluating
  <1>1. CASE eval_stmt
    BY <1>1 DEF eval_stmt
  <1>2. CASE Collect
    BY <1>2 DEF Collect, gc_pause, gc_sweep, gc_mark_object
  <1>3. CASE Evaluate
    BY <1>3 DEF Evaluate, alloc_value, eval_null, eval_name, eval_field, hold, use_held, ir_error
  <1>4. CASE Effect
    <2>1. CASE end_stmt
      BY <2>1 DEF end_stmt
    <2>2. ASSUME NEW n \in Names, scope_add(n)
          PROVE  Quiet /\ status = "running"
      BY <2>2 DEF scope_add, ir_error
    <2>3. ASSUME NEW n \in Names, scope_set(n)
          PROVE  Quiet /\ status = "running"
      BY <2>3 DEF scope_set, ir_error
    <2>4. ASSUME NEW t \in Data, NEW k \in Fields, table_put(t, k)
          PROVE  Quiet /\ status = "running"
      BY <2>4 DEF table_put
    <2>5. QED
      BY <1>4, <2>1, <2>2, <2>3, <2>4 DEF Effect
  <1>5. CASE Control
    BY <1>5 DEF Control, enter_block, leave_block, call_function, eval_return, fall_off
  <1>6. QED
    BY <1>1, <1>2, <1>3, <1>4, <1>5 DEF Next

\* Marking an object only darkens: it turns black, its references leave white.
LEMMA MarkEffect ==
  ASSUME TypeOK, NEW o \in Objects, gc_mark_object(o), status' # "aborted"
  PROVE  /\ \A x \in Objects :
              /\ color[x] \in Marked => color'[x] \in Marked
              /\ color'[x] = "free" <=> color[x] = "free"
              /\ color'[x] = "black" => x = o \/ color[x] = "black"
              /\ x \in Refs(o) => color'[x] \in Marked
              /\ color'[x] = "grey" => color[x] = "grey" \/ (color[x] = "white" /\ x \in Refs(o))
              /\ color'[x] = "white" <=> color[x] = "white" /\ x \notin Refs(o)
         /\ UNCHANGED <<parent, symbols, stack, frames>>
  <1>1. /\ ~InvalidColor(Refs(o), color)
        /\ color' = Shade(Refs(o), [color EXCEPT ![o] = "black"])
        /\ color[o] = "grey"
        /\ UNCHANGED <<parent, symbols, stack, frames>>
    BY DEF gc_mark_object
  <1>2. ASSUME NEW x \in Objects
        PROVE  /\ color[x] \in Marked => color'[x] \in Marked
               /\ color'[x] = "free" <=> color[x] = "free"
               /\ color'[x] = "black" => x = o \/ color[x] = "black"
               /\ x \in Refs(o) => color'[x] \in Marked
               /\ color'[x] = "grey" => color[x] = "grey" \/ (color[x] = "white" /\ x \in Refs(o))
               /\ color'[x] = "white" <=> color[x] = "white" /\ x \notin Refs(o)
    <2>1. color' = [y \in Objects |->
                      IF y \in Refs(o) /\ [color EXCEPT ![o] = "black"][y] = "white"
                      THEN "grey" ELSE [color EXCEPT ![o] = "black"][y]]
      BY <1>1 DEF Shade
    <2>2. x # o => color'[x] = (IF x \in Refs(o) /\ color[x] = "white"
                                THEN "grey" ELSE color[x])
      BY <2>1 DEF TypeOK
    <2>3. x = o => color'[x] = "black"
      BY <2>1 DEF TypeOK
    <2>4. x \in Refs(o) => color[x] # "free"
      BY <1>1 DEF InvalidColor
    <2>5. color[x] \in Colors
      BY DEF TypeOK
    <2>6. QED
      BY <1>1, <2>2, <2>3, <2>4, <2>5 DEF Marked
  <1>3. QED
    BY <1>1, <1>2

\* A sweep frees the white objects, and only the roots are grey after it.
LEMMA SweepEffect ==
  ASSUME TypeOK, gc_sweep, status' # "aborted"
  PROVE  /\ \A x \in Objects :
              /\ color[x] # "grey"
              /\ color'[x] # "black"
              /\ color'[x] = "free" <=> color[x] \in {"free", "white"}
              /\ x \in RootRefs <=> color'[x] = "grey"
         /\ parent' = [s \in Scopes |-> IF color[s] = "white" THEN Nil ELSE parent[s]]
         /\ symbols' = [s \in Scopes |-> IF color[s] = "white" THEN NoSymbols ELSE symbols[s]]
         /\ UNCHANGED <<stack, frames>>
  <1>1. /\ ~InvalidColor(RootRefs, Swept)
        /\ color' = Shade(RootRefs, Swept)
        /\ Grey = {}
        /\ UNCHANGED <<stack, frames>>
    BY DEF gc_sweep
  <1>2. \A s \in Scopes : s \in White <=> color[s] = "white"
    BY DEF White
  <1>3. /\ parent' = [s \in Scopes |-> IF color[s] = "white" THEN Nil ELSE parent[s]]
        /\ symbols' = [s \in Scopes |-> IF color[s] = "white" THEN NoSymbols ELSE symbols[s]]
    BY <1>1, <1>2 DEF gc_sweep
  <1>4. ASSUME NEW x \in Objects
        PROVE  /\ color[x] # "grey"
               /\ color'[x] # "black"
               /\ color'[x] = "free" <=> color[x] \in {"free", "white"}
               /\ x \in RootRefs <=> color'[x] = "grey"
    <2>1. color[x] # "grey" /\ color[x] \in Colors
      BY <1>1 DEF Grey, TypeOK
    <2>2. Swept[x] = IF color[x] = "white" THEN "free"
                     ELSE IF color[x] = "black" THEN "white" ELSE color[x]
      BY DEF Swept
    <2>3. Swept[x] \in {"free", "white"}
      BY <2>1, <2>2
    <2>4. x \in RootRefs => Swept[x] # "free"
      BY <1>1 DEF InvalidColor
    <2>5. color'[x] = IF x \in RootRefs /\ Swept[x] = "white" THEN "grey" ELSE Swept[x]
      BY <1>1 DEF Shade
    <2>6. QED
      BY <2>1, <2>2, <2>3, <2>4, <2>5
  <1>5. QED
    BY <1>1, <1>3, <1>4

\* Control either pushes a scope, leaves a block or leaves a call.
LEMMA ControlKinds ==
  ASSUME TypeOK, FramesNested, Control
  PROVE  \/ \E s \in Scopes : enter_block(s) \/ call_function(s)
         \/ leave_block
         \/ \E v \in Values \cup {Nil} : PopFrame(v)
  BY KindAssumption DEF Control, eval_return, fall_off, NoResult, TypeOK

\* A pushed scope was free; it is grey and on top of the stack, and the rest of
\* the heap is as before.
LEMMA PushEffect ==
  ASSUME TypeOK, FramesNested, status = "running",
         NEW s \in Scopes, NEW up \in Scopes, NEW syms, push_scope(s, up, syms)
  PROVE  /\ color[s] = "free" /\ color'[s] = "grey"
         /\ parent'[s] = up /\ symbols'[s] = syms
         /\ \A x \in Objects : x # s => color'[x] = color[x]
         /\ \A x \in Scopes : x # s => parent'[x] = parent[x] /\ symbols'[x] = symbols[x]
         /\ Len(stack') = Len(stack) + 1
         /\ stack'[Len(stack) + 1] = s
         /\ \A i \in 1..Len(stack) : stack'[i] = stack[i]
  BY DEF push_scope, TypeOK

\* Blocks and calls nest on scope_stack.
LEMMA FramesStep ==
  ASSUME TypeOK, FramesNested, [Next]_vars
  PROVE  FramesNested'
  <1>1. CASE UNCHANGED <<stack, frames>> /\ (status' = "running" => status = "running")
    BY <1>1 DEF FramesNested, Frame, Last
  <1>2. ASSUME NEW s \in Scopes, enter_block(s)
        PROVE  FramesNested'
    <2>1. frames' = frames /\ Len(stack') = Len(stack) + 1 /\ status = "running"
      BY <1>2 DEF enter_block, push_scope, Evaluating, TypeOK
    <2>2. Frame.base \in Nat /\ Len(stack) \in Nat
      BY <2>1, FrameType
    <2>3. QED
      BY <2>1, <2>2 DEF FramesNested, Frame, Last
  <1>3. ASSUME NEW s \in Scopes, call_function(s)
        PROVE  FramesNested'
    <2>0. PICK kept \in SUBSET held :
             frames' = Append(frames, [base |-> Len(stack), held |-> kept])
      BY <1>3 DEF call_function
    <2> DEFINE f == [base |-> Len(stack), held |-> kept]
    <2>1. frames' = Append(frames, f) /\ Len(stack') = Len(stack) + 1 /\ status = "running"
      BY <1>3, <2>0 DEF call_function, push_scope, Evaluating, TypeOK
    <2>2. /\ Frame.base \in 0..(Len(stack) - 1)
          /\ Len(frames) \in Nat \ {0} /\ Len(stack) \in Nat \ {0}
      BY <2>1, FrameType
    <2>3. f \in StackFrames /\ f.base = Len(stack)
      BY <2>2 DEF TypeOK, StackFrames
    <2> HIDE DEF f
    <2>4. /\ Len(frames') = Len(frames) + 1
          /\ frames'[Len(frames) + 1] = f
          /\ \A i \in 1..Len(frames) : frames'[i] = frames[i]
      BY <2>1, <2>2, <2>3 DEF TypeOK
    <2>5. frames'[1].base = 0
      BY <2>1, <2>2, <2>4 DEF FramesNested
    <2>6. ASSUME NEW i \in 1..Len(frames'), NEW j \in 1..Len(frames'), i < j
          PROVE  frames'[i].base < frames'[j].base
      <3>1. i \in 1..Len(frames) /\ frames'[i] = frames[i]
        BY <2>2, <2>4, <2>6
      <3>2. CASE j = Len(frames) + 1
        <4>0. frames \in Seq(StackFrames) /\ Frame = frames[Len(frames)]
          BY <2>1 DEF TypeOK, Frame, Last
        <4>0a. frames[i] \in StackFrames
          BY <3>1, <4>0
        <4>1. frames[i].base \in Nat /\ Frame = frames[Len(frames)]
          BY <4>0, <4>0a DEF StackFrames
        <4>2. i = Len(frames) \/ frames[i].base < Frame.base
          BY <2>1, <2>2, <3>1, <4>1 DEF FramesNested
        <4>3. frames[i].base < Len(stack)
          BY <2>2, <4>1, <4>2
        <4>4. QED
          BY <2>3, <2>4, <3>1, <3>2, <4>3
      <3>3. CASE j # Len(frames) + 1
        <4>1. j \in 1..Len(frames) /\ frames'[j] = frames[j]
          BY <2>2, <2>4, <3>3
        <4>2. QED
          BY <2>1, <2>6, <3>1, <4>1 DEF FramesNested
      <3>4. QED
        BY <3>2, <3>3
    <2>7. Frame'.base < Len(stack')
      BY <2>1, <2>2, <2>3, <2>4 DEF Frame, Last
    <2>8. QED
      BY <2>2, <2>4, <2>5, <2>6, <2>7 DEF FramesNested
  <1>4. CASE leave_block
    <2>1. /\ frames' = frames /\ status = "running" /\ Len(stack) > Frame.base + 1
          /\ stack' = SubSeq(stack, 1, Len(stack) - 1)
      BY <1>4 DEF leave_block
    <2>2. Frame.base \in Nat /\ Len(stack) \in Nat \ {0}
      BY <2>1, FrameType
    <2>3. Len(stack') = Len(stack) - 1
      BY <2>1, <2>2, Prefix DEF TypeOK
    <2>4. QED
      BY <2>1, <2>2, <2>3 DEF FramesNested, Frame, Last
  <1>5. ASSUME NEW v \in Values \cup {Nil}, PopFrame(v), status = "running", Len(frames) # 1
        PROVE  FramesNested'
    <2>1. /\ stack' = SubSeq(stack, 1, Frame.base)
          /\ frames' = SubSeq(frames, 1, Len(frames) - 1)
      BY <1>5 DEF PopFrame
    <2>3. /\ Frame.base \in 0..(Len(stack) - 1)
          /\ Len(frames) \in Nat \ {0} /\ Len(stack) \in Nat \ {0}
      BY <1>5, FrameType
    <2>4. Len(stack') = Frame.base
      BY <2>1, <2>3, Prefix DEF TypeOK
    <2>5. /\ Len(frames') = Len(frames) - 1
          /\ \A i \in 1..(Len(frames) - 1) : frames'[i] = frames[i]
      <3>1. Len(frames) - 1 \in 0..Len(frames) /\ frames \in Seq(StackFrames)
        BY <2>3 DEF TypeOK
      <3>2. QED
        BY <2>1, <3>1, Prefix
    <2>5a. Len(frames) \in Nat /\ Len(frames) # 0 /\ Len(frames) # 1
      BY <1>5, <2>3
    <2>6. Len(frames) - 1 \in 1..(Len(frames) - 1)
      BY <2>5a
    <2>7. frames[Len(frames) - 1].base < frames[Len(frames)].base
      <3>1. Len(frames) - 1 \in 1..Len(frames) /\ Len(frames) \in 1..Len(frames)
            /\ Len(frames) - 1 < Len(frames)
        BY <2>5a, <2>6
      <3>2. QED
        BY <1>5, <3>1 DEF FramesNested
    <2>8. Frame'.base < Len(stack')
      <3>1. Frame' = frames[Len(frames) - 1] /\ Frame = frames[Len(frames)]
        BY <2>5, <2>6 DEF Frame, Last
      <3>2. QED
        BY <2>4, <2>7, <3>1
    <2>9. frames'[1].base = 0
      <3>1. 1 \in 1..(Len(frames) - 1)
        BY <2>5a
      <3>2. frames'[1] = frames[1] /\ frames[1].base = 0
        BY <1>5, <2>5, <3>1 DEF FramesNested
      <3>3. QED
        BY <3>2
    <2>10. \A i, j \in 1..Len(frames') : i < j => frames'[i].base < frames'[j].base
      <3>1. \A i, j \in 1..Len(frames) : i < j => frames[i].base < frames[j].base
        BY <1>5 DEF FramesNested
      <3>2. \A i \in 1..Len(frames') : i \in 1..Len(frames) /\ frames'[i] = frames[i]
        BY <2>5, <2>5a
      <3>3. QED
        BY <3>1, <3>2
    <2>11. QED
      BY <1>5, <2>3, <2>5, <2>8, <2>9, <2>10 DEF FramesNested
  <1>5a. ASSUME NEW v \in Values \cup {Nil}, PopFrame(v), Len(frames) = 1
        PROVE  FramesNested'
    BY <1>5a DEF PopFrame, FramesNested
  <1>6. CASE UNCHANGED vars
    BY <1>1, <1>6 DEF vars
  <1>7. CASE Next
    <2>1. status = "running"
      BY <1>7, Kinds
    <2>2. CASE Control
      BY <1>2, <1>3, <1>4, <1>5, <1>5a, <2>1, <2>2, ControlKinds
    <2>3. CASE ~Control
      <3>1. UNCHANGED <<stack, frames>>
        BY <1>7, <2>3, Kinds DEF Quiet, gc_mark_object, gc_sweep, alloc_value
      <3>2. QED
        BY <1>1, <2>1, <3>1
    <2>4. QED
      BY <2>2, <2>3
  <1>8. QED
    BY <1>6, <1>7

-----------------------------------------------------------------------------
(***************************************************************************)
(* Scopes.                                                                 *)
(***************************************************************************)
\* In a running program the scopes of the stack, the file scope and the global
\* scope are all black when a sweep starts.
LEMMA SweepScopes ==
  ASSUME IInv, gc_sweep
  PROVE  /\ \A i \in 1..Len(stack) : color[stack[i]] = "black"
         /\ color[FileScope] = "black" /\ color[GlobalScope] = "black"
  <1> USE ScopeAssumption, KindAssumption
  <1>1. \A x \in Objects : color[x] # "grey"
    BY DEF gc_sweep, Grey
  <1>2. status = "running" /\ TypeOK /\ FramesNested
    BY DEF gc_sweep, IInv
  <1>3. Len(stack) \in Nat \ {0} /\ stack[1] \in Scopes
    BY <1>2, FrameType
  <1>4. \A i \in 1..Len(stack) : stack[i] \in Scopes
    BY <1>2 DEF TypeOK
  <1>5. \A i \in 1..Len(stack) : color[stack[i]] = "black"
    BY <1>1, <1>4 DEF IInv, ScopesMarked, Marked
  <1>6. parent[stack[1]] = FileScope
    BY <1>2 DEF IInv, RootScopes
  <1>7. color[FileScope] = "black"
    BY <1>1, <1>3, <1>5, <1>6 DEF IInv, ScopesMarked, Marked
  <1>8. color[GlobalScope] = "black"
    BY <1>1, <1>7 DEF IInv, ScopesMarked, RootScopes, Marked
  <1>9. QED
    BY <1>5, <1>7, <1>8

\* Marking and sweeping keep the scopes a statement can see.
LEMMA ScopesCollect ==
  ASSUME IInv, gc_sweep \/ (\E o \in Objects : gc_mark_object(o))
  PROVE  RootScopes' /\ ScopesMarked'
  <1> USE ScopeAssumption, KindAssumption
  <1>0. /\ TypeOK /\ RootScopes /\ ScopesMarked /\ status = "running"
        /\ \A i \in 1..Len(stack) : stack[i] \in Scopes
        /\ \A s \in Scopes : parent[s] # Nil => parent[s] \in Scopes
        /\ Len(stack) \in Nat \ {0}
    <2>1. TypeOK /\ FramesNested /\ RootScopes /\ ScopesMarked /\ status = "running"
      BY DEF IInv, gc_sweep, gc_mark_object
    <2>2. QED
      BY <2>1, FrameType DEF TypeOK
  <1>1. CASE status' = "aborted"
    BY <1>0, <1>1 DEF gc_sweep, gc_mark_object, heap, RootScopes, ScopesMarked
  <1>2. ASSUME NEW o \in Objects, gc_mark_object(o), status' # "aborted"
        PROVE  RootScopes' /\ ScopesMarked'
    <2>1. /\ \A x \in Objects :
              /\ color[x] \in Marked => color'[x] \in Marked
              /\ color'[x] = "free" <=> color[x] = "free"
              /\ color'[x] = "black" => x = o \/ color[x] = "black"
              /\ x \in Refs(o) => color'[x] \in Marked
          /\ UNCHANGED <<parent, symbols, stack, frames>>
      BY <1>0, <1>2, MarkEffect
    <2>2. RootScopes'
      BY <1>0, <2>1 DEF RootScopes
    <2>3. ASSUME NEW s \in Scopes, parent[s] # Nil, color'[s] = "black"
          PROVE  color'[parent[s]] \in Marked
      <3>1. CASE s = o
        <4>1. parent[s] \in Refs(o)
          BY <2>3, <3>1 DEF Refs
        <4>2. QED
          BY <1>0, <2>1, <2>3, <4>1
      <3>2. CASE s # o
        BY <1>0, <2>1, <2>3, <3>2 DEF ScopesMarked
      <3>3. QED
        BY <3>1, <3>2
    <2>4. ScopesMarked'
      BY <1>0, <2>1, <2>3 DEF ScopesMarked
    <2>5. QED
      BY <2>2, <2>4
  <1>3. ASSUME gc_sweep, status' # "aborted"
        PROVE  RootScopes' /\ ScopesMarked'
    <2>1. /\ \A x \in Objects :
              /\ color[x] # "grey"
              /\ color'[x] # "black"
              /\ color'[x] = "free" <=> color[x] \in {"free", "white"}
              /\ x \in RootRefs => color'[x] = "grey"
          /\ parent' = [s \in Scopes |-> IF color[s] = "white" THEN Nil ELSE parent[s]]
          /\ UNCHANGED <<stack, frames>>
      BY <1>0, <1>3, SweepEffect
    <2>2. /\ \A i \in 1..Len(stack) : color[stack[i]] = "black"
          /\ color[FileScope] = "black" /\ color[GlobalScope] = "black"
      BY <1>3, SweepScopes
    <2>3. RootScopes'
      BY <1>0, <2>1, <2>2 DEF RootScopes
    <2>4. \A i \in 1..Len(stack) : stack[i] \in RootRefs
      BY <1>0 DEF RootRefs
    <2>5. ASSUME NEW s \in Scopes, parent'[s] # Nil, color'[s] # "free"
          PROVE  color'[parent'[s]] # "free"
      <3>1. color[s] = "black" /\ parent'[s] = parent[s]
        BY <1>0, <2>1, <2>5 DEF TypeOK
      <3>2. color[parent[s]] \in Marked /\ parent[s] \in Scopes
        BY <1>0, <2>5, <3>1 DEF ScopesMarked
      <3>3. QED
        BY <2>1, <3>1, <3>2 DEF Marked
    <2>6. ScopesMarked'
      BY <1>0, <2>1, <2>4, <2>5 DEF ScopesMarked, Marked
    <2>7. QED
      BY <2>3, <2>6
  <1>4. QED
    BY <1>1, <1>2, <1>3

\* Entering and leaving scopes keeps the scopes a statement can see.
LEMMA ScopesControl ==
  ASSUME IInv, Control, FramesNested'
  PROVE  RootScopes' /\ ScopesMarked'
  <1> USE ScopeAssumption, KindAssumption
  <1>1. TypeOK /\ FramesNested /\ RootScopes /\ ScopesMarked /\ status = "running"
    BY DEF IInv, Control, enter_block, leave_block, call_function, eval_return, fall_off, Evaluating
  <1>2. /\ Len(stack) \in Nat \ {0} /\ Frame.base \in 0..(Len(stack) - 1)
        /\ \A i \in 1..Len(stack) : stack[i] \in Scopes
        /\ \A s \in Scopes : parent[s] # Nil => parent[s] \in Scopes
        /\ Top \in Scopes /\ color[Top] # "free"
    <2>1. Len(stack) \in Nat \ {0} /\ Frame.base \in 0..(Len(stack) - 1) /\ Top \in Scopes
      BY <1>1, FrameType
    <2>2. /\ \A i \in 1..Len(stack) : stack[i] \in Scopes
          /\ \A s \in Scopes : parent[s] # Nil => parent[s] \in Scopes
      BY <1>1 DEF TypeOK
    <2>3. color[Top] # "free"
      BY <1>1, <2>1 DEF ScopesMarked, Marked, Top, Last
    <2>4. QED
      BY <2>1, <2>2, <2>3
  <1>3. ASSUME NEW s \in Scopes, NEW up \in Scopes, NEW syms, push_scope(s, up, syms),
               color[up] # "free"
        PROVE  RootScopes' /\ ScopesMarked'
    <2>1. /\ color[s] = "free" /\ color'[s] = "grey"
          /\ parent'[s] = up
          /\ \A x \in Objects : x # s => color'[x] = color[x]
          /\ \A x \in Scopes : x # s => parent'[x] = parent[x]
          /\ Len(stack') = Len(stack) + 1
          /\ stack'[Len(stack) + 1] = s
          /\ \A i \in 1..Len(stack) : stack'[i] = stack[i]
      BY <1>1, <1>3, PushEffect
    <2>2. \A i \in 1..Len(stack) : color[stack[i]] \in Marked /\ stack[i] # s
      BY <1>1, <2>1 DEF ScopesMarked, Marked
    <2>3. FileScope # s /\ GlobalScope # s
      BY <1>1, <2>1 DEF RootScopes
    <2>4. RootScopes'
      BY <1>1, <1>2, <2>1, <2>2, <2>3 DEF RootScopes
    <2>5. \A i \in 1..Len(stack') : color'[stack'[i]] \in Marked
      BY <1>2, <2>1, <2>2 DEF Marked
    <2>6. ASSUME NEW x \in Scopes, parent'[x] # Nil
          PROVE  /\ color'[x] = "black" => color'[parent'[x]] \in Marked
                 /\ color'[x] # "free" => color'[parent'[x]] # "free"
      <3>1. CASE x = s
        BY <1>3, <2>1, <3>1
      <3>2. CASE x # s
        BY <1>1, <1>2, <2>1, <2>6, <3>2 DEF ScopesMarked, Marked
      <3>3. QED
        BY <3>1, <3>2
    <2>7. QED
      BY <2>4, <2>5, <2>6 DEF ScopesMarked
  <1>3a. status' = "running" => Len(stack') > 0
    <2>1. TypeOK'
      BY <1>1, TypeControl
    <2>2. SUFFICES ASSUME status' = "running" PROVE Len(stack') > 0
      OBVIOUS
    <2>3. Len(frames') \in Nat \ {0} /\ Len(stack') \in Nat /\ Frame'.base < Len(stack')
      BY <2>1, <2>2 DEF FramesNested, TypeOK
    <2>4. Frame' \in StackFrames
      BY <2>1, <2>3 DEF TypeOK, Frame, Last
    <2>5. QED
      BY <2>3, <2>4 DEF StackFrames
  <1>4. ASSUME NEW n \in 0..Len(stack), stack' = SubSeq(stack, 1, n),
               UNCHANGED <<color, parent>>
        PROVE  RootScopes' /\ ScopesMarked'
    <2>1. Len(stack') = n /\ \A i \in 1..n : stack'[i] = stack[i]
      BY <1>1, <1>4, Prefix DEF TypeOK
    <2>2. ScopesMarked'
      BY <1>1, <1>2, <1>4, <2>1 DEF ScopesMarked
    <2>3. status' = "running" => n > 0
      BY <1>3a, <2>1
    <2>4. RootScopes'
      BY <1>1, <1>2, <1>4, <2>1, <2>3 DEF RootScopes
    <2>5. QED
      BY <2>2, <2>4
  <1>5. ASSUME NEW s \in Scopes, enter_block(s) \/ call_function(s)
        PROVE  RootScopes' /\ ScopesMarked'
    BY <1>1, <1>2, <1>3, <1>5 DEF enter_block, call_function, RootScopes
  <1>6. CASE leave_block
    BY <1>2, <1>4, <1>6 DEF leave_block, heap
  <1>7. ASSUME NEW v \in Values \cup {Nil}, PopFrame(v)
        PROVE  RootScopes' /\ ScopesMarked'
    <2>1. stack' = SubSeq(stack, 1, Frame.base) /\ UNCHANGED <<color, parent>>
      BY <1>7 DEF PopFrame, heap
    <2>2. Frame.base \in 0..Len(stack)
      BY <1>2
    <2>3. QED
      BY <1>4, <2>1, <2>2
  <1>8. QED
    BY <1>1, <1>5, <1>6, <1>7, ControlKinds

\* A fresh value does not disturb the scopes.
LEMMA ScopesStep ==
  ASSUME IInv, [Next]_vars, FramesNested'
  PROVE  RootScopes' /\ ScopesMarked'
  <1> USE ScopeAssumption, KindAssumption
  <1>1. TypeOK /\ FramesNested /\ RootScopes /\ ScopesMarked
    BY DEF IInv
  <1>2. CASE Quiet /\ (status' = "running" => status = "running")
    BY <1>1, <1>2 DEF Quiet, RootScopes, ScopesMarked
  <1>3. ASSUME NEW d \in Data, alloc_value(d)
        PROVE  RootScopes' /\ ScopesMarked'
    <2>1. /\ UNCHANGED <<parent, stack, status>>
          /\ \A s \in Scopes : color'[s] = color[s]
      BY <1>1, <1>3 DEF alloc_value, TypeOK
    <2>2. RootScopes'
      BY <1>1, <2>1 DEF RootScopes
    <2>3. /\ \A i \in 1..Len(stack) : stack[i] \in Scopes
          /\ \A s \in Scopes : parent[s] # Nil => parent[s] \in Scopes
      BY <1>1 DEF TypeOK
    <2>4. ScopesMarked'
      BY <1>1, <2>1, <2>3 DEF ScopesMarked
    <2>5. QED
      BY <2>2, <2>4
  <1>4. CASE Next
    BY <1>2, <1>3, <1>4, Kinds, ScopesCollect, ScopesControl
  <1>5. CASE UNCHANGED vars
    BY <1>2, <1>5 DEF vars, Quiet
  <1>6. QED
    BY <1>4, <1>5

\* Where a call begins on scope_stack.
CallBase(calls, k) == \E f \in 1..Len(calls) : calls[f].base = k

\* No call begins at the top of the stack.
LEMMA BasesBelowTop ==
  ASSUME TypeOK, FramesNested, status = "running"
  PROVE  \A f \in 1..Len(frames) : frames[f].base \in 0..(Len(stack) - 1)
                                    /\ (f # Len(frames) => frames[f].base < Frame.base)
  <1>1. Frame.base \in 0..(Len(stack) - 1) /\ Len(frames) \in Nat \ {0} /\ Len(stack) \in Nat
    BY FrameType
  <1>2. Frame = frames[Len(frames)]
    BY DEF Frame, Last
  <1>3. ASSUME NEW f \in 1..Len(frames)
        PROVE  frames[f].base \in 0..(Len(stack) - 1) /\ (f # Len(frames) => frames[f].base < Frame.base)
    <2>0. frames \in Seq(StackFrames)
      BY DEF TypeOK
    <2>0a. frames[f] \in StackFrames
      BY <2>0, <1>3
    <2>1. frames[f].base \in Nat
      BY <2>0a DEF StackFrames
    <2>2. f # Len(frames) => frames[f].base < Frame.base
      BY <1>1, <1>2 DEF FramesNested
    <2>3. QED
      BY <1>1, <1>2, <2>1, <2>2
  <1>4. QED
    BY <1>3

\* Collecting keeps the parents of the scopes on the stack.
LEMMA LinksCollect ==
  ASSUME IInv, gc_sweep, status' # "aborted"
  PROVE  ScopesLinked'
  <1> USE ScopeAssumption, KindAssumption
  <1>1. TypeOK /\ ScopesLinked /\ status = "running"
    BY DEF IInv, gc_sweep
  <1>2. /\ parent' = [s \in Scopes |-> IF color[s] = "white" THEN Nil ELSE parent[s]]
        /\ UNCHANGED <<stack, frames>>
    BY <1>1, SweepEffect
  <1>3. \A i \in 1..Len(stack) : stack[i] \in Scopes /\ parent'[stack[i]] = parent[stack[i]]
    BY <1>1, <1>2, SweepScopes DEF TypeOK
  <1>4. parent'[FileScope] = parent[FileScope]
    BY <1>2, SweepScopes
  <1>5. QED
    BY <1>1, <1>2, <1>3, <1>4 DEF ScopesLinked

\* A block hangs its scope below the top of the stack, a call below the file
\* scope; leaving either takes scopes from the top only.
LEMMA LinksControl ==
  ASSUME IInv, Control
  PROVE  ScopesLinked'
  <1> USE ScopeAssumption, KindAssumption
  <1>1. TypeOK /\ FramesNested /\ RootScopes /\ ScopesLinked /\ ScopesMarked /\ status = "running"
    BY DEF IInv, Control, enter_block, leave_block, call_function, eval_return, fall_off, Evaluating
  <1>2. /\ Len(stack) \in Nat \ {0} /\ Len(frames) \in Nat \ {0}
        /\ Frame.base \in 0..(Len(stack) - 1) /\ Top \in Scopes /\ Frame = frames[Len(frames)]
        /\ \A i \in 1..Len(stack) : stack[i] \in Scopes
    BY <1>1, FrameType DEF TypeOK, Frame, Last
  <1>3. \A f \in 1..Len(frames) : frames[f].base \in 0..(Len(stack) - 1)
                                 /\ (f # Len(frames) => frames[f].base < Frame.base)
    BY <1>1, BasesBelowTop
  <1>4. /\ parent[FileScope] = GlobalScope
        /\ \A i \in 1..Len(stack) :
              parent[stack[i]] = IF CallBase(frames, i - 1) THEN FileScope ELSE stack[i - 1]
    BY <1>1 DEF ScopesLinked, CallBase
  <1>5. ASSUME NEW s \in Scopes, NEW up \in Scopes, NEW syms, push_scope(s, up, syms),
               \A k \in 0..(Len(stack) - 1) : CallBase(frames', k) <=> CallBase(frames, k),
               up = IF CallBase(frames', Len(stack)) THEN FileScope ELSE Top
        PROVE  ScopesLinked'
    <2>1. /\ color[s] = "free" /\ parent'[s] = up
          /\ \A x \in Scopes : x # s => parent'[x] = parent[x]
          /\ Len(stack') = Len(stack) + 1
          /\ stack'[Len(stack) + 1] = s
          /\ \A i \in 1..Len(stack) : stack'[i] = stack[i]
      BY <1>1, <1>5, PushEffect
    <2>2. parent'[FileScope] = GlobalScope
      BY <1>1, <1>4, <2>1 DEF RootScopes
    <2>3. ASSUME NEW i \in 1..Len(stack')
          PROVE  parent'[stack'[i]] = IF CallBase(frames', i - 1) THEN FileScope ELSE stack'[i - 1]
      <3>1. CASE i = Len(stack) + 1
        <4>1. i - 1 = Len(stack) /\ stack'[i - 1] = Top
          BY <1>2, <2>1, <3>1 DEF Top, Last
        <4>2. QED
          BY <1>5, <2>1, <3>1, <4>1
      <3>2. CASE i # Len(stack) + 1
        <4>1. i \in 1..Len(stack) /\ i - 1 \in 0..(Len(stack) - 1)
          BY <1>2, <2>1, <3>2
        <4>2. stack[i] # s /\ stack'[i] = stack[i]
          BY <1>1, <2>1, <4>1 DEF ScopesMarked, Marked
        <4>3. parent'[stack'[i]] = parent[stack[i]]
          BY <1>2, <2>1, <4>1, <4>2
        <4>4. CASE CallBase(frames, i - 1)
          BY <1>4, <1>5, <4>1, <4>3, <4>4
        <4>5. CASE ~CallBase(frames, i - 1)
          <5>1. i # 1
            BY <1>1, <1>2, <4>5 DEF FramesNested, CallBase
          <5>2. stack'[i - 1] = stack[i - 1]
            BY <1>2, <2>1, <4>1, <5>1
          <5>3. QED
            BY <1>4, <1>5, <4>1, <4>3, <4>5, <5>2
        <4>6. QED
          BY <4>4, <4>5
      <3>3. QED
        BY <3>1, <3>2
    <2>4. QED
      BY <2>2, <2>3 DEF ScopesLinked, CallBase
  <1>6. ASSUME NEW n \in 0..Len(stack), stack' = SubSeq(stack, 1, n), parent' = parent,
               \A k \in 0..(n - 1) : CallBase(frames', k) <=> CallBase(frames, k), status' = "running"
        PROVE  ScopesLinked'
    <2>1. Len(stack') = n /\ \A i \in 1..n : stack'[i] = stack[i]
      BY <1>1, <1>6, Prefix DEF TypeOK
    <2>2. ASSUME NEW i \in 1..n
          PROVE  parent'[stack'[i]] = IF CallBase(frames', i - 1) THEN FileScope ELSE stack'[i - 1]
      <3>1. i \in 1..Len(stack) /\ i - 1 \in 0..(n - 1)
        BY <1>2
      <3>2. parent'[stack'[i]] = IF CallBase(frames', i - 1) THEN FileScope ELSE stack[i - 1]
        BY <1>4, <1>6, <2>1, <3>1
      <3>3. CASE i = 1
        <4>1. CallBase(frames, 0)
          BY <1>1, <1>2 DEF FramesNested, CallBase
        <4>2. CallBase(frames', i - 1)
          BY <1>6, <3>1, <3>3, <4>1
        <4>3. QED
          BY <3>2, <4>2
      <3>4. CASE i # 1
        BY <2>1, <3>1, <3>2, <3>4
      <3>5. QED
        BY <3>3, <3>4
    <2>3. QED
      BY <1>4, <1>6, <2>1, <2>2 DEF ScopesLinked, CallBase
  <1>7. ASSUME NEW s \in Scopes, enter_block(s)
        PROVE  ScopesLinked'
    <2>1. push_scope(s, Top, NoSymbols) /\ frames' = frames
      BY <1>7 DEF enter_block
    <2>2. ~CallBase(frames', Len(stack)) /\ \A k \in 0..(Len(stack) - 1) : CallBase(frames', k) <=> CallBase(frames, k)
      BY <1>2, <1>3, <2>1 DEF CallBase
    <2>3. QED
      BY <1>2, <1>5, <2>1, <2>2
  <1>8. ASSUME NEW s \in Scopes, call_function(s)
        PROVE  ScopesLinked'
    <2>0. PICK args \in [Names -> held \cup {reg, Nil}], kept \in SUBSET held :
             /\ push_scope(s, FileScope, args)
             /\ frames' = Append(frames, [base |-> Len(stack), held |-> kept])
      BY <1>8 DEF call_function
    <2> DEFINE g == [base |-> Len(stack), held |-> kept]
    <2>1. push_scope(s, FileScope, args) /\ frames' = Append(frames, g)
      BY <2>0
    <2>2. g \in StackFrames /\ g.base = Len(stack)
      BY <1>1, <1>2 DEF TypeOK, StackFrames
    <2> HIDE DEF g
    <2>3. /\ Len(frames') = Len(frames) + 1
          /\ frames'[Len(frames) + 1] = g
          /\ \A i \in 1..Len(frames) : frames'[i] = frames[i]
      BY <1>1, <1>2, <2>1, <2>2 DEF TypeOK
    <2>4. CallBase(frames', Len(stack))
      BY <1>2, <2>2, <2>3 DEF CallBase
    <2>5. ASSUME NEW k \in 0..(Len(stack) - 1)
          PROVE  CallBase(frames', k) <=> CallBase(frames, k)
      BY <1>2, <2>2, <2>3 DEF CallBase
    <2>6. QED
      BY <1>5, <2>1, <2>4, <2>5
  <1>9. CASE leave_block
    <2>1. /\ stack' = SubSeq(stack, 1, Len(stack) - 1)
          /\ parent' = parent /\ frames' = frames /\ status' = "running"
      BY <1>1, <1>9 DEF leave_block, heap
    <2>2. \A k \in 0..((Len(stack) - 1) - 1) : CallBase(frames', k) <=> CallBase(frames, k)
      BY <2>1 DEF CallBase
    <2>3. QED
      BY <1>2, <1>6, <2>1, <2>2
  <1>10. ASSUME NEW v \in Values \cup {Nil}, PopFrame(v)
        PROVE  ScopesLinked'
    <2>1. SUFFICES ASSUME status' = "running" PROVE ScopesLinked'
      BY DEF ScopesLinked
    <2>2. /\ stack' = SubSeq(stack, 1, Frame.base)
          /\ frames' = SubSeq(frames, 1, Len(frames) - 1)
          /\ parent' = parent
      BY <1>10 DEF PopFrame, heap
    <2>3. /\ Len(frames') = Len(frames) - 1
          /\ \A i \in 1..(Len(frames) - 1) : frames'[i] = frames[i]
      <3>1. Len(frames) - 1 \in 0..Len(frames) /\ frames \in Seq(StackFrames)
        BY <1>1, <1>2 DEF TypeOK
      <3>2. QED
        BY <2>2, <3>1, Prefix
    <2>4. ASSUME NEW k \in 0..(Frame.base - 1)
          PROVE  CallBase(frames', k) <=> CallBase(frames, k)
      <3>1. \A f \in 1..Len(frames) : frames[f].base = k => f \in 1..(Len(frames) - 1)
        BY <1>2
      <3>2. QED
        BY <1>2, <2>3, <3>1 DEF CallBase
    <2> DEFINE n == Frame.base
    <2>5. n \in 0..Len(stack) /\ stack' = SubSeq(stack, 1, n) /\ parent' = parent
      BY <1>2, <2>2
    <2>6. \A k \in 0..(n - 1) : CallBase(frames', k) <=> CallBase(frames, k)
      BY <2>4
    <2> HIDE DEF n
    <2>7. QED
      BY <1>6, <2>1, <2>5, <2>6
  <1>11. QED
    BY <1>1, <1>7, <1>8, <1>9, <1>10, ControlKinds

\* Every step keeps the parents of the scopes on the stack.
LEMMA LinksStep ==
  ASSUME IInv, [Next]_vars
  PROVE  ScopesLinked'
  <1> USE ScopeAssumption, KindAssumption
  <1>1. TypeOK /\ ScopesLinked
    BY DEF IInv
  <1>2. CASE UNCHANGED <<parent, stack, frames>> /\ (status' = "running" => status = "running")
    BY <1>1, <1>2 DEF ScopesLinked
  <1>3. CASE gc_sweep
    <2>1. CASE status' = "aborted"
      BY <2>1 DEF ScopesLinked
    <2>2. QED
      BY <1>3, <2>1, LinksCollect
  <1>4. CASE Next
    <2>1. status = "running"
      BY <1>4, Kinds
    <2>2. ASSUME Quiet \/ (\E o \in Objects : gc_mark_object(o)) \/ (\E d \in Data : alloc_value(d))
          PROVE  UNCHANGED <<parent, stack, frames>>
      BY <2>2 DEF Quiet, gc_mark_object, alloc_value
    <2>3. QED
      BY <1>2, <1>3, <1>4, <2>1, <2>2, Kinds, LinksControl
  <1>5. CASE UNCHANGED vars
    BY <1>2, <1>5 DEF vars
  <1>6. QED
    BY <1>4, <1>5

\* A scope enters the stack once, when it is free, and the outer two never do.
LEMMA ProperStep ==
  ASSUME IInv, [Next]_vars
  PROVE  StackProper'
  <1> USE ScopeAssumption, KindAssumption
  <1>1. TypeOK /\ FramesNested /\ RootScopes /\ ScopesMarked /\ StackProper
    BY DEF IInv
  <1>2. CASE UNCHANGED <<parent, stack>>
    BY <1>1, <1>2 DEF StackProper
  <1>3. CASE gc_sweep
    <2>1. CASE status' = "aborted"
      BY <1>2, <1>3, <2>1 DEF gc_sweep, heap
    <2>2. CASE status' # "aborted"
      <3>1. parent'[GlobalScope] = parent[GlobalScope] /\ stack' = stack
        BY <1>1, <1>3, <2>2, SweepEffect, SweepScopes
      <3>2. QED
        BY <1>1, <3>1 DEF StackProper
    <2>3. QED
      BY <2>1, <2>2
  <1>4. ASSUME NEW s \in Scopes, NEW up \in Scopes, NEW syms, push_scope(s, up, syms),
               status = "running"
        PROVE  StackProper'
    <2>1. /\ color[s] = "free"
          /\ \A x \in Scopes : x # s => parent'[x] = parent[x]
          /\ Len(stack') = Len(stack) + 1
          /\ stack'[Len(stack) + 1] = s
          /\ \A i \in 1..Len(stack) : stack'[i] = stack[i]
      BY <1>1, <1>4, PushEffect
    <2>2. \A i \in 1..Len(stack) : stack[i] # s
      BY <1>1, <2>1 DEF ScopesMarked, Marked
    <2>3. s \notin {FileScope, GlobalScope}
      BY <1>1, <2>1 DEF RootScopes
    <2>4. \A i \in 1..Len(stack') : i \in 1..Len(stack) \/ i = Len(stack) + 1
      BY <1>1, <2>1 DEF TypeOK
    <2>5. QED
      BY <1>1, <2>1, <2>2, <2>3, <2>4 DEF StackProper
  <1>5. ASSUME NEW n \in 0..Len(stack), stack' = SubSeq(stack, 1, n), parent' = parent
        PROVE  StackProper'
    <2>1. Len(stack') = n /\ \A i \in 1..n : stack'[i] = stack[i] /\ i \in 1..Len(stack)
      BY <1>1, <1>5, Prefix DEF TypeOK
    <2>2. QED
      BY <1>1, <1>5, <2>1 DEF StackProper
  <1>6. CASE Control
    <2>1. status = "running"
      BY <1>6 DEF Control, enter_block, leave_block, call_function, eval_return, fall_off, Evaluating
    <2>2. /\ Len(stack) \in Nat \ {0} /\ Frame.base \in 0..(Len(stack) - 1) /\ Top \in Scopes
      BY <1>1, <2>1, FrameType
    <2>3. ASSUME NEW s \in Scopes, enter_block(s) \/ call_function(s)
          PROVE  StackProper'
      BY <1>4, <2>1, <2>2, <2>3 DEF enter_block, call_function
    <2>4. CASE leave_block
      BY <1>5, <2>2, <2>4 DEF leave_block, heap
    <2>5. ASSUME NEW v \in Values \cup {Nil}, PopFrame(v)
          PROVE  StackProper'
      BY <1>5, <2>2, <2>5 DEF PopFrame, heap
    <2>6. QED
      BY <1>1, <1>6, <2>3, <2>4, <2>5, ControlKinds
  <1>7. ASSUME Quiet \/ (\E o \in Objects : gc_mark_object(o)) \/ (\E d \in Data : alloc_value(d))
        PROVE  UNCHANGED <<parent, stack>>
    BY <1>7 DEF Quiet, gc_mark_object, alloc_value
  <1>8. CASE Next
    BY <1>2, <1>3, <1>6, <1>7, <1>8, Kinds
  <1>9. CASE UNCHANGED vars
    BY <1>2, <1>9 DEF vars
  <1>10. QED
    BY <1>8, <1>9

-----------------------------------------------------------------------------
(***************************************************************************)
(* The text of the program.                                                *)
(***************************************************************************)
Bound(f) == \E s \in {GlobalScope, FileScope}, n \in Names : symbols[s][n] = f

\* No step unbinds a function bound at top level: scope_add only adds, scope_set
\* refuses functions, and the two outer scopes are never collected.
LEMMA BoundStep ==
  ASSUME IInv, [Next]_vars, NEW f \in TopLevel
  PROVE  Bound(f)'
  <1> USE ScopeAssumption, KindAssumption, CodeAssumption
  <1>1. /\ TypeOK /\ FramesNested /\ RootScopes
        /\ color[FileScope] # "free" /\ color[GlobalScope] # "free"
    BY DEF IInv, RootScopes
  <1>2. PICK r \in {GlobalScope, FileScope}, m \in Names : symbols[r][m] = f
    BY DEF IInv, TextMarked
  <1>3. r \in Scopes /\ f \in Functions /\ f # Nil /\ color[r] # "free"
    BY <1>1
  <1>4. SUFFICES symbols'[r][m] = f
    BY <1>2 DEF Bound
  <1>5. CASE UNCHANGED symbols
    BY <1>2, <1>5
  <1>6. CASE gc_sweep
    <2>1. CASE status' = "aborted"
      BY <1>2, <1>6, <2>1 DEF gc_sweep, heap
    <2>2. CASE status' # "aborted"
      <3>1. color[r] = "black"
        BY <1>6, <2>2, SweepScopes
      <3>2. symbols' = [s \in Scopes |-> IF color[s] = "white" THEN NoSymbols ELSE symbols[s]]
        BY <1>1, <1>6, <2>2, SweepEffect
      <3>3. QED
        BY <1>2, <1>3, <3>1, <3>2
    <2>3. QED
      BY <2>1, <2>2
  <1>7. ASSUME NEW n \in Names, scope_add(n)
        PROVE  symbols'[r][m] = f
    <2>1. Top \in Scopes
      BY <1>1, <1>7, FrameType DEF scope_add, Evaluating
    <2>2. CASE symbols[Top][n] # Nil
      BY <1>2, <1>7, <2>2 DEF scope_add, ir_error, heap
    <2>3. CASE symbols[Top][n] = Nil
      <3>1. symbols' = [symbols EXCEPT ![Top][n] = reg]
        BY <1>7, <2>3 DEF scope_add
      <3>2. ~(r = Top /\ m = n)
        BY <1>2, <1>3, <2>3
      <3>3. QED
        BY <1>1, <1>2, <1>3, <2>1, <3>1, <3>2 DEF TypeOK
    <2>4. QED
      BY <2>2, <2>3
  <1>8. ASSUME NEW n \in Names, scope_set(n)
        PROVE  symbols'[r][m] = f
    <2>1. CASE ir_error
      BY <1>2, <2>1 DEF ir_error, heap
    <2>2. ASSUME NEW s \in Scopes, symbols[s][n] \notin Functions,
                 symbols' = [symbols EXCEPT ![s][n] = reg]
          PROVE  symbols'[r][m] = f
      <3>1. ~(r = s /\ m = n)
        BY <1>2, <1>3, <2>2
      <3>2. QED
        BY <1>1, <1>2, <1>3, <2>2, <3>1 DEF TypeOK
    <2>3. QED
      BY <1>8, <2>1, <2>2 DEF scope_set
  <1>9. ASSUME NEW s \in Scopes, NEW up, NEW syms, push_scope(s, up, syms)
        PROVE  symbols'[r][m] = f
    <2>1. r # s
      BY <1>3, <1>9 DEF push_scope
    <2>2. QED
      BY <1>1, <1>2, <1>3, <1>9, <2>1 DEF push_scope, TypeOK
  <1>10. CASE UNCHANGED vars
    BY <1>5, <1>10 DEF vars
  <1>11. CASE eval_stmt \/ Evaluate
    BY <1>5, <1>11 DEF eval_stmt, Evaluate, alloc_value, eval_null, eval_name, eval_field, hold,
                       use_held, ir_error, heap
  <1>12. CASE Collect
    BY <1>5, <1>6, <1>12 DEF Collect, gc_pause, gc_mark_object, heap
  <1>13. CASE Effect
    <2>1. ASSUME end_stmt \/ (\E t \in Data, k \in Fields : table_put(t, k))
          PROVE  UNCHANGED symbols
      BY <2>1 DEF end_stmt, table_put, heap
    <2>2. QED
      BY <1>5, <1>7, <1>8, <1>13, <2>1 DEF Effect
  <1>14. CASE Control
    <2>1. ASSUME NEW s \in Scopes, enter_block(s) \/ call_function(s)
          PROVE  symbols'[r][m] = f
      BY <1>9, <2>1 DEF enter_block, call_function
    <2>2. ASSUME leave_block \/ eval_return \/ fall_off
          PROVE  UNCHANGED symbols
      BY <2>2 DEF leave_block, eval_return, fall_off, PopFrame, heap
    <2>3. QED
      BY <1>5, <1>14, <2>1, <2>2 DEF Control
  <1>15. QED
    BY <1>10, <1>11, <1>12, <1>13, <1>14 DEF Next

\* When a sweep starts every code object is black: the black ones include the
\* functions bound at top level and are closed under the syntax tree.
LEMMA SweepText ==
  ASSUME IInv, gc_sweep
  PROVE  \A c \in Code : color[c] = "black"
  <1> DEFINE S == {c \in Code : color[c] = "black"}
  <1>1. \A x \in Objects : color[x] # "grey"
    BY DEF gc_sweep, Grey
  <1>2. TopLevel \subseteq S
    BY <1>1, CodeAssumption DEF IInv, TextMarked, Marked
  <1>3. \A c \in S : Children[c] \cap Code \subseteq S
    BY <1>1 DEF IInv, TextMarked, Marked
  <1>4. S = Code
    BY <1>2, <1>3, CodeAssumption
  <1>5. QED
    BY <1>4

\* Every step keeps the marking of the program text, and the text itself.
LEMMA TextStep ==
  ASSUME IInv, [Next]_vars
  PROVE  TextMarked' /\ ProgramTextSafe'
  <1> USE ScopeAssumption, KindAssumption, CodeAssumption
  <1>1. TypeOK /\ FramesNested /\ TextMarked /\ ProgramTextSafe
    BY DEF IInv
  <1>2. \A f \in TopLevel : Bound(f)'
    BY BoundStep
  <1>3. ASSUME \A c \in Code : color'[c] = color[c]
        PROVE  TextMarked' /\ ProgramTextSafe'
    BY <1>1, <1>2, <1>3 DEF TextMarked, ProgramTextSafe, Bound
  <1>4. ASSUME NEW o \in Objects, gc_mark_object(o), status' # "aborted"
        PROVE  TextMarked' /\ ProgramTextSafe'
    <2>1. \A x \in Objects :
              /\ color[x] \in Marked => color'[x] \in Marked
              /\ color'[x] = "free" <=> color[x] = "free"
              /\ color'[x] = "black" => x = o \/ color[x] = "black"
              /\ x \in Refs(o) => color'[x] \in Marked
      BY <1>1, <1>4, MarkEffect
    <2>2. ASSUME NEW c \in Code, color'[c] = "black", NEW e \in Children[c] \cap Code
          PROVE  color'[e] \in Marked
      <3>1. CASE c = o
        <4>1. e \in Refs(o)
          BY <2>2, <3>1 DEF Refs
        <4>2. QED
          BY <2>1, <4>1
      <3>2. CASE c # o
        BY <1>1, <2>1, <2>2, <3>2 DEF TextMarked
      <3>3. QED
        BY <3>1, <3>2
    <2>3. QED
      BY <1>1, <1>2, <2>1, <2>2 DEF TextMarked, ProgramTextSafe, Bound
  <1>5. ASSUME gc_sweep, status' # "aborted"
        PROVE  TextMarked' /\ ProgramTextSafe'
    <2>1. \A x \in Objects :
              /\ color'[x] # "black"
              /\ color'[x] = "free" <=> color[x] \in {"free", "white"}
              /\ x \in RootRefs => color'[x] = "grey"
      BY <1>1, <1>5, SweepEffect
    <2>2. \A c \in Code : color[c] = "black"
      BY <1>5, SweepText
    <2>3. \A f \in TopLevel : f \in RootRefs
      BY <1>1 DEF TextMarked, RootRefs
    <2>4. QED
      BY <1>2, <2>1, <2>2, <2>3 DEF TextMarked, ProgramTextSafe, Marked, Bound
  <1>6. CASE gc_sweep \/ (\E o \in Objects : gc_mark_object(o))
    <2>1. CASE status' = "aborted"
      BY <1>3, <1>6, <2>1 DEF gc_sweep, gc_mark_object, heap
    <2>2. QED
      BY <1>4, <1>5, <1>6, <2>1
  <1>7. ASSUME NEW d \in Data, alloc_value(d)
        PROVE  TextMarked' /\ ProgramTextSafe'
    BY <1>1, <1>3, <1>7 DEF alloc_value, TypeOK
  <1>8. CASE Control
    <2>1. ASSUME NEW s \in Scopes, enter_block(s) \/ call_function(s)
          PROVE  \A c \in Code : color'[c] = color[c]
      <3>1. \E up, syms : push_scope(s, up, syms)
        BY <2>1 DEF enter_block, call_function
      <3>2. color' = [color EXCEPT ![s] = "grey"]
        BY <3>1 DEF push_scope
      <3>3. QED
        BY <1>1, <3>2 DEF TypeOK
    <2>2. ASSUME leave_block \/ eval_return \/ fall_off
          PROVE  \A c \in Code : color'[c] = color[c]
      BY <2>2 DEF leave_block, eval_return, fall_off, PopFrame, heap
    <2>3. QED
      BY <1>3, <1>8, <2>1, <2>2 DEF Control
  <1>9. CASE Quiet
    BY <1>3, <1>9 DEF Quiet
  <1>10. CASE UNCHANGED vars
    BY <1>9, <1>10 DEF vars, Quiet
  <1>11. CASE Next
    BY <1>6, <1>7, <1>8, <1>9, <1>11, Kinds
  <1>12. QED
    BY <1>10, <1>11

-----------------------------------------------------------------------------
(***************************************************************************)
(* The inductive invariant, and what follows from it.                      *)
(***************************************************************************)
\* init_ir binds the functions and leaves everything grey.
LEMMA InitInvariant == Init => IInv
  <1> SUFFICES ASSUME Init PROVE IInv
    OBVIOUS
  <1> USE ScopeAssumption, KindAssumption, CodeAssumption
  <1>1. TypeOK
    BY TypeInit
  <1>2. /\ Len(stack) = 1 /\ stack[1] = MainScope
        /\ Len(frames) = 1 /\ frames[1].base = 0
    BY DEF Init
  <1>3. \A o \in Code \cup {GlobalScope, FileScope, MainScope} : color[o] = "grey"
    BY DEF Init
  <1>4. \A o \in Objects : color[o] # "black"
    BY DEF Init
  <1>5. /\ parent[MainScope] = FileScope /\ parent[FileScope] = GlobalScope
        /\ \A s \in Scopes : parent[s] \in {Nil, FileScope, GlobalScope}
    BY DEF Init
  <1>5b. parent[GlobalScope] = Nil
    BY DEF Init
  <1>6. FramesNested
    BY <1>2 DEF FramesNested, Frame, Last
  <1>7. RootScopes
    BY <1>2, <1>3, <1>5 DEF RootScopes
  <1>7a. ScopesLinked
    BY <1>2, <1>5 DEF ScopesLinked
  <1>7b. StackProper
    BY <1>2, <1>5b DEF StackProper
  <1>8. ScopesMarked
    BY <1>2, <1>3, <1>4, <1>5 DEF ScopesMarked, Marked
  <1>9. symbols[GlobalScope] = GlobalSymbols /\ symbols[FileScope] = FileSymbols
    BY DEF Init
  <1>10. TextMarked /\ ProgramTextSafe
    BY <1>3, <1>4, <1>9, BindingAssumption DEF TextMarked, ProgramTextSafe, Marked
  <1>11. QED
    BY <1>1, <1>6, <1>7, <1>7a, <1>7b, <1>8, <1>10 DEF IInv

\* Every step of the interpreter and of the collector keeps IInv.
LEMMA StepInvariant == IInv /\ [Next]_vars => IInv'
  <1> SUFFICES ASSUME IInv, [Next]_vars PROVE IInv'
    OBVIOUS
  <1>1. TypeOK /\ FramesNested
    BY DEF IInv
  <1>2. TypeOK' /\ FramesNested'
    BY <1>1, TypeStep, FramesStep
  <1>3. RootScopes' /\ ScopesMarked'
    BY <1>2, ScopesStep
  <1>4. TextMarked' /\ ProgramTextSafe'
    BY TextStep
  <1>5. ScopesLinked' /\ StackProper'
    BY LinksStep, ProperStep
  <1>6. QED
    BY <1>2, <1>3, <1>4, <1>5 DEF IInv

\* IInv holds in every reachable state, for every program, heap and Work.
THEOREM Invariant == Spec => []IInv
  BY InitInvariant, StepInvariant, PTL DEF Spec

\* The variables keep their types: in particular gc_do_greys never runs its
\* work counter below zero and pop_scope never empties a caller's scopes.
THEOREM TypeCorrect == Spec => []TypeOK
  <1>1. IInv => TypeOK
    BY DEF IInv
  <1>2. QED
    BY <1>1, Invariant, PTL

\* No scope a running statement can resolve a name through is ever collected,
\* whatever the program does between the statements.
THEOREM ScopesAreSafe == Spec => []ScopesSafe
  <1>1. IInv => ScopesSafe
    BY DEF IInv, RootScopes, ScopesMarked, ScopesSafe, Marked
  <1>2. QED
    BY <1>1, Invariant, PTL

\* A call sees its own scopes, each below the one before, then the file scope
\* and the global scope: eval_function never hangs a scope below its caller's.
THEOREM CallsAreLexical == Spec => []ScopesLinked
  <1>1. IInv => ScopesLinked
    BY DEF IInv
  <1>2. QED
    BY <1>1, Invariant, PTL

\* No part of a function body is ever collected, whatever the program does.
THEOREM ProgramTextIsSafe == Spec => []ProgramTextSafe
  <1>1. IInv => ProgramTextSafe
    BY DEF IInv
  <1>2. QED
    BY <1>1, Invariant, PTL


-----------------------------------------------------------------------------
(***************************************************************************)
(* The chain of scopes a name is looked up in.                             *)
(***************************************************************************)
\* The chain is the only function that starts at s and follows the parents.
LEMMA ChainIsUnique ==
  ASSUME NEW s, Cardinality(Scopes) \in Nat,
         NEW g, g = [k \in 0..Cardinality(Scopes) |->
                       IF k = 0 THEN s ELSE IF g[k-1] = Nil THEN Nil ELSE parent[g[k-1]]]
  PROVE  Outwards(s) = g
  <1> DEFINE N == Cardinality(Scopes)
             Chain(f) == f = [k \in 0..N |->
                                IF k = 0 THEN s ELSE IF f[k-1] = Nil THEN Nil ELSE parent[f[k-1]]]
             up == CHOOSE f : Chain(f)
  <1>1. Outwards(s) = up
    BY DEF Outwards
  <1>2. Chain(g)
    OBVIOUS
  <1>3. Chain(up)
    <2> HIDE DEF Chain
    <2>1. QED
      BY <1>2
  <1> DEFINE Same == {k \in 0..N : up[k] = g[k]}
  <1> HIDE DEF up
  <1>4. ASSUME NEW f, Chain(f)
        PROVE  /\ f = [k \in 0..N |-> f[k]] /\ f[0] = s
               /\ \A k \in 0..N-1 : f[k + 1] = IF f[k] = Nil THEN Nil ELSE parent[f[k]]
    <2>1. f = [k \in 0..N |-> f[k]] /\ f[0] = s
      BY <1>4
    <2>2. ASSUME NEW k \in 0..N-1
          PROVE  f[k + 1] = IF f[k] = Nil THEN Nil ELSE parent[f[k]]
      <3>1. k + 1 \in 0..N /\ k + 1 # 0 /\ (k + 1) - 1 = k
        OBVIOUS
      <3>2. f[k + 1] = IF f[(k + 1) - 1] = Nil THEN Nil ELSE parent[f[(k + 1) - 1]]
        BY <1>4, <3>1
      <3>3. QED
        BY <3>1, <3>2
    <2>3. QED
      BY <2>1, <2>2
  <1> HIDE DEF Chain
  <1>5. 0..N \subseteq Same
    <2>1. 0 \in Same
      BY <1>2, <1>3, <1>4
    <2>2. ASSUME NEW k \in 0..N-1, k \in Same PROVE k + 1 \in Same
      <3>1. k + 1 \in 0..N
        OBVIOUS
      <3>2. up[k] = g[k]
        BY <2>2
      <3>3. up[k + 1] = IF up[k] = Nil THEN Nil ELSE parent[up[k]]
        BY <1>3, <1>4
      <3>4. g[k + 1] = IF g[k] = Nil THEN Nil ELSE parent[g[k]]
        BY <1>2, <1>4
      <3>5. QED
        BY <3>1, <3>2, <3>3, <3>4
    <2>3. N \in Nat
      OBVIOUS
    <2> HIDE DEF N, Same
    <2>4. QED
      BY <2>1, <2>2, <2>3, BoundedInduction
  <1>6. up = g
    <2>1. up = [k \in 0..N |-> up[k]] /\ g = [k \in 0..N |-> g[k]]
      BY <1>2, <1>3, <1>4
    <2>2. \A k \in 0..N : up[k] = g[k]
      BY <1>5
    <2> HIDE DEF N
    <2>3. QED
      BY <2>1, <2>2
  <1>7. QED
    BY <1>1, <1>6

\* There are at least as many scopes as the running call can see.
LEMMA EnoughScopes ==
  ASSUME TypeOK, FramesNested, StackProper, status = "running"
  PROVE  /\ Cardinality(Scopes) \in Nat
         /\ Len(stack) - Frame.base + 2 <= Cardinality(Scopes)
  <1> USE ScopeAssumption
  <1> DEFINE n == Len(stack)
             m == Len(stack) - Frame.base
             T == 1..(m + 2)
             h == [k \in T |-> IF k <= m THEN stack[n - k + 1]
                               ELSE IF k = m + 1 THEN FileScope ELSE GlobalScope]
  <1>1. n \in Nat /\ Frame.base \in 0..(n - 1) /\ m \in 1..n
    BY FrameType
  <1>2. IsFiniteSet(Scopes)
    BY KindAssumption, FS_Subset
  <1>3. \A k \in 1..m : n - k + 1 \in 1..n
    BY <1>1
  <1>4. \A i \in 1..n : stack[i] \in Scopes
    BY DEF TypeOK
  <1>5. h \in [T -> Scopes]
    BY <1>1, <1>3, <1>4
  <1>6. ASSUME NEW k \in T, NEW l \in T, h[k] = h[l] PROVE k = l
    <2>1. CASE k <= m /\ l <= m
      <3>1. n - k + 1 \in 1..n /\ n - l + 1 \in 1..n /\ stack[n - k + 1] = stack[n - l + 1]
        BY <1>1, <1>3, <1>6, <2>1
      <3>2. n - k + 1 = n - l + 1
        BY <3>1 DEF StackProper
      <3>3. QED
        BY <1>1, <3>2
    <2>2. ASSUME NEW j \in T, j <= m PROVE h[j] \notin {FileScope, GlobalScope}
      BY <1>1, <1>3, <2>2 DEF StackProper
    <2>3. ASSUME NEW j \in T, ~(j <= m)
          PROVE  /\ h[j] \in {FileScope, GlobalScope}
                 /\ j = m + 1 <=> h[j] = FileScope
                 /\ j \in {m + 1, m + 2}
      BY <1>1, <2>3
    <2>4. QED
      BY <1>1, <1>6, <2>1, <2>2, <2>3
  <1>7. h \in Injection(T, Scopes)
    <2> HIDE DEF h, T
    <2>1. \A k, l \in T : h[k] = h[l] => k = l
      BY <1>6
    <2>2. QED
      BY <1>5, <2>1 DEF Injection, IsInjective
  <1>8. Cardinality(T) <= Cardinality(Scopes) /\ Cardinality(Scopes) \in Nat
    <2> HIDE DEF h, T
    <2>1. QED
      BY <1>2, <1>7, FS_Injection, FS_CardinalityType
  <1>9. Cardinality(T) = m + 2
    BY <1>1, FS_Interval
  <1>10. QED
    BY <1>8, <1>9

\* Outwards from the top: the scopes of the running call, the file scope, the
\* global scope, and then nothing.
LEMMA ChainIsLexical ==
  ASSUME TypeOK, FramesNested, ScopesLinked, StackProper, status = "running"
  PROVE  ChainOf(Top) = {stack[i] : i \in (Frame.base + 1)..Len(stack)} \cup {FileScope, GlobalScope}
  <1> USE ScopeAssumption, KindAssumption
  <1> DEFINE n == Len(stack)
             b == Frame.base
             m == n - b
             N == Cardinality(Scopes)
             g == [k \in 0..N |-> IF k < m THEN stack[n - k]
                                  ELSE IF k = m THEN FileScope
                                  ELSE IF k = m + 1 THEN GlobalScope ELSE Nil]
  <1>1. n \in Nat /\ b \in 0..(n - 1) /\ m \in 1..n /\ N \in Nat /\ m + 2 <= N
    BY FrameType, EnoughScopes
  <1>2. \A i \in 1..n : stack[i] \in Scopes /\ stack[i] # Nil
    BY DEF TypeOK
  <1>3. FileScope # Nil /\ GlobalScope # Nil
    OBVIOUS
  <1>4. /\ parent[FileScope] = GlobalScope /\ parent[GlobalScope] = Nil
        /\ \A i \in 1..n : parent[stack[i]] = IF CallBase(frames, i - 1) THEN FileScope ELSE stack[i - 1]
    BY DEF ScopesLinked, StackProper, CallBase
  <1>5. CallBase(frames, b)
    <2>1. Len(frames) \in 1..Len(frames) /\ frames[Len(frames)] = Frame
      BY FrameType DEF Frame, Last
    <2>2. QED
      BY <2>1 DEF CallBase
  <1>6. \A i \in (b + 1)..n : ~CallBase(frames, i)
    <2>1. \A f \in 1..Len(frames) : frames[f].base \in 0..b
      <3>1. \A f \in 1..Len(frames) : frames[f].base \in 0..(n - 1) /\ (f # Len(frames) => frames[f].base < b)
        BY BasesBelowTop
      <3>2. frames[Len(frames)].base = b
        BY DEF Frame, Last
      <3>3. QED
        BY <1>1, <3>1, <3>2
    <2>2. QED
      BY <1>1, <2>1 DEF CallBase
  <1>7. \A k \in 0..N : g[k] = IF k < m THEN stack[n - k]
                               ELSE IF k = m THEN FileScope
                               ELSE IF k = m + 1 THEN GlobalScope ELSE Nil
    OBVIOUS
  <1>7a. g = [k \in 0..N |-> g[k]]
    OBVIOUS
  <1> HIDE DEF g
  <1>8. ASSUME NEW k \in 1..N
        PROVE  g[k] = IF g[k-1] = Nil THEN Nil ELSE parent[g[k-1]]
    <2>1. k \in 0..N /\ k - 1 \in 0..N
      BY <1>1
    <2>2. CASE k <= m
      <3>1. k - 1 < m /\ n - (k - 1) \in (b + 1)..n /\ n - (k - 1) \in 1..n /\ (n - (k - 1)) - 1 = n - k
        BY <1>1, <2>2
      <3>2. g[k-1] = stack[n - (k - 1)] /\ g[k-1] # Nil
        BY <1>2, <1>7, <2>1, <3>1
      <3>3. parent[g[k-1]] = IF CallBase(frames, n - k) THEN FileScope ELSE stack[n - k]
        BY <1>4, <3>1, <3>2
      <3>4. CASE k = m
        <4>1. n - k = b /\ ~(k < m)
          BY <1>1, <3>4
        <4>2. QED
          BY <1>5, <1>7, <2>1, <3>2, <3>3, <3>4, <4>1
      <3>5. CASE k # m
        <4>1. n - k \in (b + 1)..n /\ k < m
          BY <1>1, <2>2, <3>5
        <4>2. QED
          BY <1>6, <1>7, <2>1, <3>2, <3>3, <4>1
      <3>6. QED
        BY <3>4, <3>5
    <2>3. CASE k = m + 1
      <3>1. k - 1 = m /\ ~(m < m) /\ ~(k < m) /\ k # m
        BY <1>1, <2>3
      <3>2. QED
        BY <1>3, <1>4, <1>7, <2>1, <2>3, <3>1
    <2>4. CASE k = m + 2
      <3>1. k - 1 = m + 1 /\ ~(m + 1 < m) /\ m + 1 # m /\ ~(k < m) /\ k # m /\ k # m + 1
        BY <1>1, <2>4
      <3>2. QED
        BY <1>3, <1>4, <1>7, <2>1, <3>1
    <2>5. CASE k > m + 2
      <3>1. \A j \in {k, k - 1} : ~(j < m) /\ j # m /\ j # m + 1
        BY <1>1, <2>5
      <3>2. QED
        BY <1>7, <2>1, <3>1
    <2>6. QED
      BY <1>1, <2>2, <2>3, <2>4, <2>5
  <1>9. g[0] = Top
    BY <1>1, <1>7 DEF Top, Last
  <1>10. Outwards(Top) = g
    <2>1. g = [k \in 0..N |-> IF k = 0 THEN Top ELSE IF g[k-1] = Nil THEN Nil ELSE parent[g[k-1]]]
      <3>1. \A k \in 0..N : k = 0 \/ k \in 1..N
        BY <1>1
      <3>2. \A k \in 0..N : g[k] = IF k = 0 THEN Top ELSE IF g[k-1] = Nil THEN Nil ELSE parent[g[k-1]]
        BY <1>8, <1>9, <3>1
      <3> HIDE DEF N
      <3>3. QED
        BY <1>7a, <3>2
    <2>2. QED
      BY <1>1, <2>1, ChainIsUnique
  <1>11. ASSUME NEW x
         PROVE  (\E k \in 0..N : g[k] = x /\ x # Nil)
                  <=> (\E i \in (b + 1)..n : stack[i] = x) \/ x \in {FileScope, GlobalScope}
    <2>1. ASSUME NEW k \in 0..N, g[k] = x, x # Nil
          PROVE  (\E i \in (b + 1)..n : stack[i] = x) \/ x \in {FileScope, GlobalScope}
      <3>1. CASE k < m
        <4>1. n - k \in (b + 1)..n /\ stack[n - k] = x
          BY <1>1, <1>7, <2>1, <3>1
        <4>2. QED
          BY <4>1
      <3>2. QED
        BY <1>7, <2>1, <3>1
    <2>2. ASSUME NEW i \in (b + 1)..n, stack[i] = x
          PROVE  \E k \in 0..N : g[k] = x /\ x # Nil
      <3>1. n - i \in 0..N /\ n - i < m /\ n - (n - i) = i /\ i \in 1..n
        BY <1>1
      <3>2. QED
        BY <1>2, <1>7, <2>2, <3>1
    <2>3. m \in 0..N /\ m + 1 \in 0..N /\ ~(m < m) /\ ~(m + 1 < m) /\ m + 1 # m
      BY <1>1
    <2>4. g[m] = FileScope /\ g[m + 1] = GlobalScope
      BY <1>7, <2>3
    <2>5. QED
      BY <1>3, <2>1, <2>2, <2>3, <2>4
  <1>12. QED
    BY <1>10, <1>11 DEF ChainOf

\* A name is only ever found in a scope of the running call, or in the file
\* scope or the global scope.
LEMMA HolderIsLive ==
  ASSUME TypeOK, FramesNested, ScopesLinked, StackProper, status = "running",
         NEW n \in Names, NEW s \in Holder(n)
  PROVE  s \in Live
  <1> USE KindAssumption
  <1>1. s \in ChainOf(Top)
    BY DEF Holder, ChainOf
  <1>2. Frame.base \in 0..(Len(stack) - 1) /\ Len(stack) \in Nat
    BY FrameType
  <1>3. QED
    BY <1>1, <1>2, ChainIsLexical DEF Live

\* Name lookup in a call sees the scopes of that call, then the file scope and
\* the global scope, and never a variable of a caller, at any depth of calls.
THEOREM LookupIsLexical == Spec => []LexicalScoping
  <1>1. IInv => LexicalScoping
    BY ChainIsLexical DEF IInv, LexicalScoping
  <1>2. QED
    BY <1>1, Invariant, PTL

-----------------------------------------------------------------------------
(***************************************************************************)
(* Programs that need no write barrier: what marking guards.               *)
(***************************************************************************)
\* The scopes that can be seen are closed under parents, and are not freed.
LEMMA LiveScopes ==
  ASSUME IInv, status = "running"
  PROVE  \A s \in Live : /\ s \in Scopes
                         /\ color[s] # "free"
                         /\ parent[s] # Nil => parent[s] \in Live
  <1> USE ScopeAssumption, KindAssumption
  <1>1. TypeOK /\ FramesNested /\ RootScopes /\ ScopesLinked /\ ScopesMarked /\ StackProper
    BY DEF IInv
  <1>2. \A i \in 1..Len(stack) : stack[i] \in Scopes /\ color[stack[i]] # "free"
    BY <1>1 DEF TypeOK, ScopesMarked, Marked
  <1>3. ASSUME NEW i \in 1..Len(stack)
        PROVE  parent[stack[i]] \in Live
    <2>1. parent[stack[i]] = IF CallBase(frames, i - 1) THEN FileScope ELSE stack[i - 1]
      BY <1>1 DEF ScopesLinked, CallBase
    <2>2. CASE CallBase(frames, i - 1)
      BY <2>1, <2>2 DEF Live
    <2>3. CASE ~CallBase(frames, i - 1)
      <3>1. CallBase(frames, 0)
        BY <1>1 DEF FramesNested, CallBase, TypeOK
      <3>2. i - 1 \in 1..Len(stack)
        BY <1>1, <2>3, <3>1 DEF TypeOK
      <3>3. QED
        BY <2>1, <2>3, <3>2 DEF Live
    <2>4. QED
      BY <2>2, <2>3
  <1>4. /\ parent[FileScope] \in Live /\ parent[GlobalScope] = Nil
        /\ color[FileScope] # "free" /\ color[GlobalScope] # "free"
    BY <1>1 DEF RootScopes, StackProper, Live
  <1>5. QED
    BY <1>2, <1>3, <1>4 DEF Live

\* Guarded values are objects of the heap, and there is a set they avoid.
LEMMA GuardedMeans ==
  ASSUME NEW v, Guarded(v), v \in Data, color[v] = "white",
         NEW S \in SUBSET Objects, ClosedUnderMarking(S)
  PROVE  v \in S
  BY DEF Guarded, White

\* A step that does not touch the heap guards what was guarded.
LEMMA SameHeap ==
  ASSUME UNCHANGED heap, NEW v
  PROVE  (Guarded(v) => Guarded(v)') /\ (Alive(v) => Alive(v)')
  <1>1. \A o : Refs(o)' = Refs(o)
    BY DEF heap, Refs
  <1>2. White' = White /\ Grey' = Grey
    BY DEF heap, White, Grey
  <1>3. \A S : ClosedUnderMarking(S)' <=> ClosedUnderMarking(S)
    BY <1>1, <1>2 DEF heap, ClosedUnderMarking
  <1>4. QED
    BY <1>2, <1>3 DEF Guarded, Alive, heap

\* Overwriting one reference of h guards all but the value overwritten, if that
\* one leads nowhere.
LEMMA WriteGuards ==
  ASSUME UNCHANGED color, NEW h \in Objects, NEW v,
         \A o \in Objects : o # h => Refs(o)' = Refs(o),
         Refs(h) \ {v} \subseteq Refs(h)',
         v \in Data => Refs(v) \cap Data = {},
         NEW w, Guarded(w), w # v
  PROVE  Guarded(w)'
  <1>1. White' = White /\ Grey' = Grey
    BY DEF White, Grey
  <1>2. SUFFICES ASSUME w \in White \cap Data, NEW S \in SUBSET Objects, ClosedUnderMarking(S)'
                 PROVE  w \in S
    BY <1>1 DEF Guarded
  <1> DEFINE T == IF v \in Data THEN S \cup {v} ELSE S
  <1>3. T \in SUBSET Objects /\ Grey \subseteq T
    BY <1>1, <1>2 DEF ClosedUnderMarking
  <1>4. ASSUME NEW o \in T, color[o] \in {"white", "grey"}, NEW r \in Refs(o) \cap White \cap Data
        PROVE  r \in T
    <2>1. CASE r = v
      BY <2>1
    <2>2. CASE r # v
      <3>1. ~(v \in Data /\ o = v)
        BY <1>4
      <3>2. o \in S /\ o \in Objects
        BY <3>1
      <3>3. r \in Refs(o)'
        BY <1>4, <2>2, <3>2
      <3>4. r \in S
        BY <1>1, <1>2, <1>4, <3>2, <3>3 DEF ClosedUnderMarking
      <3>5. QED
        BY <3>4
    <2>3. QED
      BY <2>1, <2>2
  <1>5. ClosedUnderMarking(T)
    <2> HIDE DEF T
    <2>1. QED
      BY <1>3, <1>4 DEF ClosedUnderMarking
  <1>6. w \in T
    <2> HIDE DEF T
    <2>1. QED
      BY <1>2, <1>3, <1>5 DEF Guarded
  <1>7. QED
    BY <1>6

\* So does taking a free address for a new, grey object.
LEMMA FreshGuards ==
  ASSUME TypeOK, NEW f \in Objects, color[f] = "free", color' = [color EXCEPT ![f] = "grey"],
         \A o \in Objects : o # f => Refs(o)' = Refs(o),
         NEW w
  PROVE  (Guarded(w) => Guarded(w)') /\ (Alive(w) => Alive(w)')
  <1>1. \A o \in Objects : color'[o] = IF o = f THEN "grey" ELSE color[o]
    BY DEF TypeOK
  <1>2. White' = White /\ Grey \subseteq Grey'
    BY <1>1 DEF White, Grey
  <1>3. ASSUME NEW S \in SUBSET Objects, ClosedUnderMarking(S)'
        PROVE  ClosedUnderMarking(S)
    <2>1. ASSUME NEW o \in S, color[o] \in {"white", "grey"}
          PROVE  Refs(o) \cap White \cap Data \subseteq S
      <3>1. o # f /\ o \in Objects
        BY <2>1
      <3>2. color'[o] = color[o] /\ Refs(o)' = Refs(o)
        BY <1>1, <3>1
      <3>3. QED
        BY <1>2, <1>3, <2>1, <3>2 DEF ClosedUnderMarking
    <2>2. Grey \subseteq S
      BY <1>2, <1>3 DEF ClosedUnderMarking
    <2>3. QED
      BY <2>1, <2>2 DEF ClosedUnderMarking
  <1>4. QED
    BY <1>1, <1>2, <1>3 DEF Guarded, Alive

\* So does marking: what it passes over is grey, and so guarded itself.
LEMMA MarkGuards ==
  ASSUME TypeOK, NEW o \in Objects, gc_mark_object(o), status' # "aborted", NEW w
  PROVE  (Guarded(w) => Guarded(w)') /\ (Alive(w) => Alive(w)')
  <1>1. \A x \in Objects :
            /\ color[x] \in Marked => color'[x] \in Marked
            /\ color'[x] = "free" <=> color[x] = "free"
            /\ x \in Refs(o) => color'[x] \in Marked
            /\ color'[x] = "grey" => color[x] = "grey" \/ (color[x] = "white" /\ x \in Refs(o))
            /\ color'[x] = "white" <=> color[x] = "white" /\ x \notin Refs(o)
    BY MarkEffect
  <1>1a. \A x \in Objects : color'[x] = "black" => x = o \/ color[x] = "black"
    BY MarkEffect
  <1>2. color[o] = "grey" /\ UNCHANGED <<parent, symbols, table>>
    BY DEF gc_mark_object
  <1>3. \A x : Refs(x)' = Refs(x)
    BY <1>2 DEF Refs
  <1>4. /\ White' \subseteq White
        /\ \A x \in White : x \in White' \/ x \in Grey'
    <2>1. color' \in [Objects -> Colors]
      BY DEF TypeOK, gc_mark_object, Shade
    <2>2. QED
      BY <1>1, <1>1a, <1>2, <2>1 DEF White, Grey, Marked
  <1>5. ASSUME NEW S \in SUBSET Objects, ClosedUnderMarking(S)'
        PROVE  ClosedUnderMarking(S \cup {o})
    <2>1. Grey \subseteq S \cup {o}
      <3>1. ASSUME NEW x \in Objects, color[x] = "grey", x # o
            PROVE  color'[x] = "grey"
        BY <1>1, <1>1a, <3>1 DEF Marked
      <3>2. QED
        BY <1>5, <3>1 DEF Grey, ClosedUnderMarking
    <2>2. ASSUME NEW x \in S \cup {o}, color[x] \in {"white", "grey"},
                 NEW r \in Refs(x) \cap White \cap Data
          PROVE  r \in S
      <3>1. CASE r \in Grey'
        BY <1>5, <3>1 DEF ClosedUnderMarking
      <3>2. CASE r \notin Grey'
        <4>1. r \in White'
          BY <1>4, <2>2, <3>2
        <4>2. x # o /\ x \in S /\ x \in Objects
          BY <1>1, <2>2, <4>1 DEF White, Marked
        <4>3. color'[x] \in {"white", "grey"}
          <5>1. color' \in [Objects -> Colors]
            BY DEF TypeOK, gc_mark_object, Shade
          <5>2. QED
            BY <1>1, <1>1a, <2>2, <4>2, <5>1
        <4>4. QED
          BY <1>3, <1>5, <2>2, <4>1, <4>2, <4>3 DEF ClosedUnderMarking
      <3>3. QED
        BY <3>1, <3>2
    <2>3. QED
      BY <2>1, <2>2 DEF ClosedUnderMarking
  <1>6. ASSUME Guarded(w), w \in White' \cap Data, NEW S \in SUBSET Objects, ClosedUnderMarking(S)'
        PROVE  w \in S
    <2>1. w \in S \cup {o}
      <3>1. S \cup {o} \in SUBSET Objects
        OBVIOUS
      <3>2. QED
        BY <1>4, <1>5, <1>6, <3>1 DEF Guarded
    <2>2. w # o
      BY <1>2, <1>4, <1>6 DEF White
    <2>3. QED
      BY <2>1, <2>2
  <1>7. Guarded(w) => Guarded(w)'
    BY <1>6 DEF Guarded
  <1>8. Alive(w) => Alive(w)'
    BY <1>1 DEF Alive
  <1>9. QED
    BY <1>7, <1>8

-----------------------------------------------------------------------------
(***************************************************************************)
(* Programs that need no write barrier: the steps.                         *)
(***************************************************************************)
\* KeptInv without IInv, which every program keeps.
Kept ==
    ValuesGuarded /\ ValuesAlive /\ NothingHeld /\ LeftScopesMarked /\ status \in {"running", "exited"}

\* The null pointer and the objects that are not white are guarded, and the null
\* pointer stands for no freed object.
LEMMA NilIsKept == Guarded(Nil) /\ Alive(Nil)
  BY KindAssumption DEF Guarded, Alive

\* Ending the program keeps everything.
LEMMA KeptExit ==
  ASSUME status' = "exited"
  PROVE  Kept'
  BY DEF Kept, ValuesGuarded, ValuesAlive, NothingHeld, LeftScopesMarked

\* Steps that leave the heap as it is: evaluation, the ends of statements,
\* leaving blocks and calls.
LEMMA KeptStill ==
  ASSUME KeptInv, UNCHANGED heap, status = "running", status' = "running",
         Live' \subseteq Live,
         NEW L, {reg'} \cup held' \subseteq L, \A u \in L : Guarded(u) /\ Alive(u),
         \A i \in 1..Len(frames') : frames'[i].held = {},
         pc' = "mark" => reg' = Nil /\ held' = {}
  PROVE  Kept'
  <1>1. /\ \A s \in Live, n \in Names : Guarded(symbols[s][n]) /\ Alive(symbols[s][n])
        /\ \A s \in Scopes, n \in Names : color[s] = "grey" => Alive(symbols[s][n])
        /\ \A d \in Data, k \in Fields :
              /\ color[d] = "black" => Guarded(table[d][k])
              /\ color[d] # "free" => Alive(table[d][k])
    <2>1. \A s \in Live : s \in Scopes
      BY LiveScopes DEF KeptInv
    <2>2. QED
      BY <2>1 DEF KeptInv, ValuesGuarded, ValuesAlive
  <1>2. \A u : (Guarded(u) => Guarded(u)') /\ (Alive(u) => Alive(u)')
    BY SameHeap
  <1>3. color' = color /\ parent' = parent /\ symbols' = symbols /\ table' = table
    BY DEF heap
  <1>4. ValuesGuarded'
    <2>1. \A s \in Live', n \in Names : Guarded(symbols[s][n])'
      BY <1>1, <1>2, <1>3
    <2>2. \A d \in Data, k \in Fields : color'[d] = "black" => Guarded(table[d][k])'
      BY <1>1, <1>2, <1>3
    <2>3. \A u \in {reg'} \cup held' : Guarded(u)'
      BY <1>2
    <2>4. QED
      BY <1>3, <2>1, <2>2, <2>3 DEF ValuesGuarded
  <1>5. ValuesAlive'
    <2>1. \A s \in Scopes, n \in Names : s \in Live' \/ color'[s] = "grey" => Alive(symbols[s][n])'
      BY <1>1, <1>2, <1>3
    <2>2. \A d \in Data, k \in Fields : color'[d] # "free" => Alive(table[d][k])'
      BY <1>1, <1>2, <1>3
    <2>3. \A u \in {reg'} \cup held' : Alive(u)'
      BY <1>2
    <2>4. QED
      BY <1>3, <2>1, <2>2, <2>3 DEF ValuesAlive
  <1>6. LeftScopesMarked'
    BY <1>3 DEF KeptInv, LeftScopesMarked
  <1>7. QED
    BY <1>4, <1>5, <1>6 DEF Kept, NothingHeld

\* Values that are no objects of the heap are guarded in every state.
LEMMA NoDataIsGuarded ==
  ASSUME NEW v, v \notin Data
  PROVE  Guarded(v) /\ Guarded(v)'
  BY DEF Guarded

\* After a store in place of v the statement is over, or it goes on without v.
LEMMA KeptStore ==
  ASSUME Disciplined, KeptInv, status = "running", pc = "eval", UNCHANGED frames,
         NEW v, Done \/ GoesOn(v),
         NEW skip, skip \in Data => skip = v /\ skip # reg,
         \A w : Guarded(w) /\ (skip \in Data => w # skip) => Guarded(w)',
         \A w : Alive(w) => Alive(w)'
  PROVE  NothingHeld' /\ \A u \in {reg'} \cup held' : Guarded(u)' /\ Alive(u)'
  <1>1. CASE Done
    <2>1. reg' = Nil /\ held' = {} /\ pc' = "next"
      BY <1>1 DEF Done
    <2>2. Guarded(Nil)' /\ Alive(Nil)'
      BY NoDataIsGuarded, KindAssumption DEF Alive
    <2>3. QED
      BY <2>1, <2>2 DEF KeptInv, NothingHeld
  <1>2. CASE GoesOn(v)
    <2>1. v \notin held /\ reg' = reg /\ held' = held /\ pc' = "eval"
      BY <1>2 DEF GoesOn, Disciplined
    <2>2. \A u \in {reg} \cup held : Guarded(u) /\ Alive(u)
      BY DEF KeptInv, ValuesGuarded, ValuesAlive
    <2>3. \A u \in {reg} \cup held : skip \in Data => u # skip
      BY <2>1
    <2>4. \A u \in {reg} \cup held : Guarded(u)' /\ Alive(u)'
      BY <2>2, <2>3
    <2>5. QED
      BY <2>1, <2>4 DEF KeptInv, NothingHeld
  <1>3. QED
    BY <1>1, <1>2

\* Binding a name, or assigning to one: the value it had was held nowhere else.
LEMMA KeptSymbol ==
  ASSUME Disciplined, KeptInv, status = "running", pc = "eval",
         NEW s \in Live, NEW n \in Names, reg # Nil, MayOverwrite(symbols[s][n]),
         symbols' = [symbols EXCEPT ![s][n] = reg], Done \/ GoesOn(symbols[s][n]),
         UNCHANGED <<color, parent, table, stack, frames, status>>
  PROVE  Kept'
  <1> USE KindAssumption
  <1> DEFINE v == symbols[s][n]
             skip == IF v \in {Nil, reg} THEN Nil ELSE v
  <1>1. TypeOK /\ s \in Scopes /\ Live \subseteq Scopes
    BY LiveScopes DEF KeptInv, IInv
  <1>2. \A t \in Scopes, m \in Names :
            symbols'[t][m] = IF t = s /\ m = n THEN reg ELSE symbols[t][m]
    BY <1>1 DEF TypeOK
  <1>3. \A o \in Objects : o # s => Refs(o)' = Refs(o)
    BY <1>2 DEF Refs
  <1>4. Refs(s) \ {skip} \subseteq Refs(s)'
    <2>1. ASSUME NEW r \in Refs(s), r # skip
          PROVE  r \in Refs(s)'
      <3>1. CASE r = parent[s]
        BY <1>1, <2>1, <3>1 DEF Refs
      <3>2. ASSUME NEW m \in Names, r = symbols[s][m]
            PROVE  r \in Refs(s)'
        <4>1. CASE m = n
          <5>1. r = reg /\ symbols'[s][n] = reg
            BY <1>1, <1>2, <2>1, <3>2, <4>1
          <5>2. QED
            BY <1>1, <5>1 DEF Refs
        <4>2. CASE m # n
          <5>1. symbols'[s][m] = r
            BY <1>1, <1>2, <3>2, <4>2
          <5>2. r # Nil
            BY <2>1 DEF Refs
          <5>3. QED
            BY <1>1, <5>1, <5>2 DEF Refs
        <4>3. QED
          BY <4>1, <4>2
      <3>3. QED
        BY <1>1, <2>1, <3>1, <3>2 DEF Refs
    <2>2. QED
      BY <2>1
  <1>5. skip # Nil => Unshared(skip) /\ skip = v /\ skip # reg
    BY DEF Disciplined, MayOverwrite
  <1>6. skip \in Data => Refs(skip) \cap Data = {}
    BY <1>5 DEF Unshared, Refs
  <1>7. \A w : Guarded(w) /\ w # skip => Guarded(w)'
    <2> HIDE DEF skip
    <2>1. QED
      BY <1>1, <1>3, <1>4, <1>6, WriteGuards
  <1>8. ASSUME NEW w, Guarded(w), skip \in Data => w # skip
        PROVE  Guarded(w)'
    <2> HIDE DEF skip
    <2>1. CASE w # skip
      BY <1>7, <1>8, <2>1
    <2>2. CASE w = skip
      BY <1>8, <2>2, NoDataIsGuarded
    <2>3. QED
      BY <2>1, <2>2
  <1>9. ASSUME NEW t \in Live, NEW m \in Names
        PROVE  Guarded(symbols[t][m])'
    <2>1. CASE t = s /\ m = n
      <3>1. Guarded(reg) /\ reg # skip
        BY <1>5 DEF KeptInv, ValuesGuarded
      <3>2. symbols'[t][m] = reg
        BY <1>1, <1>2, <2>1
      <3>3. \A w : w = reg => Guarded(w)'
        BY <1>8, <3>1
      <3>4. QED
        BY <3>2, <3>3
    <2>2. CASE ~(t = s /\ m = n)
      <3>1. symbols'[t][m] = symbols[t][m]
        BY <1>1, <1>2, <2>2
      <3>2. Guarded(symbols[t][m])
        BY DEF KeptInv, ValuesGuarded
      <3>3. skip \in Data => symbols[t][m] # skip
        <4>1. SUFFICES ASSUME skip \in Data, symbols[t][m] = skip PROVE FALSE
          OBVIOUS
        <4>2. <<t, m>> \in SymbolsHolding(skip) /\ <<s, n>> \in SymbolsHolding(skip)
          BY <1>5, <4>1 DEF SymbolsHolding
        <4>3. <<t, m>> = <<s, n>>
          BY <1>5, <4>1, <4>2 DEF Unshared
        <4>4. QED
          BY <2>2, <4>3
      <3>4. \A w : w = symbols[t][m] => Guarded(w)'
        BY <1>8, <3>2, <3>3
      <3>5. QED
        BY <3>1, <3>4
    <2>3. QED
      BY <2>1, <2>2
  <1>10. ASSUME NEW d \in Data, NEW k \in Fields, color[d] = "black"
         PROVE  Guarded(table[d][k])'
    <2>1. Guarded(table[d][k])
      BY <1>10 DEF KeptInv, ValuesGuarded
    <2>2. skip \in Data => table[d][k] # skip
      <3>1. SUFFICES ASSUME skip \in Data, table[d][k] = skip PROVE FALSE
        OBVIOUS
      <3>2. <<d, k>> \in EntriesHolding(skip) /\ <<s, n>> \in SymbolsHolding(skip)
        BY <1>5, <3>1 DEF SymbolsHolding, EntriesHolding
      <3>3. <<d, k>> = <<s, n>>
        BY <1>5, <3>1, <3>2 DEF Unshared
      <3>4. d = s
        BY <3>3
      <3>5. QED
        BY <1>1, <3>4
    <2>3. \A w : w = table[d][k] => Guarded(w)'
      BY <1>8, <2>1, <2>2
    <2>4. QED
      BY <2>3
  <1>11. \A w : Alive(w) => Alive(w)'
    BY DEF Alive
  <1>12. NothingHeld' /\ \A u \in {reg'} \cup held' : Guarded(u)' /\ Alive(u)'
    <2>1. Done \/ GoesOn(v)
      OBVIOUS
    <2>2. skip \in Data => skip = v /\ skip # reg
      BY <1>5
    <2> HIDE DEF skip, v
    <2>3. QED
      BY <1>8, <1>11, <2>1, <2>2, KeptStore
  <1>13. Live' = Live
    BY DEF Live
  <1>14. ValuesGuarded'
    BY <1>9, <1>10, <1>12, <1>13 DEF ValuesGuarded
  <1>15. ValuesAlive'
    <2>1. ASSUME NEW t \in Scopes, NEW m \in Names, t \in Live \/ color[t] = "grey"
          PROVE  Alive(symbols[t][m])'
      <3>1. Alive(reg) /\ Alive(symbols[t][m])
        BY <2>1 DEF KeptInv, ValuesAlive
      <3>2. symbols'[t][m] \in {reg, symbols[t][m]}
        BY <1>2
      <3>3. \A w : w \in {reg, symbols[t][m]} => Alive(w)'
        BY <1>11, <3>1
      <3>4. QED
        BY <3>2, <3>3
    <2>2. ASSUME NEW d \in Data, NEW k \in Fields, color[d] # "free"
          PROVE  Alive(table[d][k])'
      BY <2>2, <1>11 DEF KeptInv, ValuesAlive, Alive
    <2>3. QED
      BY <1>12, <1>13, <2>1, <2>2 DEF ValuesAlive
  <1>16. LeftScopesMarked'
    BY DEF KeptInv, LeftScopesMarked
  <1>17. QED
    BY <1>12, <1>14, <1>15, <1>16 DEF Kept, KeptInv

\* Storing in a table: the entry it had was held nowhere else.
LEMMA KeptEntry ==
  ASSUME Disciplined, KeptInv, status = "running", pc = "eval",
         NEW h \in Data, color[h] # "free",
         NEW k \in Fields, reg # Nil, MayOverwrite(table[h][k]),
         table' = [table EXCEPT ![h][k] = reg], Done \/ GoesOn(table[h][k]),
         UNCHANGED <<color, parent, symbols, stack, frames, status>>
  PROVE  Kept'
  <1> USE KindAssumption
  <1> DEFINE v == table[h][k]
             skip == IF v \in {Nil, reg} THEN Nil ELSE v
  <1>1. TypeOK /\ Live \subseteq Scopes
    BY LiveScopes DEF KeptInv, IInv
  <1>2. \A d \in Data, j \in Fields :
            table'[d][j] = IF d = h /\ j = k THEN reg ELSE table[d][j]
    BY <1>1 DEF TypeOK
  <1>3. \A o \in Objects : o # h => Refs(o)' = Refs(o)
    <2>1. ASSUME NEW o \in Objects, o # h, o \in Data
          PROVE  {table'[o][j] : j \in Fields} = {table[o][j] : j \in Fields}
      BY <1>2, <2>1
    <2>2. QED
      BY <2>1 DEF Refs
  <1>4. Refs(h) \ {skip} \subseteq Refs(h)'
    <2>1. ASSUME NEW r \in Refs(h), r # skip
          PROVE  r \in Refs(h)'
      <3>0. Refs(h) = {table[h][j] : j \in Fields} \ {Nil}
        BY DEF Refs
      <3>1. PICK j \in Fields : r = table[h][j] /\ r # Nil
        BY <2>1, <3>0
      <3>2. r = table'[h][j]
        <4>1. CASE j = k
          BY <1>2, <2>1, <3>1, <4>1
        <4>2. CASE j # k
          BY <1>2, <3>1, <4>2
        <4>3. QED
          BY <4>1, <4>2
      <3>3. QED
        BY <3>1, <3>2 DEF Refs
    <2>2. QED
      BY <2>1
  <1>5. skip # Nil => Unshared(skip) /\ skip = v /\ skip # reg
    BY DEF Disciplined, MayOverwrite
  <1>6. skip \in Data => Refs(skip) \cap Data = {}
    BY <1>5 DEF Unshared, Refs
  <1>7. \A w : Guarded(w) /\ w # skip => Guarded(w)'
    <2> HIDE DEF skip
    <2>1. QED
      BY <1>1, <1>3, <1>4, <1>6, WriteGuards
  <1>8. ASSUME NEW w, Guarded(w), skip \in Data => w # skip
        PROVE  Guarded(w)'
    <2> HIDE DEF skip
    <2>1. CASE w # skip
      BY <1>7, <1>8, <2>1
    <2>2. CASE w = skip
      BY <1>8, <2>2, NoDataIsGuarded
    <2>3. QED
      BY <2>1, <2>2
  <1>9. ASSUME NEW t \in Live, NEW m \in Names
        PROVE  Guarded(symbols[t][m])'
    <2>1. Guarded(symbols[t][m])
      BY DEF KeptInv, ValuesGuarded
    <2>2. skip \in Data => symbols[t][m] # skip
      <3>1. SUFFICES ASSUME skip \in Data, symbols[t][m] = skip PROVE FALSE
        OBVIOUS
      <3>2. <<t, m>> \in SymbolsHolding(skip) /\ <<h, k>> \in EntriesHolding(skip)
        BY <1>5, <3>1 DEF SymbolsHolding, EntriesHolding
      <3>3. <<t, m>> = <<h, k>>
        BY <1>5, <3>1, <3>2 DEF Unshared
      <3>4. t = h
        BY <3>3
      <3>5. QED
        BY <1>1, <3>4
    <2>3. \A w : w = symbols[t][m] => Guarded(w)'
      BY <1>8, <2>1, <2>2
    <2>4. QED
      BY <2>3
  <1>10. ASSUME NEW d \in Data, NEW j \in Fields, color[d] = "black"
         PROVE  Guarded(table[d][j])'
    <2>1. CASE d = h /\ j = k
      <3>1. Guarded(reg) /\ reg # skip
        BY <1>5 DEF KeptInv, ValuesGuarded
      <3>2. table'[d][j] = reg
        BY <1>2, <2>1
      <3>3. \A w : w = reg => Guarded(w)'
        BY <1>8, <3>1
      <3>4. QED
        BY <3>2, <3>3
    <2>2. CASE ~(d = h /\ j = k)
      <3>1. table'[d][j] = table[d][j]
        BY <1>2, <2>2
      <3>2. Guarded(table[d][j])
        BY <1>10 DEF KeptInv, ValuesGuarded
      <3>3. skip \in Data => table[d][j] # skip
        <4>1. SUFFICES ASSUME skip \in Data, table[d][j] = skip PROVE FALSE
          OBVIOUS
        <4>2. <<d, j>> \in EntriesHolding(skip) /\ <<h, k>> \in EntriesHolding(skip)
          BY <1>5, <4>1 DEF EntriesHolding
        <4>3. <<d, j>> = <<h, k>>
          BY <1>5, <4>1, <4>2 DEF Unshared
        <4>4. QED
          BY <2>2, <4>3
      <3>4. \A w : w = table[d][j] => Guarded(w)'
        BY <1>8, <3>2, <3>3
      <3>5. QED
        BY <3>1, <3>4
    <2>3. QED
      BY <2>1, <2>2
  <1>11. \A w : Alive(w) => Alive(w)'
    BY DEF Alive
  <1>12. NothingHeld' /\ \A u \in {reg'} \cup held' : Guarded(u)' /\ Alive(u)'
    <2>1. Done \/ GoesOn(v)
      OBVIOUS
    <2>2. skip \in Data => skip = v /\ skip # reg
      BY <1>5
    <2> HIDE DEF skip, v
    <2>3. QED
      BY <1>8, <1>11, <2>1, <2>2, KeptStore
  <1>13. Live' = Live
    BY DEF Live
  <1>14. ValuesGuarded'
    BY <1>9, <1>10, <1>12, <1>13 DEF ValuesGuarded
  <1>15. ValuesAlive'
    <2>1. ASSUME NEW d \in Data, NEW j \in Fields, color[d] # "free"
          PROVE  Alive(table[d][j])'
      <3>1. Alive(reg) /\ Alive(table[d][j])
        BY <2>1 DEF KeptInv, ValuesAlive
      <3>2. table'[d][j] \in {reg, table[d][j]}
        BY <1>2
      <3>3. \A w : w \in {reg, table[d][j]} => Alive(w)'
        BY <1>11, <3>1
      <3>4. QED
        BY <3>2, <3>3
    <2>2. ASSUME NEW t \in Scopes, NEW m \in Names, t \in Live \/ color[t] = "grey"
          PROVE  Alive(symbols[t][m])'
      BY <2>2, <1>11 DEF KeptInv, ValuesAlive, Alive
    <2>3. QED
      BY <1>12, <1>13, <2>1, <2>2 DEF ValuesAlive
  <1>16. LeftScopesMarked'
    BY DEF KeptInv, LeftScopesMarked
  <1>17. QED
    BY <1>12, <1>14, <1>15, <1>16 DEF Kept, KeptInv

\* A new value holds nothing.
LEMMA KeptAlloc ==
  ASSUME KeptInv, NEW d \in Data, alloc_value(d)
  PROVE  Kept'
  <1> USE KindAssumption
  <1>1. TypeOK /\ Live \subseteq Scopes /\ status = "running"
    BY LiveScopes DEF KeptInv, IInv, alloc_value, Evaluating
  <1>2. /\ color[d] = "free" /\ color' = [color EXCEPT ![d] = "grey"]
        /\ table' = [table EXCEPT ![d] = NoEntries] /\ reg' = d
        /\ UNCHANGED <<parent, symbols, stack, frames, held, pc, status>>
        /\ pc = "eval"
    BY DEF alloc_value, Evaluating
  <1>3. /\ \A o \in Objects : color'[o] = IF o = d THEN "grey" ELSE color[o]
        /\ \A e \in Data : table'[e] = IF e = d THEN NoEntries ELSE table[e]
    BY <1>1, <1>2 DEF TypeOK
  <1>4. \A o \in Objects : o # d => Refs(o)' = Refs(o)
    BY <1>2, <1>3 DEF Refs
  <1>5. \A w : (Guarded(w) => Guarded(w)') /\ (Alive(w) => Alive(w)')
    BY <1>1, <1>2, <1>4, FreshGuards
  <1>6. Guarded(d)' /\ Alive(d)'
    BY <1>3 DEF Guarded, Alive, White
  <1>7. Guarded(Nil)' /\ Alive(Nil)'
    BY NoDataIsGuarded DEF Alive
  <1>8. Live' = Live
    BY <1>2 DEF Live
  <1>9. ASSUME NEW e \in Data, NEW k \in Fields
        PROVE  /\ color'[e] = "black" => Guarded(table[e][k])'
               /\ color'[e] # "free" => Alive(table[e][k])'
    <2>1. CASE e = d
      <3>1. table'[e][k] = Nil
        BY <1>3, <2>1 DEF NoEntries
      <3>2. QED
        BY <1>7, <3>1
    <2>2. CASE e # d
      <3>1. color'[e] = color[e] /\ table'[e][k] = table[e][k]
        BY <1>3, <2>2
      <3>2. /\ color[e] = "black" => Guarded(table[e][k])
            /\ color[e] # "free" => Alive(table[e][k])
        BY <1>1 DEF KeptInv, ValuesGuarded, ValuesAlive
      <3>3. \A w : w = table[e][k] => /\ color[e] = "black" => Guarded(w)'
                                      /\ color[e] # "free" => Alive(w)'
        BY <1>5, <3>2
      <3>4. QED
        BY <3>1, <3>3
    <2>3. QED
      BY <2>1, <2>2
  <1>10. ASSUME NEW s \in Scopes, NEW n \in Names
         PROVE  /\ s \in Live => Guarded(symbols[s][n])'
                /\ s \in Live \/ color'[s] = "grey" => Alive(symbols[s][n])'
    <2>1. color'[s] = color[s] /\ symbols' = symbols
      BY <1>2, <1>3
    <2>2. /\ s \in Live => Guarded(symbols[s][n])
          /\ s \in Live \/ color[s] = "grey" => Alive(symbols[s][n])
      BY <1>1 DEF KeptInv, ValuesGuarded, ValuesAlive
    <2>3. QED
      BY <1>5, <2>1, <2>2
  <1>11. \A u \in held' : Guarded(u)' /\ Alive(u)'
    <2>1. \A u \in held : Guarded(u) /\ Alive(u)
      BY <1>1 DEF KeptInv, ValuesGuarded, ValuesAlive
    <2>2. QED
      BY <1>2, <1>5, <2>1
  <1>12. \A u \in {reg'} \cup held' : Guarded(u)' /\ Alive(u)'
    BY <1>2, <1>6, <1>11
  <1>13. ValuesGuarded'
    BY <1>1, <1>8, <1>9, <1>10, <1>12 DEF ValuesGuarded
  <1>14. ValuesAlive'
    BY <1>1, <1>8, <1>9, <1>10, <1>12 DEF ValuesAlive
  <1>15. LeftScopesMarked'
    <2>1. \A s \in Scopes : color'[s] = color[s]
      BY <1>3
    <2>2. \A s \in Scopes : parent[s] # Nil => parent[s] \in Scopes
      BY <1>1 DEF TypeOK
    <2>3. QED
      BY <1>1, <1>2, <2>1, <2>2 DEF KeptInv, LeftScopesMarked
  <1>16. NothingHeld'
    BY <1>1, <1>2 DEF KeptInv, NothingHeld
  <1>17. QED
    BY <1>1, <1>2, <1>13, <1>14, <1>15, <1>16 DEF Kept

\* A new scope holds the arguments of its call, which the evaluation guards.
LEMMA KeptPush ==
  ASSUME KeptInv, status = "running",
         NEW s \in Scopes, NEW up \in {Top, FileScope}, NEW syms, push_scope(s, up, syms),
         NEW L, \A n \in Names : syms[n] \in L, \A u \in L : Guarded(u) /\ Alive(u),
         Done, UNCHANGED <<table, status>>,
         \A i \in 1..Len(frames') : frames'[i].held = {}
  PROVE  Kept'
  <1> USE ScopeAssumption, KindAssumption
  <1>1. TypeOK /\ FramesNested /\ ScopesMarked /\ Live \subseteq Scopes
    BY LiveScopes DEF KeptInv, IInv
  <1>2. up \in Scopes
    BY <1>1, FrameType
  <1>3. /\ color[s] = "free" /\ color'[s] = "grey"
        /\ parent'[s] = up /\ symbols'[s] = syms
        /\ \A x \in Objects : x # s => color'[x] = color[x]
        /\ \A x \in Scopes : x # s => parent'[x] = parent[x] /\ symbols'[x] = symbols[x]
        /\ Len(stack') = Len(stack) + 1
        /\ stack'[Len(stack) + 1] = s
        /\ \A i \in 1..Len(stack) : stack'[i] = stack[i]
    BY <1>1, <1>2, PushEffect
  <1>4. Live' \subseteq Live \cup {s} /\ Live' \subseteq Scopes
    <2>1. Len(stack) \in Nat
      BY <1>1 DEF TypeOK
    <2>2. ASSUME NEW i \in 1..Len(stack')
          PROVE  stack'[i] \in Live \cup {s}
      <3>1. CASE i = Len(stack) + 1
        BY <1>3, <3>1
      <3>2. CASE i # Len(stack) + 1
        <4>1. i \in 1..Len(stack)
          BY <1>3, <2>1, <3>2
        <4>2. QED
          BY <1>3, <4>1 DEF Live
      <3>3. QED
        BY <3>1, <3>2
    <2>3. QED
      BY <1>1, <2>2 DEF Live
  <1>5. \A o \in Objects : o # s => Refs(o)' = Refs(o)
    BY <1>3 DEF Refs
  <1>6. color' = [color EXCEPT ![s] = "grey"]
    BY DEF push_scope
  <1>7. \A w : (Guarded(w) => Guarded(w)') /\ (Alive(w) => Alive(w)')
    BY <1>1, <1>3, <1>5, <1>6, FreshGuards
  <1>8. Guarded(Nil)' /\ Alive(Nil)'
    BY NoDataIsGuarded DEF Alive
  <1>9. ASSUME NEW t \in Scopes, NEW n \in Names
        PROVE  /\ t \in Live' => Guarded(symbols[t][n])'
               /\ t \in Live' \/ color'[t] = "grey" => Alive(symbols[t][n])'
    <2>1. CASE t = s
      <3>1. symbols'[t][n] \in L
        BY <1>3, <2>1
      <3>2. \A w \in L : Guarded(w)' /\ Alive(w)'
        BY <1>7
      <3>3. QED
        BY <3>1, <3>2
    <2>2. CASE t # s
      <3>1. color'[t] = color[t] /\ symbols'[t] = symbols[t] /\ (t \in Live' => t \in Live)
        BY <1>3, <1>4, <2>2
      <3>2. /\ t \in Live => Guarded(symbols[t][n])
            /\ t \in Live \/ color[t] = "grey" => Alive(symbols[t][n])
        BY DEF KeptInv, ValuesGuarded, ValuesAlive
      <3>3. \A w : w = symbols[t][n] => /\ t \in Live => Guarded(w)'
                                        /\ t \in Live \/ color[t] = "grey" => Alive(w)'
        BY <1>7, <3>2
      <3>4. QED
        BY <3>1, <3>3
    <2>3. QED
      BY <2>1, <2>2
  <1>10. ASSUME NEW d \in Data, NEW k \in Fields
         PROVE  /\ color'[d] = "black" => Guarded(table[d][k])'
                /\ color'[d] # "free" => Alive(table[d][k])'
    <2>1. color'[d] = color[d] /\ table'[d][k] = table[d][k]
      BY <1>3
    <2>2. /\ color[d] = "black" => Guarded(table[d][k])
          /\ color[d] # "free" => Alive(table[d][k])
      BY DEF KeptInv, ValuesGuarded, ValuesAlive
    <2>3. \A w : w = table[d][k] => /\ color[d] = "black" => Guarded(w)'
                                    /\ color[d] # "free" => Alive(w)'
      BY <1>7, <2>2
    <2>4. QED
      BY <2>1, <2>3
  <1>11. reg' = Nil /\ held' = {} /\ pc' = "next"
    BY DEF Done
  <1>12. ValuesGuarded'
    BY <1>4, <1>8, <1>9, <1>10, <1>11 DEF ValuesGuarded
  <1>13. ValuesAlive'
    BY <1>8, <1>9, <1>10, <1>11 DEF ValuesAlive
  <1>14. ASSUME NEW t \in Scopes, color'[t] = "grey", parent'[t] # Nil
         PROVE  parent'[t] \in {FileScope, GlobalScope} \/ color'[parent'[t]] \in Marked
    <2>1. CASE t = s
      <3>1. CASE up = Top
        <4>1. color[Top] \in Marked
          BY <1>1, FrameType DEF ScopesMarked, Top, Last
        <4>2. Top # s
          BY <1>3, <4>1 DEF Marked
        <4>3. QED
          BY <1>2, <1>3, <2>1, <3>1, <4>1, <4>2
      <3>2. CASE up = FileScope
        BY <1>3, <2>1, <3>2
      <3>3. QED
        BY <3>1, <3>2
    <2>2. CASE t # s
      <3>1. color[t] = "grey" /\ parent'[t] = parent[t] /\ parent[t] \in Scopes
        BY <1>1, <1>3, <1>14, <2>2 DEF TypeOK
      <3>2. parent[t] \in {FileScope, GlobalScope} \/ color[parent[t]] \in Marked
        BY <1>14, <3>1 DEF KeptInv, LeftScopesMarked
      <3>3. color[parent[t]] \in Marked => parent[t] # s
        BY <1>3 DEF Marked
      <3>4. QED
        BY <1>3, <3>1, <3>2, <3>3
    <2>3. QED
      BY <2>1, <2>2
  <1>15. QED
    BY <1>11, <1>12, <1>13, <1>14 DEF Kept, KeptInv, NothingHeld, LeftScopesMarked

\* Nothing that marking is handed has been freed, and none of it is null.
LEMMA MarkIsSafe ==
  ASSUME Disciplined, KeptInv, NEW o \in Objects, gc_mark_object(o)
  PROVE  status' = "running"
  <1> USE KindAssumption, CodeAssumption
  <1>1. status = "running" /\ color[o] = "grey" /\ TypeOK /\ ScopesMarked /\ ProgramTextSafe
    BY DEF gc_mark_object, KeptInv, IInv
  <1>2. ASSUME NEW r \in Refs(o)
        PROVE  Alive(r)
    <2>1. CASE o \in Scopes
      <3>1. CASE r = parent[o]
        <4>1. r \in Scopes /\ color[r] # "free"
          BY <1>1, <1>2, <2>1, <3>1 DEF Refs, TypeOK, ScopesMarked
        <4>2. QED
          BY <4>1 DEF Alive
      <3>2. CASE r # parent[o]
        <4>1. PICK n \in Names : r = symbols[o][n]
          BY <1>2, <2>1, <3>2 DEF Refs
        <4>2. QED
          BY <1>1, <2>1, <4>1 DEF KeptInv, ValuesAlive
      <3>3. QED
        BY <3>1, <3>2
    <2>2. CASE o \in Data
      <3>1. PICK k \in Fields : r = table[o][k]
        BY <1>2, <2>2 DEF Refs
      <3>2. QED
        BY <1>1, <2>2, <3>1 DEF KeptInv, ValuesAlive
    <2>3. CASE o \in Code
      <3>1. r \in Children[o] /\ Children[o] \subseteq Code \cup {NullValue}
        BY <1>2, <2>3 DEF Refs
      <3>2. r \in Code
        BY <2>3, <3>1 DEF Disciplined
      <3>3. QED
        BY <1>1, <3>2 DEF Alive, ProgramTextSafe
    <2>4. QED
      BY <2>1, <2>2, <2>3
  <1>3. ~InvalidColor(Refs(o), color)
    BY <1>2 DEF InvalidColor, Alive
  <1>4. QED
    BY <1>1, <1>3 DEF gc_mark_object

\* Marking an object guards what was guarded and kills nothing.
LEMMA KeptMark ==
  ASSUME Disciplined, KeptInv, NEW o \in Objects, gc_mark_object(o)
  PROVE  Kept'
  <1> USE ScopeAssumption, KindAssumption
  <1>1. TypeOK /\ status = "running" /\ status' = "running" /\ Live \subseteq Scopes
        /\ color[o] = "grey" /\ pc = "mark" /\ ScopesMarked /\ StackProper /\ RootScopes
    BY MarkIsSafe, LiveScopes DEF KeptInv, IInv, gc_mark_object
  <1>2. /\ \A x \in Objects :
              /\ color[x] \in Marked => color'[x] \in Marked
              /\ color'[x] = "free" <=> color[x] = "free"
              /\ color'[x] = "black" => x = o \/ color[x] = "black"
              /\ x \in Refs(o) => color'[x] \in Marked
              /\ color'[x] = "grey" => color[x] = "grey" \/ (color[x] = "white" /\ x \in Refs(o))
              /\ color'[x] = "white" <=> color[x] = "white" /\ x \notin Refs(o)
        /\ UNCHANGED <<parent, symbols, table, stack, frames, reg, held, pc>>
    BY <1>1, MarkEffect DEF gc_mark_object
  <1>3. \A w : (Guarded(w) => Guarded(w)') /\ (Alive(w) => Alive(w)')
    BY <1>1, MarkGuards
  <1>4. Live' = Live
    BY <1>2 DEF Live
  <1>5. ASSUME NEW d \in Data, NEW k \in Fields
        PROVE  /\ color'[d] = "black" => Guarded(table[d][k])'
               /\ color'[d] # "free" => Alive(table[d][k])'
    <2>1. color'[d] # "free" => Alive(table[d][k])'
      BY <1>1, <1>2, <1>3 DEF KeptInv, ValuesAlive
    <2>2. CASE d = o
      <3>1. CASE table[d][k] \in Data
        <4>1. table[d][k] \in Refs(o)
          BY <2>2, <3>1 DEF Refs
        <4>2. table[d][k] \notin White'
          BY <1>2, <3>1, <4>1 DEF White
        <4>3. QED
          BY <1>2, <2>1, <4>2 DEF Guarded
      <3>2. CASE table[d][k] \notin Data
        BY <1>2, <2>1, <3>2 DEF Guarded
      <3>3. QED
        BY <3>1, <3>2
    <2>3. CASE d # o
      BY <1>1, <1>2, <1>3, <2>1, <2>3 DEF KeptInv, ValuesGuarded
    <2>4. QED
      BY <2>2, <2>3
  <1>6. ASSUME NEW s \in Scopes, NEW n \in Names
        PROVE  /\ s \in Live => Guarded(symbols[s][n])'
               /\ s \in Live \/ color'[s] = "grey" => Alive(symbols[s][n])'
    <2>1. s \in Live => Guarded(symbols[s][n])' /\ Alive(symbols[s][n])'
      BY <1>1, <1>2, <1>3 DEF KeptInv, ValuesGuarded, ValuesAlive
    <2>2. ASSUME color'[s] = "grey", s \notin Live
          PROVE  color[s] = "grey"
      <3>1. SUFFICES ASSUME color[s] # "grey" PROVE FALSE
        OBVIOUS
      <3>2. s \in Refs(o) /\ color[s] \notin Marked
        BY <1>2, <2>2, <3>1 DEF Marked
      <3>3. o \in Scopes /\ parent[o] = s
        BY <1>1, <3>2, CodeAssumption DEF Refs, TypeOK
      <3>4. s \in {FileScope, GlobalScope}
        BY <1>1, <3>2, <3>3 DEF KeptInv, LeftScopesMarked
      <3>5. QED
        BY <2>2, <3>4 DEF Live
    <2>3. color[s] = "grey" => Alive(symbols[s][n])'
      BY <1>1, <1>2, <1>3 DEF KeptInv, ValuesAlive
    <2>4. QED
      BY <2>1, <2>2, <2>3
  <1>7. reg' = Nil /\ held' = {}
    BY <1>1, <1>2 DEF KeptInv, NothingHeld
  <1>8. Guarded(Nil)' /\ Alive(Nil)'
    BY NoDataIsGuarded DEF Alive
  <1>9. ValuesGuarded'
    BY <1>1, <1>4, <1>5, <1>6, <1>7, <1>8 DEF ValuesGuarded
  <1>10. ValuesAlive'
    BY <1>4, <1>5, <1>6, <1>7, <1>8 DEF ValuesAlive
  <1>11. ASSUME NEW t \in Scopes, color'[t] = "grey", parent[t] # Nil
         PROVE  parent[t] \in {FileScope, GlobalScope} \/ color'[parent[t]] \in Marked
    <2>1. CASE color[t] = "grey"
      <3>1. parent[t] \in {FileScope, GlobalScope} \/ color[parent[t]] \in Marked
        BY <1>1, <1>11, <2>1 DEF KeptInv, LeftScopesMarked
      <3>2. parent[t] \in Scopes
        BY <1>1, <1>11 DEF TypeOK
      <3>3. QED
        BY <1>2, <3>1, <3>2
    <2>2. CASE color[t] # "grey"
      <3>1. t \in Refs(o) /\ color[t] \notin Marked
        BY <1>2, <1>11, <2>2 DEF Marked
      <3>2. o \in Scopes /\ parent[o] = t
        BY <1>1, <3>1, CodeAssumption DEF Refs, TypeOK
      <3>3. t \in {FileScope, GlobalScope}
        BY <1>1, <3>1, <3>2 DEF KeptInv, LeftScopesMarked
      <3>4. QED
        BY <1>1, <1>11, <3>3 DEF RootScopes, StackProper
    <2>3. QED
      BY <2>1, <2>2
  <1>12. QED
    BY <1>1, <1>2, <1>7, <1>9, <1>10, <1>11 DEF Kept, KeptInv, NothingHeld, LeftScopesMarked

\* When a sweep starts, every value that is guarded and alive is black.
LEMMA GuardedIsBlack ==
  ASSUME KeptInv, gc_sweep, NEW v \in Values \cup {Nil}, Guarded(v), Alive(v)
  PROVE  v # NullValue /\ (v \in Objects => color[v] = "black")
  <1> USE KindAssumption
  <1>1. Grey = {} /\ TypeOK /\ IInv
    BY DEF gc_sweep, KeptInv, IInv
  <1>2. CASE v \in Data
    <2>1. ClosedUnderMarking({})
      BY <1>1 DEF ClosedUnderMarking
    <2>2. v \notin White
      BY <1>2, <2>1 DEF Guarded
    <2>3. v \notin Grey /\ v \in Objects
      BY <1>1, <1>2
    <2>4. color[v] \in Colors /\ color[v] # "white" /\ color[v] # "grey" /\ color[v] # "free"
      BY <1>1, <2>2, <2>3 DEF TypeOK, White, Grey, Alive
    <2>5. QED
      BY <2>4 DEF Alive
  <1>3. CASE v \in Code
    BY <1>1, <1>3, SweepText DEF Alive
  <1>4. CASE v \in {NullValue, Nil}
    BY <1>4 DEF Alive
  <1>5. QED
    BY <1>2, <1>3, <1>4

\* The roots have not been freed, and none of them is null.
LEMMA SweepIsSafe ==
  ASSUME Disciplined, KeptInv, gc_sweep
  PROVE  status' = "running"
  <1> USE ScopeAssumption, KindAssumption
  <1>1. status = "running" /\ TypeOK /\ IInv
    BY DEF gc_sweep, KeptInv, IInv
  <1>2. ASSUME NEW r \in RootRefs
        PROVE  r # NullValue /\ (r \in Objects => color[r] = "black")
    <2>1. CASE \E i \in 1..Len(stack) : r = stack[i]
      <3>1. r \in Scopes /\ color[r] = "black"
        BY <1>1, <2>1, SweepScopes DEF TypeOK
      <3>2. QED
        BY <3>1
    <2>2. CASE \E s \in {GlobalScope, FileScope}, n \in Names : r = symbols[s][n]
      <3>1. PICK s \in {GlobalScope, FileScope}, n \in Names : r = symbols[s][n]
        BY <2>2
      <3>2. Guarded(r) /\ Alive(r)
        BY <1>1, <3>1 DEF KeptInv, ValuesGuarded, ValuesAlive, Live
      <3>3. r \in Values \cup {Nil}
        BY <1>1, <3>1 DEF TypeOK
      <3>4. QED
        BY <3>2, <3>3, GuardedIsBlack
    <2>3. QED
      BY <2>1, <2>2 DEF RootRefs
  <1>3. \A r \in RootRefs : r \in Objects => Swept[r] = "white"
    BY <1>2 DEF Swept
  <1>4. ~InvalidColor(RootRefs, Swept)
    BY <1>2, <1>3 DEF InvalidColor
  <1>5. QED
    BY <1>1, <1>4 DEF gc_sweep

\* A sweep frees nothing that can be read, and starts from the roots.
LEMMA KeptSweep ==
  ASSUME Disciplined, KeptInv, gc_sweep
  PROVE  Kept'
  <1> USE ScopeAssumption, KindAssumption
  <1>1. TypeOK /\ status = "running" /\ status' = "running" /\ Live \subseteq Scopes /\ IInv
        /\ pc = "mark" /\ ScopesLinked /\ FramesNested
    BY SweepIsSafe, LiveScopes DEF KeptInv, IInv, gc_sweep
  <1>2. /\ \A x \in Objects :
              /\ color[x] # "grey"
              /\ color'[x] # "black"
              /\ color'[x] = "free" <=> color[x] \in {"free", "white"}
              /\ x \in RootRefs <=> color'[x] = "grey"
        /\ parent' = [s \in Scopes |-> IF color[s] = "white" THEN Nil ELSE parent[s]]
        /\ symbols' = [s \in Scopes |-> IF color[s] = "white" THEN NoSymbols ELSE symbols[s]]
        /\ UNCHANGED <<stack, frames>>
    BY <1>1, SweepEffect
  <1>3. \A d \in Data : table'[d] = IF color[d] = "white" THEN NoEntries ELSE table[d]
    BY <1>1 DEF gc_sweep, White
  <1>4. /\ UNCHANGED <<reg, held>> /\ reg' = Nil /\ held' = {} /\ pc' = "eval"
    BY <1>1 DEF gc_sweep, KeptInv, NothingHeld
  <1>5. Live' = Live
    BY <1>2 DEF Live
  <1>6. /\ \A i \in 1..Len(stack) : color[stack[i]] = "black"
        /\ color[FileScope] = "black" /\ color[GlobalScope] = "black"
    BY <1>1, SweepScopes
  <1>7. ASSUME NEW s \in Live
        PROVE  s \in Scopes /\ symbols'[s] = symbols[s] /\ parent'[s] = parent[s]
    BY <1>1, <1>2, <1>6, <1>7 DEF Live
  <1>8. Guarded(Nil)' /\ Alive(Nil)'
    BY NoDataIsGuarded DEF Alive
  <1>9. ASSUME NEW v \in Values \cup {Nil}, Guarded(v), Alive(v)
        PROVE  Alive(v)'
    <2>1. v # NullValue /\ (v \in Objects => color[v] = "black")
      BY <1>9, GuardedIsBlack
    <2>2. QED
      BY <1>2, <2>1 DEF Alive
  <1>10. ASSUME NEW s \in Scopes, color'[s] = "grey"
         PROVE  \E i \in 1..Len(stack) : s = stack[i]
    <2>1. s \in RootRefs
      BY <1>2, <1>10
    <2>2. \A r \in Scopes, n \in Names : symbols[r][n] \notin Scopes
      BY <1>1 DEF TypeOK
    <2>3. QED
      BY <2>1, <2>2 DEF RootRefs
  <1>11. ASSUME NEW s \in Live, NEW n \in Names
         PROVE  Guarded(symbols[s][n])' /\ Alive(symbols[s][n])'
    <2>1. symbols'[s][n] = symbols[s][n] /\ symbols[s][n] \in Values \cup {Nil} /\ s \in Scopes
      BY <1>1, <1>7 DEF TypeOK
    <2>2. Alive(symbols[s][n])'
      <3>1. Guarded(symbols[s][n]) /\ Alive(symbols[s][n])
        BY <1>1, <2>1 DEF KeptInv, ValuesGuarded, ValuesAlive
      <3>2. \A v : v = symbols[s][n] => Alive(v)'
        BY <1>9, <2>1, <3>1
      <3>3. QED
        BY <2>1, <3>2
    <2>3. SUFFICES ASSUME NEW v, v = symbols[s][n], v \in Data, color'[v] = "white",
                          NEW S \in SUBSET Objects, ClosedUnderMarking(S)'
                   PROVE  v \in S
      BY <2>1, <2>2 DEF Guarded, White
    <2>4. CASE s \in {GlobalScope, FileScope}
      <3>1. v \in RootRefs
        BY <2>3, <2>4 DEF RootRefs
      <3>2. QED
        BY <1>2, <2>3, <3>1
    <2>5. CASE s \notin {GlobalScope, FileScope}
      <3>1. s \in RootRefs
        BY <2>1, <2>5 DEF Live, RootRefs
      <3>2. color'[s] = "grey" /\ s \in S
        BY <1>2, <2>1, <2>3, <3>1 DEF ClosedUnderMarking, Grey
      <3>3. v \in Refs(s)'
        BY <2>1, <2>3 DEF Refs
      <3>4. v \in White'
        BY <2>3 DEF White
      <3>5. QED
        BY <2>3, <3>2, <3>3, <3>4 DEF ClosedUnderMarking
    <2>6. QED
      BY <2>4, <2>5
  <1>12. ASSUME NEW d \in Data, NEW k \in Fields, color'[d] # "free"
         PROVE  color'[d] # "black" /\ Alive(table[d][k])'
    <2>1. color[d] = "black" /\ table'[d][k] = table[d][k]
      BY <1>1, <1>2, <1>3, <1>12 DEF TypeOK
    <2>2. Guarded(table[d][k]) /\ Alive(table[d][k]) /\ table[d][k] \in Values \cup {Nil}
      BY <1>1, <2>1 DEF KeptInv, ValuesGuarded, ValuesAlive, TypeOK
    <2>3. \A v : v = table[d][k] => Alive(v)'
      BY <1>9, <2>2
    <2>4. QED
      BY <1>2, <2>1, <2>3
  <1>13. ValuesGuarded'
    BY <1>4, <1>5, <1>8, <1>11, <1>12 DEF ValuesGuarded
  <1>14. ValuesAlive'
    <2>1. ASSUME NEW s \in Scopes, color'[s] = "grey"
          PROVE  s \in Live
      BY <1>10, <2>1 DEF Live
    <2>2. QED
      BY <1>4, <1>5, <1>8, <1>11, <1>12, <2>1 DEF ValuesAlive
  <1>15. ASSUME NEW s \in Scopes, color'[s] = "grey", parent'[s] # Nil
         PROVE  parent'[s] \in {FileScope, GlobalScope} \/ color'[parent'[s]] \in Marked
    <2>1. s \in Live /\ parent'[s] = parent[s]
      BY <1>7, <1>10, <1>15 DEF Live
    <2>2. parent[s] \in Live
      BY <1>1, <1>15, <2>1, LiveScopes
    <2>3. SUFFICES ASSUME NEW i \in 1..Len(stack), parent[s] = stack[i]
                   PROVE  color'[parent[s]] \in Marked
      BY <2>1, <2>2 DEF Live
    <2>4. parent[s] \in RootRefs /\ parent[s] \in Scopes
      BY <1>1, <2>2, <2>3 DEF RootRefs
    <2>5. QED
      BY <1>2, <2>4 DEF Marked
  <1>16. QED
    BY <1>1, <1>2, <1>4, <1>13, <1>14, <1>15 DEF Kept, KeptInv, NothingHeld, LeftScopesMarked

\* What a guarded table holds is guarded.
LEMMA EntryIsKept ==
  ASSUME KeptInv, status = "running", NEW d \in Data, Guarded(d), Alive(d), NEW k \in Fields
  PROVE  Guarded(table[d][k]) /\ Alive(table[d][k])
  <1> USE KindAssumption
  <1>1. color[d] \in Colors /\ color[d] # "free"
    BY DEF KeptInv, IInv, TypeOK, Alive
  <1>2. Alive(table[d][k])
    BY <1>1 DEF KeptInv, ValuesAlive
  <1>3. CASE color[d] = "black"
    BY <1>2, <1>3 DEF KeptInv, ValuesGuarded
  <1>4. CASE color[d] \in {"white", "grey"}
    <2>1. ASSUME NEW S \in SUBSET Objects, ClosedUnderMarking(S), table[d][k] \in White \cap Data
          PROVE  table[d][k] \in S
      <3>1. d \in S
        <4>1. CASE color[d] = "white"
          BY <2>1, <4>1, GuardedMeans
        <4>2. CASE color[d] = "grey"
          BY <2>1, <4>2 DEF ClosedUnderMarking, Grey
        <4>3. QED
          BY <1>4, <4>1, <4>2
      <3>2. table[d][k] \in Refs(d)
        BY <2>1 DEF Refs
      <3>3. QED
        BY <1>4, <2>1, <3>1, <3>2 DEF ClosedUnderMarking
    <2>2. QED
      BY <1>2, <2>1 DEF Guarded
  <1>5. QED
    BY <1>1, <1>3, <1>4

\* Evaluating an expression reads from what is guarded, or makes a new value.
LEMMA KeptEvaluate ==
  ASSUME Disciplined, KeptInv, Evaluate
  PROVE  Kept'
  <1> USE KindAssumption
  <1>1. ASSUME NEW d \in Data, alloc_value(d)
        PROVE  Kept'
    BY <1>1, KeptAlloc
  <1>2. ~eval_null
    BY DEF Disciplined, eval_null
  <1>3. ASSUME UNCHANGED <<heap, stack, frames, pc, status>>, status = "running", pc = "eval",
               NEW v, Guarded(v), Alive(v), {reg'} \cup held' \subseteq {v, reg, Nil} \cup held
        PROVE  Kept'
    <2>1. Live' = Live
      BY <1>3 DEF Live
    <2>2. \A i \in 1..Len(frames') : frames'[i].held = {}
      BY <1>3 DEF KeptInv, NothingHeld
    <2>3. pc' # "mark" /\ status' = "running"
      BY <1>3
    <2>4. \A u \in {v, reg, Nil} \cup held : Guarded(u) /\ Alive(u)
      BY <1>3, NilIsKept DEF KeptInv, ValuesGuarded, ValuesAlive
    <2> DEFINE L == {v, reg, Nil} \cup held
    <2>5. {reg'} \cup held' \subseteq L /\ \A u \in L : Guarded(u) /\ Alive(u)
      BY <1>3, <2>4
    <2> HIDE DEF L
    <2>6. QED
      BY <1>3, <2>1, <2>2, <2>3, <2>5, KeptStill
  <1>4. ASSUME status = "running"
        PROVE  Guarded(reg) /\ Alive(reg) /\ Guarded(Nil) /\ Alive(Nil)
    BY <1>4, NilIsKept DEF KeptInv, ValuesGuarded, ValuesAlive
  <1>5. ASSUME NEW n \in Names, eval_name(n)
        PROVE  Kept'
    <2>1. status = "running" /\ pc = "eval"
      BY <1>5 DEF eval_name, Evaluating
    <2>2. CASE ir_error
      BY <2>2, KeptExit DEF ir_error
    <2>3. ASSUME NEW s \in Scopes, s \in Holder(n), reg' = symbols[s][n],
                 UNCHANGED <<heap, stack, frames, held, pc, work, status>>
          PROVE  Kept'
      <3>1. s \in Live
        BY <2>1, <2>3, HolderIsLive DEF KeptInv, IInv
      <3>2. Guarded(symbols[s][n]) /\ Alive(symbols[s][n])
        BY <2>1, <3>1 DEF KeptInv, ValuesGuarded, ValuesAlive
      <3>3. QED
        BY <1>3, <1>4, <2>1, <2>3, <3>2
    <2>4. QED
      BY <1>5, <2>2, <2>3 DEF eval_name
  <1>6. ASSUME NEW k \in Fields, eval_field(k)
        PROVE  Kept'
    <2>1. /\ status = "running" /\ pc = "eval" /\ reg \in Data /\ reg' = table[reg][k]
          /\ UNCHANGED <<heap, stack, frames, held, pc, work, status>>
      BY <1>6 DEF Disciplined, eval_field, Evaluating
    <2>2. Guarded(table[reg][k]) /\ Alive(table[reg][k])
      BY <1>4, <2>1, EntryIsKept
    <2>3. QED
      BY <1>3, <1>4, <2>1, <2>2
  <1>7. CASE hold
    <2>1. /\ status = "running" /\ pc = "eval" /\ reg' = Nil /\ held' = held \cup {reg}
          /\ UNCHANGED <<heap, stack, frames, pc, status>>
      BY <1>7 DEF hold, Evaluating
    <2>2. QED
      BY <1>3, <1>4, <2>1
  <1>8. CASE use_held
    <2>1. /\ status = "running" /\ pc = "eval" /\ reg' \in held /\ held' \subseteq held
          /\ UNCHANGED <<heap, stack, frames, pc, status>>
      BY <1>8 DEF use_held, Evaluating
    <2>2. QED
      BY <1>3, <1>4, <2>1
  <1>9. QED
    BY <1>1, <1>2, <1>5, <1>6, <1>7, <1>8 DEF Evaluate

\* The effects of statements.
LEMMA KeptEffect ==
  ASSUME Disciplined, KeptInv, Effect
  PROVE  Kept'
  <1> USE KindAssumption
  <1>1. CASE end_stmt
    <2>1. /\ status = "running" /\ reg' = Nil /\ held' = {} /\ pc' = "next"
          /\ UNCHANGED <<heap, stack, frames, status>>
      BY <1>1 DEF end_stmt, Done, Evaluating
    <2>2. Live' = Live /\ \A i \in 1..Len(frames') : frames'[i].held = {}
      BY <2>1 DEF Live, KeptInv, NothingHeld
    <2>3. pc' # "mark" /\ status' = "running"
      BY <2>1
    <2>4. {reg'} \cup held' \subseteq {Nil} /\ \A u \in {Nil} : Guarded(u) /\ Alive(u)
      BY <2>1, NilIsKept
    <2>5. QED
      BY <2>1, <2>2, <2>3, <2>4, KeptStill
  <1>2. ASSUME NEW n \in Names, scope_add(n)
        PROVE  Kept'
    <2>1. CASE ir_error
      BY <2>1, KeptExit DEF ir_error
    <2>2. CASE ~ir_error
      <3>1. /\ status = "running" /\ pc = "eval" /\ reg # Nil /\ symbols[Top][n] = Nil
            /\ symbols' = [symbols EXCEPT ![Top][n] = reg] /\ Done
            /\ UNCHANGED <<color, parent, table, stack, frames, status>>
        BY <1>2, <2>2 DEF scope_add, Evaluating
      <3>2. Top \in Live
        BY <3>1, FrameType DEF KeptInv, IInv, Live, Top, Last
      <3>3. MayOverwrite(symbols[Top][n])
        BY <3>1 DEF MayOverwrite
      <3>4. QED
        BY <3>1, <3>2, <3>3, KeptSymbol
    <2>3. QED
      BY <2>1, <2>2
  <1>3. ASSUME NEW n \in Names, scope_set(n)
        PROVE  Kept'
    <2>1. CASE ir_error
      BY <2>1, KeptExit DEF ir_error
    <2>2. CASE ~ir_error
      <3>1. status = "running" /\ pc = "eval" /\ reg # Nil
        BY <1>3 DEF scope_set, Evaluating
      <3>2. PICK s \in Scopes : /\ s \in Holder(n) /\ MayOverwrite(symbols[s][n])
                                /\ symbols' = [symbols EXCEPT ![s][n] = reg]
                                /\ Done \/ GoesOn(symbols[s][n])
                                /\ UNCHANGED <<color, parent, table, stack, frames, status>>
        BY <1>3, <2>2 DEF scope_set
      <3>3. s \in Live
        BY <3>1, <3>2, HolderIsLive DEF KeptInv, IInv
      <3>4. QED
        BY <3>1, <3>2, <3>3, KeptSymbol
    <2>3. QED
      BY <2>1, <2>2
  <1>4. ASSUME NEW t \in Data, NEW k \in Fields, table_put(t, k)
        PROVE  Kept'
    <2>1. status = "running" /\ pc = "eval" /\ t \in held /\ reg # Nil
      BY <1>4 DEF table_put, Evaluating
    <2>2. color[t] # "free"
      BY <2>1 DEF KeptInv, ValuesAlive, Alive
    <2>3. /\ MayOverwrite(table[t][k]) /\ table' = [table EXCEPT ![t][k] = reg]
          /\ Done \/ GoesOn(table[t][k])
          /\ UNCHANGED <<color, parent, symbols, stack, frames, status>>
      BY <1>4, <2>2 DEF table_put
    <2>4. QED
      BY <2>1, <2>2, <2>3, KeptEntry
  <1>5. QED
    BY <1>1, <1>2, <1>3, <1>4 DEF Effect

\* Entering and leaving blocks and calls.
LEMMA KeptControl ==
  ASSUME Disciplined, KeptInv, Control
  PROVE  Kept'
  <1> USE KindAssumption
  <1>1. /\ status = "running" /\ TypeOK /\ FramesNested
        /\ \A i \in 1..Len(frames) : frames[i].held = {}
        /\ \A u \in {reg, Nil} \cup held : Guarded(u) /\ Alive(u)
    <2>1. status = "running"
      BY DEF Control, enter_block, leave_block, call_function, eval_return, fall_off, Evaluating
    <2>2. QED
      BY <2>1, NilIsKept DEF KeptInv, IInv, NothingHeld, ValuesGuarded, ValuesAlive
  <1>2. /\ Frame.base \in 0..(Len(stack) - 1)
        /\ Len(frames) \in Nat \ {0} /\ Len(stack) \in Nat \ {0}
    BY <1>1, FrameType
  <1>3. ASSUME NEW s \in Scopes, enter_block(s)
        PROVE  Kept'
    <2>1. push_scope(s, Top, NoSymbols) /\ Done /\ UNCHANGED <<table, frames, status>>
      BY <1>3 DEF enter_block
    <2>2. \A n \in Names : NoSymbols[n] \in {Nil}
      BY DEF NoSymbols
    <2>3. \A i \in 1..Len(frames') : frames'[i].held = {}
      BY <1>1, <2>1
    <2>4. \A u \in {Nil} : Guarded(u) /\ Alive(u)
      BY NilIsKept
    <2>5. QED
      BY <1>1, <2>1, <2>2, <2>3, <2>4, KeptPush
  <1>4. ASSUME NEW s \in Scopes, call_function(s)
        PROVE  Kept'
    <2>0. PICK args \in [Names -> held \cup {reg, Nil}], kept \in SUBSET held :
             /\ kept # {} => HoldsAcrossCalls
             /\ push_scope(s, FileScope, args)
             /\ frames' = Append(frames, [base |-> Len(stack), held |-> kept])
      BY <1>4 DEF call_function
    <2> DEFINE f == [base |-> Len(stack), held |-> kept]
               L == {reg, Nil} \cup held
    <2>1. /\ push_scope(s, FileScope, args) /\ Done /\ UNCHANGED <<table, status>>
          /\ frames' = Append(frames, f)
      BY <1>4, <2>0 DEF call_function
    <2>2. \A n \in Names : args[n] \in L
      OBVIOUS
    <2>3. kept = {}
      BY <2>0 DEF Disciplined
    <2>4. f \in StackFrames /\ f.held = {}
      BY <1>2, <2>3 DEF StackFrames
    <2>4a. \A u \in L : Guarded(u) /\ Alive(u)
      BY <1>1
    <2> HIDE DEF f, L
    <2>5. /\ Len(frames') = Len(frames) + 1
          /\ frames'[Len(frames) + 1] = f
          /\ \A i \in 1..Len(frames) : frames'[i] = frames[i]
      BY <1>1, <1>2, <2>1, <2>4 DEF TypeOK
    <2>6. \A i \in 1..Len(frames') : frames'[i].held = {}
      BY <1>1, <1>2, <2>4, <2>5
    <2>7. QED
      BY <1>1, <2>1, <2>2, <2>4a, <2>6, KeptPush
  <1>5. ASSUME NEW n \in 0..Len(stack), stack' = SubSeq(stack, 1, n)
        PROVE  Live' \subseteq Live
    <2>1. Len(stack') = n /\ \A i \in 1..n : stack'[i] = stack[i] /\ i \in 1..Len(stack)
      BY <1>1, <1>5, Prefix DEF TypeOK
    <2>2. QED
      BY <2>1 DEF Live
  <1>6. CASE leave_block
    <2>1. /\ stack' = SubSeq(stack, 1, Len(stack) - 1) /\ reg' = Nil /\ held' = {}
          /\ pc' # "mark" /\ status' = "running" /\ UNCHANGED <<heap, frames>>
      BY <1>1, <1>6 DEF leave_block
    <2>2. Live' \subseteq Live
      BY <1>2, <1>5, <2>1
    <2>3. \A i \in 1..Len(frames') : frames'[i].held = {}
      BY <1>1, <2>1
    <2>4. {reg'} \cup held' \subseteq {Nil} /\ \A u \in {Nil} : Guarded(u) /\ Alive(u)
      BY <2>1, NilIsKept
    <2>5. QED
      BY <1>1, <2>1, <2>2, <2>3, <2>4, KeptStill
  <1>7. ASSUME NEW v, PopFrame(v), Guarded(v), Alive(v)
        PROVE  Kept'
    <2>1. CASE Len(frames) = 1
      BY <1>7, <2>1, KeptExit DEF PopFrame
    <2>2. CASE Len(frames) # 1
      <3>1. /\ stack' = SubSeq(stack, 1, Frame.base) /\ frames' = SubSeq(frames, 1, Len(frames) - 1)
            /\ held' = Frame.held /\ reg' = v /\ pc' = "eval" /\ status' = "running"
            /\ UNCHANGED heap
        BY <1>1, <1>7, <2>2 DEF PopFrame
      <3>2. {reg'} \cup held' \subseteq {v} /\ \A u \in {v} : Guarded(u) /\ Alive(u)
        <4>1. held' = {}
          BY <1>1, <1>2, <3>1 DEF Frame, Last
        <4>2. QED
          BY <1>7, <3>1, <4>1
      <3>3. Live' \subseteq Live
        BY <1>2, <1>5, <3>1
      <3>4. \A i \in 1..Len(frames') : frames'[i].held = {}
        <4>1. Len(frames) - 1 \in 0..Len(frames) /\ frames \in Seq(StackFrames)
          BY <1>1, <1>2 DEF TypeOK
        <4>2. /\ Len(frames') = Len(frames) - 1
              /\ \A i \in 1..(Len(frames) - 1) : frames'[i] = frames[i]
          BY <3>1, <4>1, Prefix
        <4>3. QED
          BY <1>1, <1>2, <4>2
      <3>5. pc' # "mark"
        BY <3>1
      <3>6. QED
        BY <1>1, <1>7, <3>1, <3>2, <3>3, <3>4, <3>5, KeptStill
    <2>3. QED
      BY <2>1, <2>2
  <1>8. CASE eval_return
    <2>1. PopFrame(IF reg = Nil THEN Nil ELSE reg)
      BY <1>8 DEF eval_return, NoResult, Disciplined
    <2>2. PopFrame(reg)
      BY <2>1
    <2>3. QED
      BY <1>1, <1>7, <2>2
  <1>9. CASE fall_off
    <2>1. PopFrame(Nil)
      BY <1>9 DEF fall_off, NoResult, Disciplined
    <2>2. QED
      BY <1>1, <1>7, <2>1
  <1>10. QED
    BY <1>3, <1>4, <1>6, <1>8, <1>9 DEF Control

-----------------------------------------------------------------------------
(***************************************************************************)
(* Programs that need no write barrier: nothing is lost.                   *)
(***************************************************************************)
\* init_ir leaves every object grey, so every value is there and none is white.
LEMMA KeptInit == Init => KeptInv
  <1> SUFFICES ASSUME Init PROVE KeptInv
    OBVIOUS
  <1> USE ScopeAssumption, KindAssumption, CodeAssumption
  <1>1. IInv
    BY InitInvariant
  <1>2. \A o \in Objects : color[o] # "white"
    BY DEF Init
  <1>3. \A v : Guarded(v)
    BY <1>2 DEF Guarded, White
  <1>4. /\ status = "running" /\ pc = "next" /\ reg = Nil /\ held = {}
        /\ stack = <<MainScope>> /\ frames = <<[base |-> 0, held |-> {}]>>
        /\ table = [d \in Data |-> IF d \in InitData THEN InitEntries[d] ELSE NoEntries]
    BY DEF Init
  <1>5. \A o \in Code \cup InitData \cup {GlobalScope, FileScope, MainScope} : o \in Objects => color[o] = "grey"
    BY DEF Init
  <1>6. ASSUME NEW v \in InitData \cup TopLevel \cup {Nil}
        PROVE  Alive(v)
    BY <1>5, <1>6 DEF Alive
  <1>7. ASSUME NEW s \in Scopes, NEW n \in Names, s \in Live \/ color[s] = "grey"
        PROVE  Alive(symbols[s][n])
    <2>1. CASE s = GlobalScope
      <3>1. symbols[s][n] = GlobalSymbols[n] /\ GlobalSymbols[n] \in InitData \cup TopLevel \cup {Nil}
        BY <2>1, BindingAssumption DEF Init
      <3>2. QED
        BY <1>6, <3>1
    <2>2. CASE s = FileScope
      <3>1. symbols[s][n] = FileSymbols[n] /\ FileSymbols[n] \in InitData \cup TopLevel \cup {Nil}
        BY <2>2, BindingAssumption DEF Init
      <3>2. QED
        BY <1>6, <3>1
    <2>3. CASE s \notin {GlobalScope, FileScope}
      <3>1. symbols[s][n] \in {Nil, ArgTable}
        BY <2>3 DEF Init, NoSymbols
      <3>2. QED
        BY <1>6, <3>1
    <2>4. QED
      BY <2>1, <2>2, <2>3
  <1>8. Alive(Nil)
    BY NilIsKept
  <1>9. ValuesGuarded
    BY <1>3 DEF ValuesGuarded
  <1>10. ValuesAlive
    <2>1. ASSUME NEW d \in Data, NEW k \in Fields
          PROVE  Alive(table[d][k])
      <3>1. CASE d \in InitData
        <4>1. table[d][k] = InitEntries[d][k] /\ InitEntries[d][k] \in InitData \cup TopLevel \cup {Nil}
          BY <1>4, <3>1, BindingAssumption
        <4>2. QED
          BY <1>6, <4>1
      <3>2. CASE d \notin InitData
        BY <1>4, <1>8, <3>2 DEF NoEntries
      <3>3. QED
        BY <3>1, <3>2
    <2>2. QED
      BY <1>4, <1>7, <1>8, <2>1 DEF ValuesAlive
  <1>11. NothingHeld
    BY <1>4 DEF NothingHeld
  <1>12. \A s \in Scopes : parent[s] \in {Nil, FileScope, GlobalScope}
    BY DEF Init
  <1>13. LeftScopesMarked
    BY <1>12 DEF LeftScopesMarked
  <1>14. QED
    BY <1>1, <1>4, <1>9, <1>10, <1>11, <1>13 DEF KeptInv

\* Every step of a disciplined program and of the collector keeps KeptInv.
LEMMA KeptStep ==
  ASSUME Disciplined, KeptInv, [Next]_vars
  PROVE  KeptInv'
  <1> USE KindAssumption
  <1>1. IInv'
    BY StepInvariant DEF KeptInv
  <1>1a. SUFFICES Kept'
    BY <1>1 DEF Kept, KeptInv
  <1>2. ASSUME UNCHANGED <<heap, stack, frames>>, status = "running", status' = "running",
               NEW L, {reg'} \cup held' \subseteq L, \A u \in L : Guarded(u) /\ Alive(u),
               pc' = "mark" => reg' = Nil /\ held' = {}
        PROVE  Kept'
    <2>1. Live' = Live /\ \A i \in 1..Len(frames') : frames'[i].held = {}
      BY <1>2 DEF Live, KeptInv, NothingHeld
    <2>2. QED
      BY <1>2, <2>1, KeptStill
  <1> DEFINE L == {reg} \cup held
  <1>3. status = "running" => \A u \in L : Guarded(u) /\ Alive(u)
    BY DEF KeptInv, ValuesGuarded, ValuesAlive
  <1>4. CASE eval_stmt
    <2>1. /\ status = "running" /\ status' = "running" /\ reg' = Nil /\ held' = {}
          /\ UNCHANGED <<heap, stack, frames>>
      BY <1>4 DEF eval_stmt
    <2>2. {reg'} \cup held' \subseteq {Nil} /\ \A u \in {Nil} : Guarded(u) /\ Alive(u)
      BY <2>1, NilIsKept
    <2>3. QED
      BY <1>2, <2>1, <2>2
  <1>5. CASE gc_pause
    <2>1. /\ status = "running" /\ status' = "running" /\ pc' = "eval" /\ reg' = reg /\ held' = held
          /\ UNCHANGED <<heap, stack, frames>>
      BY <1>5 DEF gc_pause
    <2>2. {reg'} \cup held' \subseteq L /\ \A u \in L : Guarded(u) /\ Alive(u)
      BY <1>3, <2>1
    <2> HIDE DEF L
    <2>3. QED
      BY <1>2, <2>1, <2>2
  <1>6. CASE Collect
    BY <1>5, <1>6, KeptMark, KeptSweep DEF Collect
  <1>7. CASE UNCHANGED vars
    <2>1. CASE status = "running"
      <3>1. UNCHANGED <<heap, stack, frames, reg, held, pc, status>>
        BY <1>7 DEF vars, heap
      <3>2. pc' = "mark" => reg' = Nil /\ held' = {}
        BY <2>1, <3>1 DEF KeptInv, NothingHeld
      <3>3. {reg'} \cup held' \subseteq L /\ \A u \in L : Guarded(u) /\ Alive(u)
        BY <1>3, <2>1, <3>1
      <3> HIDE DEF L
      <3>4. QED
        BY <1>2, <2>1, <3>1, <3>2, <3>3
    <2>2. CASE status # "running"
      <3>1. status' = "exited"
        BY <1>7, <2>2 DEF vars, KeptInv
      <3>2. QED
        BY <3>1, KeptExit
    <2>3. QED
      BY <2>1, <2>2
  <1>8. QED
    BY <1>4, <1>6, <1>7, KeptEvaluate, KeptEffect, KeptControl DEF Next

\* What can be read in one step from what is there is there.
LEMMA KeptIsClosed ==
  ASSUME Disciplined, KeptInv, status = "running",
         NEW K, K = Live \cup {v \in Data \cup Code : color[v] # "free"}
  PROVE  /\ Roots \subseteq K
         /\ \A o \in K : Refs(o) \subseteq K
  <1> USE ScopeAssumption, KindAssumption, CodeAssumption
  <1>1. TypeOK /\ ProgramTextSafe /\ Live \subseteq Scopes
    BY LiveScopes DEF KeptInv, IInv
  <1>2. ASSUME NEW v \in Values \cup {Nil}, Alive(v)
        PROVE  v \in K \cup {Nil}
    BY <1>2 DEF Alive
  <1>3. Roots \subseteq K
    <2>1. {reg} \cup held \subseteq K \cup {Nil}
      BY <1>1, <1>2 DEF KeptInv, ValuesAlive, TypeOK
    <2>2. \A i \in 1..Len(frames) : frames[i].held = {}
      BY DEF KeptInv, NothingHeld
    <2>3. UNION {frames[i].held : i \in 1..Len(frames)} = {}
      BY <2>2
    <2>4. QED
      BY <2>1, <2>3 DEF Roots
  <1>4. ASSUME NEW o \in Live, NEW r \in Refs(o)
        PROVE  r \in K
    <2>1. r # Nil /\ (r = parent[o] \/ \E n \in Names : r = symbols[o][n])
      BY <1>1, <1>4 DEF Refs
    <2>2. CASE r = parent[o]
      BY <2>1, <2>2, LiveScopes DEF KeptInv
    <2>3. ASSUME NEW n \in Names, r = symbols[o][n]
          PROVE  r \in K
      <3>1. r \in Values \cup {Nil} /\ Alive(r)
        BY <1>1, <2>3 DEF TypeOK, KeptInv, ValuesAlive
      <3>2. QED
        BY <1>2, <2>1, <3>1
    <2>4. QED
      BY <2>1, <2>2, <2>3
  <1>5. ASSUME NEW o \in Data, color[o] # "free", NEW r \in Refs(o)
        PROVE  r \in K
    <2>1. PICK k \in Fields : r = table[o][k] /\ r # Nil
      BY <1>5 DEF Refs
    <2>2. r \in Values \cup {Nil} /\ Alive(r)
      BY <1>1, <1>5, <2>1 DEF TypeOK, KeptInv, ValuesAlive
    <2>3. QED
      BY <1>2, <2>1, <2>2
  <1>6. ASSUME NEW o \in Code, NEW r \in Refs(o)
        PROVE  r \in K
    <2>1. r \in Children[o] /\ Children[o] \subseteq Code \cup {NullValue}
      BY <1>6 DEF Refs
    <2>2. r \in Code
      BY <2>1 DEF Disciplined
    <2>3. QED
      BY <1>1, <2>2 DEF ProgramTextSafe
  <1>7. QED
    BY <1>3, <1>4, <1>5, <1>6

\* So is what can be read in any number of steps.
LEMMA ReachableIsKept ==
  ASSUME Disciplined, KeptInv, status = "running"
  PROVE  Reachable \subseteq Live \cup {v \in Data \cup Code : color[v] # "free"}
  <1> DEFINE N == Cardinality(Objects)
             Grow(S) == S \cup UNION {Refs(o) : o \in S \cap Objects}
             K == Live \cup {v \in Data \cup Code : color[v] # "free"}
             F == [S \in SUBSET K |-> Grow(S)]
             Reaches(f) == f = [k \in 0..N |-> IF k = 0 THEN Roots ELSE Grow(f[k-1])]
             reach == CHOOSE f : Reaches(f)
  <1>1. N \in Nat
    BY KindAssumption, FS_CardinalityType
  <1>2. Reachable = reach[N]
    BY DEF Reachable
  <1>3. Roots \in SUBSET K /\ \A o \in K : Refs(o) \subseteq K
    <2> HIDE DEF N, Grow, F, Reaches, reach
    <2>1. QED
      BY KeptIsClosed
  <1> HIDE DEF K
  <1>4. \A S \in SUBSET K : Grow(S) \in SUBSET K /\ F[S] = Grow(S)
    BY <1>3
  <1> HIDE DEF F, Grow, N
  <1>5. PICK f \in [0..N -> SUBSET K] : f[0] = Roots /\ \A k \in 0..N-1 : f[k+1] = F[f[k]]
    <2>1. F \in [SUBSET K -> SUBSET K]
      BY <1>4 DEF F
    <2>2. Roots \in SUBSET K
      BY <1>3
    <2> HIDE DEF Reaches, reach
    <2>3. \E f : Repeats(f, F, SUBSET K, Roots, N)
      BY <1>1, <2>1, <2>2, Iteration
    <2>4. QED
      BY <2>3 DEF Repeats
  <1>6. Reaches(f)
    <2>1. ASSUME NEW k \in 0..N, k # 0
          PROVE  f[k] = Grow(f[k-1])
      <3>1. k - 1 \in 0..N-1 /\ k - 1 \in 0..N /\ (k - 1) + 1 = k
        BY <1>1, <2>1
      <3>2. f[(k - 1) + 1] = F[f[k-1]]
        BY <1>5, <3>1
      <3>3. QED
        BY <1>4, <3>1, <3>2
    <2>2. \A k \in 0..N : f[k] = IF k = 0 THEN Roots ELSE Grow(f[k-1])
      BY <1>5, <2>1
    <2>3. QED
      BY <2>2
  <1>7. Reaches(reach)
    <2> HIDE DEF Reaches
    <2>1. QED
      BY <1>6
  <1> HIDE DEF reach
  <1>8. \A k \in 0..N : reach[k] \in SUBSET K
    <2> DEFINE T == {k \in 0..N : reach[k] \in SUBSET K}
    <2>1. 0 \in T
      BY <1>1, <1>3, <1>7
    <2>2. ASSUME NEW k \in 0..N-1, k \in T
          PROVE  k + 1 \in T
      <3>1. k + 1 \in 0..N /\ k + 1 # 0 /\ (k + 1) - 1 = k
        BY <1>1
      <3>2. reach[k + 1] = Grow(reach[(k + 1) - 1])
        BY <1>7, <3>1
      <3>3. Grow(reach[k]) \in SUBSET K
        BY <1>4, <2>2
      <3>4. QED
        BY <3>1, <3>2, <3>3
    <2>3. 0..N \subseteq T
      <3> HIDE DEF T
      <3>1. QED
        BY <1>1, <2>1, <2>2, BoundedInduction
    <2>4. QED
      BY <2>3
  <1>9. N \in 0..N
    BY <1>1
  <1>10. QED
    BY <1>2, <1>8, <1>9 DEF K

\* A program without null that overwrites only plain values held once, goes on
\* using none it has overwritten, and keeps no temporary across a call needs no
\* write barrier: whatever the heap, Work and the order of marking, marking guards
\* what the program can read, temporaries and half-filled table constants included.
THEOREM MarkingGuards ==
  ASSUME Disciplined
  PROVE  Spec => []KeptInv
  <1>1. Init => KeptInv
    BY KeptInit
  <1>2. KeptInv /\ [Next]_vars => KeptInv'
    BY KeptStep
  <1>3. QED
    BY <1>1, <1>2, PTL DEF Spec

\* Such a program never loses what it can read: neither a variable, nor a table
\* entry, nor a temporary.
THEOREM DisciplinedLosesNothing ==
  ASSUME Disciplined
  PROVE  Spec => []NothingLost
  <1>1. KeptInv => NothingLost
    <2>1. SUFFICES ASSUME KeptInv, status = "running", NEW o \in Reachable \cap Objects
                   PROVE  color[o] # "free"
      BY DEF NothingLost
    <2>2. o \in Live \cup {v \in Data \cup Code : color[v] # "free"}
      BY <2>1, ReachableIsKept
    <2>3. QED
      BY <2>1, <2>2, LiveScopes DEF KeptInv
  <1>2. QED
    BY <1>1, MarkingGuards, PTL

\* Nor does it meet the assertion of gc_remove_from_list.
THEOREM DisciplinedNeverAborts ==
  ASSUME Disciplined
  PROVE  Spec => []NoInvalidColor
  <1>1. KeptInv => NoInvalidColor
    BY DEF KeptInv, NoInvalidColor
  <1>2. QED
    BY <1>1, MarkingGuards, PTL

=============================================================================
