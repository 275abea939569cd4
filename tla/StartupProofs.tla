---------------------------- MODULE StartupProofs ----------------------------
(***************************************************************************)
(* Proofs about Startup, for any command line, any files that import each  *)
(* other in any way and any declarations in them.                          *)
(***************************************************************************)
EXTENDS Startup, Induction, SequenceTheorems

-----------------------------------------------------------------------------
(***************************************************************************)
(* The inductive invariant.                                                *)
(***************************************************************************)
Labels == {"lexer", "parser", "ir", "ir run"}
Sections == [label : Labels, start : Nat, finish : Nat]
Totals == [start : Nat, finish : Nat]
Frames == [path : Paths, rest : Seq(Declarations)]
Early == {"options", "lexer", "parser", "ir"}    \* no declaration is done

Types ==
  /\ argv \in Seq(Arguments) /\ last_arg \in 1..(Len(argv) + 1)
  /\ DOMAIN disk \subseteq Paths /\ \A p \in DOMAIN disk : disk[p] \in Seq(Declarations)
  /\ filename \in Seq(STRING) /\ read \in Seq(Paths)
  /\ phase \in Early \cup {"top_levels"} \cup Started
  /\ imports \in Seq(Frames) /\ Len(imports) <= MaxDepth + 1
  /\ imports # <<>> => phase = "top_levels"
  /\ status = "running" /\ phase = "top_levels" => imports # <<>>
  /\ status \in {"running", "exit", "exhausted", "undefined_path", "undefined_var",
                 "null_read", "assert_callstack", "assert_namespace", "assert_function"}
  /\ status = "running" => exit_code = 0 /\ Len(imports) <= MaxDepth
  /\ exit_code # 0 => status = "exit"

\* The options are those of the arguments before last_arg, none of them a file
\* until one is taken.
OptionsOf(n) ==
  /\ options = {argv[j].kind : j \in 1..n} \cap {"timings", "silent"}
  /\ \A j \in 1..n : argv[j].kind # "file"

Arguing ==
  IF phase = "options" THEN OptionsOf(last_arg - 1)
  ELSE /\ last_arg \in 2..(Len(argv) + 1) /\ OptionsOf(last_arg - 2)
       /\ argv[last_arg - 1].kind = "file" /\ argv[last_arg - 1].path = filename

\* The total time began before any section, each section but the last has ended
\* before the next began, and the last began before now.
Timing ==
  /\ now \in 1..MaxTime /\ sections \in Seq(Sections) /\ total \in Totals
  /\ phase = "options" => sections = <<>>
  /\ phase \notin {"options", "lexer"} => sections # <<>>
  /\ total.start <= now
  /\ sections # <<>> => total.start <= sections[1].start
  /\ \A i \in 1..(Len(sections) - 1) : /\ sections[i].start <= sections[i].finish
                                       /\ sections[i].finish <= sections[i + 1].start
  /\ sections # <<>> => sections[Len(sections)].start <= now
  /\ (phase = "ended" /\ "timings" \in options)
       => /\ sections[Len(sections)].start <= sections[Len(sections)].finish
          /\ sections[Len(sections)].finish <= total.finish

\* The names of the file scope, each once; natives come when all files are done.
Scoping ==
  /\ bound \in Seq(STRING) /\ IsInjective(bound) /\ ToSet(bound) = DOMAIN file_scope
  /\ global_scope \subseteq Natives \cup {"gfx"}
  /\ phase \in Early \cup {"top_levels", "globals"} => global_scope \subseteq {"gfx"}
  /\ phase \in Early => bound = <<>> /\ imports = <<>>

\* What is known of the script before its declarations are looked at.
Opening ==
  status = "running" =>
    /\ phase \in {"parser", "ir"} => filename \in DOMAIN disk
    /\ phase = "ir" => read = <<filename>>

\* Declarations are being done, or all of them have been.
Alive == phase \in Started \/ (phase = "top_levels" /\ status = "running")

\* rest is the end of all.
IsRest(rest, all) == /\ Len(rest) <= Len(all)
                     /\ \A i \in DOMAIN rest : rest[i] = all[Len(all) - Len(rest) + i]

\* A frame has the last declarations of its file still to do, and one that
\* waits for an import has done some.
Framed ==
  /\ (imports = <<>>) <=> phase \in Started
  /\ read # <<>> /\ read[1] = filename
  /\ \A j \in DOMAIN read : read[j] \in DOMAIN disk /\ disk[read[j]] # <<>>
  /\ \A f \in DOMAIN imports :
       LET all == disk[imports[f].path]
           rest == imports[f].rest
       IN  /\ \E j \in DOMAIN read : read[j] = imports[f].path
           /\ IsRest(rest, all) /\ (f > 1 => Len(rest) < Len(all))

\* Each file but the script is imported by one read before.
Imports ==
  \A j \in DOMAIN read :
    j > 1 => \E i \in DOMAIN read : i < j /\ read[j] \in Imported(read[i])

\* The i-th declaration of the j-th file read has had its effect.
Handled(j, i) ==
  LET d == disk[read[j]][i]
  IN  /\ IsImport(d) => \E k \in DOMAIN read : j < k /\ read[k] = ImportPath(read[j], d.path)
      /\ d.kind \in {"var", "func"} => d.name \in DOMAIN file_scope
      /\ d.kind = "use" => "gfx" \in global_scope
      /\ d.kind = "var" /\ d.ref.kind \in {"read", "call"} /\ d.ref.name \in Natives
           => d.ref.name \in DOMAIN file_scope

Pending(j, i) ==
  \E f \in DOMAIN imports : /\ imports[f].path = read[j]
                            /\ Len(disk[read[j]]) - Len(imports[f].rest) < i

Effects == \A j \in DOMAIN read : \A i \in DOMAIN disk[read[j]] : Handled(j, i) \/ Pending(j, i)

\* The file read last has done nothing yet.
First(j) == disk[read[j]][1]
Fresh == /\ imports # <<>> /\ imports[1].path = read[Len(read)]
         /\ imports[1].rest = disk[read[Len(read)]]
Begun(j) == j < Len(read) \/ ~Fresh

\* A file whose first declaration is no import begins once: a second time it
\* would declare what there is.  A file whose first declaration is an import
\* is followed by the imported one.
Once ==
  /\ \A j \in DOMAIN read : Begun(j) => Handled(j, 1)
  /\ \A i, j \in DOMAIN read :
       i < j /\ Begun(j) /\ read[i] = read[j] => IsImport(First(j))
  /\ \A j \in DOMAIN read : Begun(j) /\ IsImport(First(j)) =>
       j < Len(read) /\ read[j + 1] = ImportPath(read[j], First(j).path)

Importing == Alive => Framed /\ Imports /\ Effects /\ Once

IInv == Types /\ Arguing /\ Timing /\ Scoping /\ Opening /\ Importing

-----------------------------------------------------------------------------
(***************************************************************************)
(* The stack of imports.                                                   *)
(***************************************************************************)
LEMMA Pushed ==
  ASSUME NEW S, NEW s \in Seq(S), NEW a \in S
  PROVE  /\ <<a>> \o s \in Seq(S) /\ Len(<<a>> \o s) = Len(s) + 1
         /\ (<<a>> \o s)[1] = a /\ \A i \in DOMAIN s : (<<a>> \o s)[i + 1] = s[i]
  OBVIOUS

LEMMA Popped ==
  ASSUME NEW S, NEW s \in Seq(S), s # <<>>
  PROVE  /\ s[1] \in S /\ Head(s) = s[1] /\ Len(s) \in Nat \ {0}
         /\ Tail(s) \in Seq(S) /\ Len(Tail(s)) = Len(s) - 1
         /\ \A i \in DOMAIN Tail(s) : i + 1 \in DOMAIN s /\ Tail(s)[i] = s[i + 1]
  OBVIOUS

\* The top of the stack is replaced.
LEMMA Replaced ==
  ASSUME NEW S, NEW s \in Seq(S), s # <<>>, NEW a \in S
  PROVE  /\ <<a>> \o Tail(s) \in Seq(S) /\ Len(<<a>> \o Tail(s)) = Len(s)
         /\ (<<a>> \o Tail(s))[1] = a
         /\ \A i \in DOMAIN s : i > 1 => (<<a>> \o Tail(s))[i] = s[i]
  <1>1. Tail(s) \in Seq(S) /\ Len(Tail(s)) = Len(s) - 1 /\ Len(s) \in Nat \ {0}
        /\ \A i \in DOMAIN Tail(s) : Tail(s)[i] = s[i + 1]
    BY Popped
  <1>2. <<a>> \o Tail(s) \in Seq(S) /\ Len(<<a>> \o Tail(s)) = Len(Tail(s)) + 1
        /\ (<<a>> \o Tail(s))[1] = a
        /\ \A i \in DOMAIN Tail(s) : (<<a>> \o Tail(s))[i + 1] = Tail(s)[i]
    BY <1>1, Pushed
  <1>3. ASSUME NEW i \in DOMAIN s, i > 1 PROVE (<<a>> \o Tail(s))[i] = s[i]
    <2>1. i - 1 \in DOMAIN Tail(s)
      BY <1>1, <1>3
    <2>2. (i - 1) + 1 = i
      BY <1>3
    <2>3. (<<a>> \o Tail(s))[(i - 1) + 1] = Tail(s)[i - 1]
      BY <1>2, <2>1
    <2>4. Tail(s)[i - 1] = s[(i - 1) + 1]
      BY <1>1, <2>1
    <2>5. QED
      BY <2>2, <2>3, <2>4
  <1>4. QED
    BY <1>1, <1>2, <1>3

\* The file at the top, and what is left of it when a declaration is done.
LEMMA Current ==
  ASSUME Types, imports # <<>>
  PROVE  /\ current = imports[1] /\ current \in Frames
         /\ current.path \in Paths /\ current.rest \in Seq(Declarations)
         /\ current.rest # <<>> =>
              /\ declaration \in Declarations /\ declaration = current.rest[1]
              /\ Tail(current.rest) \in Seq(Declarations)
              /\ Next_of(current) = [path |-> current.path, rest |-> Tail(current.rest)]
              /\ Next_of(current) \in Frames
  <1>1. current = imports[1] /\ current \in Frames
    BY Popped DEF Types, current
  <1>2. current = [path |-> current.path, rest |-> current.rest]
        /\ current.path \in Paths /\ current.rest \in Seq(Declarations)
    BY <1>1 DEF Frames
  <1> HIDE DEF current
  <1>3. ASSUME current.rest # <<>>
        PROVE  /\ declaration \in Declarations /\ declaration = current.rest[1]
               /\ Tail(current.rest) \in Seq(Declarations)
    BY <1>2, <1>3, Popped DEF declaration
  <1>4. Next_of(current) = [path |-> current.path, rest |-> Tail(current.rest)]
    BY DEF Next_of
  <1>5. QED
    BY <1>1, <1>2, <1>3, <1>4 DEF Frames

-----------------------------------------------------------------------------
(***************************************************************************)
(* Types.                                                                  *)
(***************************************************************************)
LEMMA TypesHoldFirst ==
  ASSUME Init PROVE Types
  BY StartAssumption DEF Init, Types, Started, Early

\* How a program stops.
LEMMA Stopping ==
  ASSUME Types, status = "running",
         \/ Goes \/ \E c : exit(c)
         \/ \E how \in {"exhausted", "undefined_path", "undefined_var", "null_read",
                        "assert_callstack", "assert_namespace", "assert_function"} : Stops(how)
  PROVE  /\ status' \in {"running", "exit", "exhausted", "undefined_path", "undefined_var",
                         "null_read", "assert_callstack", "assert_namespace", "assert_function"}
         /\ status' = "running" => exit_code' = 0
         /\ exit_code' # 0 => status' = "exit"
  BY DEF Types, Goes, exit, Stops

\* A declaration that imports nothing is done, or ends the program.
LEMMA LeafStep ==
  ASSUME Types, ir_use_library \/ declare_var \/ declare_func
  PROVE  /\ status = "running" /\ phase = "top_levels" /\ current.rest # <<>>
         /\ imports' = <<Next_of(current)>> \o Tail(imports)
         /\ UNCHANGED <<arguments, disk, phase, read, clock>>
         /\ \/ Goes \/ \E c : exit(c)
            \/ \E how \in {"undefined_var", "assert_callstack", "assert_function"} : Stops(how)
  <1>1. CASE ir_use_library
    BY <1>1 DEF ir_use_library, Declares, In, Advance, Advanced, ir_error
  <1>2. CASE declare_func
    BY <1>2 DEF declare_func, Declares, In, Advance, Advanced, scope_add, ir_error
  <1>3. CASE declare_var
    <2>1. status = "running" /\ phase = "top_levels" /\ current.rest # <<>> /\ Advance
          /\ UNCHANGED <<arguments, disk, phase, read, clock>>
      BY <1>3 DEF declare_var, Declares, In
    <2>2. \/ \E x, y : scope_add(x, y)
          \/ \E b \in BOOLEAN : ir_error(b)
          \/ \E how \in {"undefined_var", "assert_function"} : Stops(how)
      BY <1>3 DEF declare_var
    <2>3. QED
      BY <2>1, <2>2 DEF Advance, Advanced, scope_add, ir_error
  <1>4. QED
    BY <1>1, <1>2, <1>3

\* The stack of imports after a declaration.
LEMMA AdvancedFrames ==
  ASSUME Types, imports # <<>>, current.rest # <<>>,
         imports' = <<Next_of(current)>> \o Tail(imports)
  PROVE  imports' \in Seq(Frames) /\ Len(imports') = Len(imports) /\ imports' # <<>>
  <1>1. Next_of(current) \in Frames /\ imports \in Seq(Frames)
    BY Current DEF Types
  <1>2. imports' \in Seq(Frames) /\ Len(imports') = Len(imports)
    BY <1>1, Replaced
  <1>3. Len(imports) # 0
    BY <1>1
  <1>4. QED
    BY <1>2, <1>3

LEMMA TypesKept ==
  ASSUME Types, Opening, [Next]_vars
  PROVE  Types'
  <1> USE StartAssumption
  <1>1. CASE UNCHANGED vars
    BY <1>1 DEF Types, vars, arguments, names, clock
  <1>2. CASE TakeFile
    <2>1. argv[last_arg] \in Arguments /\ last_arg + 1 \in 1..(Len(argv) + 1)
      BY <1>2 DEF Types, TakeFile
    <2>2. filename' \in Seq(STRING)
      BY <1>2, <2>1 DEF TakeFile, Arguments
    <2>3. QED
      BY <1>2, <2>1, <2>2 DEF Types, TakeFile, In, names, clock, Early, Started
  <1>3. CASE TakeOption
    BY <1>3 DEF Types, TakeOption, In, names, clock, Early, Started
  <1>4. CASE Usage
    BY <1>4 DEF Types, Usage, In, exit, arguments, names, clock, Early, Started
  <1>5. CASE lexer
    BY <1>5 DEF Types, lexer, In, exit, Goes, arguments, names, clock, Early, Started
  <1>6. CASE parser
    <2>1. filename \in Paths /\ <<filename>> \in Seq(Paths)
      BY <1>6 DEF Types, Opening, parser, In
    <2>2. \/ Goes \/ \E c : exit(c)
          \/ \E how \in {"undefined_path"} : Stops(how)
      <3> DEFINE fault == Fault(filename)
                 bad == disk[filename][fault].kind = "error"
      <3>1. (CASE fault = 0 -> Goes [] fault # 0 /\ bad -> exit(1) [] OTHER -> Stops("undefined_path"))
        BY <1>6 DEF parser
      <3> HIDE DEF fault, bad
      <3>2. QED
        BY <3>1
    <2>3. UNCHANGED <<arguments, disk, imports, names>> /\ phase' = "ir" /\ read' = <<filename>>
          /\ status = "running" /\ phase = "parser"
      BY <1>6 DEF parser, In
    <2>4. QED
      BY <2>1, <2>2, <2>3, Stopping DEF Types, arguments, Early, Started
  <1>7. CASE init_ir
    <2>1. filename \in Paths /\ disk[filename] \in Seq(Declarations)
      BY <1>7 DEF Types, Opening, init_ir, In
    <2>2. [path |-> filename, rest |-> disk[filename]] \in Frames
      BY <2>1 DEF Frames
    <2>3. imports' \in Seq(Frames) /\ Len(imports') = 1 /\ imports' # <<>>
      <3> DEFINE frame == [path |-> filename, rest |-> disk[filename]]
      <3>1. imports' = <<frame>> /\ frame \in Frames
        BY <1>7, <2>2 DEF init_ir
      <3> HIDE DEF frame
      <3>2. QED
        BY <3>1
    <2>4. /\ status = "running" /\ phase' = "top_levels" /\ UNCHANGED <<arguments, disk, names, read>>
          /\ Goes \/ \E how \in {"null_read"} : Stops(how)
      BY <1>7 DEF init_ir, In, for_array
    <2>5. QED
      BY <2>3, <2>4, Stopping DEF Types, arguments
  <1>8. CASE ir_import_file
    <2> DEFINE path == ImportPath(current.path, declaration.path)
               good == Readable(path) /\ Parses(path)
               frame == [path |-> path, rest |-> disk[path]]
    <2>1. status = "running" /\ phase = "top_levels" /\ current.rest # <<>>
          /\ UNCHANGED <<arguments, disk, phase, names, clock>>
      BY <1>8 DEF ir_import_file, Declares, In
    <2>2. imports # <<>> /\ current \in Frames
      BY <2>1, Current DEF Types
    <2>3. good => path \in Paths /\ frame \in Frames
      BY DEF Types, Readable, Frames
    <2>4. read' \in Seq(Paths)
      <3>1. read' = IF good THEN Append(read, path) ELSE read
        BY <1>8 DEF ir_import_file
      <3> HIDE DEF good, path
      <3>2. QED
        BY <2>3, <3>1 DEF Types
    <2>5. \/ imports' = imports
          \/ good /\ imports' = <<frame>> \o (<<Next_of(current)>> \o Tail(imports))
      BY <1>8 DEF ir_import_file, Import, Advanced
    <2>6. imports' \in Seq(Frames) /\ Len(imports') \in {Len(imports), Len(imports) + 1} /\ imports' # <<>>
      <3>1. CASE imports' = imports
        BY <2>2, <3>1 DEF Types
      <3>2. CASE good /\ imports' = <<frame>> \o (<<Next_of(current)>> \o Tail(imports))
        <4> DEFINE waiting == <<Next_of(current)>> \o Tail(imports)
        <4>1. waiting \in Seq(Frames) /\ Len(waiting) = Len(imports)
          BY <2>1, <2>2, Current, Replaced DEF Types
        <4>1a. good /\ imports' = <<frame>> \o waiting
          BY <3>2
        <4> HIDE DEF waiting, frame
        <4>2. imports' \in Seq(Frames) /\ Len(imports') = Len(waiting) + 1
          BY <2>3, <4>1, <4>1a, Pushed
        <4>3. QED
          BY <4>1, <4>2
      <3>3. QED
        BY <2>5, <3>1, <3>2
    <2>7. /\ \/ Goes /\ Len(imports') <= MaxDepth
             \/ \E c : exit(c)
             \/ \E how \in {"assert_namespace", "exhausted", "null_read"} : Stops(how)
      <3>1. declaration.kind \in {"import", "import_as"}
        BY <1>8 DEF ir_import_file, Declares
      <3>2. CASE ~good
        BY <1>8, <3>2 DEF ir_import_file
      <3>3. CASE good /\ declaration.kind = "import_as"
        BY <1>8, <3>3 DEF ir_import_file
      <3>4. CASE good /\ declaration.kind = "import" /\ ~(Len(imports) < MaxDepth)
        BY <1>8, <3>4 DEF ir_import_file
      <3>5. CASE good /\ declaration.kind = "import" /\ Len(imports) < MaxDepth
        <4>1. Goes \/ \E how \in {"null_read"} : Stops(how)
          BY <1>8, <3>5 DEF ir_import_file, for_array
        <4>2. QED
          BY <2>6, <3>5, <4>1 DEF Types
      <3>6. QED
        BY <3>1, <3>2, <3>3, <3>4, <3>5
    <2>8. /\ status' \in {"running", "exit", "exhausted", "undefined_path", "undefined_var",
                         "null_read", "assert_callstack", "assert_namespace", "assert_function"}
          /\ status' = "running" => exit_code' = 0
          /\ exit_code' # 0 => status' = "exit"
      BY <2>1, <2>7, Stopping
    <2>9. status' = "running" => Len(imports') <= MaxDepth
      BY <2>1, <2>7 DEF exit, Stops
    <2>10. QED
      <3> HIDE DEF path, good, frame
      <3>1. QED
        BY <2>1, <2>2, <2>4, <2>6, <2>8, <2>9 DEF Types, arguments
  <1>9. CASE ir_use_library \/ declare_var \/ declare_func
    <2>1. /\ status = "running" /\ phase = "top_levels" /\ current.rest # <<>>
          /\ imports' = <<Next_of(current)>> \o Tail(imports)
          /\ UNCHANGED <<arguments, disk, phase, read, clock>>
          /\ \/ Goes \/ \E c : exit(c)
             \/ \E how \in {"undefined_var", "assert_callstack", "assert_function"} : Stops(how)
      BY <1>9, LeafStep
    <2>2. imports' \in Seq(Frames) /\ Len(imports') = Len(imports) /\ imports' # <<>>
      BY <2>1, AdvancedFrames DEF Types
    <2>3. /\ status' \in {"running", "exit", "exhausted", "undefined_path", "undefined_var",
                         "null_read", "assert_callstack", "assert_namespace", "assert_function"}
          /\ status' = "running" => exit_code' = 0
          /\ exit_code' # 0 => status' = "exit"
      BY <2>1, Stopping
    <2>4. QED
      BY <2>1, <2>2, <2>3 DEF Types, arguments
  <1>10. CASE file_ends
    <2>1. Tail(imports) \in Seq(Frames) /\ Len(Tail(imports)) = Len(imports) - 1
          /\ Len(imports) \in Nat \ {0}
      BY <1>10, Popped DEF Types, file_ends, In
    <2>2. QED
      <3>1. imports' \in Seq(Frames) /\ Len(imports') = Len(imports) - 1 /\ Len(imports) \in Nat \ {0}
            /\ phase' = (IF Len(imports) = 1 THEN "globals" ELSE phase)
            /\ phase = "top_levels" /\ status = "running"
            /\ UNCHANGED <<arguments, disk, names, clock, status, exit_code, read>>
        <4>1. /\ imports' = Tail(imports)
              /\ phase' = IF Len(imports) = 1 THEN "globals" ELSE phase
              /\ phase = "top_levels" /\ status = "running"
              /\ UNCHANGED <<arguments, disk, names, clock, status, exit_code, read>>
          BY <1>10 DEF file_ends, In
        <4>2. QED
          BY <2>1, <4>1
      <3>2. imports' # <<>> <=> Len(imports') # 0
        <4>1. imports' \in Seq(Frames)
          BY <3>1
        <4> HIDE <1>10
        <4>2. QED
          BY <4>1, EmptySeq
      <3>3. QED
        BY <3>1, <3>2 DEF Types, arguments, Early, Started
  <1>11. CASE add_globals
    BY <1>11 DEF Types, add_globals, In, arguments, clock, Early, Started
  <1>12. CASE ir_run
    BY <1>12 DEF Types, ir_run, In, exit, Stops, Goes, ir_error, arguments, names, Early, Started
  <1>13. CASE main_returns
    BY <1>13 DEF Types, main_returns, In, exit, arguments, names, Early, Started
  <1>14. QED
    BY <1>1, <1>2, <1>3, <1>4, <1>5, <1>6, <1>7, <1>8, <1>9, <1>10, <1>11, <1>12, <1>13 DEF Next

-----------------------------------------------------------------------------
(***************************************************************************)
(* The command line.                                                       *)
(***************************************************************************)
\* Only the loop over the arguments changes what is known of them.
LEMMA ArgumentsStay ==
  ASSUME Types, [Next]_vars, ~TakeFile, ~TakeOption
  PROVE  UNCHANGED <<argv, last_arg, options, filename>> /\ (phase = "options" <=> phase' = "options")
  <1>1. CASE UNCHANGED vars
    BY <1>1 DEF vars, arguments
  <1>2. CASE Usage
    BY <1>2 DEF Usage, arguments
  <1>3. CASE lexer
    BY <1>3 DEF lexer, arguments, In
  <1>4. CASE parser
    BY <1>4 DEF parser, arguments, In
  <1>5. CASE init_ir
    BY <1>5 DEF init_ir, arguments, In
  <1>6. CASE ir_import_file
    BY <1>6 DEF ir_import_file, arguments
  <1>7. CASE ir_use_library \/ declare_var \/ declare_func
    BY <1>7, LeafStep DEF arguments
  <1>8. CASE file_ends
    BY <1>8 DEF file_ends, arguments, In
  <1>9. CASE add_globals
    BY <1>9 DEF add_globals, arguments, In
  <1>10. CASE ir_run
    BY <1>10 DEF ir_run, arguments, In
  <1>11. CASE main_returns
    BY <1>11 DEF main_returns, arguments, In
  <1>12. QED
    BY <1>1, <1>2, <1>3, <1>4, <1>5, <1>6, <1>7, <1>8, <1>9, <1>10, <1>11 DEF Next

LEMMA ArguingKept ==
  ASSUME Types, Arguing, [Next]_vars
  PROVE  Arguing'
  <1>1. CASE TakeFile
    <2>1. /\ phase = "options" /\ phase' = "lexer" /\ last_arg \in 1..Len(argv) /\ Len(argv) \in Nat
          /\ argv[last_arg].kind = "file" /\ filename' = argv[last_arg].path
          /\ last_arg' = last_arg + 1 /\ argv' = argv /\ options' = options
      BY <1>1 DEF TakeFile, In, Types
    <2>2. OptionsOf(last_arg - 1) /\ last_arg' - 2 = last_arg - 1 /\ last_arg' - 1 = last_arg
      BY <2>1 DEF Arguing
    <2>3. /\ options' = {argv'[j].kind : j \in 1..(last_arg' - 2)} \cap {"timings", "silent"}
          /\ \A j \in 1..(last_arg' - 2) : argv'[j].kind # "file"
      BY <2>1, <2>2 DEF OptionsOf
    <2>4. last_arg' \in 2..(Len(argv') + 1) /\ argv'[last_arg' - 1].kind = "file"
          /\ argv'[last_arg' - 1].path = filename'
      BY <2>1, <2>2
    <2>5. QED
      BY <2>1, <2>3, <2>4 DEF Arguing, OptionsOf
  <1>2. CASE TakeOption
    <2>1. /\ phase = "options" /\ phase' = phase /\ last_arg \in 1..Len(argv) /\ Len(argv) \in Nat
          /\ argv[last_arg].kind \in {"timings", "silent"}
          /\ last_arg' = last_arg + 1 /\ argv' = argv
          /\ options' = options \cup {argv[last_arg].kind}
      BY <1>2 DEF TakeOption, In, Types
    <2>2. OptionsOf(last_arg - 1) /\ last_arg' - 1 = last_arg
      BY <2>1 DEF Arguing
    <2>3. 1..last_arg = (1..(last_arg - 1)) \cup {last_arg}
      BY <2>1
    <2>4. /\ options' = {argv'[j].kind : j \in 1..(last_arg' - 1)} \cap {"timings", "silent"}
          /\ \A j \in 1..(last_arg' - 1) : argv'[j].kind # "file"
      BY <2>1, <2>2, <2>3 DEF OptionsOf
    <2>5. QED
      BY <2>1, <2>4 DEF Arguing, OptionsOf
  <1>3. CASE ~TakeFile /\ ~TakeOption
    BY <1>3, ArgumentsStay DEF Arguing, OptionsOf
  <1>4. QED
    BY <1>1, <1>2, <1>3

LEMMA ArguingSplits ==
  ASSUME Types, Arguing
  PROVE  ArgumentsSplit
  <1>1. SUFFICES ASSUME phase # "options"
                 PROVE  \E i \in DOMAIN argv :
                          /\ argv[i].kind = "file" /\ argv[i].path = filename
                          /\ options = {argv[j].kind : j \in 1..(i - 1)} \cap {"timings", "silent"}
                          /\ \A j \in 1..(i - 1) : argv[j].kind # "file"
                          /\ SubSeq(argv, last_arg, Len(argv)) = SubSeq(argv, i + 1, Len(argv))
    BY DEF ArgumentsSplit
  <1> DEFINE i == last_arg - 1
  <1>2. last_arg \in 2..(Len(argv) + 1) /\ OptionsOf(last_arg - 2) /\ Len(argv) \in Nat
        /\ argv[i].kind = "file" /\ argv[i].path = filename
    BY <1>1 DEF Arguing, Types
  <1>3. i \in DOMAIN argv /\ i - 1 = last_arg - 2 /\ i + 1 = last_arg
    BY <1>2 DEF Types
  <1>4. options = {argv[j].kind : j \in 1..(i - 1)} \cap {"timings", "silent"}
        /\ \A j \in 1..(i - 1) : argv[j].kind # "file"
    BY <1>2, <1>3 DEF OptionsOf
  <1> HIDE DEF i
  <1>5. QED
    BY <1>2, <1>3, <1>4

-----------------------------------------------------------------------------
(***************************************************************************)
(* Timings.                                                                *)
(***************************************************************************)
\* Stopping the current section changes nothing but when it ends.
LEMMA SectionStops ==
  ASSUME NEW t \in Nat, sections \in Seq(Sections)
  PROVE  /\ stop_current_section(t) \in Seq(Sections)
         /\ Len(stop_current_section(t)) = Len(sections)
         /\ \A i \in 1..Len(sections) :
              /\ stop_current_section(t)[i].start = sections[i].start
              /\ stop_current_section(t)[i].finish = IF i = Len(sections) THEN t ELSE sections[i].finish
  <1> DEFINE stopped == stop_current_section(t)
             n == Len(sections)
  <1>1. CASE sections = <<>>
    BY <1>1 DEF stop_current_section
  <1>2. CASE sections # <<>>
    <2>1. n \in DOMAIN sections /\ sections[n] \in Sections /\ DOMAIN sections = 1..n /\ n \in Nat
      BY <1>2
    <2> DEFINE last == [sections[n] EXCEPT !.finish = t]
    <2>2. last \in Sections /\ last.start = sections[n].start /\ last.finish = t
      BY <2>1 DEF Sections
    <2>3. stopped = [sections EXCEPT ![n] = last]
      BY <1>2 DEF stop_current_section
    <2> HIDE DEF stopped, last
    <2>4. stopped \in Seq(Sections) /\ Len(stopped) = n
          /\ \A i \in 1..n : stopped[i] = IF i = n THEN last ELSE sections[i]
      BY <2>1, <2>2, <2>3
    <2>5. stopped \in Seq(Sections) /\ Len(stopped) = n
          /\ \A i \in 1..n : /\ stopped[i].start = sections[i].start
                             /\ stopped[i].finish = IF i = n THEN t ELSE sections[i].finish
      BY <2>1, <2>2, <2>4
    <2>6. QED
      BY <2>5 DEF stopped
  <1>3. QED
    BY <1>1, <1>2

LEMMA SectionStarts ==
  ASSUME Timing, phase \notin {"options", "ended"}, NEW label \in Labels, start_section(label),
         phase' \notin {"options", "ended"}
  PROVE  Timing'
  <1>1. PICK stop \in Later, start \in Later :
               /\ stop <= start /\ now' = start /\ total' = total
               /\ sections' = Append(stop_current_section(stop),
                                     [label |-> label, start |-> start, finish |-> 0])
    BY DEF start_section
  <1> DEFINE stopped == stop_current_section(stop)
             new == [label |-> label, start |-> start, finish |-> 0]
             n == Len(sections)
  <1>2. /\ now \in 1..MaxTime /\ now' \in 1..MaxTime /\ MaxTime \in Nat /\ stop \in Nat /\ start \in Nat
        /\ now <= stop /\ stop <= start /\ now' = start /\ new.start = start
        /\ new \in Sections /\ sections \in Seq(Sections)
    BY <1>1, StartAssumption DEF Timing, Sections, Later
  <1>3. stopped \in Seq(Sections) /\ Len(stopped) = n /\ n \in Nat
        /\ \A i \in 1..n : /\ stopped[i].start = sections[i].start
                           /\ stopped[i].finish = IF i = n THEN stop ELSE sections[i].finish
    BY <1>2, SectionStops
  <1>4. sections' = Append(stopped, new)
    BY <1>1
  <1> HIDE DEF stopped, new
  <1>5. sections' \in Seq(Sections) /\ Len(sections') = n + 1 /\ sections' # <<>>
        /\ sections'[n + 1] = new /\ \A i \in 1..n : sections'[i] = stopped[i]
    BY <1>2, <1>3, <1>4
  <1>6. ASSUME NEW i \in 1..n
        PROVE  /\ sections'[i].start <= sections'[i].finish
               /\ sections'[i].finish <= sections'[i + 1].start
    <2>1. CASE i = n
      <3>1. sections # <<>> /\ sections[n].start <= now
        BY <1>2, <1>3, <2>1 DEF Timing
      <3>2. sections'[i].start = sections[n].start /\ sections'[i].finish = stop
            /\ sections'[i + 1].start = start
        BY <1>2, <1>3, <1>5, <2>1
      <3>3. sections[n] \in Sections
        BY <1>2, <1>3, <2>1
      <3>3a. sections[n].start \in Nat
        BY <3>3 DEF Sections
      <3>4. QED
        BY <1>2, <3>1, <3>2, <3>3a
    <2>2. CASE i # n
      <3>1. i \in 1..(Len(sections) - 1) /\ i + 1 \in 1..n
        BY <1>3, <2>2
      <3>2. sections[i].start <= sections[i].finish /\ sections[i].finish <= sections[i + 1].start
        BY <3>1 DEF Timing
      <3>3. sections'[i].start = sections[i].start /\ sections'[i].finish = sections[i].finish
            /\ sections'[i + 1].start = sections[i + 1].start
        BY <1>3, <1>5, <2>2, <3>1
      <3>4. QED
        BY <3>2, <3>3
    <2>3. QED
      BY <2>1, <2>2
  <1>7. sections'[Len(sections')].start <= now'
    BY <1>2, <1>3, <1>5
  <1>8. \A i \in 1..(Len(sections') - 1) : /\ sections'[i].start <= sections'[i].finish
                                           /\ sections'[i].finish <= sections'[i + 1].start
    BY <1>3, <1>5, <1>6
  <1>9. total' \in Totals /\ total'.start <= now' /\ total'.start <= sections'[1].start
    <2>1. total' = total /\ total \in Totals /\ total.start <= now /\ total.start \in Nat
      BY <1>1 DEF Timing, Totals
    <2>2. CASE n = 0
      BY <1>2, <1>5, <2>1, <2>2
    <2>3. CASE n # 0
      <3>1. 1 \in 1..n /\ sections # <<>>
        BY <1>2, <1>3, <2>3
      <3>2. sections'[1].start = sections[1].start /\ total.start <= sections[1].start
        BY <1>3, <1>5, <3>1 DEF Timing
      <3>3. QED
        BY <1>2, <2>1, <3>2
    <2>4. QED
      BY <2>2, <2>3
  <1>10. QED
    BY <1>2, <1>5, <1>7, <1>8, <1>9 DEF Timing

\* The last section and the total time are stopped one after the other.
LEMMA SectionsPrinted ==
  ASSUME Timing, phase = "main", phase' = "ended", timings_print_all
  PROVE  Timing'
  <1>1. PICK stop \in Later, end \in Later :
               /\ stop <= end /\ now' = end
               /\ sections' = stop_current_section(stop) /\ total' = [total EXCEPT !.finish = end]
    BY DEF timings_print_all
  <1> DEFINE n == Len(sections)
  <1>2. /\ now \in 1..MaxTime /\ now' \in 1..MaxTime /\ MaxTime \in Nat /\ stop \in Nat /\ end \in Nat
        /\ now <= stop /\ stop <= end /\ now' = end
        /\ sections \in Seq(Sections) /\ sections # <<>>
    BY <1>1, StartAssumption DEF Timing, Later
  <1>3. n \in Nat /\ n \in 1..n /\ 1 \in 1..n
    BY <1>2
  <1>4. sections' \in Seq(Sections) /\ Len(sections') = n
        /\ \A i \in 1..n : /\ sections'[i].start = sections[i].start
                           /\ sections'[i].finish = IF i = n THEN stop ELSE sections[i].finish
    BY <1>1, <1>2, SectionStops
  <1>5. /\ total \in Totals /\ total.start <= now /\ total.start <= sections[1].start
        /\ sections[n].start <= now
    BY <1>2 DEF Timing
  <1>6. total' \in Totals /\ total'.start = total.start /\ total'.finish = end /\ total.start \in Nat
    BY <1>1, <1>2, <1>5 DEF Totals
  <1>7. ASSUME NEW i \in 1..(n - 1)
        PROVE  /\ sections'[i].start <= sections'[i].finish
               /\ sections'[i].finish <= sections'[i + 1].start
    <2>1. sections[i].start <= sections[i].finish /\ sections[i].finish <= sections[i + 1].start
      BY DEF Timing
    <2>2. i \in 1..n /\ i # n /\ i + 1 \in 1..n
      BY <1>3
    <2>3. QED
      BY <1>4, <2>1, <2>2
  <1>8. sections[n].start \in Nat
    <2>1. sections[n] \in Sections
      BY <1>2, <1>3
    <2>2. QED
      BY <2>1 DEF Sections
  <1>9. sections'[n].start <= now' /\ sections'[n].start <= sections'[n].finish
        /\ sections'[n].finish <= total'.finish /\ sections' # <<>>
        /\ total'.start <= now' /\ total'.start <= sections'[1].start
    BY <1>2, <1>3, <1>4, <1>5, <1>6, <1>8
  <1>10. QED
    BY <1>2, <1>4, <1>6, <1>7, <1>9 DEF Timing

LEMMA TimingKept ==
  ASSUME Types, Timing, [Next]_vars
  PROVE  Timing'
  <1>1. CASE lexer \/ parser \/ init_ir \/ ir_run
    <2>1. \E label \in Labels : start_section(label)
      BY <1>1 DEF lexer, parser, init_ir, ir_run, Labels
    <2>2. phase \notin {"options", "ended"} /\ phase' \notin {"options", "ended"}
      BY <1>1 DEF lexer, parser, init_ir, ir_run, In
    <2>3. QED
      BY <2>1, <2>2, SectionStarts
  <1>2. CASE main_returns
    <2>1. phase = "main" /\ phase' = "ended" /\ options' = options
          /\ IF "timings" \in options THEN timings_print_all ELSE UNCHANGED clock
      BY <1>2 DEF main_returns, In, arguments
    <2>2. CASE "timings" \in options
      BY <2>1, <2>2, SectionsPrinted
    <2>3. CASE "timings" \notin options
      BY <2>1, <2>3 DEF Timing, clock
    <2>4. QED
      BY <2>2, <2>3
  <1>3. CASE TakeFile
    <2>1. phase = "options" /\ phase' = "lexer" /\ timings_init
      BY <1>3 DEF TakeFile, In
    <2>2. PICK start \in Later : now' = start /\ total' = [start |-> start, finish |-> 0]
                                 /\ sections' = sections
      BY <2>1 DEF timings_init
    <2>3. now' \in 1..MaxTime /\ start \in Nat
      BY <2>2, StartAssumption DEF Timing, Later
    <2>4. total' \in Totals /\ total'.start = start
      BY <2>2, <2>3 DEF Totals
    <2>5. sections' = <<>> /\ sections' \in Seq(Sections)
      BY <2>1, <2>2 DEF Timing
    <2>6. QED
      BY <2>1, <2>2, <2>3, <2>4, <2>5 DEF Timing
  <1>4. CASE ~(lexer \/ parser \/ init_ir \/ ir_run \/ main_returns \/ TakeFile)
    <2>1. UNCHANGED <<sections, now, total>>
          /\ (phase' \notin {"options", "lexer"} => phase \notin {"options", "lexer"})
          /\ (phase' = "options" => phase = "options")
          /\ (phase' = "ended" => phase = "ended" /\ options' = options)
      <3>1. CASE UNCHANGED vars
        BY <3>1 DEF vars, clock, arguments
      <3>2. CASE TakeOption
        BY <3>2 DEF TakeOption, clock, In
      <3>3. CASE Usage
        BY <3>3 DEF Usage, clock, arguments
      <3>4. CASE ir_import_file
        BY <3>4 DEF ir_import_file, clock, arguments
      <3>5. CASE ir_use_library \/ declare_var \/ declare_func
        BY <3>5, LeafStep DEF clock, arguments
      <3>6. CASE file_ends
        BY <3>6 DEF file_ends, clock, arguments, In
      <3>7. CASE add_globals
        BY <3>7 DEF add_globals, clock, In
      <3>8. QED
        BY <1>4, <3>1, <3>2, <3>3, <3>4, <3>5, <3>6, <3>7 DEF Next
    <2>2. QED
      BY <2>1 DEF Timing
  <1>5. QED
    BY <1>1, <1>2, <1>3, <1>4

\* What Timing says of two sections is what the property says.
LEMMA TimingOrders ==
  ASSUME Timing
  PROVE  SectionsInOrder
  <1>1. ASSUME phase = "ended", "timings" \in options
        PROVE  /\ Last(sections).start <= Last(sections).finish
               /\ Last(sections).finish <= total.finish
    BY <1>1 DEF Timing, Last
  <1>2. ASSUME sections # <<>>
        PROVE  total.start <= Head(sections).start
    BY <1>2 DEF Timing
  <1>3. QED
    BY <1>1, <1>2 DEF Timing, SectionsInOrder

-----------------------------------------------------------------------------
(***************************************************************************)
(* The names.                                                              *)
(***************************************************************************)
\* A declaration that imports nothing ends the program and changes no name,
\* or it adds what it declares, which was not there.
LEMMA LeafNames ==
  ASSUME Types, ir_use_library \/ declare_var \/ declare_func
  PROVE  /\ declaration \in Declarations /\ ~IsImport(declaration)
         /\ \/ status' # "running" /\ UNCHANGED names
            \/ /\ declaration.kind = "use" /\ "gfx" \notin global_scope
               /\ global_scope' = global_scope \cup {"gfx"} /\ UNCHANGED <<file_scope, bound>>
            \/ /\ declaration.kind \in {"var", "func"} /\ declaration.name \notin DOMAIN file_scope
               /\ bound' = Append(bound, declaration.name)
               /\ DOMAIN file_scope' = DOMAIN file_scope \cup {declaration.name}
               /\ global_scope' = global_scope
               /\ declaration.kind = "var" /\ declaration.ref.kind \in {"read", "call"}
                    => declaration.ref.name \in DOMAIN file_scope \cup global_scope
  <1>1. /\ declaration \in Declarations /\ current.rest # <<>>
        /\ declaration.kind \in {"use", "var", "func"}
    <2>1. status = "running" /\ phase = "top_levels" /\ current.rest # <<>>
      BY LeafStep
    <2>2. declaration \in Declarations
      BY <2>1, Current DEF Types
    <2>3. QED
      BY <2>1, <2>2 DEF ir_use_library, declare_var, declare_func, Declares
  <1>2. ~IsImport(declaration)
    BY <1>1 DEF IsImport
  <1>3. ASSUME NEW how, Stops(how), how # "running" PROVE status' # "running"
    BY <1>3 DEF Stops
  <1>4. ASSUME NEW c, exit(c) PROVE status' # "running"
    BY <1>4 DEF exit
  <1>5. ASSUME NEW b \in BOOLEAN, ir_error(b) PROVE status' # "running"
    BY <1>3, <1>4, <1>5 DEF ir_error
  <1>6. ASSUME NEW name, NEW symbol, scope_add(name, symbol)
        PROVE  \/ status' # "running" /\ UNCHANGED names
               \/ /\ name \notin DOMAIN file_scope /\ bound' = Append(bound, name)
                  /\ DOMAIN file_scope' = DOMAIN file_scope \cup {name}
                  /\ global_scope' = global_scope
    <2>1. CASE AlreadyThere(name)
      BY <1>5, <1>6, <2>1 DEF scope_add
    <2>2. CASE ~AlreadyThere(name)
      BY <1>6, <2>2 DEF scope_add, AlreadyThere
    <2>3. QED
      BY <2>1, <2>2
  <1>7. CASE ir_use_library
    <2>1. declaration.kind = "use" /\ UNCHANGED <<file_scope, bound>>
      BY <1>7 DEF ir_use_library, Declares
    <2>2. \/ "gfx" \notin global_scope /\ global_scope' = global_scope \cup {"gfx"}
          \/ global_scope' = global_scope /\ ir_error(FALSE)
      BY <1>7 DEF ir_use_library
    <2>3. QED
      BY <1>1, <1>2, <1>5, <2>1, <2>2 DEF names
  <1>8. CASE declare_func
    <2>1. declaration.kind = "func" /\ \E symbol : scope_add(declaration.name, symbol)
      BY <1>8 DEF declare_func, Declares
    <2>2. QED
      BY <1>1, <1>2, <1>6, <2>1
  <1>9. CASE declare_var
    <2>1. declaration.kind = "var"
      BY <1>9 DEF declare_var, Declares
    <2>2. \/ UNCHANGED names /\ \E b \in BOOLEAN : ir_error(b)
          \/ UNCHANGED names /\ \E how \in {"undefined_var", "assert_function"} : Stops(how)
          \/ /\ \E symbol : scope_add(declaration.name, symbol)
             /\ declaration.ref.kind \in {"read", "call"} => Defined(declaration.ref.name)
      BY <1>9 DEF declare_var
    <2>3. CASE UNCHANGED names /\ \E b \in BOOLEAN : ir_error(b)
      BY <1>1, <1>2, <1>5, <2>3
    <2>4. CASE UNCHANGED names /\ \E how \in {"undefined_var", "assert_function"} : Stops(how)
      BY <1>1, <1>2, <1>3, <2>4
    <2>5. CASE /\ \E symbol : scope_add(declaration.name, symbol)
               /\ declaration.ref.kind \in {"read", "call"} => Defined(declaration.ref.name)
      BY <1>1, <1>2, <1>6, <2>1, <2>5 DEF Defined
    <2>6. QED
      BY <2>2, <2>3, <2>4, <2>5
  <1>10. QED
    BY <1>7, <1>8, <1>9

LEMMA ScopingKept ==
  ASSUME Types, Scoping, [Next]_vars
  PROVE  Scoping'
  <1>1. CASE ir_use_library \/ declare_var \/ declare_func
    <2>1. phase = "top_levels" /\ phase' = "top_levels" /\ declaration \in Declarations
      BY <1>1, LeafStep, LeafNames
    <2>2. CASE UNCHANGED names
      BY <2>1, <2>2 DEF Scoping, names, Early
    <2>3. CASE global_scope' = global_scope \cup {"gfx"} /\ UNCHANGED <<file_scope, bound>>
      BY <2>1, <2>3 DEF Scoping, Early
    <2>4. CASE /\ declaration.name \notin DOMAIN file_scope
               /\ bound' = Append(bound, declaration.name)
               /\ DOMAIN file_scope' = DOMAIN file_scope \cup {declaration.name}
               /\ global_scope' = global_scope
      <3> DEFINE name == declaration.name
      <3>1. name \in STRING /\ bound \in Seq(STRING)
        BY <2>1 DEF Declarations, Scoping
      <3>2. /\ bound' \in Seq(STRING) /\ Len(bound') = Len(bound) + 1 /\ Len(bound) \in Nat
            /\ DOMAIN bound' = 1..(Len(bound) + 1) /\ DOMAIN bound = 1..Len(bound)
            /\ \A i \in 1..Len(bound) : bound'[i] = bound[i]
            /\ bound'[Len(bound) + 1] = name
        BY <2>4, <3>1
      <3>3. name \notin ToSet(bound)
        BY <2>4 DEF Scoping
      <3> HIDE DEF name
      <3>4. ToSet(bound') = ToSet(bound) \cup {name}
        BY <3>2 DEF ToSet
      <3>5. IsInjective(bound')
        BY <3>2, <3>3 DEF Scoping, IsInjective, ToSet
      <3>6. ToSet(bound') = DOMAIN file_scope'
        BY <2>4, <3>4 DEF name, Scoping
      <3>7. QED
        BY <2>1, <2>4, <3>2, <3>5, <3>6 DEF Scoping, Early
    <2>5. QED
      BY <1>1, <2>2, <2>3, <2>4, LeafNames
  <1>2. CASE UNCHANGED vars
    BY <1>2 DEF vars, names, Scoping
  <1>3. CASE TakeFile
    BY <1>3 DEF TakeFile, names, Scoping, In, Early
  <1>4. CASE TakeOption
    BY <1>4 DEF TakeOption, names, Scoping, In, Early
  <1>5. CASE Usage
    BY <1>5 DEF Usage, names, Scoping, In, Early
  <1>6. CASE lexer
    BY <1>6 DEF lexer, names, Scoping, In, Early
  <1>7. CASE parser
    BY <1>7 DEF parser, names, Scoping, In, Early
  <1>8. CASE init_ir
    BY <1>8 DEF init_ir, names, Scoping, In, Early
  <1>9. CASE ir_import_file
    BY <1>9 DEF ir_import_file, names, Scoping, Declares, In, Early
  <1>10. CASE file_ends
    BY <1>10 DEF file_ends, names, Scoping, In, Early
  <1>11. CASE add_globals
    BY <1>11 DEF add_globals, names, Scoping, In, Early
  <1>12. CASE ir_run
    BY <1>12 DEF ir_run, names, Scoping, In, Early
  <1>13. CASE main_returns
    BY <1>13 DEF main_returns, names, Scoping, In, Early
  <1>14. QED
    BY <1>1, <1>2, <1>3, <1>4, <1>5, <1>6, <1>7, <1>8, <1>9, <1>10, <1>11, <1>12, <1>13 DEF Next

\* The script is there once the lexer has it.
LEMMA OpeningKept ==
  ASSUME Types, Opening, [Next]_vars
  PROVE  Opening'
  <1>1. CASE UNCHANGED vars
    BY <1>1 DEF vars, arguments, Opening
  <1>2. CASE TakeFile \/ TakeOption \/ Usage
    BY <1>2 DEF TakeFile, TakeOption, Usage, In, Opening
  <1>3. CASE lexer
    BY <1>3 DEF lexer, In, exit, Readable, arguments, Opening
  <1>4. CASE parser
    <2>1. phase' = "ir" /\ read' = <<filename>> /\ UNCHANGED <<arguments, disk>>
          /\ filename \in DOMAIN disk
      BY <1>4 DEF parser, In, Opening
    <2>2. QED
      BY <2>1 DEF Opening, arguments
  <1>5. CASE phase' \notin {"parser", "ir"}
    BY <1>5 DEF Opening
  <1>6. ASSUME Next, ~(TakeFile \/ TakeOption \/ Usage \/ lexer \/ parser)
        PROVE  phase' \notin {"parser", "ir"}
    <2>1. CASE init_ir
      BY <2>1 DEF init_ir
    <2>2. CASE ir_import_file
      BY <2>2 DEF ir_import_file, Declares, In
    <2>3. CASE ir_use_library \/ declare_var \/ declare_func
      BY <2>3, LeafStep
    <2>4. CASE file_ends
      BY <2>4 DEF file_ends, In
    <2>5. CASE add_globals \/ ir_run \/ main_returns
      BY <2>5 DEF add_globals, ir_run, main_returns
    <2>6. QED
      BY <1>6, <2>1, <2>2, <2>3, <2>4, <2>5 DEF Next
  <1>7. QED
    BY <1>1, <1>2, <1>3, <1>4, <1>5, <1>6 DEF Next

-----------------------------------------------------------------------------
(***************************************************************************)
(* Declarations and imports.                                               *)
(***************************************************************************)
LEMMA WholeIsRest ==
  ASSUME NEW S, NEW all \in Seq(S)
  PROVE  IsRest(all, all)
  BY DEF IsRest

LEMMA TailIsRest ==
  ASSUME NEW S, NEW all \in Seq(S), NEW rest \in Seq(S), rest # <<>>, IsRest(rest, all)
  PROVE  /\ IsRest(Tail(rest), all) /\ Len(Tail(rest)) < Len(all)
         /\ Len(all) - Len(Tail(rest)) = Len(all) - Len(rest) + 1
         /\ rest[1] = all[Len(all) - Len(rest) + 1]
         /\ Len(all) - Len(rest) + 1 \in DOMAIN all
  <1>1. /\ Tail(rest) \in Seq(S) /\ Len(Tail(rest)) = Len(rest) - 1 /\ Len(rest) \in Nat \ {0}
        /\ \A i \in DOMAIN Tail(rest) : i + 1 \in DOMAIN rest /\ Tail(rest)[i] = rest[i + 1]
    BY Popped
  <1>2. Len(rest) <= Len(all) /\ Len(all) \in Nat
        /\ \A i \in DOMAIN rest : rest[i] = all[Len(all) - Len(rest) + i]
    BY DEF IsRest
  <1>3. Len(Tail(rest)) < Len(all) /\ Len(all) - Len(Tail(rest)) = Len(all) - Len(rest) + 1
    BY <1>1, <1>2
  <1>4. ASSUME NEW i \in DOMAIN Tail(rest)
        PROVE  Tail(rest)[i] = all[Len(all) - Len(Tail(rest)) + i]
    <2>1. i \in Nat
      BY <1>1
    <2>2. Len(all) - Len(Tail(rest)) + i = Len(all) - Len(rest) + (i + 1)
      BY <1>1, <1>2, <2>1
    <2>3. QED
      BY <1>1, <1>2, <2>2
  <1>5. 1 \in DOMAIN rest /\ Len(all) - Len(rest) + 1 \in DOMAIN all
    BY <1>1, <1>2
  <1>6. QED
    BY <1>2, <1>3, <1>4, <1>5 DEF IsRest

\* The file at the top has been read, and its declaration is one of the file's.
LEMMA CurrentFramed ==
  ASSUME Types, Framed, imports # <<>>
  PROVE  /\ \E j \in DOMAIN read : read[j] = current.path
         /\ current.path \in DOMAIN disk /\ disk[current.path] \in Seq(Declarations)
         /\ IsRest(current.rest, disk[current.path])
         /\ current.rest # <<>> =>
              /\ IsRest(Tail(current.rest), disk[current.path])
              /\ Len(Tail(current.rest)) < Len(disk[current.path])
              /\ Len(disk[current.path]) - Len(Tail(current.rest))
                   = Len(disk[current.path]) - Len(current.rest) + 1
              /\ declaration = disk[current.path][Len(disk[current.path]) - Len(current.rest) + 1]
              /\ Len(disk[current.path]) - Len(current.rest) + 1 \in DOMAIN disk[current.path]
  <1>1. current = imports[1] /\ 1 \in DOMAIN imports /\ current.rest \in Seq(Declarations)
        /\ (current.rest # <<>> => declaration = current.rest[1])
    BY Current DEF Types
  <1> HIDE DEF current, declaration
  <1>2. (\E j \in DOMAIN read : read[j] = current.path) /\ IsRest(current.rest, disk[current.path])
    BY <1>1 DEF Framed
  <1>3. current.path \in DOMAIN disk /\ disk[current.path] \in Seq(Declarations)
    BY <1>2 DEF Framed, Types
  <1>4. QED
    BY <1>1, <1>2, <1>3, TailIsRest

LEMMA NextOrLater ==
  ASSUME NEW a \in Nat, NEW b \in Nat, NEW i \in Nat, a - b < i
  PROVE  i = (a - b) + 1 \/ (a - b) + 1 < i
  OBVIOUS

\* What is pending is the declaration at the top, comes later in the file at
\* the top, or is pending further down.
LEMMA PendingOrCurrent ==
  ASSUME Types, Framed, imports # <<>>, current.rest # <<>>,
         NEW j \in DOMAIN read, NEW i \in DOMAIN disk[read[j]], Pending(j, i)
  PROVE  \/ current.path = read[j] /\ disk[read[j]][i] = declaration
         \/ current.path = read[j] /\ Len(disk[read[j]]) - Len(Tail(current.rest)) < i
         \/ \E f \in DOMAIN imports : /\ f > 1 /\ imports[f].path = read[j]
                                      /\ Len(disk[read[j]]) - Len(imports[f].rest) < i
  <1>1. PICK f \in DOMAIN imports : imports[f].path = read[j]
                                    /\ Len(disk[read[j]]) - Len(imports[f].rest) < i
    BY DEF Pending
  <1>2. f \in Nat /\ f >= 1 /\ current = imports[1]
    BY Current DEF Types
  <1>3. CASE f > 1
    BY <1>1, <1>3
  <1>4. CASE f = 1
    <2>1. current.path = read[j] /\ Len(disk[read[j]]) - Len(current.rest) < i
      BY <1>1, <1>2, <1>4
    <2>2. disk[read[j]] \in Seq(Declarations) /\ current.rest \in Seq(Declarations)
          /\ Len(disk[read[j]]) - Len(Tail(current.rest)) = Len(disk[read[j]]) - Len(current.rest) + 1
          /\ declaration = disk[read[j]][Len(disk[read[j]]) - Len(current.rest) + 1]
      BY <2>1, CurrentFramed, Current
    <2>3. i \in Nat /\ Len(disk[read[j]]) \in Nat /\ Len(current.rest) \in Nat
      BY <2>2
    <2> DEFINE done == Len(disk[read[j]]) - Len(current.rest)
    <2>4. i = done + 1 \/ done + 1 < i
      BY <2>1, <2>3, NextOrLater
    <2>5. QED
      BY <2>1, <2>2, <2>4
  <1>5. f = 1 \/ f > 1
    BY <1>2
  <1>6. QED
    BY <1>3, <1>4, <1>5

\* What has had its effect keeps it.
LEMMA HandledStays ==
  ASSUME NEW j \in DOMAIN read, NEW i, Handled(j, i), disk' = disk,
         DOMAIN read \subseteq DOMAIN read', \A k \in DOMAIN read : read'[k] = read[k],
         DOMAIN file_scope \subseteq DOMAIN file_scope', global_scope \subseteq global_scope'
  PROVE  Handled(j, i)'
  <1> DEFINE d == disk[read[j]][i]
  <1>1. disk'[read'[j]][i] = d
    OBVIOUS
  <1>2. IsImport(d) => \E k \in DOMAIN read' : j < k /\ read'[k] = ImportPath(read[j], d.path)
    BY DEF Handled
  <1>3. /\ d.kind \in {"var", "func"} => d.name \in DOMAIN file_scope'
        /\ d.kind = "use" => "gfx" \in global_scope'
        /\ d.kind = "var" /\ d.ref.kind \in {"read", "call"} /\ d.ref.name \in Natives
             => d.ref.name \in DOMAIN file_scope'
    BY DEF Handled
  <1> HIDE DEF d
  <1>4. QED
    BY <1>1, <1>2, <1>3 DEF Handled

\* A script that declares nothing stops the program in init_ir.
LEMMA NothingBegins ==
  ASSUME init_ir, disk[filename] = <<>>
  PROVE  phase' = "top_levels" /\ status' = "null_read"
  BY DEF init_ir, for_array, Stops

\* init_ir begins with any other script.
LEMMA ImportingBegins ==
  ASSUME Types, Scoping, Opening, init_ir, disk[filename] # <<>>
  PROVE  Importing'
  <1>1. /\ status = "running" /\ phase' = "top_levels" /\ filename' = filename
        /\ disk' = disk /\ read' = read /\ filename \in DOMAIN disk
        /\ disk[filename] # <<>> /\ read = <<filename>>
        /\ imports' = <<[path |-> filename, rest |-> disk[filename]]>>
    BY DEF init_ir, In, arguments, Opening
  <1> DEFINE frame == [path |-> filename, rest |-> disk[filename]]
             all == disk[filename]
  <1>2. imports' = <<frame>> /\ frame.path = filename /\ frame.rest = all
        /\ all \in Seq(Declarations) /\ Len(all) \in Nat /\ IsRest(all, all)
    BY <1>1, WholeIsRest DEF Types
  <1> HIDE DEF frame
  <1>3. /\ DOMAIN imports' = {1} /\ imports'[1] = frame /\ imports' # <<>>
        /\ DOMAIN read' = {1} /\ read'[1] = filename /\ read' # <<>> /\ Len(read') = 1
    BY <1>1, <1>2
  <1>4. Framed'
    <2>1. (imports' = <<>>) <=> phase' \in Started
      BY <1>1, <1>3 DEF Started
    <2>2. ASSUME NEW f \in DOMAIN imports'
          PROVE  /\ \E j \in DOMAIN read' : read'[j] = imports'[f].path
                 /\ IsRest(imports'[f].rest, disk'[imports'[f].path])
                 /\ f > 1 => Len(imports'[f].rest) < Len(disk'[imports'[f].path])
      <3>1. f = 1 /\ imports'[f].path = filename /\ imports'[f].rest = all
        BY <1>2, <1>3
      <3>2. QED
        BY <1>1, <1>2, <1>3, <3>1
    <2>3. QED
      BY <1>1, <1>3, <2>1, <2>2 DEF Framed
  <1>5. Imports'
    BY <1>3 DEF Imports
  <1>6. Effects'
    <2>1. ASSUME NEW j \in DOMAIN read', NEW i \in DOMAIN disk'[read'[j]]
          PROVE  Pending(j, i)'
      <3>1. j = 1 /\ read'[j] = filename /\ i \in 1..Len(all)
        BY <1>1, <1>2, <1>3
      <3>2. imports'[1].path = read'[j] /\ Len(disk'[read'[j]]) - Len(imports'[1].rest) < i
        BY <1>1, <1>2, <1>3, <3>1
      <3>3. QED
        BY <1>3, <3>2 DEF Pending
    <2>2. QED
      BY <2>1 DEF Effects
  <1>7. Once'
    <2>1. Fresh'
      BY <1>1, <1>2, <1>3 DEF Fresh
    <2>2. \A j \in DOMAIN read' : ~Begun(j)'
      BY <1>3, <2>1 DEF Begun
    <2>3. QED
      BY <2>2 DEF Once
  <1>8. QED
    BY <1>4, <1>5, <1>6, <1>7 DEF Importing

\* The file read last is fresh: what is done next is its first declaration.
LEMMA FreshIsFirst ==
  ASSUME Types, Framed, imports # <<>>, current.rest # <<>>,
         NEW j \in DOMAIN read, ~Begun(j)
  PROVE  j = Len(read) /\ current.path = read[j] /\ declaration = First(j)
         /\ 1 \in DOMAIN disk[read[j]]
  <1>1. j = Len(read) /\ Fresh
    BY DEF Begun, Types
  <1>2. current = imports[1] /\ declaration = current.rest[1] /\ current.rest \in Seq(Declarations)
    BY Current
  <1> HIDE DEF current, declaration
  <1>3. current.path = read[j] /\ current.rest = disk[read[j]]
    BY <1>1, <1>2 DEF Fresh
  <1>4. QED
    BY <1>1, <1>2, <1>3 DEF First

LEMMA ImportingLeaf ==
  ASSUME Types, Scoping, Importing, ir_use_library \/ declare_var \/ declare_func, status' = "running"
  PROVE  Importing'
  <1>1. /\ status = "running" /\ phase = "top_levels" /\ phase' = phase /\ current.rest # <<>>
        /\ imports' = <<Next_of(current)>> \o Tail(imports)
        /\ filename' = filename /\ disk' = disk /\ read' = read
    BY LeafStep DEF arguments
  <1>2. imports # <<>> /\ Framed /\ Imports /\ Effects /\ Once
    BY <1>1 DEF Types, Importing, Alive
  <1>3. /\ Next_of(current) = [path |-> current.path, rest |-> Tail(current.rest)]
        /\ Next_of(current) \in Frames /\ imports \in Seq(Frames) /\ current = imports[1]
    BY <1>1, <1>2, Current DEF Types
  <1> DEFINE next == Next_of(current)
  <1>3a. next.path = current.path /\ next.rest = Tail(current.rest)
    BY <1>3
  <1> HIDE DEF next
  <1>4. /\ imports' \in Seq(Frames) /\ DOMAIN imports' = DOMAIN imports /\ imports' # <<>>
        /\ 1 \in DOMAIN imports /\ imports'[1] = next
        /\ \A f \in DOMAIN imports : f > 1 => imports'[f] = imports[f]
    <2>1. imports' = <<next>> \o Tail(imports)
      BY <1>1 DEF next
    <2>2. next \in Frames
      BY <1>3 DEF next
    <2>3. /\ imports' \in Seq(Frames) /\ Len(imports') = Len(imports) /\ imports'[1] = next
          /\ \A f \in DOMAIN imports : f > 1 => imports'[f] = imports[f]
      BY <1>2, <1>3, <2>1, <2>2, Replaced
    <2>4. QED
      BY <1>2, <1>3, <2>3
  <1>5. /\ \E j \in DOMAIN read : read[j] = current.path
        /\ IsRest(Tail(current.rest), disk[current.path])
        /\ Len(Tail(current.rest)) < Len(disk[current.path])
    BY <1>1, <1>2, CurrentFramed
  <1>6. Framed'
    <2>1. ASSUME NEW f \in DOMAIN imports'
          PROVE  /\ \E j \in DOMAIN read' : read'[j] = imports'[f].path
                 /\ IsRest(imports'[f].rest, disk'[imports'[f].path])
                 /\ f > 1 => Len(imports'[f].rest) < Len(disk'[imports'[f].path])
      <3>1. CASE f > 1
        BY <1>1, <1>2, <1>4, <3>1 DEF Framed
      <3>2. CASE f = 1
        BY <1>1, <1>3a, <1>4, <1>5, <3>2
      <3>3. QED
        BY <1>4, <3>1, <3>2
    <2>2. QED
      BY <1>1, <1>2, <1>4, <2>1 DEF Framed, Started
  <1>7. Imports'
    BY <1>1, <1>2 DEF Imports, Imported
  <1>8. /\ declaration \in Declarations /\ ~IsImport(declaration)
        /\ DOMAIN file_scope \subseteq DOMAIN file_scope' /\ global_scope \subseteq global_scope'
        /\ \/ declaration.kind = "use" /\ "gfx" \notin global_scope /\ "gfx" \in global_scope'
           \/ /\ declaration.kind \in {"var", "func"} /\ declaration.name \notin DOMAIN file_scope
              /\ declaration.name \in DOMAIN file_scope'
              /\ declaration.kind = "var" /\ declaration.ref.kind \in {"read", "call"}
                   => declaration.ref.name \in DOMAIN file_scope \cup global_scope
    BY LeafNames
  <1>9. ASSUME NEW j \in DOMAIN read, NEW i \in DOMAIN disk[read[j]], disk[read[j]][i] = declaration
        PROVE  Handled(j, i)'
    <2>1. global_scope \subseteq {"gfx"} /\ "gfx" \notin Natives
      BY <1>1, StartAssumption DEF Scoping
    <2>2. disk'[read'[j]][i] = declaration
      BY <1>1, <1>9
    <2> HIDE DEF declaration
    <2>3. QED
      BY <1>8, <2>1, <2>2 DEF Handled
  <1>10. ASSUME NEW j \in DOMAIN read, NEW i, Handled(j, i)
         PROVE  Handled(j, i)'
    BY <1>1, <1>8, <1>10, HandledStays
  <1>11. Effects'
    <2>1. ASSUME NEW j \in DOMAIN read, NEW i \in DOMAIN disk[read[j]]
          PROVE  Handled(j, i)' \/ Pending(j, i)'
      <3>1. CASE Handled(j, i)
        BY <1>10, <3>1
      <3>2. CASE Pending(j, i)
        <4>1. CASE disk[read[j]][i] = declaration
          BY <1>9, <4>1
        <4>2. CASE current.path = read[j] /\ Len(disk[read[j]]) - Len(Tail(current.rest)) < i
          BY <1>1, <1>3a, <1>4, <4>2 DEF Pending
        <4>3. CASE \E f \in DOMAIN imports : /\ f > 1 /\ imports[f].path = read[j]
                                             /\ Len(disk[read[j]]) - Len(imports[f].rest) < i
          BY <1>1, <1>4, <4>3 DEF Pending
        <4>4. QED
          BY <1>1, <1>2, <3>2, <4>1, <4>2, <4>3, PendingOrCurrent
      <3>3. QED
        BY <1>2, <3>1, <3>2 DEF Effects
    <2>2. QED
      BY <1>1, <2>1 DEF Effects
  <1>12. Once'
    <2>1. ~Fresh'
      <3>1. SUFFICES ASSUME Fresh' PROVE FALSE
        OBVIOUS
      <3>2. next.path = read[Len(read)] /\ next.rest = disk[read[Len(read)]]
        BY <1>1, <1>4, <3>1 DEF Fresh
      <3>3. Tail(current.rest) = disk[current.path]
        BY <1>3a, <3>2
      <3>4. Len(disk[current.path]) \in Nat
        BY <1>2, CurrentFramed
      <3>5. Len(disk[current.path]) < Len(disk[current.path])
        BY <1>5, <3>3
      <3>6. QED
        BY <3>4, <3>5
    <2>2. ASSUME NEW j \in DOMAIN read PROVE Handled(j, 1)'
      <3>1. CASE Begun(j)
        BY <1>2, <1>10, <3>1 DEF Once
      <3>2. CASE ~Begun(j)
        BY <1>1, <1>2, <1>9, <3>2, FreshIsFirst DEF First
      <3>3. QED
        BY <3>1, <3>2
    <2>3. ASSUME NEW i \in DOMAIN read, NEW j \in DOMAIN read, i < j, read[i] = read[j]
          PROVE  IsImport(First(j))
      <3>1. CASE Begun(j)
        BY <1>2, <2>3, <3>1 DEF Once
      <3>2. CASE ~Begun(j)
        <4>1. j = Len(read) /\ declaration = First(j) /\ i < Len(read)
          BY <1>1, <1>2, <2>3, <3>2, FreshIsFirst
        <4>2. Handled(i, 1) /\ disk[read[i]][1] = declaration
          BY <1>2, <2>3, <4>1 DEF Once, Begun, First
        <4> HIDE DEF declaration
        <4>3. QED
          BY <1>8, <4>2 DEF Handled
      <3>3. QED
        BY <3>1, <3>2
    <2>4. ASSUME NEW j \in DOMAIN read, IsImport(First(j))
          PROVE  j < Len(read) /\ read[j + 1] = ImportPath(read[j], First(j).path)
      <3>1. Begun(j)
        BY <1>1, <1>2, <1>8, <2>4, FreshIsFirst
      <3>2. QED
        BY <1>2, <2>4, <3>1 DEF Once
    <2>5. \A j \in DOMAIN read : First(j)' = First(j)
      BY <1>1 DEF First
    <2>6. QED
      BY <1>1, <2>1, <2>2, <2>3, <2>4, <2>5 DEF Once
  <1>13. QED
    BY <1>6, <1>7, <1>11, <1>12 DEF Importing

LEMMA ImportingImport ==
  ASSUME Types, Importing, ir_import_file, status' = "running"
  PROVE  Importing'
  <1> DEFINE path == ImportPath(current.path, declaration.path)
             frame == [path |-> path, rest |-> disk[path]]
             next == Next_of(current)
             waiting == <<next>> \o Tail(imports)
             n == Len(read)
  <1>1. /\ status = "running" /\ phase = "top_levels" /\ phase' = phase /\ current.rest # <<>>
        /\ filename' = filename /\ disk' = disk
        /\ UNCHANGED <<file_scope, global_scope>>
        /\ declaration.kind \in {"import", "import_as"}
    BY DEF ir_import_file, Declares, In, arguments, names
  <1>2. imports # <<>> /\ Framed /\ Imports /\ Effects /\ Once
    BY <1>1 DEF Types, Importing, Alive
  <1>3. /\ path \in DOMAIN disk /\ disk[path] # <<>> /\ declaration.kind = "import"
        /\ read' = Append(read, path) /\ imports' = Import(path)
    <2> DEFINE good == Readable(path) /\ Parses(path)
    <2>1. ~good => \E c : exit(c)
      BY DEF ir_import_file
    <2>2. good
      BY <2>1 DEF exit
    <2>3. declaration.kind = "import_as" => Stops("assert_namespace")
      BY <2>2 DEF ir_import_file
    <2>4. declaration.kind = "import"
      BY <1>1, <2>3 DEF Stops
    <2>5. read' = Append(read, path) /\ imports' = Import(path)
      BY <2>2, <2>4 DEF ir_import_file
    <2>6. Len(imports) < MaxDepth
      BY <2>2, <2>4 DEF ir_import_file, Stops
    <2>7. disk[path] # <<>>
      <3>1. for_array(disk[path])
        BY <2>2, <2>4, <2>6 DEF ir_import_file
      <3>2. QED
        BY <3>1 DEF for_array, Stops
    <2>8. QED
      BY <2>2, <2>4, <2>5, <2>7 DEF Readable
  <1>4. /\ next = [path |-> current.path, rest |-> Tail(current.rest)]
        /\ next \in Frames /\ imports \in Seq(Frames) /\ current = imports[1]
        /\ declaration \in Declarations
    BY <1>1, <1>2, Current DEF Types
  <1>5. next.path = current.path /\ next.rest = Tail(current.rest)
    BY <1>4
  <1>6. /\ path \in Paths /\ disk[path] \in Seq(Declarations) /\ frame \in Frames
        /\ frame.path = path /\ frame.rest = disk[path]
    BY <1>3 DEF Types, Frames
  <1>7. imports' = <<frame>> \o waiting
    BY <1>3 DEF Import, Advanced
  <1>8. /\ waiting \in Seq(Frames) /\ Len(waiting) = Len(imports) /\ waiting[1] = next
        /\ \A f \in DOMAIN imports : f > 1 => waiting[f] = imports[f]
    BY <1>2, <1>4, Replaced
  <1>9. /\ current.path \in DOMAIN disk
        /\ (\E j \in DOMAIN read : read[j] = current.path)
        /\ IsRest(Tail(current.rest), disk[current.path])
        /\ Len(Tail(current.rest)) < Len(disk[current.path])
        /\ declaration = disk[current.path][Len(disk[current.path]) - Len(current.rest) + 1]
        /\ Len(disk[current.path]) - Len(current.rest) + 1 \in DOMAIN disk[current.path]
    BY <1>1, <1>2, CurrentFramed
  <1>10. IsImport(declaration)
    BY <1>3 DEF IsImport
  <1> HIDE DEF frame, next, waiting
  <1>11. /\ imports' \in Seq(Frames) /\ Len(imports') = Len(waiting) + 1 /\ imports'[1] = frame
         /\ \A f \in DOMAIN waiting : imports'[f + 1] = waiting[f]
    BY <1>6, <1>7, <1>8, Pushed
  <1>12. /\ DOMAIN imports' = 1..(Len(imports) + 1) /\ Len(imports) \in Nat \ {0} /\ imports' # <<>>
         /\ DOMAIN imports = 1..Len(imports)
         /\ imports'[2] = next /\ \A f \in DOMAIN imports : f > 1 => imports'[f + 1] = imports[f]
    <2>1. Len(imports) \in Nat \ {0} /\ DOMAIN imports = 1..Len(imports)
      BY <1>2, <1>4
    <2>2. DOMAIN waiting = DOMAIN imports /\ 1 \in DOMAIN waiting
      BY <1>8, <2>1
    <2>3. imports'[1 + 1] = next
      BY <1>8, <1>11, <2>2
    <2>4. DOMAIN imports' = 1..(Len(imports) + 1) /\ imports' # <<>>
      BY <1>8, <1>11, <2>1
    <2>5. QED
      BY <1>8, <1>11, <2>1, <2>2, <2>3, <2>4
  <1> HIDE DEF path
  <1>13. /\ n \in Nat /\ DOMAIN read = 1..n /\ DOMAIN read' = 1..(n + 1) /\ Len(read') = n + 1
         /\ read'[n + 1] = path /\ (\A j \in DOMAIN read : read'[j] = read[j])
         /\ read # <<>> /\ read' # <<>> /\ n >= 1
    <2>1. read \in Seq(Paths) /\ read # <<>>
      BY <1>2 DEF Types, Framed
    <2>2. QED
      BY <1>3, <1>6, <2>1
  <1>14. Framed'
    <2>1. ASSUME NEW f \in DOMAIN imports'
          PROVE  /\ \E j \in DOMAIN read' : read'[j] = imports'[f].path
                 /\ IsRest(imports'[f].rest, disk'[imports'[f].path])
                 /\ f > 1 => Len(imports'[f].rest) < Len(disk'[imports'[f].path])
      <3>1. CASE f = 1
        <4>1. IsRest(disk[path], disk[path])
          BY <1>6, WholeIsRest
        <4>2. QED
          BY <1>1, <1>6, <1>11, <1>13, <3>1, <4>1
      <3>2. CASE f = 2
        <4>1. imports'[f].path = current.path /\ imports'[f].rest = Tail(current.rest)
          BY <1>5, <1>12, <3>2
        <4>2. \E j \in DOMAIN read' : read'[j] = current.path
          BY <1>9, <1>13
        <4>3. QED
          BY <1>1, <1>9, <4>1, <4>2
      <3>3. CASE f > 2
        <4>1. f - 1 \in DOMAIN imports /\ f - 1 > 1 /\ (f - 1) + 1 = f
          BY <1>12, <3>3
        <4>2. imports'[f] = imports[f - 1]
          BY <1>12, <4>1
        <4>3. PICK j \in DOMAIN read : read[j] = imports[f - 1].path
          BY <1>2, <4>1 DEF Framed
        <4>4. j \in DOMAIN read' /\ read'[j] = imports'[f].path
          BY <1>13, <4>2, <4>3
        <4>5. IsRest(imports[f - 1].rest, disk[imports[f - 1].path])
              /\ Len(imports[f - 1].rest) < Len(disk[imports[f - 1].path])
          BY <1>2, <4>1 DEF Framed
        <4>6. QED
          BY <1>1, <4>2, <4>4, <4>5
      <3>4. f = 1 \/ f = 2 \/ f > 2
        BY <1>12
      <3>5. QED
        BY <3>1, <3>2, <3>3, <3>4
    <2>2. (imports' = <<>>) <=> phase' \in Started
      BY <1>1, <1>12 DEF Started
    <2>3. read'[1] = filename' /\ \A j \in DOMAIN read' : read'[j] \in DOMAIN disk' /\ disk'[read'[j]] # <<>>
      <3>1. read[1] = filename /\ \A j \in DOMAIN read : read[j] \in DOMAIN disk /\ disk[read[j]] # <<>>
        BY <1>2 DEF Framed
      <3>2. ASSUME NEW j \in DOMAIN read'
            PROVE  read'[j] \in DOMAIN disk' /\ disk'[read'[j]] # <<>>
        BY <1>1, <1>3, <1>13, <3>1
      <3>3. QED
        BY <1>1, <1>13, <3>1, <3>2
    <2>4. QED
      BY <1>13, <2>1, <2>2, <2>3 DEF Framed
  <1>15. path \in Imported(current.path)
    BY <1>9, <1>10 DEF Imported, path
  <1>16. Imports'
    <2>1. ASSUME NEW j \in DOMAIN read', j > 1
          PROVE  \E i \in DOMAIN read' : i < j /\ read'[j] \in Imported(read'[i])
      <3>1. CASE j \in DOMAIN read
        <4>1. PICK i \in DOMAIN read : i < j /\ read[j] \in Imported(read[i])
          BY <1>2, <2>1, <3>1 DEF Imports
        <4>2. QED
          BY <1>13, <3>1, <4>1
      <3>2. CASE j = n + 1
        <4>1. PICK i \in DOMAIN read : read[i] = current.path
          BY <1>9
        <4>2. read'[j] \in Imported(read'[i])
          BY <1>13, <1>15, <3>2, <4>1
        <4>3. QED
          BY <1>13, <3>2, <4>1, <4>2
      <3>3. QED
        BY <1>13, <3>1, <3>2
    <2>2. QED
      BY <1>1, <2>1 DEF Imports, Imported
  <1>17. ASSUME NEW j \in DOMAIN read, NEW i \in DOMAIN disk[read[j]], disk[read[j]][i] = declaration,
                current.path = read[j]
         PROVE  Handled(j, i)'
    <2>1. disk'[read'[j]][i] = declaration /\ read'[j] = current.path
      BY <1>1, <1>13, <1>17
    <2>2. n + 1 \in DOMAIN read' /\ j < n + 1
          /\ read'[n + 1] = ImportPath(read'[j], declaration.path)
      BY <1>13, <2>1 DEF path
    <2> HIDE DEF declaration
    <2>3. QED
      BY <1>3, <2>1, <2>2 DEF Handled
  <1>18. ASSUME NEW j \in DOMAIN read, NEW i, Handled(j, i)
         PROVE  Handled(j, i)'
    BY <1>1, <1>13, <1>18, HandledStays
  <1>19. Effects'
    <2>1. ASSUME NEW j \in DOMAIN read, NEW i \in DOMAIN disk[read[j]]
          PROVE  Handled(j, i)' \/ Pending(j, i)'
      <3>1. CASE Handled(j, i)
        BY <1>18, <3>1
      <3>2. CASE Pending(j, i)
        <4>1. CASE current.path = read[j] /\ disk[read[j]][i] = declaration
          BY <1>17, <4>1
        <4>2. CASE current.path = read[j] /\ Len(disk[read[j]]) - Len(Tail(current.rest)) < i
          <5>1. 2 \in DOMAIN imports'
            BY <1>12
          <5>2. imports'[2].path = read'[j] /\ imports'[2].rest = Tail(current.rest)
                /\ disk'[read'[j]] = disk[read[j]]
            BY <1>1, <1>5, <1>12, <1>13, <4>2
          <5>3. QED
            BY <4>2, <5>1, <5>2 DEF Pending
        <4>3. CASE \E f \in DOMAIN imports : /\ f > 1 /\ imports[f].path = read[j]
                                             /\ Len(disk[read[j]]) - Len(imports[f].rest) < i
          <5>1. PICK f \in DOMAIN imports : /\ f > 1 /\ imports[f].path = read[j]
                                            /\ Len(disk[read[j]]) - Len(imports[f].rest) < i
            BY <4>3
          <5>2. f + 1 \in DOMAIN imports' /\ imports'[f + 1] = imports[f]
            BY <1>12, <5>1
          <5>3. QED
            BY <1>1, <1>13, <5>1, <5>2 DEF Pending
        <4>4. QED
          BY <1>1, <1>2, <3>2, <4>1, <4>2, <4>3, PendingOrCurrent
      <3>3. QED
        BY <1>2, <3>1, <3>2 DEF Effects
    <2>2. ASSUME NEW j \in DOMAIN read', j = n + 1, NEW i \in DOMAIN disk'[read'[j]]
          PROVE  Pending(j, i)'
      <3>1. read'[j] = path /\ disk'[read'[j]] = disk[path] /\ 1 \in DOMAIN imports'
        BY <1>1, <1>12, <1>13, <2>2
      <3>2. imports'[1].path = read'[j] /\ imports'[1].rest = disk[path]
        BY <1>6, <1>11, <3>1
      <3>3. Len(disk[path]) - Len(disk[path]) < i
        BY <1>6, <3>1
      <3>4. QED
        BY <3>1, <3>2, <3>3 DEF Pending
    <2>3. QED
      BY <1>1, <1>13, <2>1, <2>2 DEF Effects
  <1>20. Once'
    <2>1. Fresh'
      BY <1>1, <1>6, <1>11, <1>12, <1>13 DEF Fresh
    <2>2. ASSUME NEW j \in DOMAIN read', Begun(j)' PROVE j \in DOMAIN read
      BY <1>13, <2>1, <2>2 DEF Begun
    <2>3. ASSUME NEW j \in DOMAIN read, ~Begun(j)
          PROVE  j = n /\ current.path = read[j] /\ declaration = First(j) /\ 1 \in DOMAIN disk[read[j]]
      BY <1>1, <1>2, <2>3, FreshIsFirst
    <2>4. ASSUME NEW j \in DOMAIN read PROVE Handled(j, 1)'
      <3>1. CASE Begun(j)
        BY <1>2, <1>18, <3>1 DEF Once
      <3>2. CASE ~Begun(j)
        BY <1>17, <2>3, <3>2 DEF First
      <3>3. QED
        BY <3>1, <3>2
    <2>5. ASSUME NEW i \in DOMAIN read, NEW j \in DOMAIN read, i < j, read[i] = read[j]
          PROVE  IsImport(First(j))
      BY <1>2, <1>10, <2>3, <2>5 DEF Once
    <2>6. ASSUME NEW j \in DOMAIN read, IsImport(First(j))
          PROVE  j < Len(read') /\ read'[j + 1] = ImportPath(read[j], First(j).path)
      <3>1. CASE Begun(j)
        <4>1. j < n /\ read[j + 1] = ImportPath(read[j], First(j).path)
          BY <1>2, <2>6, <3>1 DEF Once
        <4>2. j + 1 \in DOMAIN read
          BY <1>13, <4>1
        <4>3. QED
          BY <1>13, <4>1, <4>2
      <3>2. CASE ~Begun(j)
        <4>1. j = n /\ path = ImportPath(read[j], First(j).path)
          BY <2>3, <3>2 DEF path
        <4>2. QED
          BY <1>13, <4>1
      <3>3. QED
        BY <3>1, <3>2
    <2>7. ASSUME NEW j \in DOMAIN read PROVE First(j)' = First(j) /\ read'[j] = read[j]
      BY <1>1, <1>13 DEF First
    <2>8. ASSUME NEW i \in DOMAIN read', NEW j \in DOMAIN read', i < j, Begun(j)', read'[i] = read'[j]
          PROVE  IsImport(First(j))'
      <3>1. i \in DOMAIN read /\ j \in DOMAIN read
        BY <1>13, <2>2, <2>8
      <3>2. IsImport(First(j)) /\ First(j)' = First(j)
        BY <2>5, <2>7, <2>8, <3>1
      <3>3. QED
        BY <3>2 DEF IsImport
    <2>9. ASSUME NEW j \in DOMAIN read', Begun(j)', IsImport(First(j))'
          PROVE  (j < Len(read) /\ read[j + 1] = ImportPath(read[j], First(j).path))'
      <3>1. j \in DOMAIN read /\ First(j)' = First(j) /\ read'[j] = read[j]
        BY <2>2, <2>7, <2>9
      <3>2. IsImport(First(j))
        BY <2>9, <3>1 DEF IsImport
      <3>3. QED
        BY <2>6, <3>1, <3>2 DEF ImportPath
    <2>10. QED
      BY <2>2, <2>4, <2>8, <2>9 DEF Once
  <1>21. QED
    BY <1>14, <1>16, <1>19, <1>20 DEF Importing

\* Nothing of a file is left, and the one below goes on.
LEMMA ImportingEnds ==
  ASSUME Types, Importing, file_ends
  PROVE  Importing'
  <1>1. /\ status = "running" /\ phase = "top_levels" /\ current.rest = <<>>
        /\ imports' = Tail(imports)
        /\ phase' = (IF Len(imports) = 1 THEN "globals" ELSE phase)
        /\ UNCHANGED <<filename, disk, read, file_scope, global_scope>>
    BY DEF file_ends, In, arguments, names
  <1>2. imports # <<>> /\ Framed /\ Imports /\ Effects /\ Once
    BY <1>1 DEF Types, Importing, Alive
  <1>3. /\ imports \in Seq(Frames) /\ Len(imports) \in Nat \ {0} /\ current = imports[1]
        /\ DOMAIN imports = 1..Len(imports)
        /\ imports' \in Seq(Frames) /\ Len(imports') = Len(imports) - 1
        /\ DOMAIN imports' = 1..(Len(imports) - 1)
        /\ \A f \in DOMAIN imports' : f + 1 \in DOMAIN imports /\ imports'[f] = imports[f + 1]
    <2>1. imports \in Seq(Frames)
      BY DEF Types
    <2>2. QED
      BY <1>1, <1>2, <2>1, Popped, Current
  <1>4. (imports' = <<>>) <=> phase' \in Started
    <2>1. (imports' = <<>>) <=> Len(imports) = 1
      BY <1>3
    <2>2. QED
      BY <1>1, <2>1 DEF Started
  <1>5. ASSUME NEW f \in DOMAIN imports'
        PROVE  /\ \E j \in DOMAIN read' : read'[j] = imports'[f].path
               /\ IsRest(imports'[f].rest, disk'[imports'[f].path])
               /\ Len(imports'[f].rest) < Len(disk'[imports'[f].path])
    <2>1. f + 1 \in DOMAIN imports /\ f + 1 > 1 /\ imports'[f] = imports[f + 1]
      BY <1>3
    <2>2. QED
      BY <1>1, <1>2, <2>1 DEF Framed
  <1>6. Framed'
    BY <1>1, <1>2, <1>4, <1>5 DEF Framed
  <1>7. Imports'
    BY <1>1, <1>2 DEF Imports, Imported
  <1>8. Effects'
    <2>1. ASSUME NEW j \in DOMAIN read, NEW i \in DOMAIN disk[read[j]]
          PROVE  Handled(j, i)' \/ Pending(j, i)'
      <3>1. CASE Handled(j, i)
        BY <1>1, <3>1 DEF Handled
      <3>2. CASE Pending(j, i)
        <4>1. PICK f \in DOMAIN imports : /\ imports[f].path = read[j]
                                          /\ Len(disk[read[j]]) - Len(imports[f].rest) < i
          BY <3>2 DEF Pending
        <4>2. f # 1
          <5>1. SUFFICES ASSUME f = 1 PROVE FALSE
            OBVIOUS
          <5>2. Len(imports[f].rest) = 0
            BY <1>1, <1>3, <5>1
          <5>3. disk[read[j]] \in Seq(Declarations)
            BY <1>2 DEF Framed, Types
          <5>4. i \in Nat /\ i <= Len(disk[read[j]]) /\ Len(disk[read[j]]) \in Nat
            BY <5>3
          <5>5. Len(disk[read[j]]) - 0 < i
            BY <4>1, <5>2
          <5>6. QED
            BY <5>4, <5>5
        <4>3. f - 1 \in DOMAIN imports' /\ imports'[f - 1] = imports[f]
          <5>1. f - 1 \in DOMAIN imports' /\ (f - 1) + 1 = f
            BY <1>3, <4>2
          <5>2. QED
            BY <1>3, <5>1
        <4>4. QED
          BY <1>1, <4>1, <4>3 DEF Pending
      <3>3. QED
        BY <1>2, <3>1, <3>2 DEF Effects
    <2>2. QED
      BY <1>1, <2>1 DEF Effects
  <1>9. Once'
    <2>1. ~Fresh
      <3>1. SUFFICES ASSUME Fresh PROVE FALSE
        OBVIOUS
      <3>2. disk[read[Len(read)]] = <<>>
        BY <1>1, <1>3, <3>1 DEF Fresh
      <3>3. Len(read) \in DOMAIN read
        BY <1>2 DEF Framed, Types
      <3>4. QED
        BY <1>2, <3>2, <3>3 DEF Framed
    <2>2. ~Fresh'
      <3>1. SUFFICES ASSUME Fresh' PROVE FALSE
        OBVIOUS
      <3>2. imports' # <<>> /\ imports'[1].rest = disk'[imports'[1].path]
        BY <1>1, <3>1 DEF Fresh
      <3>3. 1 \in DOMAIN imports' /\ imports'[1] \in Frames
        BY <1>3, <3>2
      <3> DEFINE whole == disk'[imports'[1].path]
      <3>4. Len(whole) < Len(whole)
        BY <1>5, <3>2, <3>3
      <3>5. Len(whole) \in Nat
        BY <3>2, <3>3 DEF Frames
      <3> HIDE DEF whole
      <3>6. QED
        BY <3>4, <3>5
    <2>3. \A j \in DOMAIN read : Begun(j)
      BY <2>1 DEF Begun
    <2>4. ASSUME NEW j \in DOMAIN read PROVE First(j)' = First(j) /\ Handled(j, 1)'
      <3>1. Handled(j, 1)
        BY <1>2, <2>3 DEF Once
      <3>2. QED
        BY <1>1, <3>1 DEF Handled, First
    <2>5. \A i, j \in DOMAIN read : i < j /\ read[i] = read[j] => IsImport(First(j))
      BY <1>2, <2>3 DEF Once
    <2>6. \A j \in DOMAIN read : IsImport(First(j)) =>
            j < Len(read) /\ read[j + 1] = ImportPath(read[j], First(j).path)
      BY <1>2, <2>3 DEF Once
    <2>7. QED
      BY <1>1, <2>4, <2>5, <2>6 DEF Once
  <1>10. QED
    BY <1>6, <1>7, <1>8, <1>9 DEF Importing

\* Where no file is looked at, what was done stays done.
LEMMA ImportingSettled ==
  ASSUME Types, Importing, Alive,
         UNCHANGED <<imports, read, disk, filename, file_scope>>, global_scope \subseteq global_scope',
         phase \in Started <=> phase' \in Started
  PROVE  Importing'
  <1>1. Framed /\ Imports /\ Effects /\ Once
    BY DEF Importing
  <1>2. Framed'
    BY <1>1 DEF Framed
  <1>3. Imports'
    BY <1>1 DEF Imports, Imported
  <1>4. ASSUME NEW j \in DOMAIN read, NEW i, Handled(j, i) PROVE Handled(j, i)'
    BY <1>4, HandledStays
  <1>5. \A j : \A i : Pending(j, i)' <=> Pending(j, i)
    BY DEF Pending
  <1>6. Effects'
    BY <1>1, <1>4, <1>5 DEF Effects
  <1>7. \A j : (First(j)' = First(j)) /\ (Begun(j)' <=> Begun(j))
    BY DEF First, Begun, Fresh
  <1>8. Once'
    BY <1>1, <1>4, <1>7 DEF Once
  <1>9. QED
    BY <1>2, <1>3, <1>6, <1>8 DEF Importing

LEMMA ImportingKept ==
  ASSUME Types, Scoping, Opening, Importing, [Next]_vars
  PROVE  Importing'
  <1>1. SUFFICES ASSUME Alive' PROVE Importing'
    BY DEF Importing
  <1>2. CASE UNCHANGED vars
    <2>1. Alive
      BY <1>1, <1>2 DEF Alive, vars
    <2>2. QED
      BY <1>2, <2>1, ImportingSettled DEF vars, arguments, names
  <1>3. CASE TakeFile \/ TakeOption \/ Usage \/ lexer \/ parser
    BY <1>1, <1>3 DEF TakeFile, TakeOption, Usage, lexer, parser, In, Alive, Started
  <1>4. CASE init_ir
    <2>1. disk[filename] # <<>>
      BY <1>1, <1>4, NothingBegins DEF Alive, Started
    <2>2. QED
      BY <1>4, <2>1, ImportingBegins
  <1>5. CASE ir_import_file
    <2>1. status' = "running"
      BY <1>1, <1>5 DEF ir_import_file, Declares, In, Alive, Started
    <2>2. QED
      BY <1>5, <2>1, ImportingImport
  <1>6. CASE ir_use_library \/ declare_var \/ declare_func
    <2>1. status' = "running"
      BY <1>1, <1>6, LeafStep DEF Alive, Started
    <2>2. QED
      BY <1>6, <2>1, ImportingLeaf
  <1>7. CASE file_ends
    BY <1>7, ImportingEnds
  <1>8. CASE add_globals
    BY <1>8, ImportingSettled DEF add_globals, In, Alive, Started, arguments
  <1>9. CASE ir_run
    BY <1>9, ImportingSettled DEF ir_run, In, Alive, Started, arguments, names
  <1>10. CASE main_returns
    BY <1>10, ImportingSettled DEF main_returns, In, Alive, Started, arguments, names
  <1>11. QED
    BY <1>2, <1>3, <1>4, <1>5, <1>6, <1>7, <1>8, <1>9, <1>10 DEF Next

-----------------------------------------------------------------------------
(***************************************************************************)
(* The theorems.                                                           *)
(***************************************************************************)
LEMMA InitInvariant ==
  ASSUME Init PROVE IInv
  <1>1. Types
    BY TypesHoldFirst
  <1>2. Arguing
    BY DEF Init, Arguing, OptionsOf
  <1>3. Timing
    <2>1. now \in 1..MaxTime /\ total \in Totals /\ total.start = 0
      BY StartAssumption DEF Init, Totals
    <2>2. QED
      BY <2>1 DEF Init, Timing
  <1>4. Scoping
    <2>1. bound = <<>> /\ file_scope = <<>> /\ DOMAIN bound = {}
      BY DEF Init
    <2>2. QED
      BY <2>1 DEF Init, Scoping, IsInjective, ToSet
  <1>5. Opening
    BY DEF Init, Opening
  <1>6. Importing
    BY DEF Init, Importing, Alive, Started
  <1>7. QED
    BY <1>1, <1>2, <1>3, <1>4, <1>5, <1>6 DEF IInv

\* Start-up keeps its invariant, for any command line and any files.
THEOREM Invariant == Spec => []IInv
  <1>1. Init => IInv
    BY InitInvariant
  <1>2. IInv /\ [Next]_vars => IInv'
    BY TypesKept, ArguingKept, TimingKept, ScopingKept, OpeningKept, ImportingKept DEF IInv
  <1>3. QED
    BY <1>1, <1>2, PTL DEF Spec

\* At every step of main the command line is split where the script is, the
\* names are those declared, each timed section ends no earlier than it began
\* and no later than the next begins, and the total time spans them all.
THEOREM StartUpInOrder == Spec => []Inv
  <1>1. IInv => Inv
    <2>1. SUFFICES ASSUME IInv PROVE Inv
      OBVIOUS
    <2>2. Types /\ Arguing /\ Timing /\ Scoping
      BY <2>1 DEF IInv
    <2>3. ASSUME NEW i \in DOMAIN sections
          PROVE  sections[i].label \in {"lexer", "parser", "ir", "ir run"}
      <3>1. sections[i] \in Sections
        BY <2>2 DEF Timing
      <3>2. QED
        BY <3>1 DEF Sections, Labels
    <2>4. TypeOK
      <3>1. Len(imports) \in 0..(MaxDepth + 1)
        BY <2>2, StartAssumption DEF Types
      <3>2. QED
        BY <2>2, <2>3, <3>1 DEF TypeOK, Types, Scoping, Timing
    <2>5. QED
      BY <2>2, <2>4, ArguingSplits, TimingOrders DEF Inv
  <1>2. QED
    BY <1>1, Invariant, PTL

\* When all declarations are done no file has been read twice: a second
\* reading would begin like the first, so the files that follow are the same
\* up to one that declares something.
LEMMA NoneReadTwice ==
  ASSUME Types, Framed, Once, imports = <<>>
  PROVE  IsInjective(read)
  <1>a. read \in Seq(Paths) /\ Len(read) \in Nat /\ DOMAIN read = 1..Len(read)
    BY DEF Types
  <1>b. \A j \in DOMAIN read : Begun(j)
    BY DEF Begun, Fresh
  <1> DEFINE Twice == {k \in 0..Len(read) :
                         \E i \in DOMAIN read : i < Len(read) - k /\ read[i] = read[Len(read) - k]}
  <1>1. SUFFICES ASSUME NEW i \in DOMAIN read, NEW j \in DOMAIN read, i < j, read[i] = read[j]
                 PROVE  FALSE
    <2>1. \A i, j \in DOMAIN read : i < j \/ j < i \/ i = j
      BY <1>a
    <2>2. QED
      BY <2>1 DEF IsInjective
  <1>2. Len(read) - j \in Twice
    <2>1. Len(read) - (Len(read) - j) = j /\ Len(read) - j \in 0..Len(read)
      BY <1>a
    <2>2. QED
      BY <1>1, <2>1
  <1>3. PICK k \in Twice : \A m \in Twice : k <= m
    <2>1. Twice \in SUBSET Nat /\ Twice # {}
      BY <1>2
    <2> HIDE DEF Twice
    <2>2. QED
      BY <2>1, LeastElement
  <1> DEFINE last == Len(read) - k
  <1>4. PICK first \in DOMAIN read : first < last /\ read[first] = read[last]
    OBVIOUS
  <1>5. k \in Nat /\ last \in DOMAIN read /\ last \in Nat /\ first \in Nat
    BY <1>a, <1>4
  <1>6. IsImport(First(last)) /\ First(first) = First(last)
    BY <1>b, <1>4, <1>5 DEF Once, First
  <1>7. /\ last < Len(read) /\ read[last + 1] = ImportPath(read[last], First(last).path)
        /\ first < Len(read) /\ read[first + 1] = ImportPath(read[first], First(first).path)
    BY <1>b, <1>4, <1>5, <1>6 DEF Once
  <1>8. k - 1 \in 0..Len(read) /\ Len(read) - (k - 1) = last + 1
        /\ first + 1 \in DOMAIN read /\ first + 1 < last + 1
    BY <1>a, <1>4, <1>5, <1>7
  <1>9. read[first + 1] = read[last + 1]
    BY <1>4, <1>6, <1>7
  <1>10. k - 1 \in Twice
    <2>1. k - 1 \in 0..Len(read) /\ first + 1 < Len(read) - (k - 1)
          /\ read[first + 1] = read[Len(read) - (k - 1)]
      BY <1>8, <1>9
    <2>2. QED
      BY <1>8, <2>1
  <1> HIDE DEF Twice, last
  <1>11. k <= k - 1
    BY <1>3, <1>10
  <1>12. QED
    BY <1>5, <1>11

\* Every file that is read is read once, and is one the script needs.
THEOREM FilesReadOnce == Spec => []ReadOnce
  <1>1. IInv => ReadOnce
    <2>1. SUFFICES ASSUME IInv, phase \in Started
                   PROVE  /\ IsInjective(read) /\ Needed(ToSet(read))
                          /\ \A files \in SUBSET ToSet(read) : Needed(files) => files = ToSet(read)
      BY DEF ReadOnce
    <2>2. Types /\ Framed /\ Imports /\ Effects /\ Once /\ imports = <<>>
      BY <2>1 DEF IInv, Importing, Alive, Framed
    <2>3. read \in Seq(Paths) /\ Len(read) \in Nat /\ DOMAIN read = 1..Len(read)
          /\ 1 \in DOMAIN read /\ read[1] = filename
      BY <2>2 DEF Types, Framed
    <2>5. IsInjective(read)
      BY <2>2, NoneReadTwice
    <2>6. Needed(ToSet(read))
      <3>1. ASSUME NEW j \in DOMAIN read, NEW i \in DOMAIN disk[read[j]], IsImport(disk[read[j]][i])
            PROVE  ImportPath(read[j], disk[read[j]][i].path) \in ToSet(read)
        <4>1. Handled(j, i)
          BY <2>2 DEF Effects, Pending
        <4>2. QED
          BY <3>1, <4>1 DEF Handled, ToSet
      <3>2. QED
        BY <2>3, <3>1 DEF Needed, Imported, ToSet
    <2>7. ASSUME NEW files \in SUBSET ToSet(read), Needed(files)
          PROVE  files = ToSet(read)
      <3> DEFINE Missing == {j \in DOMAIN read : read[j] \notin files}
      <3>1. SUFFICES ASSUME Missing # {} PROVE FALSE
        BY DEF ToSet
      <3>2. PICK j \in Missing : \A m \in Missing : j <= m
        <4>1. Missing \in SUBSET Nat
          BY <2>3
        <4> HIDE DEF Missing
        <4>2. QED
          BY <3>1, <4>1, LeastElement
      <3>3. j > 1
        BY <2>3, <2>7 DEF Needed
      <3>4. PICK i \in DOMAIN read : i < j /\ read[j] \in Imported(read[i])
        BY <2>2, <3>3 DEF Imports
      <3>5. i \notin Missing
        BY <2>3, <3>2, <3>4
      <3>6. QED
        BY <2>7, <3>4, <3>5 DEF Needed
    <2>8. QED
      BY <2>5, <2>6, <2>7
  <1>2. QED
    BY <1>1, Invariant, PTL

\* No initialiser of a program that starts used a native.
THEOREM NativesComeTooLate == Spec => []NativesTooLate
  <1>1. IInv => NativesTooLate
    <2>1. SUFFICES ASSUME IInv, phase \in Started, NEW p \in ToSet(read), NEW i \in DOMAIN disk[p],
                          disk[p][i].kind = "var", disk[p][i].ref.kind \in {"read", "call"},
                          disk[p][i].ref.name \in Natives
                   PROVE  disk[p][i].ref.name \in ToSet(bound)
      BY DEF NativesTooLate
    <2>2. Framed /\ Effects /\ imports = <<>> /\ ToSet(bound) = DOMAIN file_scope
      BY <2>1 DEF IInv, Importing, Alive, Framed, Scoping
    <2>3. PICK j \in DOMAIN read : read[j] = p
      BY DEF ToSet
    <2>4. Handled(j, i)
      BY <2>2, <2>3 DEF Effects, Pending
    <2>5. QED
      BY <2>1, <2>2, <2>3, <2>4 DEF Handled
  <1>2. QED
    BY <1>1, Invariant, PTL

-----------------------------------------------------------------------------
(***************************************************************************)
(* The order of the declarations.                                          *)
(***************************************************************************)
\* g flattens s up to each index.
IsFlat(g, s, n) == g = [i \in 1..n |-> IF i = 1 THEN s[i] ELSE g[i - 1] \o s[i]]

LEMMA FlatExists ==
  ASSUME NEW s, NEW n \in Nat
  PROVE  \E g : IsFlat(g, s, n)
  <1> DEFINE T == {m \in Nat : \E g : IsFlat(g, s, m)}
  <1>1. 0 \in T
    <2> DEFINE e == [i \in 1..0 |-> s[i]]
    <2>1. e = [i \in 1..0 |-> IF i = 1 THEN s[i] ELSE e[i - 1] \o s[i]]
      OBVIOUS
    <2> HIDE DEF e
    <2>2. IsFlat(e, s, 0)
      BY <2>1 DEF IsFlat
    <2>3. QED
      BY <2>2
  <1>2. ASSUME NEW m \in Nat, m \in T PROVE m + 1 \in T
    <2>1. PICK g : g = [i \in 1..m |-> IF i = 1 THEN s[i] ELSE g[i - 1] \o s[i]]
      BY <1>2 DEF IsFlat
    <2> DEFINE new == IF m + 1 = 1 THEN s[m + 1] ELSE g[m] \o s[m + 1]
               h == [i \in 1..(m + 1) |-> IF i = m + 1 THEN new ELSE g[i]]
    <2>2. ASSUME NEW i \in 1..(m + 1)
          PROVE  h[i] = IF i = 1 THEN s[i] ELSE h[i - 1] \o s[i]
      <3>1. CASE i = m + 1
        <4>1. h[i] = new /\ i - 1 = m
          BY <3>1
        <4>2. i # 1 => h[m] = g[m]
          BY <3>1
        <4> HIDE DEF h
        <4>3. QED
          BY <3>1, <4>1, <4>2
      <3>2. CASE i # m + 1
        <4>1. i \in 1..m /\ h[i] = g[i]
          BY <3>2
        <4>2. i # 1 => h[i - 1] = g[i - 1]
          BY <3>2
        <4>3. g[i] = IF i = 1 THEN s[i] ELSE g[i - 1] \o s[i]
          BY <2>1, <4>1
        <4> HIDE DEF h
        <4>4. QED
          BY <4>1, <4>2, <4>3
      <3>3. QED
        BY <3>1, <3>2
    <2>3. h = [i \in 1..(m + 1) |-> h[i]]
      OBVIOUS
    <2> HIDE DEF h
    <2>4. h = [i \in 1..(m + 1) |-> IF i = 1 THEN s[i] ELSE h[i - 1] \o s[i]]
      BY <2>2, <2>3
    <2>5. IsFlat(h, s, m + 1)
      BY <2>4 DEF IsFlat
    <2>6. QED
      BY <2>5
  <1>3. Nat \subseteq T
    <2> HIDE DEF T
    <2>1. QED
      BY <1>1, <1>2, SetInduction
  <1>4. QED
    BY <1>3

LEMMA Flattened ==
  ASSUME NEW X, NEW s \in Seq(Seq(X)), s # <<>>
  PROVE  \E g : /\ g \in [1..Len(s) -> Seq(X)] /\ FlattenSeq(s) = g[Len(s)] /\ g[1] = s[1]
                /\ \A i \in 1..(Len(s) - 1) : g[i + 1] = g[i] \o s[i + 1]
  <1> DEFINE n == Len(s)
             g == CHOOSE f : f = [i \in 1..n |-> IF i = 1 THEN s[i] ELSE f[i - 1] \o s[i]]
  <1>1. n \in Nat \ {0}
    OBVIOUS
  <1>2. \E f : f = [i \in 1..n |-> IF i = 1 THEN s[i] ELSE f[i - 1] \o s[i]]
    BY <1>1, FlatExists DEF IsFlat
  <1>3. g = [i \in 1..n |-> IF i = 1 THEN s[i] ELSE g[i - 1] \o s[i]]
    BY <1>2
  <1>4. FlattenSeq(s) = g[n]
    <2>1. Len(s) # 0
      BY <1>1
    <2>2. QED
      BY <2>1 DEF FlattenSeq
  <1> HIDE DEF g
  <1>5. \A i \in 1..n : g[i] = IF i = 1 THEN s[i] ELSE g[i - 1] \o s[i]
    BY <1>3
  <1>6. g[1] = s[1] /\ s[1] \in Seq(X)
    BY <1>1, <1>5
  <1>7. ASSUME NEW i \in 1..(n - 1)
        PROVE  g[i + 1] = g[i] \o s[i + 1] /\ s[i + 1] \in Seq(X)
    <2>1. i + 1 \in 1..n /\ i + 1 # 1 /\ (i + 1) - 1 = i
      BY <1>1
    <2>2. g[i + 1] = g[(i + 1) - 1] \o s[i + 1]
      BY <1>5, <2>1
    <2>3. QED
      BY <2>1, <2>2
  <1>8. 0..(n - 1) \subseteq {i \in 0..(n - 1) : g[i + 1] \in Seq(X)}
    <2> DEFINE T == {i \in 0..(n - 1) : g[i + 1] \in Seq(X)}
    <2>1. 0 \in T
      BY <1>1, <1>6
    <2>2. ASSUME NEW i \in 0..(n - 1) - 1, i \in T PROVE i + 1 \in T
      <3>1. i + 1 \in 1..(n - 1) /\ i + 1 \in 0..(n - 1)
        BY <1>1
      <3>2. g[(i + 1) + 1] = g[i + 1] \o s[(i + 1) + 1] /\ s[(i + 1) + 1] \in Seq(X)
        BY <1>7, <3>1
      <3>3. g[i + 1] \in Seq(X)
        BY <2>2
      <3>4. g[(i + 1) + 1] \in Seq(X)
        BY <3>2, <3>3
      <3>5. QED
        BY <3>1, <3>4
    <2>3. n - 1 \in Nat
      BY <1>1
    <2> HIDE DEF T
    <2>4. 0..(n - 1) \subseteq T
      BY <2>1, <2>2, <2>3, BoundedInduction
    <2>5. QED
      BY <2>4 DEF T
  <1>9. ASSUME NEW i \in 1..n PROVE g[i] \in Seq(X)
    <2>1. i - 1 \in 0..(n - 1) /\ (i - 1) + 1 = i
      BY <1>1
    <2>2. QED
      BY <1>8, <2>1
  <1>10. g \in [1..n -> Seq(X)]
    <2>1. g = [i \in 1..n |-> g[i]]
      BY <1>3, <1>5
    <2>2. QED
      BY <1>9, <2>1
  <1>11. QED
    BY <1>4, <1>6, <1>7, <1>10

\* The first sequence comes first.
LEMMA FlattenFirst ==
  ASSUME NEW X, NEW s \in Seq(Seq(X)), s # <<>>
  PROVE  /\ FlattenSeq(s) \in Seq(X) /\ FlattenSeq(Tail(s)) \in Seq(X)
         /\ FlattenSeq(s) = s[1] \o FlattenSeq(Tail(s))
  <1> DEFINE n == Len(s)
             t == Tail(s)
  <1>1. n \in Nat \ {0} /\ s[1] \in Seq(X) /\ t \in Seq(Seq(X)) /\ Len(t) = n - 1
        /\ \A i \in DOMAIN t : t[i] = s[i + 1]
    BY Popped
  <1>2. PICK g : /\ g \in [1..n -> Seq(X)] /\ FlattenSeq(s) = g[n] /\ g[1] = s[1]
                 /\ \A i \in 1..(n - 1) : g[i + 1] = g[i] \o s[i + 1]
    BY Flattened
  <1> HIDE DEF t, n
  <1>3. CASE t = <<>>
    <2>1. n = 1
      <3>1. Len(t) = 0
        BY <1>3
      <3>2. QED
        BY <1>1, <3>1
    <2>2. FlattenSeq(t) = <<>>
      BY <1>3 DEF FlattenSeq
    <2>3. s[1] \o <<>> = s[1] /\ <<>> \in Seq(X)
      BY <1>1, ConcatEmptySeq
    <2>4. QED
      BY <1>1, <1>2, <2>1, <2>2, <2>3 DEF n, t
  <1>4. CASE t # <<>>
    <2>1. PICK h : /\ h \in [1..Len(t) -> Seq(X)] /\ FlattenSeq(t) = h[Len(t)] /\ h[1] = t[1]
                   /\ \A i \in 1..(Len(t) - 1) : h[i + 1] = h[i] \o t[i + 1]
      BY <1>1, <1>4, Flattened
    <2> DEFINE m == n - 2
    <2>2. m \in Nat /\ Len(t) = m + 1 /\ n = m + 2
      BY <1>1, <1>4
    <2> HIDE DEF m
    <2>3. DOMAIN t = 1..(m + 1)
      BY <1>1, <2>2
    <2> DEFINE T == {k \in 0..m : g[k + 2] = s[1] \o h[k + 1]}
    <2>4. 0 \in T
      <3>1. g[1 + 1] = g[1] \o s[1 + 1]
        <4>1. 1 \in 1..(n - 1)
          BY <2>2
        <4>2. QED
          BY <1>2, <4>1
      <3>2. h[1] = s[1 + 1]
        <4>1. 1 \in DOMAIN t
          BY <2>2, <2>3
        <4>2. QED
          BY <1>1, <2>1, <4>1
      <3>3. g[1 + 1] = s[1] \o h[1]
        BY <1>2, <3>1, <3>2
      <3>4. 0 \in 0..m /\ 0 + 2 = 1 + 1 /\ 0 + 1 = 1
        BY <2>2
      <3>5. g[0 + 2] = s[1] \o h[0 + 1]
        BY <3>3, <3>4
      <3>6. QED
        BY <3>4, <3>5
    <2>5. ASSUME NEW k \in 0..m - 1, k \in T PROVE k + 1 \in T
      <3>1. g[(k + 2) + 1] = g[k + 2] \o s[(k + 2) + 1]
        <4>1. k + 2 \in 1..(n - 1)
          BY <2>2
        <4>2. QED
          BY <1>2, <4>1
      <3>2. h[(k + 1) + 1] = h[k + 1] \o t[(k + 1) + 1] /\ h[k + 1] \in Seq(X)
        <4>1. k + 1 \in 1..(Len(t) - 1) /\ k + 1 \in 1..Len(t)
          BY <2>2
        <4>2. QED
          BY <2>1, <4>1
      <3>3. t[(k + 1) + 1] = s[(k + 2) + 1] /\ s[(k + 2) + 1] \in Seq(X)
        <4>1. (k + 1) + 1 \in DOMAIN t /\ ((k + 1) + 1) + 1 = (k + 2) + 1
          BY <2>2, <2>3
        <4>2. t[(k + 1) + 1] = s[((k + 1) + 1) + 1] /\ t[(k + 1) + 1] \in Seq(X)
          BY <1>1, <4>1
        <4>3. QED
          BY <4>1, <4>2
      <3>4. g[k + 2] = s[1] \o h[k + 1]
        BY <2>5
      <3>5. (s[1] \o h[k + 1]) \o s[(k + 2) + 1] = s[1] \o (h[k + 1] \o s[(k + 2) + 1])
        <4>1. s[1] \in Seq(X) /\ h[k + 1] \in Seq(X) /\ s[(k + 2) + 1] \in Seq(X)
          BY <1>1, <3>2, <3>3
        <4>2. \A a, b, c \in Seq(X) : (a \o b) \o c = a \o (b \o c)
          BY ConcatAssociative
        <4>3. QED
          BY <4>1, <4>2, Zenon
      <3>6. g[(k + 2) + 1] = s[1] \o h[(k + 1) + 1]
        BY <3>1, <3>2, <3>3, <3>4, <3>5
      <3>7. k + 1 \in 0..m /\ (k + 1) + 2 = (k + 2) + 1
        BY <2>2
      <3>8. QED
        BY <3>6, <3>7
    <2>6. m \in T
      <3> HIDE DEF T
      <3>1. 0..m \subseteq T
        BY <2>2, <2>4, <2>5, BoundedInduction
      <3>2. QED
        BY <2>2, <3>1
    <2>7. g[n] = s[1] \o h[Len(t)]
      BY <2>2, <2>6
    <2>8. h[Len(t)] \in Seq(X)
      BY <2>1, <2>2
    <2>9. g[n] \in Seq(X)
      BY <1>1, <1>2
    <2>10. QED
      BY <1>2, <2>1, <2>7, <2>8, <2>9 DEF n, t
  <1>5. QED
    BY <1>3, <1>4

LEMMA FlattenNothing == FlattenSeq(<<>>) = <<>>
  BY DEF FlattenSeq

\* The declarations of a file, the first and the others.
Known(D, p, decls) == \A i \in DOMAIN decls : DeclaredBy(D, p, decls[i]) \in Seq(STRING)

LEMMA DeclaringNothing ==
  ASSUME NEW D, NEW p
  PROVE  Declaring(D, p, <<>>) = <<>>
  <1>1. [i \in DOMAIN <<>> |-> DeclaredBy(D, p, <<>>[i])] = <<>>
    OBVIOUS
  <1>2. QED
    BY <1>1, FlattenNothing DEF Declaring

LEMMA DeclaringFirst ==
  ASSUME NEW D, NEW p, NEW decls \in Seq(Declarations), decls # <<>>, Known(D, p, decls)
  PROVE  /\ Declaring(D, p, Tail(decls)) \in Seq(STRING)
         /\ Declaring(D, p, decls) = DeclaredBy(D, p, decls[1]) \o Declaring(D, p, Tail(decls))
         /\ DeclaredBy(D, p, decls[1]) \in Seq(STRING)
  <1> DEFINE rest == Tail(decls)
             parts == [i \in DOMAIN decls |-> DeclaredBy(D, p, decls[i])]
             others == [i \in DOMAIN rest |-> DeclaredBy(D, p, rest[i])]
             n == Len(decls)
  <1>1. /\ n \in Nat \ {0} /\ rest \in Seq(Declarations) /\ Len(rest) = n - 1
        /\ DOMAIN decls = 1..n /\ DOMAIN rest = 1..(n - 1)
        /\ \A i \in DOMAIN rest : i + 1 \in DOMAIN decls /\ rest[i] = decls[i + 1]
    BY Popped
  <1>2. parts \in Seq(Seq(STRING)) /\ Len(parts) = n /\ parts # <<>>
        /\ \A i \in DOMAIN decls : parts[i] = DeclaredBy(D, p, decls[i])
    <2>1. \A i \in 1..n : DeclaredBy(D, p, decls[i]) \in Seq(STRING)
      BY <1>1 DEF Known
    <2>2. QED
      BY <1>1, <2>1
  <1>3. others \in Seq(Seq(STRING)) /\ Len(others) = n - 1
        /\ \A i \in 1..(n - 1) : others[i] = DeclaredBy(D, p, decls[i + 1])
    <2>1. \A i \in 1..(n - 1) : rest[i] = decls[i + 1] /\ DeclaredBy(D, p, decls[i + 1]) \in Seq(STRING)
      BY <1>1 DEF Known
    <2> HIDE DEF rest
    <2>2. QED
      BY <1>1, <2>1
  <1> HIDE DEF parts, others, rest
  <1>4. /\ Tail(parts) \in Seq(Seq(STRING)) /\ Len(Tail(parts)) = n - 1
        /\ \A i \in DOMAIN Tail(parts) : Tail(parts)[i] = parts[i + 1]
    BY <1>2, Popped
  <1>5. Tail(parts) = others
    <2>1. ASSUME NEW i \in 1..Len(others) PROVE others[i] = Tail(parts)[i]
      <3>1. i \in 1..(n - 1) /\ i \in DOMAIN Tail(parts) /\ i + 1 \in DOMAIN decls
        BY <1>1, <1>3, <1>4
      <3>2. QED
        BY <1>2, <1>3, <1>4, <3>1
    <2>2. QED
      BY <1>3, <1>4, <2>1, SeqEqual
  <1>6. FlattenSeq(parts) = parts[1] \o FlattenSeq(others) /\ FlattenSeq(others) \in Seq(STRING)
    BY <1>2, <1>5, FlattenFirst
  <1>7. parts[1] = DeclaredBy(D, p, decls[1]) /\ DeclaredBy(D, p, decls[1]) \in Seq(STRING)
    <2>1. 1 \in DOMAIN decls
      BY <1>1
    <2>2. QED
      BY <1>2, <2>1 DEF Known
  <1>8. QED
    BY <1>6, <1>7 DEF Declaring, parts, others, rest

LEMMA DeclaringTyped ==
  ASSUME NEW D, NEW p, NEW decls \in Seq(Declarations), Known(D, p, decls)
  PROVE  Declaring(D, p, decls) \in Seq(STRING)
  <1>1. CASE decls = <<>>
    <2>1. Declaring(D, p, decls) = <<>>
      BY <1>1, DeclaringNothing
    <2>2. QED
      BY <2>1, EmptySeq
  <1>2. CASE decls # <<>>
    BY <1>2, DeclaringFirst, ConcatProperties
  <1>3. QED
    BY <1>1, <1>2

\* The declarations of the frames, the first and the others.
Left(D, frames) == FlattenSeq([f \in DOMAIN frames |-> Declaring(D, frames[f].path, frames[f].rest)])
AllKnown(D, frames) == \A f \in DOMAIN frames : Known(D, frames[f].path, frames[f].rest)

LEMMA LeftNothing ==
  ASSUME NEW D
  PROVE  Left(D, <<>>) = <<>>
  <1>1. [f \in DOMAIN <<>> |-> Declaring(D, <<>>[f].path, <<>>[f].rest)] = <<>>
    OBVIOUS
  <1>2. QED
    BY <1>1, FlattenNothing DEF Left

LEMMA LeftFirst ==
  ASSUME NEW D, NEW frames \in Seq(Frames), frames # <<>>, AllKnown(D, frames)
  PROVE  /\ Left(D, Tail(frames)) \in Seq(STRING)
         /\ Left(D, frames) = Declaring(D, frames[1].path, frames[1].rest) \o Left(D, Tail(frames))
         /\ Declaring(D, frames[1].path, frames[1].rest) \in Seq(STRING)
  <1> DEFINE below == Tail(frames)
             parts == [f \in DOMAIN frames |-> Declaring(D, frames[f].path, frames[f].rest)]
             others == [f \in DOMAIN below |-> Declaring(D, below[f].path, below[f].rest)]
             n == Len(frames)
  <1>1. /\ n \in Nat \ {0} /\ below \in Seq(Frames) /\ Len(below) = n - 1
        /\ DOMAIN frames = 1..n /\ DOMAIN below = 1..(n - 1)
        /\ \A f \in DOMAIN below : f + 1 \in DOMAIN frames /\ below[f] = frames[f + 1]
    BY Popped
  <1>2. ASSUME NEW f \in DOMAIN frames
        PROVE  Declaring(D, frames[f].path, frames[f].rest) \in Seq(STRING)
    <2>1. frames[f] \in Frames
      OBVIOUS
    <2>1a. frames[f].rest \in Seq(Declarations)
      BY <2>1 DEF Frames
    <2>2. QED
      BY <2>1a, DeclaringTyped DEF AllKnown
  <1>3. parts \in Seq(Seq(STRING)) /\ Len(parts) = n /\ parts # <<>>
        /\ \A f \in DOMAIN frames : parts[f] = Declaring(D, frames[f].path, frames[f].rest)
    BY <1>1, <1>2
  <1>4. others \in Seq(Seq(STRING)) /\ Len(others) = n - 1
        /\ \A f \in 1..(n - 1) : others[f] = Declaring(D, frames[f + 1].path, frames[f + 1].rest)
    <2>1. \A f \in 1..(n - 1) : below[f] = frames[f + 1]
            /\ Declaring(D, frames[f + 1].path, frames[f + 1].rest) \in Seq(STRING)
      BY <1>1, <1>2
    <2> HIDE DEF below
    <2>2. QED
      BY <1>1, <2>1
  <1> HIDE DEF parts, others, below
  <1>5. /\ Tail(parts) \in Seq(Seq(STRING)) /\ Len(Tail(parts)) = n - 1
        /\ \A f \in DOMAIN Tail(parts) : Tail(parts)[f] = parts[f + 1]
    BY <1>3, Popped
  <1>6. Tail(parts) = others
    <2>1. ASSUME NEW f \in 1..Len(others) PROVE others[f] = Tail(parts)[f]
      <3>1. f \in 1..(n - 1) /\ f \in DOMAIN Tail(parts) /\ f + 1 \in DOMAIN frames
        BY <1>1, <1>4, <1>5
      <3>2. QED
        BY <1>3, <1>4, <1>5, <3>1
    <2>2. QED
      BY <1>4, <1>5, <2>1, SeqEqual
  <1>7. FlattenSeq(parts) = parts[1] \o FlattenSeq(others) /\ FlattenSeq(others) \in Seq(STRING)
    BY <1>3, <1>6, FlattenFirst
  <1>8. 1 \in DOMAIN frames
    BY <1>1
  <1>9. parts[1] = Declaring(D, frames[1].path, frames[1].rest)
        /\ Declaring(D, frames[1].path, frames[1].rest) \in Seq(STRING)
    BY <1>2, <1>3, <1>8
  <1>10. QED
    BY <1>7, <1>9 DEF Left, parts, others, below

LEMMA LeftPushed ==
  ASSUME NEW D, NEW a \in Frames, NEW s \in Seq(Frames), AllKnown(D, s), Known(D, a.path, a.rest)
  PROVE  /\ Left(D, <<a>> \o s) = Declaring(D, a.path, a.rest) \o Left(D, s)
         /\ Left(D, s) \in Seq(STRING) /\ Declaring(D, a.path, a.rest) \in Seq(STRING)
         /\ AllKnown(D, <<a>> \o s)
  <1> DEFINE frames == <<a>> \o s
  <1>1. frames \in Seq(Frames) /\ Len(frames) = Len(s) + 1 /\ frames[1] = a
        /\ \A f \in DOMAIN s : frames[f + 1] = s[f]
    BY Pushed
  <1>2. Len(s) \in Nat /\ DOMAIN s = 1..Len(s)
    OBVIOUS
  <1> HIDE DEF frames
  <1>3. AllKnown(D, frames)
    <2>1. ASSUME NEW f \in DOMAIN frames PROVE Known(D, frames[f].path, frames[f].rest)
      <3>1. CASE f = 1
        BY <1>1, <3>1
      <3>2. CASE f # 1
        <4>1. f - 1 \in DOMAIN s /\ (f - 1) + 1 = f
          BY <1>1, <1>2, <3>2
        <4>2. frames[f] = s[f - 1]
          BY <1>1, <4>1
        <4>3. QED
          BY <4>1, <4>2 DEF AllKnown
      <3>3. QED
        BY <3>1, <3>2
    <2>2. QED
      BY <2>1 DEF AllKnown
  <1>4. frames # <<>>
    BY <1>1, <1>2
  <1>5. Tail(frames) = s
    <2>1. /\ Tail(frames) \in Seq(Frames) /\ Len(Tail(frames)) = Len(frames) - 1
          /\ \A f \in DOMAIN Tail(frames) : Tail(frames)[f] = frames[f + 1]
      BY <1>1, <1>4, Popped
    <2>2. ASSUME NEW f \in 1..Len(s) PROVE Tail(frames)[f] = s[f]
      <3>1. f \in DOMAIN Tail(frames) /\ f \in DOMAIN s
        BY <1>1, <1>2, <2>1
      <3>2. QED
        BY <1>1, <2>1, <3>1
    <2>3. Len(Tail(frames)) = Len(s)
      BY <1>1, <1>2, <2>1
    <2>4. QED
      BY <2>1, <2>2, <2>3, SeqEqual
  <1>6. /\ Left(D, Tail(frames)) \in Seq(STRING)
        /\ Left(D, frames) = Declaring(D, frames[1].path, frames[1].rest) \o Left(D, Tail(frames))
        /\ Declaring(D, frames[1].path, frames[1].rest) \in Seq(STRING)
    BY <1>1, <1>3, <1>4, LeftFirst
  <1>7. QED
    BY <1>1, <1>3, <1>5, <1>6 DEF frames

\* A reading D of the files in R says of every one of them what it declares.
Reading(D, R) ==
  /\ filename \in R /\ R \subseteq DOMAIN disk
  /\ \A p \in R : Imported(p) \subseteq R
  /\ D \in [R -> Seq(STRING)] /\ \A p \in R : D[p] = Declaring(D, p, disk[p])

\* What is declared, and what the frames have still to declare, is what the
\* script declares under any reading.
InPlace == Alive => \A R : \A D : Reading(D, R) => bound \o Left(D, imports) = D[filename]

LEMMA ReadingTyped ==
  ASSUME Types, NEW D, NEW R, Reading(D, R), NEW p \in R, NEW i \in DOMAIN disk[p]
  PROVE  /\ DeclaredBy(D, p, disk[p][i]) \in Seq(STRING)
         /\ IsImport(disk[p][i]) => DeclaredBy(D, p, disk[p][i]) = D[ImportPath(p, disk[p][i].path)]
                                    /\ ImportPath(p, disk[p][i].path) \in R
         /\ disk[p][i].kind \in {"var", "func"} => DeclaredBy(D, p, disk[p][i]) = <<disk[p][i].name>>
         /\ disk[p][i].kind \in {"use", "error"} => DeclaredBy(D, p, disk[p][i]) = <<>>
  <1> DEFINE d == disk[p][i]
  <1>1. disk[p] \in Seq(Declarations)
    BY DEF Types, Reading
  <1>2. d \in Declarations
    BY <1>1
  <1>3. d.kind \in {"import", "import_as", "use", "var", "func", "error"} /\ d.name \in STRING
    BY <1>2 DEF Declarations
  <1>4. IsImport(d) => ImportPath(p, d.path) \in Imported(p)
    BY DEF Imported
  <1>5. IsImport(d) => ImportPath(p, d.path) \in R /\ D[ImportPath(p, d.path)] \in Seq(STRING)
    BY <1>4 DEF Reading
  <1>6. <<d.name>> \in Seq(STRING) /\ <<>> \in Seq(STRING)
    BY <1>3
  <1> HIDE DEF d
  <1>7. IsImport(d) <=> d.kind \in {"import", "import_as"}
    BY DEF IsImport
  <1>8. /\ IsImport(d) => DeclaredBy(D, p, d) = D[ImportPath(p, d.path)]
        /\ d.kind \in {"var", "func"} => DeclaredBy(D, p, d) = <<d.name>>
        /\ d.kind \in {"use", "error"} => DeclaredBy(D, p, d) = <<>>
    BY <1>7 DEF DeclaredBy
  <1>9. DeclaredBy(D, p, d) \in Seq(STRING)
    BY <1>3, <1>5, <1>6, <1>7, <1>8
  <1>10. QED
    BY <1>5, <1>8, <1>9 DEF d

LEMMA ReadingKnows ==
  ASSUME Types, Framed, Imports, NEW D, NEW R, Reading(D, R)
  PROVE  /\ \A j \in DOMAIN read : read[j] \in R
         /\ AllKnown(D, imports)
  <1> DEFINE Missing == {j \in DOMAIN read : read[j] \notin R}
  <1>1. Missing = {}
    <2>1. SUFFICES ASSUME Missing # {} PROVE FALSE
      OBVIOUS
    <2>2. read \in Seq(Paths) /\ DOMAIN read \subseteq Nat \ {0}
      BY DEF Types
    <2>3. PICK j \in Missing : \A m \in Missing : j <= m
      <3>1. Missing \in SUBSET Nat
        BY <2>2
      <3> HIDE DEF Missing
      <3>2. QED
        BY <2>1, <3>1, LeastElement
    <2>4. j > 1
      BY <2>2 DEF Framed, Reading
    <2>5. PICK i \in DOMAIN read : i < j /\ read[j] \in Imported(read[i])
      BY <2>4 DEF Imports
    <2>6. i \notin Missing
      BY <2>2, <2>3, <2>5
    <2>7. QED
      BY <2>5, <2>6 DEF Reading
  <1>2. ASSUME NEW f \in DOMAIN imports
        PROVE  Known(D, imports[f].path, imports[f].rest)
    <2> DEFINE p == imports[f].path
               rest == imports[f].rest
    <2>1. p \in R /\ IsRest(rest, disk[p])
      BY <1>1 DEF Framed
    <2>1a. imports[f] \in Frames
      BY DEF Types
    <2>2. rest \in Seq(Declarations) /\ disk[p] \in Seq(Declarations)
      BY <2>1, <2>1a DEF Types, Frames, Reading
    <2> HIDE DEF p, rest
    <2>3. ASSUME NEW i \in DOMAIN rest
          PROVE  DeclaredBy(D, p, rest[i]) \in Seq(STRING)
      <3> DEFINE k == Len(disk[p]) - Len(rest) + i
      <3>1. k \in DOMAIN disk[p] /\ rest[i] = disk[p][k]
        BY <2>1, <2>2 DEF IsRest
      <3> HIDE DEF k
      <3>2. QED
        BY <2>1, <3>1, ReadingTyped
    <2>4. QED
      BY <2>3 DEF Known, p, rest
  <1>3. QED
    BY <1>1, <1>2 DEF AllKnown

\* What is left, split at the declaration to be done.
LEMMA LeftSplit ==
  ASSUME Types, Framed, Imports, imports # <<>>, current.rest # <<>>,
         NEW D, NEW R, Reading(D, R)
  PROVE  \E P, T, L \in Seq(STRING) :
           /\ P = DeclaredBy(D, current.path, declaration)
           /\ Left(D, imports) = (P \o T) \o L /\ Left(D, Advanced) = T \o L
           /\ Advanced \in Seq(Frames) /\ AllKnown(D, Advanced)
  <1> DEFINE P == DeclaredBy(D, current.path, declaration)
             T == Declaring(D, current.path, Tail(current.rest))
             L == Left(D, Tail(imports))
  <1>1. imports \in Seq(Frames) /\ AllKnown(D, imports) /\ current = imports[1]
    BY ReadingKnows, Current DEF Types
  <1>2. /\ current.rest \in Seq(Declarations) /\ declaration = current.rest[1]
        /\ Tail(current.rest) \in Seq(Declarations)
        /\ Next_of(current) = [path |-> current.path, rest |-> Tail(current.rest)]
        /\ Next_of(current) \in Frames
    BY Current
  <1>3. L \in Seq(STRING) /\ Left(D, imports) = Declaring(D, current.path, current.rest) \o L
    BY <1>1, LeftFirst
  <1>4. Known(D, current.path, current.rest)
    <2>1. 1 \in DOMAIN imports
      BY <1>1
    <2>2. QED
      BY <1>1, <2>1 DEF AllKnown
  <1> HIDE DEF current, declaration
  <1>5. /\ T \in Seq(STRING) /\ P \in Seq(STRING)
        /\ Declaring(D, current.path, current.rest) = P \o T
    BY <1>2, <1>4, DeclaringFirst
  <1>6. Tail(imports) \in Seq(Frames) /\ AllKnown(D, Tail(imports))
    <2>1. /\ Tail(imports) \in Seq(Frames)
          /\ \A f \in DOMAIN Tail(imports) : f + 1 \in DOMAIN imports /\ Tail(imports)[f] = imports[f + 1]
      BY <1>1, Popped
    <2>2. QED
      BY <1>1, <2>1 DEF AllKnown
  <1>7. Known(D, Next_of(current).path, Next_of(current).rest)
    <2>1. ASSUME NEW i \in DOMAIN Tail(current.rest)
          PROVE  DeclaredBy(D, current.path, Tail(current.rest)[i]) \in Seq(STRING)
      <3>1. i + 1 \in DOMAIN current.rest /\ Tail(current.rest)[i] = current.rest[i + 1]
        BY <1>2, Popped
      <3>2. QED
        BY <1>4, <3>1 DEF Known
    <2>2. Next_of(current).path = current.path /\ Next_of(current).rest = Tail(current.rest)
      BY <1>2
    <2>3. QED
      BY <2>1, <2>2 DEF Known
  <1> DEFINE next == Next_of(current)
  <1>8. next.path = current.path /\ next.rest = Tail(current.rest) /\ next \in Frames
        /\ Known(D, next.path, next.rest)
    BY <1>2, <1>7
  <1>9. Advanced = <<next>> \o Tail(imports)
    BY DEF Advanced
  <1> HIDE DEF next
  <1>10. Left(D, Advanced) = T \o L /\ AllKnown(D, Advanced)
    <2>1. Left(D, Advanced) = Declaring(D, next.path, next.rest) \o L /\ AllKnown(D, Advanced)
      BY <1>6, <1>8, <1>9, LeftPushed
    <2>2. QED
      BY <1>8, <2>1
  <1>11. Advanced \in Seq(Frames)
    BY <1>6, <1>8, <1>9, Pushed
  <1> HIDE DEF P, T, L
  <1>12. QED
    BY <1>3, <1>5, <1>10, <1>11 DEF P

\* Where neither the names nor the imports change, nor does the order.
LEMMA InPlaceSettled ==
  ASSUME InPlace, Alive, UNCHANGED <<bound, imports, filename, disk>>
  PROVE  InPlace'
  <1>1. ASSUME NEW R, NEW D, Reading(D, R)'
        PROVE  (bound \o Left(D, imports))' = D[filename']
    <2>1. Reading(D, R)
      BY <1>1 DEF Reading, Imported
    <2>2. bound \o Left(D, imports) = D[filename]
      BY <2>1 DEF InPlace
    <2>3. QED
      BY <2>2
  <1>2. QED
    BY <1>1 DEF InPlace

LEMMA InPlaceKept ==
  ASSUME IInv, InPlace, [Next]_vars
  PROVE  InPlace'
  <1>0. Types /\ Scoping /\ Opening /\ Importing
    BY DEF IInv
  <1>1. SUFFICES ASSUME Alive' PROVE InPlace'
    BY DEF InPlace
  <1>2. CASE UNCHANGED vars
    <2>1. Alive
      BY <1>1, <1>2 DEF Alive, vars
    <2>2. QED
      BY <1>2, <2>1, InPlaceSettled DEF vars, arguments, names
  <1>3. CASE TakeFile \/ TakeOption \/ Usage \/ lexer \/ parser
    BY <1>1, <1>3 DEF TakeFile, TakeOption, Usage, lexer, parser, In, Alive, Started
  <1>4. CASE add_globals \/ ir_run \/ main_returns
    <2>1. Alive /\ UNCHANGED <<bound, imports, filename, disk>>
      BY <1>4 DEF add_globals, ir_run, main_returns, In, Alive, Started, arguments, names
    <2>2. QED
      BY <2>1, InPlaceSettled
  <1>5. CASE init_ir
    <2>1. /\ UNCHANGED <<filename, disk, bound>> /\ bound = <<>> /\ filename \in DOMAIN disk
          /\ imports' = <<[path |-> filename, rest |-> disk[filename]]>>
      BY <1>0, <1>5 DEF init_ir, In, arguments, names, Opening, Scoping, Early
    <2>2. SUFFICES ASSUME NEW R, NEW D, Reading(D, R)
                   PROVE  bound' \o Left(D, imports') = D[filename]
      BY <2>1 DEF InPlace, Reading, Imported
    <2> DEFINE frame == [path |-> filename, rest |-> disk[filename]]
    <2>3. frame \in Frames /\ frame.path = filename /\ frame.rest = disk[filename]
      BY <1>0, <2>1 DEF Frames, Types
    <2>4. Known(D, filename, disk[filename])
      BY <1>0, <2>2, ReadingTyped DEF Known, Reading
    <2>5. imports' = <<frame>> \o <<>> /\ <<>> \in Seq(Frames)
      <3>1. <<frame>> \in Seq(Frames) /\ <<>> \in Seq(Frames)
        BY <2>3, EmptySeq
      <3>2. <<frame>> \o <<>> = <<frame>>
        BY <3>1, ConcatEmptySeq
      <3>3. QED
        BY <2>1, <3>1, <3>2
    <2> HIDE DEF frame
    <2>6. AllKnown(D, <<>>)
      BY DEF AllKnown
    <2>7. Left(D, imports') = Declaring(D, filename, disk[filename]) \o <<>>
          /\ Declaring(D, filename, disk[filename]) \in Seq(STRING)
      BY <2>3, <2>4, <2>5, <2>6, LeftPushed, LeftNothing
    <2>8. Left(D, imports') = D[filename] /\ D[filename] \in Seq(STRING)
      BY <2>2, <2>7, ConcatEmptySeq DEF Reading
    <2>9. QED
      BY <2>1, <2>8, ConcatEmptySeq
  <1>6. ASSUME status = "running", phase = "top_levels", imports # <<>>, UNCHANGED <<filename, disk>>,
               NEW R, NEW D, Reading(D, R)'
        PROVE  /\ Types /\ Framed /\ Imports /\ Reading(D, R)
               /\ bound \in Seq(STRING) /\ bound \o Left(D, imports) = D[filename]
    <2>1. Reading(D, R)
      BY <1>6 DEF Reading, Imported
    <2>2. Alive
      BY <1>6 DEF Alive
    <2>3. QED
      BY <1>0, <2>1, <2>2 DEF Importing, InPlace, Scoping
  <1>7. CASE ir_use_library \/ declare_var \/ declare_func
    <2>1. /\ status = "running" /\ phase = "top_levels" /\ current.rest # <<>> /\ imports' = Advanced
          /\ UNCHANGED <<filename, disk>> /\ status' = "running" /\ imports # <<>>
      BY <1>0, <1>1, <1>7, LeafStep DEF Alive, Started, arguments, Advanced, Types
    <2>2. SUFFICES ASSUME NEW R, NEW D, Reading(D, R)' PROVE bound' \o Left(D, imports') = D[filename]
      BY <2>1 DEF InPlace
    <2>3. /\ Types /\ Framed /\ Imports /\ Reading(D, R)
          /\ bound \in Seq(STRING) /\ bound \o Left(D, imports) = D[filename]
      BY <1>6, <2>1, <2>2
    <2>4. PICK P, T, L \in Seq(STRING) :
            /\ P = DeclaredBy(D, current.path, declaration)
            /\ Left(D, imports) = (P \o T) \o L /\ Left(D, Advanced) = T \o L
      BY <2>1, <2>3, LeftSplit
    <2>5. /\ declaration \in Declarations /\ ~IsImport(declaration)
          /\ \/ declaration.kind = "use" /\ bound' = bound
             \/ declaration.kind \in {"var", "func"} /\ bound' = Append(bound, declaration.name)
      BY <1>0, <1>7, <2>1, LeafNames
    <2> HIDE DEF current, declaration
    <2>6. bound' = bound \o P
      <3>1. CASE declaration.kind = "use" /\ bound' = bound
        <4>1. P = <<>>
          BY <2>4, <2>5, <3>1 DEF DeclaredBy
        <4>2. QED
          BY <2>3, <3>1, <4>1, ConcatEmptySeq
      <3>2. CASE declaration.kind \in {"var", "func"} /\ bound' = Append(bound, declaration.name)
        <4>1. P = <<declaration.name>> /\ declaration.name \in STRING
          BY <2>4, <2>5, <3>2 DEF DeclaredBy, Declarations
        <4>2. QED
          BY <2>3, <3>2, <4>1, AppendIsConcat
      <3>3. QED
        BY <2>5, <3>1, <3>2
    <2> DEFINE left == Left(D, imports')
    <2>7. left = T \o L /\ bound \o ((P \o T) \o L) = D[filename]
      BY <2>1, <2>3, <2>4
    <2> HIDE DEF left
    <2>8. (bound \o P) \o (T \o L) = bound \o ((P \o T) \o L)
      <3>1. bound \in Seq(STRING) /\ P \in Seq(STRING) /\ T \in Seq(STRING) /\ L \in Seq(STRING)
        BY <2>3
      <3>2. \A a, b, c \in Seq(STRING) : (a \o b) \o c = a \o (b \o c)
        BY ConcatAssociative
      <3>3. T \o L \in Seq(STRING)
        BY <3>1, ConcatProperties
      <3>4. (bound \o P) \o (T \o L) = bound \o (P \o (T \o L))
        BY <3>1, <3>2, <3>3, Zenon
      <3>5. (P \o T) \o L = P \o (T \o L)
        BY <3>1, <3>2, Zenon
      <3>6. QED
        BY <3>4, <3>5
    <2>9. bound' \o left = D[filename]
      BY <2>6, <2>7, <2>8
    <2>10. QED
      BY <2>9 DEF left
  <1>8. CASE ir_import_file
    <2> DEFINE path == ImportPath(current.path, declaration.path)
               frame == [path |-> path, rest |-> disk[path]]
    <2>1. /\ status = "running" /\ phase = "top_levels" /\ current.rest # <<>> /\ imports # <<>>
          /\ UNCHANGED <<filename, disk, bound>> /\ status' = "running"
          /\ declaration.kind \in {"import", "import_as"}
      BY <1>0, <1>1, <1>8 DEF ir_import_file, Declares, In, arguments, names, Alive, Started, Types
    <2>2. path \in DOMAIN disk /\ imports' = <<frame>> \o Advanced
      <3> DEFINE good == Readable(path) /\ Parses(path)
      <3>1. ~good => \E c : exit(c)
        BY <1>8 DEF ir_import_file
      <3>2. good
        BY <2>1, <3>1 DEF exit
      <3>3. declaration.kind = "import_as" => Stops("assert_namespace")
        BY <1>8, <3>2 DEF ir_import_file
      <3>4. declaration.kind = "import"
        BY <2>1, <3>3 DEF Stops
      <3>5. imports' = Import(path)
        BY <1>8, <3>2, <3>4 DEF ir_import_file
      <3>6. QED
        BY <3>2, <3>5 DEF Readable, Import
    <2>3. SUFFICES ASSUME NEW R, NEW D, Reading(D, R)' PROVE bound' \o Left(D, imports') = D[filename]
      BY <2>1 DEF InPlace
    <2>4. /\ Types /\ Framed /\ Imports /\ Reading(D, R)
          /\ bound \in Seq(STRING) /\ bound \o Left(D, imports) = D[filename]
      BY <1>6, <2>1, <2>3
    <2>5. PICK P, T, L \in Seq(STRING) :
            /\ P = DeclaredBy(D, current.path, declaration)
            /\ Left(D, imports) = (P \o T) \o L /\ Left(D, Advanced) = T \o L
            /\ Advanced \in Seq(Frames) /\ AllKnown(D, Advanced)
      BY <2>1, <2>4, LeftSplit
    <2>6. path \in R /\ P = D[path]
      <3>1. /\ current.path \in R
            /\ \E i \in DOMAIN disk[current.path] : declaration = disk[current.path][i]
        <4>1. (\E j \in DOMAIN read : read[j] = current.path)
              /\ declaration = disk[current.path][Len(disk[current.path]) - Len(current.rest) + 1]
              /\ Len(disk[current.path]) - Len(current.rest) + 1 \in DOMAIN disk[current.path]
          BY <2>1, <2>4, CurrentFramed
        <4>2. \A j \in DOMAIN read : read[j] \in R
          BY <2>4, ReadingKnows
        <4>3. QED
          BY <4>1, <4>2
      <3>2. IsImport(declaration)
        BY <2>1 DEF IsImport
      <3>3. QED
        BY <2>4, <2>5, <3>1, <3>2, ReadingTyped
    <2>7. /\ frame.path = path /\ frame.rest = disk[path] /\ frame \in Frames
          /\ Known(D, path, disk[path]) /\ D[path] = Declaring(D, path, disk[path])
      <3>1. disk[path] \in Seq(Declarations) /\ path \in Paths
        BY <2>2, <2>4 DEF Types
      <3>2. Known(D, path, disk[path])
        BY <2>4, <2>6, ReadingTyped DEF Known
      <3>3. D[path] = Declaring(D, path, disk[path])
        BY <2>4, <2>6 DEF Reading
      <3>4. QED
        BY <3>1, <3>2, <3>3 DEF Frames
    <2> HIDE DEF frame, path
    <2>8. Left(D, imports') = P \o (T \o L)
      BY <2>2, <2>5, <2>6, <2>7, LeftPushed
    <2>9. (P \o T) \o L = P \o (T \o L)
      BY <2>5, ConcatAssociative
    <2>10. QED
      BY <2>1, <2>4, <2>5, <2>8, <2>9
  <1>9. CASE file_ends
    <2>1. /\ status = "running" /\ phase = "top_levels" /\ current.rest = <<>> /\ imports # <<>>
          /\ UNCHANGED <<filename, disk, bound>> /\ imports' = Tail(imports)
      BY <1>0, <1>9 DEF file_ends, In, arguments, names, Types
    <2>2. SUFFICES ASSUME NEW R, NEW D, Reading(D, R)' PROVE bound' \o Left(D, imports') = D[filename]
      BY <2>1 DEF InPlace
    <2>3. /\ Types /\ Framed /\ Imports /\ Reading(D, R)
          /\ bound \in Seq(STRING) /\ bound \o Left(D, imports) = D[filename]
      BY <1>6, <2>1, <2>2
    <2>4. imports \in Seq(Frames) /\ AllKnown(D, imports) /\ current = imports[1]
      BY <2>1, <2>3, ReadingKnows, Current DEF Types
    <2>5. Left(D, Tail(imports)) \in Seq(STRING)
          /\ Left(D, imports) = Declaring(D, imports[1].path, imports[1].rest) \o Left(D, Tail(imports))
      BY <2>1, <2>4, LeftFirst
    <2>6. Declaring(D, imports[1].path, imports[1].rest) = <<>>
      BY <2>1, <2>4, DeclaringNothing
    <2>7. Left(D, imports) = Left(D, Tail(imports))
      BY <2>5, <2>6, ConcatEmptySeq
    <2>8. QED
      BY <2>1, <2>3, <2>7
  <1>10. QED
    BY <1>2, <1>3, <1>4, <1>5, <1>7, <1>8, <1>9 DEF Next

LEMMA InPlaceFirst ==
  ASSUME Init
  PROVE  InPlace
  BY DEF Init, InPlace, Alive, Started

\* The i-th last file read, and the last n of them.
FromEnd(i) == read[Len(read) + 1 - i]
LastRead(n) == {FromEnd(i) : i \in 1..n}

\* All declarations are done: a file imports only files read after it.
Settled == Types /\ Framed /\ Imports /\ Effects /\ Once /\ imports = <<>>

LEMMA FromEndProperties ==
  ASSUME Settled
  PROVE  /\ Len(read) \in Nat /\ LastRead(0) = {} /\ LastRead(Len(read)) = ToSet(read)
         /\ \A n \in 0..(Len(read) - 1) : /\ FromEnd(n + 1) \notin LastRead(n)
                                          /\ LastRead(n + 1) = LastRead(n) \cup {FromEnd(n + 1)}
         /\ filename \in ToSet(read) /\ ToSet(read) \subseteq DOMAIN disk
  <1>1. /\ read \in Seq(Paths) /\ Len(read) \in Nat /\ DOMAIN read = 1..Len(read)
        /\ IsInjective(read) /\ 1 \in DOMAIN read /\ read[1] = filename
        /\ \A j \in DOMAIN read : read[j] \in DOMAIN disk
    <2>1. read \in Seq(Paths) /\ read # <<>> /\ read[1] = filename
          /\ \A j \in DOMAIN read : read[j] \in DOMAIN disk
      BY DEF Settled, Types, Framed
    <2>2. IsInjective(read)
      BY NoneReadTwice DEF Settled
    <2>3. QED
      BY <2>1, <2>2
  <1>2. LastRead(0) = {}
    BY DEF LastRead
  <1>3. LastRead(Len(read)) = ToSet(read)
    <2>1. ASSUME NEW p \in ToSet(read) PROVE p \in LastRead(Len(read))
      <3>1. PICK j \in DOMAIN read : p = read[j]
        BY DEF ToSet
      <3>2. Len(read) + 1 - j \in 1..Len(read) /\ Len(read) + 1 - (Len(read) + 1 - j) = j
        BY <1>1, <3>1
      <3>3. QED
        BY <3>1, <3>2 DEF LastRead, FromEnd
    <2>2. ASSUME NEW i \in 1..Len(read) PROVE FromEnd(i) \in ToSet(read)
      <3>1. Len(read) + 1 - i \in DOMAIN read
        BY <1>1
      <3>2. QED
        BY <3>1 DEF FromEnd, ToSet
    <2>3. QED
      BY <2>1, <2>2 DEF LastRead
  <1>4. ASSUME NEW n \in 0..(Len(read) - 1)
        PROVE  FromEnd(n + 1) \notin LastRead(n) /\ LastRead(n + 1) = LastRead(n) \cup {FromEnd(n + 1)}
    <2>1. 1..(n + 1) = 1..n \cup {n + 1} /\ n \in Nat
      BY <1>1
    <2>2. ASSUME NEW i \in 1..n PROVE FromEnd(i) # FromEnd(n + 1)
      <3>1. Len(read) + 1 - i \in DOMAIN read /\ Len(read) + 1 - (n + 1) \in DOMAIN read
            /\ Len(read) + 1 - i # Len(read) + 1 - (n + 1)
        BY <1>1, <2>1
      <3>2. QED
        BY <1>1, <3>1 DEF FromEnd, IsInjective
    <2>3. QED
      BY <2>1, <2>2 DEF LastRead
  <1>5. filename \in ToSet(read) /\ ToSet(read) \subseteq DOMAIN disk
    BY <1>1 DEF ToSet
  <1>6. QED
    BY <1>1, <1>2, <1>3, <1>4, <1>5

\* Hence the files after it suffice to say what a file declares.
LEMMA ImportsLater ==
  ASSUME Settled, NEW n \in 0..(Len(read) - 1), NEW i \in DOMAIN disk[FromEnd(n + 1)],
         IsImport(disk[FromEnd(n + 1)][i])
  PROVE  ImportPath(FromEnd(n + 1), disk[FromEnd(n + 1)][i].path) \in LastRead(n)
  <1> DEFINE j == Len(read) + 1 - (n + 1)
  <1>1. j \in DOMAIN read /\ read \in Seq(Paths) /\ FromEnd(n + 1) = read[j] /\ Len(read) \in Nat
    BY DEF Settled, Types, FromEnd
  <1>2. Handled(j, i)
    BY <1>1 DEF Settled, Effects, Pending
  <1>3. PICK k \in DOMAIN read : j < k /\ read[k] = ImportPath(read[j], disk[read[j]][i].path)
    BY <1>1, <1>2 DEF Handled
  <1>4. Len(read) + 1 - k \in 1..n /\ Len(read) + 1 - (Len(read) + 1 - k) = k
    BY <1>1, <1>3
  <1>5. FromEnd(Len(read) + 1 - k) = read[k]
    BY <1>4 DEF FromEnd
  <1>6. QED
    BY <1>1, <1>3, <1>4, <1>5 DEF LastRead

LEMMA KnownLater ==
  ASSUME Settled, NEW n \in 0..(Len(read) - 1), NEW D,
         \A p \in LastRead(n) : D[p] \in Seq(STRING)
  PROVE  Declaring(D, FromEnd(n + 1), disk[FromEnd(n + 1)]) \in Seq(STRING)
  <1> DEFINE q == FromEnd(n + 1)
             decls == disk[q]
  <1>1. q \in DOMAIN disk
    <2>1. Len(read) + 1 - (n + 1) \in DOMAIN read
      BY DEF Settled, Types
    <2>2. QED
      BY <2>1 DEF Settled, Framed, FromEnd
  <1>2. decls \in Seq(Declarations)
    BY <1>1 DEF Settled, Types
  <1>3. ASSUME NEW i \in DOMAIN decls PROVE DeclaredBy(D, q, decls[i]) \in Seq(STRING)
    <2>1. IsImport(decls[i]) => D[ImportPath(q, decls[i].path)] \in Seq(STRING)
      BY ImportsLater
    <2>2. decls[i].name \in STRING
      <3>1. decls[i] \in Declarations
        BY <1>2
      <3> HIDE DEF q, decls
      <3>2. QED
        BY <3>1 DEF Declarations
    <2>3. <<decls[i].name>> \in Seq(STRING) /\ <<>> \in Seq(STRING)
      BY <2>2
    <2> HIDE DEF q, decls
    <2>4. QED
      BY <2>1, <2>3 DEF DeclaredBy
  <1> HIDE DEF q, decls
  <1>4. Known(D, q, decls)
    BY <1>3 DEF Known
  <1>5. Declaring(D, q, decls) \in Seq(STRING)
    BY <1>2, <1>4, DeclaringTyped
  <1>6. QED
    BY <1>5 DEF q, decls

\* What a file declares depends on the files it imports only.
LEMMA DeclaringAgrees ==
  ASSUME NEW D, NEW E, NEW p, NEW decls,
         \A i \in DOMAIN decls : IsImport(decls[i]) =>
           D[ImportPath(p, decls[i].path)] = E[ImportPath(p, decls[i].path)]
  PROVE  Declaring(D, p, decls) = Declaring(E, p, decls)
  <1>1. ASSUME NEW i \in DOMAIN decls
        PROVE  DeclaredBy(D, p, decls[i]) = DeclaredBy(E, p, decls[i])
    BY DEF DeclaredBy
  <1>2. [i \in DOMAIN decls |-> DeclaredBy(D, p, decls[i])] = [i \in DOMAIN decls |-> DeclaredBy(E, p, decls[i])]
    BY <1>1
  <1>3. QED
    BY <1>2 DEF Declaring

\* The names the files read declare are well defined: the last file read
\* imports none, and each file before it only files after it.
Solves(D, R) == D \in [R -> Seq(STRING)] /\ \A p \in R : D[p] = Declaring(D, p, disk[p])

LEMMA DeclaredExists ==
  ASSUME Settled
  PROVE  \E D : Solves(D, ToSet(read))
  <1> DEFINE T == {n \in 0..Len(read) : \E D : Solves(D, LastRead(n))}
  <1>1. /\ Len(read) \in Nat /\ LastRead(0) = {} /\ LastRead(Len(read)) = ToSet(read)
        /\ \A n \in 0..(Len(read) - 1) : /\ FromEnd(n + 1) \notin LastRead(n)
                                         /\ LastRead(n + 1) = LastRead(n) \cup {FromEnd(n + 1)}
    BY FromEndProperties
  <1>2. 0 \in T
    <2> DEFINE e == [p \in {} |-> <<>>]
    <2>1. e \in [{} -> Seq(STRING)]
      OBVIOUS
    <2> HIDE DEF e
    <2>2. Solves(e, LastRead(0))
      BY <1>1, <2>1 DEF Solves
    <2>3. QED
      BY <1>1, <2>2
  <1>3. ASSUME NEW n \in 0..(Len(read) - 1), n \in T PROVE n + 1 \in T
    <2>1. PICK g : Solves(g, LastRead(n))
      BY <1>3
    <2> DEFINE q == FromEnd(n + 1)
               new == Declaring(g, q, disk[q])
               h == [p \in LastRead(n) \cup {q} |-> IF p = q THEN new ELSE g[p]]
    <2>2. new \in Seq(STRING)
      BY <2>1, KnownLater DEF Solves
    <2>3. q \notin LastRead(n) /\ LastRead(n + 1) = LastRead(n) \cup {q}
      BY <1>1
    <2> HIDE DEF new
    <2>4. /\ h \in [LastRead(n + 1) -> Seq(STRING)] /\ h[q] = new
          /\ \A p \in LastRead(n) : h[p] = g[p]
      <3> HIDE DEF q
      <3>1. QED
        BY <2>1, <2>2, <2>3 DEF Solves
    <2> HIDE DEF h
    <2>5. ASSUME NEW m \in 0..n
          PROVE  Declaring(h, FromEnd(m + 1), disk[FromEnd(m + 1)])
                   = Declaring(g, FromEnd(m + 1), disk[FromEnd(m + 1)])
      <3>1. m \in 0..(Len(read) - 1) /\ LastRead(m) \subseteq LastRead(n)
        BY <1>1 DEF LastRead
      <3>2. \A i \in DOMAIN disk[FromEnd(m + 1)] : IsImport(disk[FromEnd(m + 1)][i]) =>
              ImportPath(FromEnd(m + 1), disk[FromEnd(m + 1)][i].path) \in LastRead(n)
        BY <3>1, ImportsLater
      <3>3. \A i \in DOMAIN disk[FromEnd(m + 1)] : IsImport(disk[FromEnd(m + 1)][i]) =>
              h[ImportPath(FromEnd(m + 1), disk[FromEnd(m + 1)][i].path)]
                = g[ImportPath(FromEnd(m + 1), disk[FromEnd(m + 1)][i].path)]
        BY <2>4, <3>2
      <3>4. QED
        BY <3>3, DeclaringAgrees
    <2>6. ASSUME NEW p \in LastRead(n + 1) PROVE h[p] = Declaring(h, p, disk[p])
      <3>1. CASE p = q
        <4>1. n \in 0..n
          BY <1>1
        <4>2. Declaring(h, q, disk[q]) = Declaring(g, q, disk[q])
          BY <2>5, <4>1
        <4>3. QED
          BY <2>4, <3>1, <4>2 DEF new
      <3>2. CASE p \in LastRead(n)
        <4>1. PICK i \in 1..n : p = FromEnd(i)
          BY <3>2 DEF LastRead
        <4>2. i - 1 \in 0..n /\ (i - 1) + 1 = i
          BY <1>1, <4>1
        <4>3. Declaring(h, p, disk[p]) = Declaring(g, p, disk[p])
          BY <2>5, <4>1, <4>2
        <4>4. QED
          BY <2>1, <2>4, <3>2, <4>3 DEF Solves
      <3>3. QED
        BY <2>3, <3>1, <3>2
    <2>7. Solves(h, LastRead(n + 1))
      BY <2>4, <2>6 DEF Solves
    <2>8. n + 1 \in 0..Len(read)
      BY <1>1
    <2>9. QED
      BY <2>7, <2>8
  <1>4. 0..Len(read) \subseteq T
    <2> HIDE DEF T
    <2>1. QED
      BY <1>1, <1>2, <1>3, BoundedInduction
  <1>5. Len(read) \in T
    <2> HIDE DEF T
    <2>1. QED
      BY <1>1, <1>4
  <1>6. QED
    BY <1>1, <1>5

\* And only one function says so, whatever it is thought to be of.
LEMMA DeclaredTyped ==
  ASSUME Settled, NEW D, D = [p \in ToSet(read) |-> Declaring(D, p, disk[p])]
  PROVE  Solves(D, ToSet(read))
  <1> DEFINE T == {n \in 0..Len(read) : \A p \in LastRead(n) : D[p] \in Seq(STRING)}
  <1>1. /\ Len(read) \in Nat /\ LastRead(0) = {} /\ LastRead(Len(read)) = ToSet(read)
        /\ \A n \in 0..(Len(read) - 1) : LastRead(n + 1) = LastRead(n) \cup {FromEnd(n + 1)}
    BY FromEndProperties
  <1>2. \A p \in ToSet(read) : D[p] = Declaring(D, p, disk[p])
    OBVIOUS
  <1>3. 0 \in T
    BY <1>1
  <1>4. ASSUME NEW n \in 0..(Len(read) - 1), n \in T PROVE n + 1 \in T
    <2>1. Declaring(D, FromEnd(n + 1), disk[FromEnd(n + 1)]) \in Seq(STRING)
      BY <1>4, KnownLater
    <2>2. FromEnd(n + 1) \in ToSet(read)
      <3>1. n + 1 \in 1..Len(read)
        BY <1>1
      <3>2. QED
        BY <1>1, <3>1 DEF LastRead
    <2>3. D[FromEnd(n + 1)] \in Seq(STRING)
      BY <1>2, <2>1, <2>2
    <2>4. n + 1 \in 0..Len(read)
      BY <1>1
    <2>5. QED
      BY <1>1, <1>4, <2>3, <2>4
  <1>5. 0..Len(read) \subseteq T
    <2> HIDE DEF T
    <2>1. QED
      BY <1>1, <1>3, <1>4, BoundedInduction
  <1>6. Len(read) \in T
    <2> HIDE DEF T
    <2>1. QED
      BY <1>1, <1>5
  <1>7. \A p \in ToSet(read) : D[p] \in Seq(STRING)
    BY <1>1, <1>6
  <1>8. DOMAIN D = ToSet(read) /\ D = [p \in ToSet(read) |-> D[p]]
    <2>1. DOMAIN D = ToSet(read)
      OBVIOUS
    <2>2. QED
      BY <2>1
  <1>9. D \in [ToSet(read) -> Seq(STRING)]
    BY <1>7, <1>8
  <1>10. QED
    BY <1>2, <1>9 DEF Solves

\* The names of a program that starts are those its files declare, each once
\* and in the order of the text, an imported file's at the place of its import.
THEOREM NamesInPlace == Spec => []ImportsInPlace
  <1>1. Init => IInv /\ InPlace
    BY InitInvariant, InPlaceFirst
  <1>2. IInv /\ InPlace /\ [Next]_vars => InPlace'
    BY InPlaceKept
  <1>3. IInv /\ InPlace => ImportsInPlace
    <2>1. SUFFICES ASSUME IInv, InPlace, phase \in Started
                   PROVE  bound = Declared /\ IsInjective(bound)
      BY DEF ImportsInPlace
    <2>2. Alive /\ Settled /\ bound \in Seq(STRING) /\ IsInjective(bound)
      BY <2>1 DEF IInv, Importing, Alive, Framed, Scoping, Settled
    <2> DEFINE R == ToSet(read)
               D == CHOOSE declared : declared = [p \in R |-> Declaring(declared, p, disk[p])]
    <2>3. Declared = D[filename]
      BY DEF Declared
    <2>4. D = [p \in R |-> Declaring(D, p, disk[p])]
      <3>1. PICK E : Solves(E, R)
        BY <2>2, DeclaredExists
      <3>2. E = [p \in R |-> E[p]]
        BY <3>1 DEF Solves
      <3>3. E = [p \in R |-> Declaring(E, p, disk[p])]
        BY <3>1, <3>2 DEF Solves
      <3>4. QED
        BY <3>3
    <2> HIDE DEF D
    <2>5. Solves(D, R)
      BY <2>2, <2>4, DeclaredTyped
    <2>6. filename \in R /\ R \subseteq DOMAIN disk
      BY <2>2, FromEndProperties
    <2>7. \A p \in R : Imported(p) \subseteq R
      <3>1. ASSUME NEW j \in DOMAIN read, NEW i \in DOMAIN disk[read[j]], IsImport(disk[read[j]][i])
            PROVE  ImportPath(read[j], disk[read[j]][i].path) \in R
        <4>1. Handled(j, i)
          BY <2>2 DEF Settled, Effects, Pending
        <4>2. QED
          BY <3>1, <4>1 DEF Handled, ToSet
      <3>2. QED
        BY <3>1 DEF Imported, ToSet
    <2>8. Reading(D, R)
      BY <2>5, <2>6, <2>7 DEF Solves, Reading
    <2>9. bound \o Left(D, imports) = D[filename]
      BY <2>1, <2>2, <2>8 DEF InPlace
    <2>10. Left(D, imports) = <<>>
      BY <2>2, LeftNothing DEF Settled
    <2>11. QED
      BY <2>2, <2>3, <2>9, <2>10, ConcatEmptySeq
  <1>4. QED
    BY <1>1, <1>2, <1>3, Invariant, PTL DEF Spec

=============================================================================
