------------------------------ MODULE Startup ------------------------------
(***************************************************************************)
(* main of main.c, init_ir with convert_top_levels_to_ir, ir_import_file   *)
(* and ir_use_library of ir.c, parse_import's paths, add_globals, ir_run   *)
(* up to the call of the program's main, and the sections of timings.c.    *)
(* Function bodies are reduced to one name they read, the call of main to  *)
(* what it returns.                                                        *)
(***************************************************************************)
EXTENDS Naturals, Sequences, FiniteSets, SequencesExt

CONSTANTS Starts,    \* pairs of a command line and the files on disk
          Results,   \* the values main returns: their kind and, if any, number
          Natives,   \* the names add_globals defines
          MaxTime,   \* bound of the model: the latest time the clock shows
          MaxDepth   \* bound of the model: how many imports the C stack holds

\* A path is a sequence of names, the last of them the file's.  The files on
\* disk are a function from paths to sequences of declarations.  What is none
\* is a declaration of kind "error", the end of an empty file included; a file
\* of semicolons alone declares nothing and is the empty sequence.
Decl(kind, name, ref, path) == [kind |-> kind, name |-> name, ref |-> ref, path |-> path]

Paths == Seq(STRING) \ {<<>>}
Refs == [kind : {"none", "literal", "read", "call"}, name : STRING]
Declarations == [kind : {"import", "import_as", "use", "var", "func", "error"},
                 name : STRING, ref : Refs, path : Seq(STRING)]
Arguments == [kind : {"file", "timings", "silent", "help", "unknown"}, path : Seq(STRING)]

ASSUME StartAssumption ==
  /\ \A s \in Starts : /\ s.argv \in Seq(Arguments)
                       /\ DOMAIN s.disk \subseteq Paths
                       /\ \A p \in DOMAIN s.disk : s.disk[p] \in Seq(Declarations)
  /\ MaxDepth \in Nat \ {0} /\ MaxTime \in Nat \ {0}
  /\ "gfx" \notin Natives

VARIABLES argv, disk,
          last_arg,       \* last_arg of main
          options,        \* print_timings and silence
          filename,
          phase,          \* how far main is
          imports,        \* the C stack of convert_top_levels_to_ir
          file_scope, global_scope,
          total, sections,\* Timings
          now,            \* the clock when it was read last
          status, exit_code,
          read, bound     \* history: files parsed, names added to file_scope

arguments == <<argv, last_arg, options, filename>>
names == <<file_scope, global_scope, bound>>
clock == <<total, sections, now>>
vars == <<arguments, disk, phase, imports, names, clock, status, exit_code, read>>

Init ==
  /\ \E s \in Starts : argv = s.argv /\ disk = s.disk
  /\ last_arg = 1 /\ options = {} /\ filename = <<>>
  /\ phase = "options" /\ imports = <<>>
  /\ file_scope = <<>> /\ global_scope = {}
  /\ total = [start |-> 0, finish |-> 0] /\ sections = <<>> /\ now = 1
  /\ status = "running" /\ exit_code = 0
  /\ read = <<>> /\ bound = <<>>

exit(code) == status' = "exit" /\ exit_code' = code
Stops(how) == status' = how /\ exit_code' = exit_code
Goes == UNCHANGED <<status, exit_code>>

\* ir_error prints the stack trace, which asserts that something was called.
ir_error(called) == IF called THEN exit(1) ELSE Stops("assert_callstack")

----------------------------------------------------------------------------
(* timings.c.  The clock is external: it does not go back.                 *)
Later == now..MaxTime

timings_init ==
  \E start \in Later :
    /\ now' = start /\ total' = [start |-> start, finish |-> 0]
    /\ sections' = sections

stop_current_section(t) ==
  IF sections = <<>> THEN sections ELSE [sections EXCEPT ![Len(sections)].finish = t]

\* Faulty: the section before is left open.
start_section_only(label) ==
  \E start \in Later :
    /\ now' = start /\ total' = total
    /\ sections' = Append(sections, [label |-> label, start |-> start, finish |-> 0])

\* The clock is read to stop the section before and read again to start.
start_section(label) ==
  \E stop, start \in Later :
    /\ stop <= start /\ now' = start /\ total' = total
    /\ sections' = Append(stop_current_section(stop), [label |-> label, start |-> start, finish |-> 0])

\* Faulty: the total is finished before the section is.
timings_print_all_total_first ==
  \E stop, end \in Later :
    /\ end <= stop /\ now' = stop
    /\ sections' = stop_current_section(stop) /\ total' = [total EXCEPT !.finish = end]

timings_print_all ==
  \E stop, end \in Later :
    /\ stop <= end /\ now' = end
    /\ sections' = stop_current_section(stop) /\ total' = [total EXCEPT !.finish = end]

----------------------------------------------------------------------------
(* The command line.                                                       *)
In(p) == status = "running" /\ phase = p

\* Faulty: the script's name is passed on as its first argument.
TakeFile_keeping_it ==
  /\ In("options") /\ last_arg <= Len(argv) /\ argv[last_arg].kind = "file"
  /\ filename' = argv[last_arg].path /\ phase' = "lexer"
  /\ timings_init
  /\ UNCHANGED <<argv, last_arg, options, disk, imports, names, status, exit_code, read>>

\* The first argument that is no option is the script; the rest is its own.
\* Then the total time begins.
TakeFile ==
  /\ In("options") /\ last_arg <= Len(argv) /\ argv[last_arg].kind = "file"
  /\ filename' = argv[last_arg].path /\ phase' = "lexer"
  /\ last_arg' = last_arg + 1
  /\ timings_init
  /\ UNCHANGED <<argv, options, disk, imports, names, status, exit_code, read>>

\* Faulty: the loop stays at the option it has taken.
TakeOption_again ==
  /\ In("options") /\ last_arg <= Len(argv) /\ argv[last_arg].kind \in {"timings", "silent"}
  /\ options' = options \cup {argv[last_arg].kind}
  /\ UNCHANGED <<argv, last_arg, filename, disk, phase, imports, names, clock, status, exit_code, read>>

TakeOption ==
  /\ In("options") /\ last_arg <= Len(argv) /\ argv[last_arg].kind \in {"timings", "silent"}
  /\ options' = options \cup {argv[last_arg].kind}
  /\ last_arg' = last_arg + 1
  /\ UNCHANGED <<argv, filename, disk, phase, imports, names, clock, status, exit_code, read>>

\* -h, an unknown option, and no file at all end in print_usage.
Usage ==
  /\ In("options")
  /\ \/ last_arg > Len(argv) /\ exit(1)
     \/ last_arg <= Len(argv) /\ argv[last_arg].kind = "help" /\ exit(0)
     \/ last_arg <= Len(argv) /\ argv[last_arg].kind = "unknown" /\ exit(1)
  /\ UNCHANGED <<arguments, disk, phase, imports, names, clock, read>>

----------------------------------------------------------------------------
(* Files.                                                                  *)
IsImport(d) == d.kind \in {"import", "import_as"}
Readable(path) == path \in DOMAIN disk
Parses(path) == \A i \in DOMAIN disk[path] : disk[path][i].kind # "error"

\* Where parse stops, or 0: at what is no declaration, and in parse_import,
\* which looks for the last "/" of the file's name, before the name if it has
\* none.
Fault(path) ==
  SelectInSeq(disk[path], LAMBDA d : d.kind = "error" \/ (Len(path) = 1 /\ IsImport(d)))

\* for_array loads the first element before it looks at the size; the array of
\* a file that declares nothing has no elements, and the build no optimiser
\* that could leave the load out.
for_array(declarations) == IF declarations = <<>> THEN Stops("null_read") ELSE Goes

ImportPath(importing, path) == Front(importing) \o path

lexer ==
  /\ In("lexer")
  /\ start_section("lexer")
  /\ phase' = "parser"
  /\ IF Readable(filename) THEN Goes ELSE exit(1)
  /\ UNCHANGED <<arguments, disk, imports, names, read>>

parser ==
  /\ In("parser")
  /\ start_section("parser")
  /\ phase' = "ir" /\ read' = <<filename>>
  /\ LET fault == Fault(filename)
     IN  CASE fault = 0 -> Goes
           [] fault # 0 /\ disk[filename][fault].kind = "error" -> exit(1)
           [] OTHER -> Stops("undefined_path")
  /\ UNCHANGED <<arguments, disk, imports, names>>

\* Faulty: the natives are there from the beginning.
init_ir_with_globals ==
  /\ In("ir")
  /\ start_section("ir")
  /\ phase' = "top_levels"
  /\ imports' = <<[path |-> filename, rest |-> disk[filename]]>>
  /\ global_scope' = Natives
  /\ for_array(disk[filename])
  /\ UNCHANGED <<arguments, disk, file_scope, bound, read>>

init_ir ==
  /\ In("ir")
  /\ start_section("ir")
  /\ phase' = "top_levels"
  /\ imports' = <<[path |-> filename, rest |-> disk[filename]]>>
  /\ for_array(disk[filename])
  /\ UNCHANGED <<arguments, disk, names, read>>

----------------------------------------------------------------------------
(* convert_top_levels_to_ir.                                               *)
current == Head(imports)
declaration == Head(current.rest)
Next_of(frame) == [path |-> frame.path, rest |-> Tail(frame.rest)]
Declares(kinds) == In("top_levels") /\ current.rest # <<>> /\ declaration.kind \in kinds
Advanced == <<Next_of(current)>> \o Tail(imports)
Advance == imports' = Advanced

\* Faulty: an imported file's declarations come after the importing file's.
Import_last(path) == Tail(imports) \o <<Next_of(current), [path |-> path, rest |-> disk[path]]>>

\* ir_import_file: the declarations of the file, then those that follow.
Import(path) == <<[path |-> path, rest |-> disk[path]]>> \o Advanced

\* Imports are followed at once, however often the file has been read.  The
\* assertion that there is no "as" comes after the file is parsed.
ir_import_file ==
  /\ Declares({"import", "import_as"})
  /\ LET path == ImportPath(current.path, declaration.path)
         good == Readable(path) /\ Parses(path)
     IN  /\ read' = IF good THEN Append(read, path) ELSE read
         /\ imports' = IF good /\ declaration.kind = "import" THEN Import(path) ELSE imports
         /\ CASE ~good -> exit(1)
              [] good /\ declaration.kind = "import_as" -> Stops("assert_namespace")
              [] good /\ declaration.kind = "import" ->
                   IF Len(imports) < MaxDepth THEN for_array(disk[path]) ELSE Stops("exhausted")
  /\ UNCHANGED <<arguments, disk, phase, names, clock>>

ir_use_library ==
  /\ Declares({"use"})
  /\ IF declaration.name = "gfx" /\ "gfx" \notin global_scope
     THEN global_scope' = global_scope \cup {"gfx"} /\ Goes
     ELSE global_scope' = global_scope /\ ir_error(FALSE)
  /\ Advance
  /\ UNCHANGED <<arguments, disk, phase, file_scope, bound, clock, read>>

\* What the file scope holds for a name: whether it is a function, and which
\* name that function reads, if any.
Symbol(callable, reads) == [callable |-> callable, reads |-> reads]
Plain == Symbol(FALSE, "")
Defined(name) == name \in DOMAIN file_scope \cup global_scope
Found(name) == CASE name \in DOMAIN file_scope -> file_scope[name]
                 [] name \in Natives \ DOMAIN file_scope -> Symbol(TRUE, "")
                 [] OTHER -> Plain
Runs(f) == f.reads = "" \/ Defined(f.reads)

\* Faulty: a name that is there already is replaced.
AlreadyThere_never(name) == FALSE

AlreadyThere(name) == name \in DOMAIN file_scope

\* Faulty: the name goes to the scope the natives are in.
scope_add_globally(name, symbol) ==
  IF AlreadyThere(name) THEN ir_error(FALSE) /\ UNCHANGED names
  ELSE global_scope' = global_scope \cup {name} /\ Goes /\ UNCHANGED <<file_scope, bound>>

scope_add(name, symbol) ==
  IF AlreadyThere(name)
  THEN ir_error(FALSE) /\ UNCHANGED names
  ELSE /\ file_scope' = [x \in DOMAIN file_scope \cup {name} |->
                           IF x = name THEN symbol ELSE file_scope[x]]
       /\ bound' = Append(bound, name)
       /\ global_scope' = global_scope /\ Goes

\* The initialiser is evaluated in the file scope as it is so far, before the
\* natives are there.  A variable without one has no expression to convert.
declare_var ==
  /\ Declares({"var"})
  /\ LET d == declaration
         f == Found(d.ref.name)
         reads == d.ref.kind \in {"read", "call"} /\ Defined(d.ref.name)
         calls == reads /\ d.ref.kind = "call"
     IN \/ d.ref.kind = "none" /\ Stops("undefined_var") /\ UNCHANGED names
        \/ d.ref.kind = "literal" /\ scope_add(d.name, Plain)
        \/ d.ref.kind \in {"read", "call"} /\ ~reads /\ ir_error(FALSE) /\ UNCHANGED names
        \/ reads /\ ~calls /\ scope_add(d.name, f)
        \/ calls /\ ~f.callable /\ Stops("assert_function") /\ UNCHANGED names
        \/ calls /\ f.callable /\ ~Runs(f) /\ ir_error(TRUE) /\ UNCHANGED names
        \/ calls /\ f.callable /\ Runs(f) /\ scope_add(d.name, Plain)
  /\ Advance
  /\ UNCHANGED <<arguments, disk, phase, clock, read>>

declare_func ==
  /\ Declares({"func"})
  /\ scope_add(declaration.name, Symbol(TRUE, declaration.ref.name))
  /\ Advance
  /\ UNCHANGED <<arguments, disk, phase, clock, read>>

file_ends ==
  /\ In("top_levels") /\ current.rest = <<>>
  /\ imports' = Tail(imports)
  /\ phase' = IF Len(imports) = 1 THEN "globals" ELSE phase
  /\ UNCHANGED <<arguments, disk, names, clock, status, exit_code, read>>

add_globals ==
  /\ In("globals")
  /\ global_scope' = global_scope \cup Natives
  /\ phase' = "ir_run"
  /\ UNCHANGED <<arguments, disk, imports, file_scope, bound, clock, status, exit_code, read>>

----------------------------------------------------------------------------
(* ir_run and the end of main.                                             *)
ir_run ==
  /\ In("ir_run")
  /\ start_section("ir run")
  /\ phase' = "main"
  /\ CASE ~Defined("main") -> ir_error(FALSE)
       [] Defined("main") /\ ~Found("main").callable -> Stops("assert_function")
       [] Defined("main") /\ Found("main").callable ->
            IF Runs(Found("main")) THEN Goes ELSE ir_error(TRUE)
  /\ UNCHANGED <<arguments, disk, imports, names, read>>

\* main returns: its number is the exit code, anything else gives 0.
main_returns ==
  /\ In("main")
  /\ \E r \in Results : exit(IF r.kind = "number" THEN r.num ELSE 0)
  /\ phase' = "ended"
  /\ IF "timings" \in options THEN timings_print_all ELSE UNCHANGED clock
  /\ UNCHANGED <<arguments, disk, imports, names, read>>

Next ==
  \/ TakeFile \/ TakeOption \/ Usage \/ lexer \/ parser \/ init_ir
  \/ ir_import_file \/ ir_use_library \/ declare_var \/ declare_func \/ file_ends
  \/ add_globals \/ ir_run \/ main_returns

Spec == Init /\ [][Next]_vars
FairSpec == Spec /\ WF_vars(Next)

----------------------------------------------------------------------------
(* Properties.                                                             *)
Started == {"globals", "ir_run", "main", "ended"}   \* every declaration is done

\* The names in the two scopes are the ones declared, each section has a
\* label, and a program that ended has an exit code.
TypeOK ==
  /\ ToSet(bound) = DOMAIN file_scope
  /\ global_scope \subseteq Natives \cup {"gfx"}
  /\ \A i \in DOMAIN sections : sections[i].label \in {"lexer", "parser", "ir", "ir run"}
  /\ now \in 1..MaxTime
  /\ last_arg \in 1..(Len(argv) + 1)
  /\ Len(imports) \in 0..(MaxDepth + 1) /\ (imports # <<>> => phase = "top_levels")
  /\ status \in {"running", "exit", "exhausted", "undefined_path", "undefined_var",
                 "null_read", "assert_callstack", "assert_namespace", "assert_function"}
  /\ exit_code # 0 => status = "exit"

\* The script is the first argument that is no option, the options before it
\* are the interpreter's, and exactly what follows is the program's.
ArgumentsSplit ==
  phase # "options" =>
    \E i \in DOMAIN argv :
      /\ argv[i].kind = "file" /\ argv[i].path = filename
      /\ options = {argv[j].kind : j \in 1..(i - 1)} \cap {"timings", "silent"}
      /\ \A j \in 1..(i - 1) : argv[j].kind # "file"
      /\ SubSeq(argv, last_arg, Len(argv)) = SubSeq(argv, i + 1, Len(argv))

\* The sections follow each other: none ends before it began nor after the
\* next began, and when they are printed all lie within the total time.
SectionsInOrder ==
  /\ sections # <<>> => total.start <= Head(sections).start
  /\ \A i \in 1..(Len(sections) - 1) : /\ sections[i].start <= sections[i].finish
                                       /\ sections[i].finish <= sections[i + 1].start
  /\ (phase = "ended" /\ "timings" \in options)
       => /\ Last(sections).start <= Last(sections).finish
          /\ Last(sections).finish <= total.finish

\* At every step of main the command line, the names and the timed sections
\* are in order.
Inv == TypeOK /\ ArgumentsSplit /\ SectionsInOrder

\* The files a file imports, directly or not: a definition that knows nothing
\* of the order in which ir_import_file follows them.
Imported(path) == {ImportPath(path, disk[path][i].path) : i \in {j \in DOMAIN disk[path] : IsImport(disk[path][j])}}

Needed(files) == filename \in files /\ \A p \in files : Imported(p) \subseteq files

\* Nothing remembers which files have been imported; still, a program whose
\* declarations were all accepted has read every file it needs exactly once,
\* because a second reading would declare something a second time.
ReadOnce ==
  phase \in Started =>
    /\ IsInjective(read)
    /\ Needed(ToSet(read))
    /\ \A files \in SUBSET ToSet(read) : Needed(files) => files = ToSet(read)

\* The names a declaration in the file at path p stands for, if the files it
\* may import declare what names_of says.
DeclaredBy(names_of, p, d) ==
  CASE IsImport(d) -> names_of[ImportPath(p, d.path)]
    [] d.kind \in {"var", "func"} -> <<d.name>>
    [] OTHER -> <<>>

Declaring(names_of, p, declarations) ==
  FlattenSeq([i \in DOMAIN declarations |-> DeclaredBy(names_of, p, declarations[i])])

\* The names a program declares, those of an import in its place.
Declared ==
  LET declared[p \in ToSet(read)] == Declaring(declared, p, disk[p])
  IN  declared[filename]

\* Declarations take effect in the order of the text, an imported file's at
\* the place of its import, and each name is declared once.
ImportsInPlace == phase \in Started => bound = Declared /\ IsInjective(bound)

\* An initialiser runs before add_globals: no program that has one which uses
\* a native, under a name the files do not declare, gets as far as main.
NativesTooLate ==
  phase \in Started =>
    \A p \in ToSet(read) : \A i \in DOMAIN disk[p] :
      LET d == disk[p][i]
      IN  d.kind = "var" /\ d.ref.kind \in {"read", "call"} /\ d.ref.name \in Natives
            => d.ref.name \in ToSet(bound)

\* Whatever the command line and the files, start-up comes to an end, files
\* that import each other included: these declare something twice or exhaust
\* the stack.
Ends == <>(status # "running")

=============================================================================
