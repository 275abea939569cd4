----------------------------- MODULE MCStartup -----------------------------
(***************************************************************************)
(* Scripts of up to three declarations that import up to two files, one of *)
(* them in a directory below and importing the other, under one command    *)
(* line; and every command line of up to three arguments for one script.   *)
(***************************************************************************)
EXTENDS Startup

A == <<"d", "a">>
B == <<"d", "b">>
C == <<"d", "e", "c">>
Alone == <<"a">>   \* a script named without a directory

Ref(kind, name) == [kind |-> kind, name |-> name]
NoRef == Ref("none", "")
ImportOf(path) == Decl("import", "", NoRef, path)
ImportAs(path) == Decl("import_as", "n", NoRef, path)
Use(lib) == Decl("use", lib, NoRef, <<>>)
Var(x, ref) == Decl("var", x, ref, <<>>)
Func(f, reads) == Decl("func", f, Ref("read", reads), <<>>)

Bad == Decl("error", "", NoRef, <<>>)

MainFunctions == {Func("main", ""), Func("main", "x"), Func("main", "print"), Var("main", Ref("literal", ""))}

InScript == {ImportOf(<<"b">>), ImportOf(<<"e", "c">>), ImportOf(<<"a">>), ImportAs(<<"b">>), ImportOf(<<"none">>),
             Use("gfx"), Use("gl"), Func("print", ""), Func("f", "x"),
             Var("x", NoRef), Var("x", Ref("literal", "")), Var("y", Ref("read", "f")),
             Var("y", Ref("call", "f")), Var("y", Ref("call", "x")), Var("y", Ref("call", "print")),
             Var("y", Ref("read", "print"))}
InB == {ImportOf(<<"e", "c">>), Var("x", Ref("literal", "")), Func("f", "")}
InC == {<<>>, <<Var("x", Ref("literal", ""))>>, <<Use("gfx")>>, <<ImportOf(<<"b">>)>>, <<ImportOf(<<"e", "c">>)>>}

Scripts == {<<m>> : m \in MainFunctions}
           \cup {<<d, m>> : d \in InScript, m \in MainFunctions}
           \cup {<<d, e, Func("main", "")>> : d, e \in InScript}
           \cup {<<Var("y", Ref("read", "gfx"))>>, <<>>, <<Bad>>}
FilesB == {<<>>, <<Bad>>} \cup {<<d>> : d \in InB} \cup {<<d, e>> : d, e \in InB}

Disk(a, b, c) == [p \in {A, B, C} |-> CASE p = A -> a [] p = B -> b [] p = C -> c]
File(path) == [kind |-> "file", path |-> path]
Option(o) == [kind |-> o, path |-> <<>>]

FileStarts == {[argv |-> <<File(A)>>, disk |-> Disk(a, b, c)] : a \in Scripts, b \in FilesB, c \in InC}

Argument == {File(A), File(B), Option("timings"), Option("silent"), Option("help"), Option("unknown")}
CommandLines == UNION {[1..n -> Argument] : n \in 0..3}
LineStarts == {[argv |-> l, disk |-> Disk(<<Func("main", "print")>>, <<>>, <<>>)] : l \in CommandLines}

\* Errors outside any function: a script without main.
ErrorStarts == {[argv |-> <<File(A)>>, disk |-> Disk(a, <<>>, <<>>)] : a \in {<<d>> : d \in InScript}}

\* A script named without a directory, as tests/import_test.bs is when it is
\* started from its own.
AloneStarts == {[argv |-> <<File(Alone)>>, disk |-> [p \in {Alone, B} |->
                   IF p = B THEN <<Func("add", "")>> ELSE script]] :
                script \in {<<d, Func("main", "print")>> : d \in InScript}
                           \cup {<<Bad, ImportOf(<<"b">>)>>, <<ImportOf(<<"b">>), Bad>>}}

AllStarts == FileStarts \cup LineStarts \cup ErrorStarts \cup AloneStarts

MCNatives == {"print", "len"}
MCResults == {[kind |-> k, num |-> n] : k \in {"number", "table"}, n \in {0, 3}}
=============================================================================
