CONSTANTS
    \* addresses, names and keys
    G = G
    F = F
    M = M
    s1 = s1
    s2 = s2
    a = a
    d1 = d1
    fn = fn
    st = st
    x = x
    k = k
    NullValue = NullValue
    Nil = Nil
    \* the heap
    GlobalScope = G
    FileScope = F
    MainScope = M
    ArgTable = a
    InitData = {a}
    InitEntries <- MCNoEntries
    Scopes = {G, F, M, s1}
    Data = {a}
    Code = {fn, st}
    Children <- MCChildren
    Work = 2
    \* what init_ir binds
    TopLevel <- MCFunctions
    Functions <- MCFunctions
    GlobalSymbols <- MCNoSymbols
    FileSymbols <- MCFunctionAtX
    Names = {x}
    Param = x
    Fields = {k}
    \* the programs
    UsesNull = TRUE
    SharedOverwrite = TRUE
    HoldsAcrossCalls = TRUE
    KeepsOverwritten = TRUE

SPECIFICATION FairSpec
\* a program ends by exit, and the interpreter by an assertion
CHECK_DEADLOCK FALSE

INVARIANTS
    ScopesSafe
    LexicalScoping
    ProgramTextSafe
    IInv
PROPERTY GarbageReclaimed
