SPECIFICATION FairMCSpec
CONSTANTS
    Callers = {g1, g2, g3}
    ncrypt = ncrypt
    advapi32 = advapi32
    Dlls <- MCDlls
    ProcCount = 3
    DllOf <- MCDllOf
    SystemDir = SystemDir
    OtherDir = OtherDir
    OtherName = OtherName
    NativeCalls = 1
    NoModule = NoModule
    NoError = NoError
    process = process
    system = system
    filtered = filtered
    Goroutines = {f1, f2, f3}
    Threads = {t1, t2, t3, t4}
    NoThread = NoThread
    Tokens <- MCTokens
    Process = process
    Enabled <- MCEnabled
    GuardedCalls = 2
INVARIANTS
    BindingTypeOK
    NoCallPanics
    BoundToSystem
    TokenTypeOK
    CheckedTokenIsUsed
PROPERTIES
    AllToldTheSame
    CallersReturn
CHECK_DEADLOCK FALSE
