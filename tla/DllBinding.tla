----------------------------- MODULE DllBinding -----------------------------
(***************************************************************************)
(* Binding ncrypt.dll and advapi32.dll (dll_windows.go).  Goroutines enter *)
(* the package at any time; each first runs loadNativeAPIs, which walks    *)
(* all procedures in a fixed order and binds each of them, and each        *)
(* library, through a sync.Once.  A caller that finds a Once running waits *)
(* until it is done.                                                       *)
(***************************************************************************)
EXTENDS Integers

CONSTANTS
    Callers,         \* goroutines, each in one entry point
    Dlls,            \* the base names of nativeDLLs
    ProcCount,       \* their procedures are numbered in the order of the walk
    DllOf,           \* the library of each procedure
    SystemDir, OtherDir, OtherName,
    NativeCalls,     \* bound: native calls an entry point makes
    NoModule, NoError

Procs == 1..ProcCount

\* A mapped module is identified by the file it was loaded from.
Modules == [dir : {SystemDir, OtherDir}, base : Dlls \cup {OtherName}]

DllErrors == {"load", "path", "untrusted"}
BindErrors == DllErrors \cup {"missing"}

ASSUME BindingAssumption ==
    /\ ProcCount \in Nat \ {0}
    /\ DllOf \in [Procs -> Dlls]
    /\ NativeCalls \in Nat
    /\ SystemDir # OtherDir
    /\ OtherName \notin Dlls
    /\ NoModule \notin Modules
    /\ NoError \notin BindErrors

VARIABLES
    pc,          \* where each caller is
    at,          \* the procedure it is at
    mode,        \* "bind": inside loadNativeAPIs; "call": inside Call
    handle,      \* the module it loaded and has not verified yet
    calls,       \* native calls it has made
    told,        \* what loadNativeAPIs returned to it
    procOnce, procModule, procErr,   \* systemProc
    dllOnce, dllModule, dllErr,      \* systemDLL
    held         \* LoadLibraryExW minus FreeLibrary, for each DLL and module

callerVars == <<pc, at, mode, handle, calls, told>>
procVars == <<procOnce, procModule, procErr>>
dllVars == <<dllOnce, dllModule, dllErr, held>>
bindVars == <<callerVars, procVars, dllVars>>

Labels == {"idle", "kernel", "find", "load", "library", "verify", "resolve",
           "ready", "done", "panicked"}
OnceStates == {"fresh", "running", "done"}

Unknown == [proc |-> 0, err |-> "none"]
Bound == [proc |-> 0, err |-> "ok"]
KernelError == [proc |-> 0, err |-> "kernel32"]
BindFailures == [proc : Procs, err : BindErrors]

BindingTypeOK ==
    /\ pc \in [Callers -> Labels]
    /\ at \in [Callers -> 1..(ProcCount + 1)]
    /\ mode \in [Callers -> {"bind", "call"}]
    /\ handle \in [Callers -> Modules \cup {NoModule}]
    /\ calls \in [Callers -> 0..NativeCalls]
    /\ told \in [Callers -> BindFailures \cup {Unknown, Bound, KernelError}]
    /\ procOnce \in [Procs -> OnceStates]
    /\ procModule \in [Procs -> Modules \cup {NoModule}]
    /\ procErr \in [Procs -> BindErrors \cup {NoError}]
    /\ dllOnce \in [Dlls -> OnceStates]
    /\ dllModule \in [Dlls -> Modules \cup {NoModule}]
    /\ dllErr \in [Dlls -> DllErrors \cup {NoError}]
    /\ held \in [Dlls -> [Modules -> 0..1]]

BindingInit ==
    /\ pc = [c \in Callers |-> "idle"]
    /\ at = [c \in Callers |-> 1]
    /\ mode = [c \in Callers |-> "bind"]
    /\ handle = [c \in Callers |-> NoModule]
    /\ calls = [c \in Callers |-> 0]
    /\ told = [c \in Callers |-> Unknown]
    /\ procOnce = [p \in Procs |-> "fresh"]
    /\ procModule = [p \in Procs |-> NoModule]
    /\ procErr = [p \in Procs |-> NoError]
    /\ dllOnce = [d \in Dlls |-> "fresh"]
    /\ dllModule = [d \in Dlls |-> NoModule]
    /\ dllErr = [d \in Dlls |-> NoError]
    /\ held = [d \in Dlls |-> [m \in Modules |-> 0]]

Goto(c, label) == pc' = [pc EXCEPT ![c] = label]

Dll(c) == DllOf[at[c]]

-----------------------------------------------------------------------------
\* An entry point is called.  The bootstrap library is verified every time.
Enter(c) ==
    /\ pc[c] = "idle"
    /\ Goto(c, "kernel")
    /\ UNCHANGED <<at, mode, handle, calls, told, procVars, dllVars>>

\* kernel32 is in the system directory; asking for the paths may fail.
VerifyKernel(c) ==
    /\ pc[c] = "kernel"
    /\ \/ Goto(c, "find") /\ UNCHANGED told
       \/ Goto(c, "done") /\ told' = [told EXCEPT ![c] = KernelError]
    /\ UNCHANGED <<at, mode, handle, calls, procVars, dllVars>>

\* Mutant: the walk leaves out the last procedure.
EndWalkEarly(c) ==
    /\ pc[c] = "find"
    /\ at[c] >= ProcCount
    /\ Goto(c, "ready")
    /\ told' = [told EXCEPT ![c] = Bound]
    /\ UNCHANGED <<at, mode, handle, calls, procVars, dllVars>>

\* The walk of loadNativeAPIs is over.
EndWalk(c) ==
    /\ pc[c] = "find"
    /\ at[c] > ProcCount
    /\ Goto(c, "ready")
    /\ told' = [told EXCEPT ![c] = Bound]
    /\ UNCHANGED <<at, mode, handle, calls, procVars, dllVars>>

\* find: the procedure's Once.
FindFirst(c) ==
    /\ pc[c] = "find"
    /\ at[c] \in Procs
    /\ procOnce[at[c]] = "fresh"
    /\ procOnce' = [procOnce EXCEPT ![at[c]] = "running"]
    /\ Goto(c, "load")
    /\ UNCHANGED <<at, mode, handle, calls, told, procModule, procErr, dllVars>>

FoundWhileBinding(c) ==
    /\ mode[c] = "bind"
    /\ IF procErr[at[c]] = NoError
       THEN /\ at' = [at EXCEPT ![c] = @ + 1]
            /\ UNCHANGED <<pc, told>>
       ELSE /\ told' = [told EXCEPT ![c] = [proc |-> at[c], err |-> procErr[at[c]]]]
            /\ Goto(c, "done")
            /\ UNCHANGED at
    /\ UNCHANGED calls

\* Call panics when the procedure could not be bound.
FoundForCall(c) ==
    /\ mode[c] = "call"
    /\ Goto(c, IF procErr[at[c]] = NoError THEN "ready" ELSE "panicked")
    /\ UNCHANGED <<at, told, calls>>

\* Mutant: a failure is tried again by the next caller.
FindForgetting(c) ==
    /\ pc[c] = "find"
    /\ at[c] \in Procs
    /\ procOnce[at[c]] = "done"
    /\ FoundWhileBinding(c) \/ FoundForCall(c)
    /\ procOnce' = IF procErr[at[c]] = NoError THEN procOnce
                   ELSE [procOnce EXCEPT ![at[c]] = "fresh"]
    /\ UNCHANGED <<mode, handle, procModule, procErr, dllVars>>

FindDone(c) ==
    /\ pc[c] = "find"
    /\ at[c] \in Procs
    /\ procOnce[at[c]] = "done"
    /\ FoundWhileBinding(c) \/ FoundForCall(c)
    /\ UNCHANGED <<mode, handle, procVars, dllVars>>

-----------------------------------------------------------------------------
\* load, inside the procedure's Once: the library's Once.
LoadFirst(c) ==
    /\ pc[c] = "load"
    /\ dllOnce[Dll(c)] = "fresh"
    /\ dllOnce' = [dllOnce EXCEPT ![Dll(c)] = "running"]
    /\ Goto(c, "library")
    /\ UNCHANGED <<at, mode, handle, calls, told, procVars, dllModule, dllErr, held>>

\* Mutant: an error is returned without marking the Once as done.
BindProcUnlessFailed(c, m, err) ==
    /\ procModule' = [procModule EXCEPT ![at[c]] = m]
    /\ procErr' = [procErr EXCEPT ![at[c]] = err]
    /\ procOnce' = IF err = NoError THEN [procOnce EXCEPT ![at[c]] = "done"]
                   ELSE procOnce
    /\ Goto(c, "find")

\* The end of a procedure's Once.
BindProc(c, m, err) ==
    /\ procModule' = [procModule EXCEPT ![at[c]] = m]
    /\ procErr' = [procErr EXCEPT ![at[c]] = err]
    /\ procOnce' = [procOnce EXCEPT ![at[c]] = "done"]
    /\ Goto(c, "find")

LoadDone(c) ==
    /\ pc[c] = "load"
    /\ dllOnce[Dll(c)] = "done"
    /\ IF dllErr[Dll(c)] = NoError
       THEN Goto(c, "resolve") /\ UNCHANGED procVars
       ELSE BindProc(c, NoModule, dllErr[Dll(c)])
    /\ UNCHANGED <<at, mode, handle, calls, told, dllVars>>

\* The end of a library's Once.
BindDll(c, m, err) ==
    /\ dllModule' = [dllModule EXCEPT ![Dll(c)] = m]
    /\ dllErr' = [dllErr EXCEPT ![Dll(c)] = err]
    /\ dllOnce' = [dllOnce EXCEPT ![Dll(c)] = "done"]
    /\ Goto(c, "load")

\* External: LoadLibraryExW fails, or gives the file in the system directory,
\* or a module mapped earlier under the same or another name.
Loaded(d) ==
    {m \in Modules : m.base \in {d, OtherName}}

LoadLibrary(c) ==
    /\ pc[c] = "library"
    /\ \/ /\ BindDll(c, NoModule, "load")
          /\ UNCHANGED <<handle, held>>
       \/ \E m \in Loaded(Dll(c)) :
             /\ handle' = [handle EXCEPT ![c] = m]
             /\ held' = [held EXCEPT ![Dll(c)][m] = @ + 1]
             /\ Goto(c, "verify")
             /\ UNCHANGED <<dllOnce, dllModule, dllErr>>
    /\ UNCHANGED <<at, mode, calls, told, procVars>>

\* Mutant: only the name of the file is compared.
CheckModuleName(m, name) == m.base = name

CheckModulePath(m, name) == m.base = name /\ m.dir = SystemDir

\* Mutant: freed once by the check and once by its caller.
FreeTwice(c) == held' = [held EXCEPT ![Dll(c)][handle[c]] = @ - 2]

FreeLibrary(c) == held' = [held EXCEPT ![Dll(c)][handle[c]] = @ - 1]

\* verifyModule on the new handle; asking for the paths may fail.
VerifyModule(c) ==
    /\ pc[c] = "verify"
    /\ \/ /\ CheckModulePath(handle[c], Dll(c))
          /\ BindDll(c, handle[c], NoError)
          /\ UNCHANGED held
       \/ /\ ~CheckModulePath(handle[c], Dll(c))
          /\ BindDll(c, NoModule, "untrusted")
          /\ FreeLibrary(c)
       \/ BindDll(c, NoModule, "path") /\ FreeLibrary(c)
    /\ handle' = [handle EXCEPT ![c] = NoModule]
    /\ UNCHANGED <<at, mode, calls, told, procVars>>

\* FindProc in the verified module.
Resolve(c) ==
    /\ pc[c] = "resolve"
    /\ \/ BindProc(c, dllModule[Dll(c)], NoError)
       \/ BindProc(c, NoModule, "missing")
    /\ UNCHANGED <<at, mode, handle, calls, told, dllVars>>

-----------------------------------------------------------------------------
\* The entry point makes its native calls, in any order, and returns.
StartCall(c) ==
    /\ pc[c] = "ready"
    /\ calls[c] < NativeCalls
    /\ calls' = [calls EXCEPT ![c] = @ + 1]
    /\ \E p \in Procs : at' = [at EXCEPT ![c] = p]
    /\ mode' = [mode EXCEPT ![c] = "call"]
    /\ Goto(c, "find")
    /\ UNCHANGED <<handle, told, procVars, dllVars>>

Leave(c) ==
    /\ pc[c] = "ready"
    /\ Goto(c, "done")
    /\ UNCHANGED <<at, mode, handle, calls, told, procVars, dllVars>>

BindStep(c) ==
    \/ VerifyKernel(c) \/ EndWalk(c) \/ FindFirst(c) \/ FindDone(c)
    \/ LoadFirst(c) \/ LoadDone(c) \/ LoadLibrary(c) \/ VerifyModule(c)
    \/ Resolve(c) \/ StartCall(c) \/ Leave(c)

BindNext == \E c \in Callers : Enter(c) \/ BindStep(c)

BindSpec == BindingInit /\ [][BindNext]_bindVars

\* A goroutine inside the package keeps running, and native calls return.
FairBindSpec == BindSpec /\ \A c \in Callers : WF_bindVars(BindStep(c))

-----------------------------------------------------------------------------
\* No native call panics: once loadNativeAPIs has succeeded, every procedure is
\* bound, whoever bound it ("that failure is returned as an error instead").
NoCallPanics == \A c \in Callers : pc[c] # "panicked"

\* What is bound is the file of that name in the system directory
\* (loadSystemDLL).  A library is loaded once, however many goroutines ask for
\* it, and a module that is not kept is released: nothing that was refused
\* stays loaded.
BoundToSystem ==
    /\ \A p \in Procs :
          procModule[p] # NoModule =>
              procModule[p] = [dir |-> SystemDir, base |-> DllOf[p]]
    /\ \A d \in Dlls, m \in Modules :
          dllOnce[d] # "running" =>
              held[d][m] = IF m = dllModule[d] THEN 1 ELSE 0

\* Every caller returns, also one that waits for another's Once.
CallersReturn == \A c \in Callers : pc[c] = "kernel" ~> pc[c] = "done"

-----------------------------------------------------------------------------
\* The walk decides the answer as soon as a prefix of it does.
Failed(p) == procOnce[p] = "done" /\ procErr[p] # NoError
Succeeded(p) == procOnce[p] = "done" /\ procErr[p] = NoError

FirstFailure(p) == Failed(p) /\ \A q \in 1..(p - 1) : Succeeded(q)

Decided ==
    IF \A p \in Procs : Succeeded(p) THEN Bound
    ELSE IF \E p \in Procs : FirstFailure(p)
    THEN LET p == CHOOSE p \in Procs : FirstFailure(p)
         IN [proc |-> p, err |-> procErr[p]]
    ELSE Unknown

Promise == INSTANCE OneAnswer
    WITH Answers <- BindFailures \cup {Bound}, Pending <- Unknown,
         Refusal <- KernelError, decided <- Decided, answer <- told

\* All callers get the same answer, that of whichever goroutine came first
\* ("idempotent and safe for concurrent use", dll_windows.go).
AllToldTheSame == Promise!OneAnswerSpec
=============================================================================
