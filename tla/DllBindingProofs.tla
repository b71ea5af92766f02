-------------------------- MODULE DllBindingProofs --------------------------
(***************************************************************************)
(* Binding the native libraries, for any number of goroutines, libraries   *)
(* and procedures: a library is loaded once and only the verified file of  *)
(* the system directory is kept, no native call panics, and all callers    *)
(* get one answer.  The inductive invariant says what a sync.Once gives    *)
(* (one goroutine inside), what each Once leaves when it is done, and how  *)
(* far a walk has got.                                                     *)
(***************************************************************************)
EXTENDS DllBinding, TLAPS

InProc(c) == pc[c] \in {"load", "library", "verify", "resolve"}
InDll(c) == pc[c] \in {"library", "verify"}

\* One goroutine is inside the Once of a procedure, and of a library.
ProcsOnce ==
    /\ \A c \in Callers : InProc(c) => at[c] \in Procs /\ procOnce[at[c]] = "running"
    /\ \A c, e \in Callers : InProc(c) /\ InProc(e) /\ at[c] = at[e] => c = e

DllsOnce ==
    /\ \A c \in Callers : InDll(c) => dllOnce[Dll(c)] = "running"
    /\ \A c, e \in Callers : InDll(c) /\ InDll(e) /\ Dll(c) = Dll(e) => c = e

SystemModule(d) == [dir |-> SystemDir, base |-> d]

\* What each Once leaves behind.
Outcomes ==
    /\ \A d \in Dlls :
          dllModule[d] = IF dllOnce[d] = "done" /\ dllErr[d] = NoError
                         THEN SystemModule(d) ELSE NoModule
    /\ \A p \in Procs :
          procModule[p] = IF procOnce[p] = "done" /\ procErr[p] = NoError
                          THEN SystemModule(DllOf[p]) ELSE NoModule
    /\ \A c \in Callers :
          pc[c] = "resolve" => dllOnce[Dll(c)] = "done" /\ dllErr[Dll(c)] = NoError

\* Who holds a module: its library, or the goroutine that verifies it.
Handles ==
    /\ \A d \in Dlls, m \in Modules :
          dllOnce[d] # "running" => held[d][m] = IF m = dllModule[d] THEN 1 ELSE 0
    /\ \A c \in Callers, m \in Modules :
          InDll(c) => held[Dll(c)][m] = IF m = handle[c] THEN 1 ELSE 0
    /\ \A c \in Callers : pc[c] = "verify" <=> handle[c] # NoModule

\* The procedures a walk has passed are bound, and all of them before a call.
Walk ==
    \A c \in Callers :
        /\ pc[c] # "panicked"
        /\ pc[c] \in {"idle", "kernel"} => mode[c] = "bind" /\ at[c] = 1
        /\ pc[c] = "done" => told[c] # Unknown
        /\ mode[c] = "bind" /\ pc[c] \notin {"ready", "done"} =>
              told[c] = Unknown /\ \A q \in 1..(at[c] - 1) : Succeeded(q)
        /\ pc[c] = "ready" \/ mode[c] = "call" =>
              told[c] = Bound /\ \A p \in Procs : Succeeded(p)
        /\ mode[c] = "call" => at[c] \in Procs /\ pc[c] \in {"find", "ready", "done"}

BindInv == BindingTypeOK /\ ProcsOnce /\ DllsOnce /\ Outcomes /\ Handles /\ Walk

-----------------------------------------------------------------------------
LEMMA Constants ==
    /\ \A p \in Procs : DllOf[p] \in Dlls /\ p \in Nat /\ p >= 1
    /\ \A d \in Dlls : SystemModule(d) \in Modules /\ SystemModule(d) # NoModule
    /\ DllErrors \subseteq BindErrors /\ NoError \notin BindErrors
    /\ NoModule \notin Modules
    /\ ProcCount \in Nat /\ ProcCount >= 1
    /\ Procs = 1..ProcCount
BY BindingAssumption DEF Procs, SystemModule, Modules, BindErrors

LEMMA Answers ==
    /\ Unknown # Bound /\ Unknown # KernelError /\ Bound # KernelError
    /\ \A p \in Procs, e \in BindErrors :
          /\ [proc |-> p, err |-> e] \in BindFailures
          /\ [proc |-> p, err |-> e] \notin {Unknown, Bound}
BY Constants DEF Unknown, Bound, KernelError, BindFailures

LEMMA InitBindInv == BindingInit => BindInv
<1> SUFFICES ASSUME BindingInit PROVE BindInv
  OBVIOUS
<1>1. BindingTypeOK
  BY Constants, BindingAssumption DEF BindingInit, BindingTypeOK, Labels, OnceStates
<1>2. ProcsOnce /\ DllsOnce
  BY DEF BindingInit, ProcsOnce, DllsOnce, InProc, InDll
<1>3. Outcomes /\ Handles
  BY Constants DEF BindingInit, Outcomes, Handles, InDll
<1>4. Walk
  <2>1. \A c \in Callers : /\ pc[c] = "idle" /\ at[c] = 1 /\ mode[c] = "bind"
                          /\ told[c] = Unknown
    BY DEF BindingInit
  <2>2. ASSUME NEW c \in Callers PROVE \A q \in 1..(at[c] - 1) : FALSE
    <3>1. at[c] - 1 = 0
      BY <2>1
    <3> QED BY <3>1
  <2> QED BY <2>1, <2>2 DEF Walk
<1> QED BY <1>1, <1>2, <1>3, <1>4 DEF BindInv

-----------------------------------------------------------------------------
(***************************************************************************)
(* Steps of a walk, outside every Once.                                    *)
(***************************************************************************)
\* One caller moves; no Once changes.
LEMMA CallerMoves ==
    ASSUME BindInv, NEW c \in Callers, UNCHANGED <<procVars, dllVars, handle>>,
           NEW l \in {"idle", "kernel", "find", "ready", "done"}, Goto(c, l),
           ~InProc(c), \A e \in Callers \ {c} : at'[e] = at[e]
    PROVE  ProcsOnce' /\ DllsOnce' /\ Outcomes' /\ Handles'
<1>1. \A e \in Callers : pc'[e] = IF e = c THEN l ELSE pc[e]
  BY DEF Goto, BindInv, BindingTypeOK, Labels
<1>2. /\ \A e \in Callers : InProc(e)' => InProc(e) /\ e # c
      /\ \A e \in Callers : InDll(e)' => InDll(e) /\ e # c
      /\ ~InDll(c)
  BY <1>1 DEF InProc, InDll
<1>3. \A e \in Callers \ {c} : Dll(e)' = Dll(e) /\ at'[e] = at[e]
  BY DEF Dll
<1>4. ProcsOnce'
  BY <1>2, <1>3 DEF procVars, BindInv, ProcsOnce
<1>5. DllsOnce'
  BY <1>2, <1>3 DEF dllVars, BindInv, DllsOnce
<1>6. Outcomes'
  BY <1>1, <1>3 DEF procVars, dllVars, BindInv, Outcomes
<1>7. Handles'
  <2>1. \A e \in Callers : pc'[e] = "verify" <=> pc[e] = "verify"
    BY <1>1 DEF InProc
  <2> QED BY <1>2, <1>3, <2>1 DEF dllVars, BindInv, Handles
<1> QED BY <1>4, <1>5, <1>6, <1>7

LEMMA SameProcs == procVars' = procVars => \A p : Succeeded(p)' = Succeeded(p)
BY DEF procVars, Succeeded

LEMMA EnterInv == ASSUME BindInv, NEW c \in Callers, Enter(c) PROVE BindInv'
<1>1. BindingTypeOK' /\ Walk'
  BY SameProcs DEF Enter, Goto, BindInv, BindingTypeOK, Labels, Walk, dllVars, procVars
<1>2. ProcsOnce' /\ DllsOnce' /\ Outcomes' /\ Handles'
  BY CallerMoves DEF Enter, InProc
<1> QED BY <1>1, <1>2 DEF BindInv

LEMMA VerifyKernelInv == ASSUME BindInv, NEW c \in Callers, VerifyKernel(c) PROVE BindInv'
<1>1. BindingTypeOK'
  <2>1. told' \in [Callers -> BindFailures \cup {Unknown, Bound, KernelError}]
    BY DEF VerifyKernel, BindInv, BindingTypeOK
  <2>2. pc' \in [Callers -> Labels]
    BY DEF VerifyKernel, Goto, BindInv, BindingTypeOK, Labels
  <2> QED BY <2>1, <2>2 DEF VerifyKernel, BindInv, BindingTypeOK, dllVars, procVars
<1>2. Walk'
  BY SameProcs, Answers, Constants
  DEF VerifyKernel, Goto, BindInv, BindingTypeOK, Labels, Walk, dllVars, procVars
<1>3. ProcsOnce' /\ DllsOnce' /\ Outcomes' /\ Handles'
  BY CallerMoves DEF VerifyKernel, InProc
<1> QED BY <1>1, <1>2, <1>3 DEF BindInv

LEMMA EndWalkInv == ASSUME BindInv, NEW c \in Callers, EndWalk(c) PROVE BindInv'
<1>1. BindingTypeOK'
  BY DEF EndWalk, Goto, BindInv, BindingTypeOK, Labels, dllVars, procVars
<1>2. \A p \in Procs : Succeeded(p)
  <2>1. at[c] \in 1..(ProcCount + 1) /\ at[c] > ProcCount /\ pc[c] = "find"
        /\ mode[c] \in {"bind", "call"}
    BY DEF EndWalk, BindInv, BindingTypeOK
  <2>2. 1..(at[c] - 1) = Procs
    BY <2>1, Constants
  <2> QED BY <2>1, <2>2 DEF BindInv, Walk
<1>3. Walk'
  BY <1>2, SameProcs, Answers
  DEF EndWalk, Goto, BindInv, BindingTypeOK, Labels, Walk
<1>4. ProcsOnce' /\ DllsOnce' /\ Outcomes' /\ Handles'
  BY CallerMoves DEF EndWalk, InProc
<1> QED BY <1>1, <1>3, <1>4 DEF BindInv

\* A finished procedure is found: the walk goes on, ends, or the call is made.
LEMMA FindDoneInv == ASSUME BindInv, NEW c \in Callers, FindDone(c) PROVE BindInv'
<1> DEFINE p == at[c]
<1>1. /\ pc[c] = "find" /\ p \in Procs /\ procOnce[p] = "done"
      /\ UNCHANGED <<procVars, dllVars, handle, mode, calls>>
      /\ ~InProc(c)
  BY DEF FindDone, FoundWhileBinding, FoundForCall, InProc
<1>2. CASE mode[c] = "bind" /\ procErr[p] = NoError
  <2>1. at' = [at EXCEPT ![c] = @ + 1] /\ UNCHANGED <<pc, told>>
    BY <1>2 DEF FindDone, FoundWhileBinding, FoundForCall
  <2>2. /\ Goto(c, "find")
        /\ \A e \in Callers \ {c} : at'[e] = at[e]
        /\ at'[c] = p + 1 /\ p + 1 \in 1..(ProcCount + 1)
    BY <1>1, <2>1, Constants DEF Goto, BindInv, BindingTypeOK, Labels
  <2>3. ProcsOnce' /\ DllsOnce' /\ Outcomes' /\ Handles'
    BY <1>1, <2>2, CallerMoves
  <2>4. BindingTypeOK'
    BY <1>1, <2>1, <2>2 DEF BindInv, BindingTypeOK, dllVars, procVars
  <2>5. \A q \in 1..(at'[c] - 1) : Succeeded(q)
    <3>1. Succeeded(p) /\ \A q \in 1..(p - 1) : Succeeded(q)
      BY <1>1, <1>2 DEF BindInv, Walk, Succeeded
    <3> QED BY <2>2, <3>1, <1>1, Constants
  <2>6. Walk'
    BY <1>1, <1>2, <2>1, <2>2, <2>5, SameProcs DEF BindInv, Walk
  <2> QED BY <2>3, <2>4, <2>6 DEF BindInv
<1>3. CASE mode[c] = "bind" /\ procErr[p] # NoError
  <2>1. /\ told' = [told EXCEPT ![c] = [proc |-> p, err |-> procErr[p]]]
        /\ Goto(c, "done") /\ at' = at
    BY <1>3 DEF FindDone, FoundWhileBinding, FoundForCall
  <2>2. procErr[p] \in BindErrors
    BY <1>1, <1>3 DEF BindInv, BindingTypeOK
  <2>3. ProcsOnce' /\ DllsOnce' /\ Outcomes' /\ Handles'
    BY <1>1, <2>1, CallerMoves
  <2>4. BindingTypeOK'
    BY <1>1, <2>1, <2>2, Answers DEF Goto, BindInv, BindingTypeOK, Labels, dllVars, procVars
  <2>5. Walk'
    BY <1>1, <1>3, <2>1, <2>2, Answers, SameProcs
    DEF Goto, BindInv, BindingTypeOK, Labels, Walk
  <2> QED BY <2>3, <2>4, <2>5 DEF BindInv
<1>4. CASE mode[c] = "call"
  <2>1. procErr[p] = NoError
    BY <1>1, <1>4 DEF BindInv, Walk, Succeeded
  <2>2. Goto(c, "ready") /\ UNCHANGED <<at, told>>
    BY <1>4, <2>1 DEF FindDone, FoundWhileBinding, FoundForCall
  <2>3. ProcsOnce' /\ DllsOnce' /\ Outcomes' /\ Handles'
    BY <1>1, <2>2, CallerMoves
  <2>4. BindingTypeOK'
    BY <1>1, <2>2 DEF Goto, BindInv, BindingTypeOK, Labels, dllVars, procVars
  <2>5. Walk'
    BY <1>1, <1>4, <2>2, SameProcs DEF Goto, BindInv, BindingTypeOK, Labels, Walk
  <2> QED BY <2>3, <2>4, <2>5 DEF BindInv
<1> QED BY <1>2, <1>3, <1>4 DEF BindInv, BindingTypeOK

LEMMA StartCallInv == ASSUME BindInv, NEW c \in Callers, StartCall(c) PROVE BindInv'
<1>1. PICK p \in Procs : at' = [at EXCEPT ![c] = p]
  BY DEF StartCall
<1>2. BindingTypeOK'
  BY <1>1, Constants, BindingAssumption
  DEF StartCall, Goto, BindInv, BindingTypeOK, Labels, dllVars, procVars
<1>3. Walk'
  BY <1>1, SameProcs, Answers DEF StartCall, Goto, BindInv, BindingTypeOK, Labels, Walk
<1>4. \A e \in Callers \ {c} : at'[e] = at[e]
  BY <1>1 DEF BindInv, BindingTypeOK
<1>5. ProcsOnce' /\ DllsOnce' /\ Outcomes' /\ Handles'
  BY <1>4, CallerMoves DEF StartCall, InProc
<1> QED BY <1>2, <1>3, <1>5 DEF BindInv

LEMMA LeaveInv == ASSUME BindInv, NEW c \in Callers, Leave(c) PROVE BindInv'
<1>1. BindingTypeOK' /\ Walk'
  BY SameProcs, Answers DEF Leave, Goto, BindInv, BindingTypeOK, Labels, Walk, dllVars, procVars
<1>2. ProcsOnce' /\ DllsOnce' /\ Outcomes' /\ Handles'
  BY CallerMoves DEF Leave, InProc
<1> QED BY <1>1, <1>2 DEF BindInv

-----------------------------------------------------------------------------
(***************************************************************************)
(* Steps that start a Once.                                                *)
(***************************************************************************)
LEMMA FindFirstInv == ASSUME BindInv, NEW c \in Callers, FindFirst(c) PROVE BindInv'
<1> DEFINE p == at[c]
<1>1. /\ pc[c] = "find" /\ p \in Procs /\ procOnce[p] = "fresh"
      /\ UNCHANGED <<at, mode, handle, calls, told, procModule, procErr, dllVars>>
      /\ \A e \in Callers : pc'[e] = IF e = c THEN "load" ELSE pc[e]
      /\ \A q \in Procs : procOnce'[q] = IF q = p THEN "running" ELSE procOnce[q]
      /\ pc' \in [Callers -> Labels]
      /\ procOnce' \in [Procs -> OnceStates]
  BY DEF FindFirst, Goto, BindInv, BindingTypeOK, Labels, OnceStates
<1>2. BindingTypeOK'
  BY <1>1 DEF BindInv, BindingTypeOK, dllVars
<1>3. mode[c] = "bind" /\ \A q \in 1..(p - 1) : Succeeded(q) /\ q # p
  BY <1>1, Constants DEF BindInv, BindingTypeOK, Walk, Succeeded
<1>4. \A q \in Procs : Succeeded(q)' <=> Succeeded(q)
  BY <1>1 DEF Succeeded
<1>5. Walk'
  <2>1. \A e \in Callers : \A q \in 1..(at[e] - 1) : Succeeded(q) => Succeeded(q)'
    BY <1>1, <1>4, Constants DEF BindInv, BindingTypeOK
  <2> QED BY <1>1, <1>3, <1>4, <2>1 DEF BindInv, BindingTypeOK, Walk
<1>6. ProcsOnce'
  <2>1. \A e \in Callers : InProc(e)' <=> InProc(e) \/ e = c
    BY <1>1 DEF InProc
  <2>2. \A e \in Callers : InProc(e) => at[e] # p
    BY <1>1 DEF BindInv, ProcsOnce
  <2> QED BY <1>1, <2>1, <2>2 DEF BindInv, ProcsOnce
<1>7. DllsOnce' /\ Handles'
  <2>1. \A e \in Callers : /\ InDll(e)' <=> InDll(e)
                           /\ Dll(e)' = Dll(e)
                           /\ pc'[e] = "verify" <=> pc[e] = "verify"
    BY <1>1 DEF InDll, Dll
  <2> QED BY <1>1, <2>1 DEF BindInv, DllsOnce, Handles, dllVars
<1>8. Outcomes'
  BY <1>1 DEF BindInv, Outcomes, dllVars, Dll
<1> QED BY <1>2, <1>5, <1>6, <1>7, <1>8 DEF BindInv

LEMMA LoadFirstInv == ASSUME BindInv, NEW c \in Callers, LoadFirst(c) PROVE BindInv'
<1> DEFINE d == Dll(c)
<1>1. /\ pc[c] = "load" /\ d \in Dlls /\ dllOnce[d] = "fresh"
      /\ UNCHANGED <<at, mode, handle, calls, told, procVars, dllModule, dllErr, held>>
      /\ \A e \in Callers : pc'[e] = IF e = c THEN "library" ELSE pc[e]
      /\ \A x \in Dlls : dllOnce'[x] = IF x = d THEN "running" ELSE dllOnce[x]
      /\ pc' \in [Callers -> Labels]
      /\ dllOnce' \in [Dlls -> OnceStates]
  BY Constants
  DEF LoadFirst, Goto, BindInv, BindingTypeOK, Labels, OnceStates, ProcsOnce, InProc, Dll
<1>2. \A e \in Callers : /\ InProc(e)' <=> InProc(e)
                         /\ InDll(e)' <=> InDll(e) \/ e = c
                         /\ Dll(e)' = Dll(e)
                         /\ InDll(e) => Dll(e) # d /\ Dll(e) \in Dlls
                         /\ pc'[e] = "resolve" => /\ pc[e] = "resolve"
                                                 /\ Dll(e) # d /\ Dll(e) \in Dlls
  <2>1. \A e \in Callers : InProc(e) => Dll(e) \in Dlls
    BY Constants DEF BindInv, ProcsOnce, Dll
  <2>2. \A e \in Callers : InDll(e) \/ pc[e] = "resolve" => Dll(e) # d
    BY <1>1 DEF BindInv, DllsOnce, Outcomes
  <2> QED BY <1>1, <2>1, <2>2 DEF InProc, InDll, Dll
<1>3. BindingTypeOK'
  BY <1>1 DEF BindInv, BindingTypeOK, procVars
<1>4. Walk'
  <2>1. \A q : Succeeded(q)' = Succeeded(q)
    BY <1>1, SameProcs
  <2> QED BY <1>1, <2>1 DEF BindInv, BindingTypeOK, Walk
<1>5. ProcsOnce' /\ DllsOnce'
  BY <1>1, <1>2 DEF BindInv, ProcsOnce, DllsOnce, procVars
<1>6. Outcomes'
  BY <1>1, <1>2 DEF BindInv, Outcomes, procVars
<1>7. Handles'
  <2>1. handle[c] = NoModule /\ dllModule[d] = NoModule
    BY <1>1 DEF BindInv, Handles, Outcomes
  <2>2. \A m \in Modules : held[d][m] = IF m = NoModule THEN 1 ELSE 0
    BY <1>1, <2>1 DEF BindInv, Handles
  <2> QED BY <1>1, <1>2, <2>1, <2>2 DEF BindInv, Handles
<1> QED BY <1>3, <1>4, <1>5, <1>6, <1>7 DEF BindInv

-----------------------------------------------------------------------------
(***************************************************************************)
(* Steps inside a Once, and those that end it.                             *)
(***************************************************************************)
\* How a procedure's Once may end.
ProcOutcome(c, m, err) ==
    \/ m = SystemModule(Dll(c)) /\ err = NoError
    \/ m = NoModule /\ err \in BindErrors

LEMMA BindProcInv ==
    ASSUME BindInv, NEW c \in Callers, pc[c] \in {"load", "resolve"},
           NEW m, NEW err, BindProc(c, m, err), ProcOutcome(c, m, err),
           UNCHANGED <<at, mode, handle, calls, told, dllVars>>
    PROVE  BindInv'
<1> DEFINE p == at[c]
<1>1. p \in Procs /\ procOnce[p] = "running" /\ Dll(c) = DllOf[p]
      /\ InProc(c) /\ ~InDll(c)
  BY DEF BindInv, ProcsOnce, InProc, InDll, Dll
<1>2. m \in Modules \cup {NoModule} /\ err \in BindErrors \cup {NoError}
      /\ m = IF err = NoError THEN SystemModule(DllOf[p]) ELSE NoModule
  BY <1>1, Constants DEF ProcOutcome
<1>3. /\ \A e \in Callers : pc'[e] = IF e = c THEN "find" ELSE pc[e]
      /\ \A q \in Procs : /\ procOnce'[q] = IF q = p THEN "done" ELSE procOnce[q]
                          /\ procModule'[q] = IF q = p THEN m ELSE procModule[q]
                          /\ procErr'[q] = IF q = p THEN err ELSE procErr[q]
      /\ pc' \in [Callers -> Labels]
      /\ procOnce' \in [Procs -> OnceStates]
      /\ procModule' \in [Procs -> Modules \cup {NoModule}]
      /\ procErr' \in [Procs -> BindErrors \cup {NoError}]
  BY <1>1, <1>2 DEF BindProc, Goto, BindInv, BindingTypeOK, Labels, OnceStates
<1>4. BindingTypeOK'
  BY <1>3 DEF BindInv, BindingTypeOK, dllVars
<1>5. \A e \in Callers : /\ InProc(e)' <=> InProc(e) /\ e # c
                         /\ InDll(e)' <=> InDll(e)
                         /\ Dll(e)' = Dll(e)
                         /\ pc'[e] = "verify" <=> pc[e] = "verify"
                         /\ pc'[e] = "resolve" => pc[e] = "resolve"
  BY <1>3 DEF InProc, InDll, Dll
<1>6. ProcsOnce'
  BY <1>1, <1>3, <1>5 DEF BindInv, ProcsOnce
<1>7. DllsOnce' /\ Handles'
  BY <1>5 DEF BindInv, DllsOnce, Handles, dllVars
<1>8. Outcomes'
  BY <1>1, <1>2, <1>3, <1>5 DEF BindInv, Outcomes, dllVars
<1>9. Walk'
  <2>1. \A q \in Procs : Succeeded(q) => Succeeded(q)'
    BY <1>1, <1>3 DEF Succeeded
  <2>2. \A e \in Callers : \A q \in 1..(at[e] - 1) : Succeeded(q) => Succeeded(q)'
    BY <2>1, Constants DEF BindInv, BindingTypeOK
  <2>3. mode[c] = "bind"
    BY DEF BindInv, BindingTypeOK, Walk
  <2> QED BY <1>3, <2>1, <2>2, <2>3 DEF BindInv, BindingTypeOK, Walk
<1> QED BY <1>4, <1>6, <1>7, <1>8, <1>9 DEF BindInv

LEMMA LoadDoneInv == ASSUME BindInv, NEW c \in Callers, LoadDone(c) PROVE BindInv'
<1> DEFINE d == Dll(c)
<1>1. /\ pc[c] = "load" /\ dllOnce[d] = "done"
      /\ UNCHANGED <<at, mode, handle, calls, told, dllVars>>
      /\ at[c] \in Procs /\ d \in Dlls
  BY Constants DEF LoadDone, BindInv, ProcsOnce, InProc, Dll
<1>2. CASE dllErr[d] = NoError
  <2>1. Goto(c, "resolve") /\ UNCHANGED procVars
    BY <1>2 DEF LoadDone
  <2>2. /\ \A e \in Callers : pc'[e] = IF e = c THEN "resolve" ELSE pc[e]
        /\ pc' \in [Callers -> Labels]
    BY <2>1 DEF Goto, BindInv, BindingTypeOK, Labels
  <2>3. \A e \in Callers : /\ InProc(e)' <=> InProc(e)
                           /\ InDll(e)' <=> InDll(e)
                           /\ Dll(e)' = Dll(e)
                           /\ pc'[e] = "verify" <=> pc[e] = "verify"
    BY <1>1, <2>2 DEF InProc, InDll, Dll
  <2>4. BindingTypeOK'
    BY <1>1, <2>1, <2>2 DEF BindInv, BindingTypeOK, procVars, dllVars
  <2>5. ProcsOnce' /\ DllsOnce' /\ Handles'
    BY <1>1, <2>1, <2>3 DEF BindInv, ProcsOnce, DllsOnce, Handles, procVars, dllVars
  <2>6. Outcomes'
    BY <1>1, <1>2, <2>1, <2>2, <2>3 DEF BindInv, Outcomes, procVars, dllVars
  <2>7. Walk'
    BY <1>1, <2>1, <2>2, SameProcs DEF BindInv, BindingTypeOK, Walk
  <2> QED BY <2>4, <2>5, <2>6, <2>7 DEF BindInv
<1>3. CASE dllErr[d] # NoError
  <2>1. BindProc(c, NoModule, dllErr[d])
    BY <1>3 DEF LoadDone
  <2>2. dllErr[d] \in BindErrors
    BY <1>1, <1>3, Constants DEF BindInv, BindingTypeOK
  <2> QED BY <1>1, <2>1, <2>2, BindProcInv DEF ProcOutcome
<1> QED BY <1>2, <1>3

LEMMA ResolveInv == ASSUME BindInv, NEW c \in Callers, Resolve(c) PROVE BindInv'
<1>1. at[c] \in Procs /\ Dll(c) \in Dlls /\ pc[c] = "resolve"
      /\ UNCHANGED <<at, mode, handle, calls, told, dllVars>>
  BY Constants DEF Resolve, BindInv, ProcsOnce, InProc, Dll
<1>2. dllModule[Dll(c)] = SystemModule(Dll(c))
  BY <1>1 DEF BindInv, Outcomes
<1>3. CASE BindProc(c, dllModule[Dll(c)], NoError)
  BY <1>1, <1>2, <1>3, BindProcInv DEF ProcOutcome
<1>4. CASE BindProc(c, NoModule, "missing")
  BY <1>1, <1>4, BindProcInv DEF ProcOutcome, BindErrors
<1> QED BY <1>3, <1>4 DEF Resolve

\* How a library's Once may end.
DllOutcome(c, m, err) ==
    /\ \/ m = SystemModule(Dll(c)) /\ err = NoError
       \/ m = NoModule /\ err \in DllErrors
    /\ handle' = [handle EXCEPT ![c] = NoModule]
    /\ held' \in [Dlls -> [Modules -> 0..1]]
    /\ \A d \in Dlls \ {Dll(c)} : held'[d] = held[d]
    /\ \A x \in Modules : held'[Dll(c)][x] = IF x = m THEN 1 ELSE 0

LEMMA BindDllInv ==
    ASSUME BindInv, NEW c \in Callers, pc[c] \in {"library", "verify"},
           NEW m, NEW err, BindDll(c, m, err), DllOutcome(c, m, err),
           UNCHANGED <<at, mode, calls, told, procVars>>
    PROVE  BindInv'
<1> DEFINE d == Dll(c)
<1>1. InProc(c) /\ InDll(c) /\ d \in Dlls /\ dllOnce[d] = "running"
  BY Constants DEF BindInv, ProcsOnce, DllsOnce, InProc, InDll, Dll
<1>2. m \in Modules \cup {NoModule} /\ err \in DllErrors \cup {NoError}
      /\ m = IF err = NoError THEN SystemModule(d) ELSE NoModule
  BY <1>1, Constants DEF DllOutcome
<1>3. /\ \A e \in Callers : pc'[e] = IF e = c THEN "load" ELSE pc[e]
      /\ \A e \in Callers : handle'[e] = IF e = c THEN NoModule ELSE handle[e]
      /\ \A x \in Dlls : /\ dllOnce'[x] = IF x = d THEN "done" ELSE dllOnce[x]
                         /\ dllModule'[x] = IF x = d THEN m ELSE dllModule[x]
                         /\ dllErr'[x] = IF x = d THEN err ELSE dllErr[x]
      /\ pc' \in [Callers -> Labels]
      /\ handle' \in [Callers -> Modules \cup {NoModule}]
      /\ dllOnce' \in [Dlls -> OnceStates]
      /\ dllModule' \in [Dlls -> Modules \cup {NoModule}]
      /\ dllErr' \in [Dlls -> DllErrors \cup {NoError}]
  BY <1>1, <1>2 DEF BindDll, DllOutcome, Goto, BindInv, BindingTypeOK, Labels, OnceStates
<1>4. BindingTypeOK'
  BY <1>3 DEF BindInv, BindingTypeOK, procVars, DllOutcome
<1>5. \A e \in Callers : /\ InProc(e)' <=> InProc(e)
                         /\ InDll(e)' <=> InDll(e) /\ e # c
                         /\ Dll(e)' = Dll(e)
                         /\ InDll(e) /\ e # c => Dll(e) # d /\ Dll(e) \in Dlls
                         /\ pc'[e] = "verify" <=> pc[e] = "verify" /\ e # c
                         /\ pc'[e] = "resolve" <=> pc[e] = "resolve" /\ e # c
  <2>1. \A e \in Callers : InDll(e) /\ e # c => Dll(e) # d /\ Dll(e) \in Dlls
    BY <1>1, Constants DEF BindInv, DllsOnce, ProcsOnce, InDll, InProc, Dll
  <2> QED BY <1>3, <2>1 DEF InProc, InDll, Dll
<1>6. ProcsOnce' /\ DllsOnce'
  BY <1>3, <1>5 DEF BindInv, ProcsOnce, DllsOnce, procVars
<1>7. Outcomes'
  <2>1. \A e \in Callers : pc[e] = "resolve" => Dll(e) \in Dlls /\ Dll(e) # d
    BY <1>1, Constants DEF BindInv, Outcomes, ProcsOnce, InProc, Dll
  <2> QED BY <1>2, <1>3, <1>5, <2>1 DEF BindInv, Outcomes, procVars
<1>8. Handles'
  <2>1. \A x \in Dlls, y \in Modules :
           dllOnce'[x] # "running" => held'[x][y] = IF y = dllModule'[x] THEN 1 ELSE 0
    BY <1>3 DEF BindInv, Handles, DllOutcome
  <2>2. \A e \in Callers, y \in Modules :
           InDll(e)' => held'[Dll(e)'][y] = IF y = handle'[e] THEN 1 ELSE 0
    BY <1>3, <1>5 DEF BindInv, Handles, DllOutcome
  <2>3. \A e \in Callers : pc'[e] = "verify" <=> handle'[e] # NoModule
    BY <1>3, <1>5 DEF BindInv, Handles
  <2> QED BY <2>1, <2>2, <2>3 DEF Handles
<1>9. Walk'
  BY <1>3, SameProcs DEF BindInv, BindingTypeOK, Walk
<1> QED BY <1>4, <1>6, <1>7, <1>8, <1>9 DEF BindInv

LEMMA LoadLibraryInv == ASSUME BindInv, NEW c \in Callers, LoadLibrary(c) PROVE BindInv'
<1> DEFINE d == Dll(c)
<1>1. /\ pc[c] = "library" /\ InProc(c) /\ InDll(c) /\ at[c] \in Procs /\ d \in Dlls
      /\ dllOnce[d] = "running" /\ handle[c] = NoModule
      /\ UNCHANGED <<at, mode, calls, told, procVars>>
      /\ \A x \in Modules : held[d][x] = 0
  BY Constants DEF LoadLibrary, BindInv, ProcsOnce, DllsOnce, Handles, InProc, InDll, Dll
<1>2. CASE BindDll(c, NoModule, "load") /\ UNCHANGED <<handle, held>>
  <2>1. DllOutcome(c, NoModule, "load")
    BY <1>1, <1>2, Constants DEF DllOutcome, DllErrors, BindInv, BindingTypeOK
  <2> QED BY <1>1, <1>2, <2>1, BindDllInv
<1>3. ASSUME NEW m \in Loaded(d),
             /\ handle' = [handle EXCEPT ![c] = m]
             /\ held' = [held EXCEPT ![d][m] = @ + 1]
             /\ Goto(c, "verify")
             /\ UNCHANGED <<dllOnce, dllModule, dllErr>>
      PROVE  BindInv'
  <2>1. m \in Modules /\ m # NoModule
    BY Constants DEF Loaded
  <2>2. /\ \A e \in Callers : pc'[e] = IF e = c THEN "verify" ELSE pc[e]
        /\ \A e \in Callers : handle'[e] = IF e = c THEN m ELSE handle[e]
        /\ pc' \in [Callers -> Labels]
        /\ handle' \in [Callers -> Modules \cup {NoModule}]
    BY <1>3, <2>1 DEF Goto, BindInv, BindingTypeOK, Labels
  <2>3. /\ held' \in [Dlls -> [Modules -> 0..1]]
        /\ \A x \in Dlls \ {d} : held'[x] = held[x]
        /\ \A y \in Modules : held'[d][y] = IF y = m THEN 1 ELSE 0
    <3>1. held[d] \in [Modules -> 0..1] /\ held \in [Dlls -> [Modules -> 0..1]]
      BY <1>1 DEF BindInv, BindingTypeOK
    <3>2. held[d][m] + 1 = 1 /\ 1 \in 0..1
      BY <1>1, <2>1
    <3>3. held' = [held EXCEPT ![d] = [held[d] EXCEPT ![m] = 1]]
      BY <1>3, <3>2, Zenon
    <3>4. [held[d] EXCEPT ![m] = 1] \in [Modules -> 0..1]
      BY <3>1, <3>2, Zenon
    <3> QED BY <1>1, <2>1, <3>1, <3>3, <3>4
  <2>4. BindingTypeOK'
    BY <1>1, <1>3, <2>2, <2>3 DEF BindInv, BindingTypeOK, procVars
  <2>5. \A e \in Callers : /\ InProc(e)' <=> InProc(e)
                           /\ InDll(e)' <=> InDll(e)
                           /\ Dll(e)' = Dll(e)
                           /\ InDll(e) /\ e # c => Dll(e) # d /\ Dll(e) \in Dlls
                           /\ pc'[e] = "verify" <=> pc[e] = "verify" \/ e = c
                           /\ pc'[e] = "resolve" <=> pc[e] = "resolve"
    <3>1. \A e \in Callers : InDll(e) /\ e # c => Dll(e) # d /\ Dll(e) \in Dlls
      BY <1>1, Constants DEF BindInv, DllsOnce, ProcsOnce, InDll, InProc, Dll
    <3> QED BY <1>1, <2>2, <3>1 DEF InProc, InDll, Dll
  <2>6. ProcsOnce' /\ DllsOnce'
    BY <1>1, <1>3, <2>5 DEF BindInv, ProcsOnce, DllsOnce, procVars
  <2>7. Outcomes'
    BY <1>1, <1>3, <2>5 DEF BindInv, Outcomes, procVars
  <2>8. Handles'
    <3>1. \A x \in Dlls, y \in Modules :
             dllOnce'[x] # "running" => held'[x][y] = IF y = dllModule'[x] THEN 1 ELSE 0
      BY <1>1, <1>3, <2>3 DEF BindInv, Handles
    <3>2. \A e \in Callers, y \in Modules :
             InDll(e)' => held'[Dll(e)'][y] = IF y = handle'[e] THEN 1 ELSE 0
      BY <1>1, <2>2, <2>3, <2>5 DEF BindInv, Handles
    <3>3. \A e \in Callers : pc'[e] = "verify" <=> handle'[e] # NoModule
      BY <2>1, <2>2, <2>5 DEF BindInv, Handles
    <3> QED BY <3>1, <3>2, <3>3 DEF Handles
  <2>9. Walk'
    BY <1>1, <2>2, SameProcs DEF BindInv, BindingTypeOK, Walk
  <2> QED BY <2>4, <2>6, <2>7, <2>8, <2>9 DEF BindInv
<1> QED BY <1>2, <1>3 DEF LoadLibrary

\* The verified module is kept, and a refused one released.
LEMMA VerifyModuleInv == ASSUME BindInv, NEW c \in Callers, VerifyModule(c) PROVE BindInv'
<1> DEFINE d == Dll(c)
           h == handle[c]
<1>1. /\ pc[c] = "verify" /\ InProc(c) /\ InDll(c) /\ at[c] \in Procs /\ d \in Dlls
      /\ h \in Modules
      /\ handle' = [handle EXCEPT ![c] = NoModule]
      /\ UNCHANGED <<at, mode, calls, told, procVars>>
      /\ \A x \in Modules : held[d][x] = IF x = h THEN 1 ELSE 0
  BY Constants
  DEF VerifyModule, BindInv, BindingTypeOK, ProcsOnce, Handles, InProc, InDll, Dll
<1>2. held \in [Dlls -> [Modules -> 0..1]] /\ held[d] \in [Modules -> 0..1]
  BY <1>1 DEF BindInv, BindingTypeOK
<1>3. CASE CheckModulePath(h, d) /\ BindDll(c, h, NoError) /\ UNCHANGED held
  <2>1. h = SystemModule(d)
    BY <1>1, <1>3 DEF CheckModulePath, SystemModule, Modules
  <2>2. DllOutcome(c, h, NoError)
    BY <1>1, <1>2, <1>3, <2>1 DEF DllOutcome
  <2> QED BY <1>1, <1>3, <2>2, BindDllInv
<1>4. ASSUME NEW err \in DllErrors, BindDll(c, NoModule, err), FreeLibrary(c)
      PROVE  BindInv'
  <2> held[d][h] - 1 = 0 /\ 0 \in 0..1
    BY <1>1
  <2>1. held' = [held EXCEPT ![d] = [held[d] EXCEPT ![h] = 0]]
    BY <1>4, Zenon DEF FreeLibrary
  <2>2. [held[d] EXCEPT ![h] = 0] \in [Modules -> 0..1]
    BY <1>2, Zenon
  <2>3. DllOutcome(c, NoModule, err)
    <3>1. /\ held' \in [Dlls -> [Modules -> 0..1]]
          /\ \A x \in Dlls \ {d} : held'[x] = held[x]
      BY <1>1, <1>2, <2>1, <2>2
    <3>2. \A x \in Modules : held'[d][x] = IF x = NoModule THEN 1 ELSE 0
      BY <1>1, <1>2, <2>1, Constants
    <3> QED BY <1>1, <3>1, <3>2 DEF DllOutcome
  <2> QED BY <1>1, <1>4, <2>3, BindDllInv
<1> QED BY <1>3, <1>4 DEF VerifyModule, DllErrors

-----------------------------------------------------------------------------
LEMMA BindInvStep == BindInv /\ [BindNext]_bindVars => BindInv'
<1> SUFFICES ASSUME BindInv, [BindNext]_bindVars PROVE BindInv'
  OBVIOUS
<1>1. CASE UNCHANGED bindVars
  BY <1>1
  DEF bindVars, callerVars, procVars, dllVars, BindInv, BindingTypeOK, ProcsOnce,
      DllsOnce, Outcomes, Handles, Walk, InProc, InDll, Dll, Succeeded
<1>2. ASSUME NEW c \in Callers, Enter(c) \/ BindStep(c) PROVE BindInv'
  BY <1>2, EnterInv, VerifyKernelInv, EndWalkInv, FindFirstInv, FindDoneInv,
     LoadFirstInv, LoadDoneInv, LoadLibraryInv, VerifyModuleInv, ResolveInv,
     StartCallInv, LeaveInv
  DEF BindStep
<1> QED BY <1>1, <1>2 DEF BindNext

\* The invariant holds, for any number of goroutines, libraries and procedures
\* (loadNativeAPIs and what it calls).
THEOREM BindInvCorrect == BindSpec => []BindInv
<1>1. BindingInit => BindInv
  BY InitBindInv
<1>2. BindInv /\ [BindNext]_bindVars => BindInv'
  BY BindInvStep
<1> QED BY <1>1, <1>2, PTL DEF BindSpec

-----------------------------------------------------------------------------
(***************************************************************************)
(* The safety properties.                                                  *)
(***************************************************************************)
\* Every variable keeps its type; that the number of times a module is held
\* stays 0 or 1 needs the whole invariant.
THEOREM BindingTypes == BindSpec => []BindingTypeOK
BY BindInvCorrect, PTL DEF BindInv

\* What is bound is the file in the system directory, loaded once, and what
\* was refused is released (systemDLL.load, loadSystemDLL).
THEOREM SystemOnly == BindSpec => []BoundToSystem
<1>1. BindInv => BoundToSystem
  BY DEF BindInv, Outcomes, Handles, BoundToSystem, SystemModule
<1> QED BY <1>1, BindInvCorrect, PTL

\* No native call panics: an entry point only calls what it has bound
\* (systemProc.Call, after loadNativeAPIs).
THEOREM CallsDoNotPanic == BindSpec => []NoCallPanics
<1>1. BindInv => NoCallPanics
  BY DEF BindInv, Walk, NoCallPanics
<1> QED BY <1>1, BindInvCorrect, PTL

-----------------------------------------------------------------------------
(***************************************************************************)
(* One answer for all callers: what a prefix of the walk has decided is    *)
(* never decided differently.                                              *)
(***************************************************************************)
LEMMA OneFirstFailure ==
    ASSUME NEW p \in Procs, NEW q \in Procs, FirstFailure(p), FirstFailure(q)
    PROVE  p = q
<1>1. ASSUME NEW x \in Procs, NEW y \in Procs, FirstFailure(x), FirstFailure(y), x < y
      PROVE  FALSE
  <2>1. x \in 1..(y - 1)
    BY <1>1, Constants
  <2> QED BY <1>1, <2>1 DEF FirstFailure, Failed, Succeeded
<1>2. p \in Nat /\ q \in Nat
  BY Constants
<1> QED BY <1>1, <1>2

LEMMA DecidedByFailure ==
    ASSUME NEW p \in Procs, FirstFailure(p)
    PROVE  Decided = [proc |-> p, err |-> procErr[p]]
<1>1. ~\A q \in Procs : Succeeded(q)
  BY DEF FirstFailure, Failed, Succeeded
<1>2. (CHOOSE q \in Procs : FirstFailure(q)) = p
  BY OneFirstFailure
<1> QED BY <1>1, <1>2 DEF Decided

LEMMA DecidedBySuccess == (\A p \in Procs : Succeeded(p)) => Decided = Bound
BY DEF Decided

LEMMA DecidedType ==
    ASSUME BindInv PROVE Decided \in BindFailures \cup {Bound, Unknown}
<1>1. CASE \E p \in Procs : FirstFailure(p)
  <2>1. PICK p \in Procs : FirstFailure(p)
    BY <1>1
  <2>2. procErr[p] \in BindErrors
    BY <2>1 DEF FirstFailure, Failed, BindInv, BindingTypeOK
  <2> QED BY <2>1, <2>2, DecidedByFailure, Answers
<1> QED BY <1>1 DEF Decided

LEMMA DecidedTypeNext == BindInv' => (Decided \in BindFailures \cup {Bound, Unknown})'
<1>1. BindInv => Decided \in BindFailures \cup {Bound, Unknown}
  BY DecidedType
<1> QED BY <1>1, PTL

\* A Once that is done stays done, with what it recorded.
LEMMA DoneStays ==
    ASSUME BindInv, NEW c \in Callers, BindStep(c) \/ Enter(c),
           NEW p \in Procs, procOnce[p] = "done"
    PROVE  procOnce'[p] = "done" /\ procErr'[p] = procErr[p]
<1>1. CASE UNCHANGED <<procOnce, procErr>>
  BY <1>1
<1>2. CASE FindFirst(c)
  BY <1>2 DEF FindFirst
<1>3. ASSUME NEW m, NEW err, pc[c] \in {"load", "resolve"}, BindProc(c, m, err)
      PROVE  procOnce'[p] = "done" /\ procErr'[p] = procErr[p]
  <2>1. at[c] # p
    BY <1>3 DEF BindInv, ProcsOnce, InProc
  <2> QED BY <1>3, <2>1 DEF BindProc
<1>4. CASE LoadDone(c)
  BY <1>1, <1>3, <1>4 DEF LoadDone, procVars
<1>5. CASE Resolve(c)
  BY <1>3, <1>5 DEF Resolve
<1> QED BY <1>1, <1>2, <1>4, <1>5
  DEF BindStep, Enter, VerifyKernel, EndWalk, FindDone, LoadFirst, LoadLibrary,
      VerifyModule, StartCall, Leave, procVars

LEMMA DecidedStays ==
    ASSUME BindInv, NEW c \in Callers, BindStep(c) \/ Enter(c), Decided # Unknown
    PROVE  Decided' = Decided
<1>1. \A p \in Procs : Succeeded(p) => Succeeded(p)'
  BY DoneStays DEF Succeeded
<1>2. CASE \A p \in Procs : Succeeded(p)
  BY <1>1, <1>2 DEF Decided
<1>3. CASE \E p \in Procs : FirstFailure(p)
  <2>1. PICK p \in Procs : FirstFailure(p)
    BY <1>3
  <2>2. procErr'[p] = procErr[p] /\ procOnce'[p] = "done"
    BY <2>1, DoneStays DEF FirstFailure, Failed
  <2>3. FirstFailure(p)'
    <3>1. \A q \in 1..(p - 1) : q \in Procs
      BY Constants
    <3> QED BY <2>1, <2>2, <3>1, <1>1 DEF FirstFailure, Failed
  <2>4. ASSUME NEW q \in Procs, FirstFailure(q)' PROVE q = p
    <3>1. ASSUME NEW x \in Procs, NEW y \in Procs, FirstFailure(x)', FirstFailure(y)', x < y
          PROVE  FALSE
      <4>1. x \in 1..(y - 1)
        BY <3>1, Constants
      <4> QED BY <3>1, <4>1 DEF FirstFailure, Failed, Succeeded
    <3>2. p \in Nat /\ q \in Nat
      BY Constants
    <3> QED BY <2>3, <2>4, <3>1, <3>2
  <2>5. (CHOOSE q \in Procs : FirstFailure(q)') = p
    BY <2>3, <2>4
  <2>6. ~\A q \in Procs : Succeeded(q)'
    BY <2>3 DEF FirstFailure, Failed, Succeeded
  <2>7. Decided' = [proc |-> p, err |-> procErr'[p]]
    BY <2>3, <2>5, <2>6 DEF Decided
  <2> QED BY <2>1, <2>2, <2>7, DecidedByFailure
<1> QED BY <1>2, <1>3 DEF Decided

\* A caller that is answered gets what is decided.
LEMMA Answered ==
    ASSUME BindInv, NEW c \in Callers, BindStep(c) \/ Enter(c), told' # told
    PROVE  /\ told[c] = Unknown
           /\ \/ told' = [told EXCEPT ![c] = Decided] /\ Decided # Unknown
              \/ told' = [told EXCEPT ![c] = KernelError]
           /\ Decided' = Decided
<1>1. CASE VerifyKernel(c)
  <2>1. told[c] = Unknown /\ told' = [told EXCEPT ![c] = KernelError]
    BY <1>1 DEF VerifyKernel, BindInv, Walk
  <2>2. Decided' = Decided
    BY <1>1 DEF VerifyKernel, procVars, Decided, FirstFailure, Failed, Succeeded
  <2> QED BY <2>1, <2>2
<1>2. CASE EndWalk(c)
  <2>1. mode[c] = "bind" /\ 1..(at[c] - 1) = Procs
    BY <1>2, Constants DEF EndWalk, BindInv, BindingTypeOK, Walk
  <2>2. told[c] = Unknown /\ \A p \in Procs : Succeeded(p)
    BY <1>2, <2>1 DEF EndWalk, BindInv, Walk
  <2>3. told' = [told EXCEPT ![c] = Decided] /\ Decided # Unknown
    BY <1>2, <2>2, DecidedBySuccess, Answers DEF EndWalk
  <2> QED BY <2>2, <2>3, DecidedStays
<1>3. CASE FindDone(c)
  <2> DEFINE p == at[c]
  <2>1. /\ mode[c] = "bind" /\ p \in Procs /\ Failed(p)
        /\ told' = [told EXCEPT ![c] = [proc |-> p, err |-> procErr[p]]]
    BY <1>3 DEF FindDone, FoundWhileBinding, FoundForCall, Failed
  <2>2. told[c] = Unknown /\ FirstFailure(p) /\ procErr[p] \in BindErrors
    BY <1>3, <2>1 DEF FindDone, BindInv, BindingTypeOK, Walk, FirstFailure, Failed
  <2>3. told' = [told EXCEPT ![c] = Decided] /\ Decided # Unknown
    BY <2>1, <2>2, DecidedByFailure, Answers
  <2> QED BY <2>2, <2>3, DecidedStays
<1> QED BY <1>1, <1>2, <1>3
  DEF BindStep, Enter, FindFirst, LoadFirst, LoadDone, LoadLibrary, VerifyModule,
      Resolve, StartCall, Leave

\* Every behaviour is one of OneAnswer: the process decides once, by the first
\* failure of the walk or its end, and tells every caller the same.
THEOREM Idempotent == BindSpec => AllToldTheSame
<1>1. BindingInit => Promise!OneAnswerInit
  <2> SUFFICES ASSUME BindingInit PROVE Promise!OneAnswerInit
    OBVIOUS
  <2>1. ~\E p \in Procs : procOnce[p] = "done"
    BY DEF BindingInit
  <2>2. 1 \in Procs
    BY Constants
  <2>3. Decided = Unknown
    BY <2>1, <2>2 DEF Decided, FirstFailure, Failed, Succeeded
  <2> QED BY <2>3 DEF BindingInit, Promise!OneAnswerInit
<1>2. ASSUME BindInv, [BindNext]_bindVars
      PROVE  [Promise!OneAnswerNext]_<<Decided, told>>
  <2>1. CASE UNCHANGED bindVars
    BY <2>1 DEF bindVars, callerVars, procVars, Decided, FirstFailure, Failed, Succeeded
  <2>2. ASSUME NEW c \in Callers, BindStep(c) \/ Enter(c)
        PROVE  [Promise!OneAnswerNext]_<<Decided, told>>
    <3>1. CASE told' # told
      BY <1>2, <2>2, <3>1, Answered
      DEF Promise!OneAnswerNext, Promise!Tell, Promise!Refuse
    <3>2. CASE told' = told /\ Decided # Unknown
      BY <1>2, <2>2, <3>2, DecidedStays
    <3>3. CASE told' = told /\ Decided = Unknown
      <4>1. BindInv'
        BY <1>2, BindInvStep
      <4>2. Decided' \in BindFailures \cup {Bound, Unknown}
        BY <4>1, DecidedTypeNext
      <4> QED BY <3>3, <4>2 DEF Promise!OneAnswerNext, Promise!Decide
    <3> QED BY <3>1, <3>2, <3>3
  <2> QED BY <1>2, <2>1, <2>2 DEF BindNext
<1> QED BY <1>1, <1>2, BindInvCorrect, PTL
  DEF BindSpec, AllToldTheSame, Promise!OneAnswerSpec
=============================================================================
