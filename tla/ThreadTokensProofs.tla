------------------------- MODULE ThreadTokensProofs -------------------------
(***************************************************************************)
(* The token that passed the privilege check of an operation is the one    *)
(* its native calls run with, for any goroutines, threads and tokens.      *)
(*                                                                         *)
(* A thread whose goroutine is not locked has the token of the process:    *)
(* only a locked goroutine changes it, and it stays until it reverts.      *)
(* Hence an operation that is between its check and its end either is      *)
(* locked to its thread, whose token does not change, or is not, and then  *)
(* every thread it can be moved to has the token of the process.           *)
(***************************************************************************)
EXTENDS ThreadTokens, TLAPS

\* A locked goroutine keeps its thread.
LockedOnThread == \A g \in locked : thread[g] # NoThread

OthersAreProcess ==
    \A t \in Threads : (\A g \in locked : thread[g] # t) => token[t] = Process

\* The token an operation runs with, also while it is parked.
TokenFor(g) == IF g \in locked THEN token[thread[g]] ELSE Process

PassedIsToken ==
    \A g \in Goroutines : phase[g] = "native" =>
        passed[g] = {TokenFor(g)} /\ Enabled[TokenFor(g)] # {}

\* The counter of an operation stays below the bound that its stage has, and no
\* token has been used before the check is passed.
InRange ==
    \A g \in Goroutines :
        /\ phase[g] \in {"idle", "check"} => used[g] = {}
        /\ phase[g] = "check" => count[g] <= Len(PrivilegedSids)
        /\ phase[g] = "native" => count[g] = 0 \/ count[g] < GuardedCalls

TokenInv ==
    /\ TokenTypeOK /\ LockedOnThread /\ OthersAreProcess
    /\ PassedIsToken /\ InRange /\ CheckedTokenIsUsed

LEMMA InitTokenInv == TokenInit => TokenInv
<1> SUFFICES ASSUME TokenInit PROVE TokenInv
  OBVIOUS
<1>1. TokenTypeOK
  BY TokenAssumption DEF TokenInit, TokenTypeOK, PrivilegedSids
<1>2. LockedOnThread /\ OthersAreProcess
  BY DEF TokenInit, LockedOnThread, OthersAreProcess
<1>3. PassedIsToken /\ InRange /\ CheckedTokenIsUsed
  BY DEF TokenInit, PassedIsToken, InRange, CheckedTokenIsUsed
<1> QED BY <1>1, <1>2, <1>3 DEF TokenInv

-----------------------------------------------------------------------------
\* What the token of a goroutine that runs is.
LEMMA RunningToken ==
    ASSUME TokenInv, NEW g \in Goroutines, Runs(g)
    PROVE  /\ TokenOf(g) = TokenFor(g)
           /\ thread[g] \in Threads /\ TokenFor(g) \in Tokens
<1>1. /\ thread[g] \in Threads /\ token \in [Threads -> Tokens]
      /\ locked \subseteq Goroutines
      /\ \A f \in Goroutines : f # g => thread[f] # thread[g]
  BY DEF TokenInv, TokenTypeOK, Runs
<1>2. CASE g \in locked
  BY <1>1, <1>2 DEF TokenOf, TokenFor
<1>3. CASE g \notin locked
  <2>1. \A f \in locked : thread[f] # thread[g]
    BY <1>1, <1>3
  <2> QED BY <1>1, <1>3, <2>1 DEF TokenOf, TokenFor, TokenInv, OthersAreProcess
<1> QED BY <1>2, <1>3

\* The scheduler changes the threads of goroutines that are not locked only.
LEMMA ScheduleInv ==
    ASSUME TokenInv, NEW g \in Goroutines, Park(g) \/ Resume(g)
    PROVE  TokenInv'
<1>1. /\ UNCHANGED <<locked, token, phase, count, passed, used>>
      /\ g \notin locked
      /\ \E t \in Threads \cup {NoThread} : thread' = [thread EXCEPT ![g] = t]
      /\ thread \in [Goroutines -> Threads \cup {NoThread}]
      /\ locked \subseteq Goroutines
  BY DEF Park, Resume, Runs, TokenInv, TokenTypeOK, LockedOnThread
<1>2. \A f \in locked : thread'[f] = thread[f]
  BY <1>1
<1>3. TokenTypeOK'
  <2>1. \A f, h \in Goroutines :
           f # h /\ thread'[f] = thread'[h] => thread'[h] = NoThread
    <3>1. \A f, h \in Goroutines :
             f # h /\ thread[f] = thread[h] => thread[h] = NoThread
      BY DEF TokenInv, TokenTypeOK
    <3>2. CASE Park(g)
      BY <1>1, <3>1, <3>2 DEF Park
    <3>3. CASE Resume(g)
      BY <1>1, <3>1, <3>3 DEF Resume
    <3> QED BY <3>2, <3>3
  <2> QED BY <1>1, <2>1 DEF TokenInv, TokenTypeOK
<1>4. LockedOnThread' /\ OthersAreProcess'
  BY <1>1, <1>2 DEF TokenInv, LockedOnThread, OthersAreProcess
<1>5. PassedIsToken' /\ InRange' /\ CheckedTokenIsUsed'
  BY <1>1, <1>2 DEF TokenInv, PassedIsToken, InRange, CheckedTokenIsUsed, TokenFor
<1> QED BY <1>3, <1>4, <1>5 DEF TokenInv

LEMMA ImpersonateInv ==
    ASSUME TokenInv, NEW g \in Goroutines, Impersonate(g)
    PROVE  TokenInv'
<1>1. PICK client \in Tokens : token' = [token EXCEPT ![thread[g]] = client]
  BY DEF Impersonate
<1>2. /\ UNCHANGED <<thread, phase, count, passed, used>>
      /\ locked' = locked \cup {g} /\ g \notin locked /\ phase[g] = "idle"
      /\ thread[g] # NoThread /\ thread[g] \in Threads
      /\ locked \subseteq Goroutines /\ token \in [Threads -> Tokens]
      /\ \A f \in Goroutines : f # g => thread[f] # thread[g]
  BY DEF Impersonate, Runs, TokenInv, TokenTypeOK
<1>3. TokenTypeOK'
  BY <1>1, <1>2 DEF TokenInv, TokenTypeOK
<1>4. LockedOnThread' /\ OthersAreProcess'
  BY <1>1, <1>2 DEF TokenInv, LockedOnThread, OthersAreProcess
<1>5. PassedIsToken'
  <2>1. ASSUME NEW f \in Goroutines, phase'[f] = "native" PROVE TokenFor(f)' = TokenFor(f)
    <3>1. f # g /\ (f \in locked' <=> f \in locked) /\ thread[f] # thread[g]
      BY <1>2, <2>1
    <3> QED BY <1>1, <1>2, <3>1 DEF TokenFor
  <2> QED BY <1>2, <2>1 DEF TokenInv, PassedIsToken
<1>6. InRange' /\ CheckedTokenIsUsed'
  BY <1>2 DEF TokenInv, InRange, CheckedTokenIsUsed
<1> QED BY <1>3, <1>4, <1>5, <1>6 DEF TokenInv

LEMMA RevertInv ==
    ASSUME TokenInv, NEW g \in Goroutines, Revert(g)
    PROVE  TokenInv'
<1>1. /\ UNCHANGED <<thread, phase, count, passed, used>>
      /\ token' = [token EXCEPT ![thread[g]] = Process]
      /\ locked' = locked \ {g} /\ g \in locked
      /\ phase[g] \in {"idle", "refused", "done"}
      /\ thread[g] # NoThread /\ thread[g] \in Threads
      /\ locked \subseteq Goroutines /\ token \in [Threads -> Tokens]
      /\ \A f \in Goroutines : f # g => thread[f] # thread[g]
  BY DEF Revert, TokenInv, TokenTypeOK, LockedOnThread
<1>2. TokenTypeOK'
  BY <1>1, TokenAssumption DEF TokenInv, TokenTypeOK
<1>3. LockedOnThread' /\ OthersAreProcess'
  BY <1>1 DEF TokenInv, LockedOnThread, OthersAreProcess
<1>4. PassedIsToken'
  <2>1. ASSUME NEW f \in Goroutines, phase'[f] = "native" PROVE TokenFor(f)' = TokenFor(f)
    <3>1. f # g /\ (f \in locked' <=> f \in locked) /\ thread[f] # thread[g]
      BY <1>1, <2>1
    <3> QED BY <1>1, <3>1 DEF TokenFor
  <2> QED BY <1>1, <2>1 DEF TokenInv, PassedIsToken
<1>5. InRange' /\ CheckedTokenIsUsed'
  BY <1>1 DEF TokenInv, InRange, CheckedTokenIsUsed
<1> QED BY <1>2, <1>3, <1>4, <1>5 DEF TokenInv

\* The steps of an operation change neither threads nor tokens.
LEMMA OperationFrame ==
    ASSUME TokenInv, UNCHANGED <<thread, locked, token>>
    PROVE  /\ LockedOnThread' /\ OthersAreProcess'
           /\ \A f \in Goroutines : TokenFor(f)' = TokenFor(f)
BY DEF TokenInv, LockedOnThread, OthersAreProcess, TokenFor

LEMMA OutsideInv ==
    ASSUME TokenInv, NEW g \in Goroutines,
           Forget(g) \/ StartCheck(g) \/ NotPrivileged(g)
    PROVE  TokenInv'
<1>1. /\ UNCHANGED <<thread, locked, token>>
      /\ \E label \in {"idle", "check", "refused"} : phase' = [phase EXCEPT ![g] = label]
      /\ count' = [count EXCEPT ![g] = 0]
      /\ \/ UNCHANGED <<passed, used>>
         \/ passed' = [passed EXCEPT ![g] = {}] /\ used' = [used EXCEPT ![g] = {}]
      /\ phase'[g] \in {"idle", "check"} => used'[g] = {}
  BY DEF Forget, StartCheck, NotPrivileged, Proceed, TokenInv, TokenTypeOK, InRange
<1>2. TokenTypeOK'
  BY <1>1, TokenAssumption DEF TokenInv, TokenTypeOK, PrivilegedSids
<1>3. PassedIsToken'
  BY <1>1, OperationFrame DEF TokenInv, TokenTypeOK, PassedIsToken
<1>4. InRange'
  BY <1>1 DEF TokenInv, TokenTypeOK, InRange, PrivilegedSids
<1>5. CheckedTokenIsUsed'
  BY <1>1 DEF TokenInv, TokenTypeOK, CheckedTokenIsUsed
<1> QED BY <1>1, <1>2, <1>3, <1>4, <1>5, OperationFrame DEF TokenInv

LEMMA CheckInv ==
    ASSUME TokenInv, NEW g \in Goroutines, CheckTokenMembership(g)
    PROVE  TokenInv'
<1>1. /\ UNCHANGED <<thread, locked, token, used>>
      /\ phase[g] = "check" /\ Runs(g) /\ count[g] < Len(PrivilegedSids)
      /\ Len(PrivilegedSids) = 2 /\ PrivilegedSids[count[g] + 1] \in {"SYSTEM", "Administrators"}
      /\ used[g] = {} /\ count[g] \in Nat
  BY DEF CheckTokenMembership, TokenInv, TokenTypeOK, InRange, PrivilegedSids
<1>2. /\ TokenOf(g) = TokenFor(g) /\ TokenFor(g) \in Tokens
      /\ \A f \in Goroutines : TokenFor(f)' = TokenFor(f)
      /\ LockedOnThread' /\ OthersAreProcess'
  BY <1>1, RunningToken, OperationFrame
<1>3. CASE /\ Enabled[TokenFor(g)] # {}
           /\ passed' = [passed EXCEPT ![g] = {TokenFor(g)}]
           /\ Proceed(g, "native", 0)
  <2>1. TokenTypeOK'
    BY <1>1, <1>2, <1>3, TokenAssumption DEF TokenInv, TokenTypeOK, Proceed, PrivilegedSids
  <2>2. PassedIsToken'
    BY <1>2, <1>3 DEF TokenInv, TokenTypeOK, PassedIsToken, Proceed
  <2>3. InRange' /\ CheckedTokenIsUsed'
    BY <1>1, <1>3 DEF TokenInv, TokenTypeOK, InRange, CheckedTokenIsUsed, Proceed
  <2> QED BY <1>2, <2>1, <2>2, <2>3 DEF TokenInv
<1>4. CASE /\ Proceed(g, "check", count[g] + 1) \/ Proceed(g, "refused", 0)
           /\ UNCHANGED passed
  <2>1. TokenTypeOK'
    BY <1>1, <1>4, TokenAssumption DEF TokenInv, TokenTypeOK, Proceed
  <2>2. PassedIsToken'
    BY <1>2, <1>4 DEF TokenInv, TokenTypeOK, PassedIsToken, Proceed
  <2>3. InRange' /\ CheckedTokenIsUsed'
    BY <1>1, <1>4 DEF TokenInv, TokenTypeOK, InRange, CheckedTokenIsUsed, Proceed
  <2> QED BY <1>2, <2>1, <2>2, <2>3 DEF TokenInv
<1> QED BY <1>1, <1>2, <1>3, <1>4 DEF CheckTokenMembership, ErrorRefuses

LEMMA NativeCallInv ==
    ASSUME TokenInv, NEW g \in Goroutines, NativeCall(g)
    PROVE  TokenInv'
<1>1. /\ UNCHANGED <<thread, locked, token, passed>>
      /\ phase[g] = "native" /\ Runs(g)
      /\ used' = [used EXCEPT ![g] = @ \cup {TokenFor(g)}]
      /\ passed[g] = {TokenFor(g)} /\ Enabled[TokenFor(g)] # {}
  BY RunningToken DEF NativeCall, TokenInv, PassedIsToken
<1>2. /\ TokenFor(g) \in Tokens
      /\ \A f \in Goroutines : TokenFor(f)' = TokenFor(f)
      /\ LockedOnThread' /\ OthersAreProcess'
  BY <1>1, RunningToken, OperationFrame
<1>3. \/ Proceed(g, "native", count[g] + 1) /\ count[g] + 1 < GuardedCalls
      \/ Proceed(g, "done", 0)
  BY DEF NativeCall
<1>4. TokenTypeOK'
  BY <1>1, <1>2, <1>3, TokenAssumption DEF TokenInv, TokenTypeOK, Proceed, PrivilegedSids
<1>5. PassedIsToken'
  BY <1>1, <1>2, <1>3 DEF TokenInv, TokenTypeOK, PassedIsToken, Proceed
<1>6. InRange'
  BY <1>1, <1>3 DEF TokenInv, TokenTypeOK, InRange, Proceed
<1>7. CheckedTokenIsUsed'
  BY <1>1 DEF TokenInv, TokenTypeOK, CheckedTokenIsUsed
<1> QED BY <1>2, <1>4, <1>5, <1>6, <1>7 DEF TokenInv

LEMMA TokenStepInv == TokenInv /\ [TokenNext]_tokenVars => TokenInv'
<1>1. ASSUME TokenInv, UNCHANGED tokenVars PROVE TokenInv'
  BY <1>1 DEF tokenVars, TokenInv, TokenTypeOK, LockedOnThread, OthersAreProcess,
              PassedIsToken, TokenFor, InRange, CheckedTokenIsUsed
<1> QED BY <1>1, ScheduleInv, ImpersonateInv, RevertInv, OutsideInv, CheckInv,
           NativeCallInv DEF TokenNext

LEMMA TokenInvariant == TokenSpec => []TokenInv
BY InitTokenInv, TokenStepInv, PTL DEF TokenSpec

-----------------------------------------------------------------------------
\* Goroutines, threads, tokens and counters stay within their types, and no two
\* goroutines are on one thread.
THEOREM TokenTypes == TokenSpec => []TokenTypeOK
<1>1. TokenInv => TokenTypeOK
  BY DEF TokenInv
<1> QED BY <1>1, TokenInvariant, PTL

\* callerPrivileged asks for the token of the thread it happens to run on.  For
\* any number of goroutines, threads and clients that is the token of all native
\* calls of the operation, if goroutines that impersonate lock their thread.
THEOREM CheckedTokens == TokenSpec => []CheckedTokenIsUsed
<1>1. TokenInv => CheckedTokenIsUsed
  BY DEF TokenInv
<1> QED BY <1>1, TokenInvariant, PTL
=============================================================================
