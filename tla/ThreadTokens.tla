---------------------------- MODULE ThreadTokens ----------------------------
(***************************************************************************)
(* The privilege check of a mutating operation and the native calls it     *)
(* guards, on goroutines that the Go scheduler moves between threads, some *)
(* of which impersonate a client.  A goroutine that impersonates locks its *)
(* thread, as Go asks of it; the package itself never impersonates.        *)
(***************************************************************************)
EXTENDS Integers, Sequences, FiniteSets

CONSTANTS
    Goroutines, Threads, NoThread,
    Tokens,        \* the token of the process and those of clients
    Process,       \* the token of the process
    Enabled,       \* the SIDs enabled in each token
    GuardedCalls   \* native calls that an operation makes after the check

PrivilegedSids == <<"SYSTEM", "Administrators">>

ASSUME TokenAssumption ==
    /\ NoThread \notin Threads
    /\ Process \in Tokens
    /\ Enabled \in [Tokens -> SUBSET {"SYSTEM", "Administrators"}]
    /\ GuardedCalls \in Nat
    /\ Cardinality(Goroutines) <= Cardinality(Threads)

VARIABLES
    thread,     \* the thread each goroutine is on
    locked,     \* goroutines locked to their thread
    token,      \* the token of each thread
    phase,      \* where each goroutine is in an operation
    count,      \* SIDs asked for so far, or native calls made
    passed,     \* the token that passed the check of each goroutine's operation
    used        \* tokens that the native calls of the operation ran with

tokenVars == <<thread, locked, token, phase, count, passed, used>>

TokenTypeOK ==
    /\ thread \in [Goroutines -> Threads \cup {NoThread}]
    /\ \A f, g \in Goroutines : f # g /\ thread[f] = thread[g] => thread[g] = NoThread
    /\ locked \subseteq Goroutines
    /\ token \in [Threads -> Tokens]
    /\ phase \in [Goroutines -> {"idle", "check", "native", "refused", "done"}]
    /\ count \in [Goroutines -> 0..(GuardedCalls + Len(PrivilegedSids))]
    /\ passed \in [Goroutines -> SUBSET Tokens]
    /\ used \in [Goroutines -> SUBSET Tokens]

TokenInit ==
    /\ thread = [g \in Goroutines |-> NoThread]
    /\ locked = {}
    /\ token = [t \in Threads |-> Process]
    /\ phase = [g \in Goroutines |-> "idle"]
    /\ count = [g \in Goroutines |-> 0]
    /\ passed = [g \in Goroutines |-> {}]
    /\ used = [g \in Goroutines |-> {}]

Proceed(g, label, n) ==
    phase' = [phase EXCEPT ![g] = label] /\ count' = [count EXCEPT ![g] = n]

Runs(g) == thread[g] # NoThread
TokenOf(g) == token[thread[g]]

-----------------------------------------------------------------------------
\* The scheduler parks a goroutine, between native calls as anywhere else, and
\* resumes it on a thread that no other goroutine is on or locked to.
Park(g) ==
    /\ Runs(g)
    /\ g \notin locked
    /\ thread' = [thread EXCEPT ![g] = NoThread]
    /\ UNCHANGED <<locked, token, phase, count, passed, used>>

Resume(g) ==
    /\ ~Runs(g)
    /\ \E t \in Threads :
          /\ \A f \in Goroutines : thread[f] # t
          /\ thread' = [thread EXCEPT ![g] = t]
    /\ UNCHANGED <<locked, token, phase, count, passed, used>>

\* The calling program, around an operation.
Impersonate(g) ==
    /\ Runs(g) /\ phase[g] = "idle" /\ g \notin locked
    /\ locked' = locked \cup {g}
    /\ \E client \in Tokens \ {Process} : token' = [token EXCEPT ![thread[g]] = client]
    /\ UNCHANGED <<thread, phase, count, passed, used>>

Revert(g) ==
    /\ g \in locked
    /\ phase[g] \in {"idle", "refused", "done"}
    /\ locked' = locked \ {g}
    /\ token' = [token EXCEPT ![thread[g]] = Process]
    /\ UNCHANGED <<thread, phase, count, passed, used>>

\* The goroutine forgets its last operation and may start another.
Forget(g) ==
    /\ phase[g] \in {"refused", "done"}
    /\ Proceed(g, "idle", 0)
    /\ passed' = [passed EXCEPT ![g] = {}]
    /\ used' = [used EXCEPT ![g] = {}]
    /\ UNCHANGED <<thread, locked, token>>

StartCheck(g) ==
    /\ Runs(g) /\ phase[g] = "idle"
    /\ Proceed(g, "check", 0)
    /\ UNCHANGED <<thread, locked, token, passed, used>>

\* An error of the check counts as "not privileged".
ErrorRefuses(g) == Proceed(g, "refused", 0) /\ UNCHANGED passed

\* Mutant: the check runs on a goroutine of its own, on any thread.
CheckOnOtherThread(g) ==
    /\ phase[g] = "check"
    /\ Runs(g)
    /\ \E t \in {thread[g]} \cup {u \in Threads : \A f \in Goroutines : thread[f] # u} :
          \/ /\ Enabled[token[t]] # {}
             /\ passed' = [passed EXCEPT ![g] = {token[t]}]
             /\ Proceed(g, "native", 0)
          \/ Proceed(g, "check", Len(PrivilegedSids)) /\ UNCHANGED passed
    /\ UNCHANGED <<thread, locked, token, used>>

\* checkTokenMembership for one of the SIDs.
CheckTokenMembership(g) ==
    /\ phase[g] = "check"
    /\ Runs(g)
    /\ count[g] < Len(PrivilegedSids)
    /\ \/ /\ PrivilegedSids[count[g] + 1] \in Enabled[TokenOf(g)]
          /\ passed' = [passed EXCEPT ![g] = {TokenOf(g)}]
          /\ Proceed(g, "native", 0)
       \/ /\ PrivilegedSids[count[g] + 1] \notin Enabled[TokenOf(g)]
          /\ Proceed(g, "check", count[g] + 1)
          /\ UNCHANGED passed
       \/ ErrorRefuses(g)
    /\ UNCHANGED <<thread, locked, token, used>>

NotPrivileged(g) ==
    /\ phase[g] = "check"
    /\ count[g] = Len(PrivilegedSids)
    /\ Proceed(g, "refused", 0)
    /\ UNCHANGED <<thread, locked, token, passed, used>>

\* Mutant: the operation does not end.
NativeCallsWithoutEnd(g) ==
    /\ phase[g] = "native"
    /\ Runs(g)
    /\ used' = [used EXCEPT ![g] = @ \cup {TokenOf(g)}]
    /\ Proceed(g, "native", count[g] + 1)
    /\ UNCHANGED <<thread, locked, token, passed>>

\* One of the native calls that follow: the opening, the write, the read-back.
NativeCall(g) ==
    /\ phase[g] = "native"
    /\ Runs(g)
    /\ used' = [used EXCEPT ![g] = @ \cup {TokenOf(g)}]
    /\ IF count[g] + 1 < GuardedCalls THEN Proceed(g, "native", count[g] + 1)
       ELSE Proceed(g, "done", 0)
    /\ UNCHANGED <<thread, locked, token, passed>>

TokenNext == \E g \in Goroutines :
    \/ Park(g) \/ Resume(g) \/ Impersonate(g) \/ Revert(g) \/ Forget(g)
    \/ StartCheck(g) \/ CheckTokenMembership(g) \/ NotPrivileged(g) \/ NativeCall(g)

TokenSpec == TokenInit /\ [][TokenNext]_tokenVars

-----------------------------------------------------------------------------
\* Whatever thread each of them runs on, all native calls of an operation run
\* with the one token that passed its check, and that is SYSTEM or an enabled
\* member of Administrators: an error of the check refuses the caller.
CheckedTokenIsUsed ==
    \A g \in Goroutines :
        used[g] \subseteq passed[g] /\ \A t \in used[g] : Enabled[t] # {}
=============================================================================
