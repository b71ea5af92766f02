---------------------------- MODULE MCGoroutines ----------------------------
(***************************************************************************)
(* What goroutines of one process share when an operation begins, one or   *)
(* the other in a behaviour:                                               *)
(*                                                                         *)
(*   the libraries they bind: two, the first of them with two procedures;  *)
(*   the threads they run on: three goroutines of an elevated process, a   *)
(*   client that is SYSTEM and one with Administrators for deny only.      *)
(***************************************************************************)
EXTENDS DllBinding, ThreadTokens, TLC

CONSTANTS ncrypt, advapi32, process, system, filtered

MCDlls == {ncrypt, advapi32}
MCDllOf == <<ncrypt, ncrypt, advapi32>>

MCTokens == {process, system, filtered}
MCEnabled == process :> {"Administrators"} @@ system :> {"SYSTEM"} @@ filtered :> {}

VARIABLE shared

MCVars == <<shared, bindVars, tokenVars>>

MCInit == shared \in {"libraries", "threads"} /\ BindingInit /\ TokenInit

MCNext ==
    /\ \/ shared = "libraries" /\ BindNext /\ UNCHANGED tokenVars
       \/ shared = "threads" /\ TokenNext /\ UNCHANGED bindVars
    /\ UNCHANGED shared

FairMCSpec ==
    MCInit /\ [][MCNext]_MCVars /\ \A c \in Callers : WF_bindVars(BindStep(c))
=============================================================================
