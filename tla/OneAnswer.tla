----------------------------- MODULE OneAnswer ------------------------------
(***************************************************************************)
(* What binding the native libraries promises its callers, without         *)
(* libraries, procedures or sync.Once: the answer is decided once for the  *)
(* process, and a caller gets that answer, or is refused before it asks.   *)
(***************************************************************************)
CONSTANTS Callers, Answers, Pending, Refusal

VARIABLES
    decided,     \* the answer, or Pending
    answer       \* what each caller was told, or Pending

OneAnswerInit ==
    /\ decided = Pending
    /\ answer = [c \in Callers |-> Pending]

Decide == decided = Pending /\ decided' \in Answers /\ UNCHANGED answer

Tell(c) ==
    /\ answer[c] = Pending
    /\ decided # Pending
    /\ answer' = [answer EXCEPT ![c] = decided]
    /\ UNCHANGED decided

Refuse(c) ==
    /\ answer[c] = Pending
    /\ answer' = [answer EXCEPT ![c] = Refusal]
    /\ UNCHANGED decided

OneAnswerNext == Decide \/ \E c \in Callers : Tell(c) \/ Refuse(c)

OneAnswerSpec == OneAnswerInit /\ [][OneAnswerNext]_<<decided, answer>>
=============================================================================
