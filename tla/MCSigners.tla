------------------------------ MODULE MCSigners -----------------------------
(***************************************************************************)
(* Signers of a process, used in any way, by callers that keep to what is  *)
(* documented or to nothing, or by the example programs: any combination   *)
(* of them, one on each goroutine.                                         *)
(***************************************************************************)
EXTENDS ExampleClients, TLC

VARIABLE clients

MCDisciplines == {{}, Documented}

MCSymmetry ==
    Permutations(Goroutines) \cup Permutations(Signers) \cup Permutations(Handles)

MCInit ==
    /\ clients \in {"any", "examples"}
    /\ ExampleInit
    /\ clients = "any" => program = [g \in Goroutines |-> "openexisting"] /\ container = {}
    /\ clients = "examples" => excluded = Documented

MCNext ==
    /\ \/ clients = "any" /\ SignerNext /\ UNCHANGED <<program, mine, container, stage>>
       \/ clients = "examples" /\ ExampleNext
    /\ UNCHANGED clients

MCSpec == MCInit /\ [][MCNext]_<<clients, exampleVars>>
=============================================================================
