--------------------------- MODULE ExampleClients ---------------------------
(***************************************************************************)
(* The programs under examples/, as clients of the signer: each acquires a *)
(* signer, defers its Close, and works through its steps; a step that      *)
(* fails leads straight to the deferred Close.                             *)
(***************************************************************************)
EXTENDS SignerLifecycle, Sequences

CONSTANT Shared    \* the default name of the two programs that keep their key

VARIABLES
    program,       \* which of the programs each goroutine runs
    mine,          \* the signer it has acquired
    container,     \* names under which a key is persisted
    stage          \* the step it is at

exampleVars == <<signerVars, program, mine, container, stage>>

\* The last step is the deferred Close.
Steps ==
    [openexisting |-> <<"open", "close">>,
     signverify |-> <<"loadOrCreate", "sign", "close">>,
     disposablelifecycle |->
         <<"loadOrCreate", "sign", "close", "delete", "close">>]

ASSUME ExamplesAssumption == Shared \notin Goroutines

\* A disposable name contains the time in nanoseconds: each run has its own.
NameOf(g) == IF program[g] = "disposablelifecycle" THEN g ELSE Shared

StepsOf(g) == Steps[program[g]]
Exited(g) == stage[g] > Len(StepsOf(g))
At(g, step) == ~Exited(g) /\ StepsOf(g)[stage[g]] = step

ExampleInit ==
    /\ SignerInit
    /\ program \in [Goroutines -> DOMAIN Steps]
    /\ mine = [g \in Goroutines |-> NoSigner]
    /\ container \in SUBSET {Shared}
    /\ stage = [g \in Goroutines |-> 1]

GoTo(g, n) == stage' = [stage EXCEPT ![g] = n]

\* Without a signer there is nothing to close.
AcquireFails(g) ==
    /\ At(g, "open") \/ At(g, "loadOrCreate")
    /\ GoTo(g, Len(StepsOf(g)) + 1)
    /\ UNCHANGED <<signerVars, mine, container>>

Acquire(g) ==
    /\ \/ At(g, "open") /\ NameOf(g) \in container
       \/ At(g, "loadOrCreate")
    /\ \E s \in Signers : MakeSigner(s) /\ mine' = [mine EXCEPT ![g] = s]
    /\ container' = container \cup {NameOf(g)}
    /\ GoTo(g, stage[g] + 1)

\* Signing and verifying the signature; a failure goes to the deferred Close.
Sign(g) ==
    /\ At(g, "sign")
    /\ op[g] = "none"
    /\ BeginSign(g, mine[g])
    /\ UNCHANGED <<mine, container, stage>>

Signed(g) ==
    /\ At(g, "sign")
    /\ pc[g] = "idle"
    /\ op[g] = "sign"
    /\ \/ result[g].out = "signature" /\ GoTo(g, stage[g] + 1)
       \/ GoTo(g, Len(StepsOf(g)))
    /\ UNCHANGED <<signerVars, mine, container>>

\* Mutant: a failed program ends without its deferred Close.
CloseIfClean(g) ==
    /\ At(g, "close")
    /\ IF result[g].out = "error" /\ op[g] = "sign"
       THEN GoTo(g, stage[g] + 1) /\ UNCHANGED signerVars
       ELSE BeginClose(g, mine[g]) /\ GoTo(g, stage[g] + 1)
    /\ UNCHANGED <<mine, container>>

Close(g) ==
    /\ At(g, "close")
    /\ BeginClose(g, mine[g])
    /\ GoTo(g, stage[g] + 1)
    /\ UNCHANGED <<mine, container>>

Delete(g) ==
    /\ At(g, "delete")
    /\ pc[g] = "idle"
    /\ \/ container' = container \ {NameOf(g)}
       \/ UNCHANGED container
    /\ GoTo(g, stage[g] + 1)
    /\ UNCHANGED <<signerVars, mine>>

Work(g) == SignerStep(g) /\ UNCHANGED <<mine, container, stage>>

ExampleStep(g) ==
    \/ AcquireFails(g) \/ Acquire(g) \/ Sign(g) \/ Signed(g)
    \/ Close(g) \/ Delete(g) \/ Work(g)

ExampleNext ==
    /\ \E g \in Goroutines : ExampleStep(g)
    /\ UNCHANGED <<excluded, program>>

ExampleSpec == ExampleInit /\ [][ExampleNext]_exampleVars

-----------------------------------------------------------------------------
Holds(g) == \E h \in Handles, k \in Kinds : Owned(h, mine[g], k)

\* A program that has ended holds no handle, on whichever path it ended.
EndsReleased ==
    \A g \in Goroutines : (Exited(g) /\ pc[g] = "idle") => ~Holds(g)
=============================================================================
