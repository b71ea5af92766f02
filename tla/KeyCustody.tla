----------------------------- MODULE KeyCustody -----------------------------
(***************************************************************************)
(* The package as a whole: calls of the original and of the policy API, by *)
(* any callers, on the key of one name.                                    *)
(***************************************************************************)
EXTENDS LegacyApi, PolicyEngine

CONSTANT Tokens          \* the tokens whose access to the key is compared

ASSUME TokensAssumption == Tokens \subseteq SUBSET Sids

\* "No key" differs from every key, and from what the abstract key below
\* keeps of one.
ASSUME AbsentAssumption ==
    NoKey \notin [maker : Calls \cup {Origin}, state : Policies \cup {Unknown}]

NativeStep(c) ==
    \/ MakeSigner(c) \/ CreateUnfinalized(c) \/ ConfigureKey(c)
    \/ FinalizeKey(c) \/ CleanupCreatedKey(c)

CallStep(c) == NativeStep(c) \/ LegacyStep(c) \/ PolicyStep(c)

Step(c) ==
    BeginLegacy(c) \/ BeginPolicy(c) \/ CallStep(c) \/ CloseSigner(c) \/ Crash(c)

Next == \E c \in Calls : Step(c)

Spec == Init /\ [][Next]_vars

\* A call that has begun keeps running on its goroutine, native calls return,
\* and nobody has to begin a call, close a signer or crash.
FairSpec == Spec /\ \A c \in Calls : WF_vars(CallStep(c))

-----------------------------------------------------------------------------
(***************************************************************************)
(* Where control can be, and with what.                                    *)
(***************************************************************************)
PolicyCall(c) == req[c] # NoRequest /\ req[c].op \in PolicyOps

CreateLabels == {"create", "configure", "finalize", "verify", "cleanup"}
ApplyLabels  == {"examine", "write", "readback", "reopen", "recheck"}
KeyLabels    == {"check", "signer", "delete", "configure", "finalize", "verify",
                 "cleanup"} \cup ApplyLabels

\* The operation, the policy and the privilege of a call that got this far.
RequestAt(c) ==
    /\ pc[c] = "idle" <=> req[c] = NoRequest
    /\ pc[c] \in {"check", "signer"} \cup CreateLabels \cup ApplyLabels
         => req[c].want \in Policies
    /\ pc[c] \in {"privilege", "open"} /\ PolicyCall(c) => req[c].want \in Policies
    /\ pc[c] = "privilege" => PolicyCall(c)
    /\ privileged[c] => PolicyCall(c) /\ IsPrivileged(req[c].token)
    /\ pc[c] \in CreateLabels =>
         \/ req[c].op = "LoadOrCreate"
         \/ /\ req[c].op = "LoadOrCreateWithPolicy"
            /\ privileged[c] /\ told[c] = "NotFound"
    /\ pc[c] \in ApplyLabels => req[c].op = "ApplyPolicy" /\ privileged[c]
    /\ pc[c] = "open" /\ req[c].op = "ApplyPolicy" => privileged[c]
    /\ pc[c] = "delete" => req[c].op = "Delete"

\* The key a call works on: its own from creation on.
ViewAt(c) ==
    /\ pc[c] \in KeyLabels => view[c] # NoKey
    /\ pc[c] \in CreateLabels \ {"create"} => view[c].maker = c
    /\ pc[c] \in {"finalize", "verify", "cleanup"} => view[c].profile = "strong"
    /\ pc[c] = "finalize" => view[c].sd = Requested(req[c].want)
    /\ pc[c] = "cleanup" => result[c].errs # {}

\* Every call that reaches a step of the policy engine that changes the key
\* got there with a valid policy and a privileged caller, whatever the other
\* calls do; the sequence of guards in applySpec and loadOrCreateSpec.
ControlOK == \A c \in Calls : RequestAt(c) /\ ViewAt(c)

\* Calls stay within their types because control is where it should be: a
\* descriptor is written, and a key of one's own exists, only at points that
\* these two say together cannot be reached without them.
CoreInv == TypeOK /\ ControlOK

-----------------------------------------------------------------------------
(***************************************************************************)
(* Handles.                                                                *)
(***************************************************************************)
\* What a call holds when control is at a label.
HeldAt(c) ==
    {h \in KeyHandles \cup FreshHandles :
       \/ pc[c] \in KeyLabels /\ h \in KeyHandles
       \/ pc[c] = "recheck" /\ h \in FreshHandles
       \/ pc[c] = "create" /\ Legacy(c) /\ h = "provider"
       \/ pc[c] = "done" /\ h \in signer[c]}

\* No call frees a native handle twice, or one that NCryptDeleteKey has consumed
\* or that it never had; none loses one on an error path, of a failed deletion
\* either; and a call that returned holds exactly what its Signer owns
\* (deleteCNGKeyHandle; cng_windows.go and policy_windows.go free by hand on every
\* path, which the unit tests replace by a fake key store).
HandleDiscipline ==
    /\ misuse = {}
    /\ \A c \in Calls : live[c] = HeldAt(c)
    /\ \A c \in Calls : signer[c] # {} => pc[c] = "done"

-----------------------------------------------------------------------------
(***************************************************************************)
(* Keys that exist.                                                        *)
(***************************************************************************)
Returns(c) == pc[c] # "done" /\ pc'[c] = "done"

\* A key goes away only when Delete reports that it deleted it, or when the
\* call that made that very key reports failure; and no key is ever replaced
\* by another in one step ("Existing keys are never deleted, overwritten or
\* regenerated by a failed call", docs/README.md).
KeyRemoval ==
    \/ store' = NoKey
       /\ \E c \in Calls :
            /\ Returns(c)
            /\ \/ req[c].op = "Delete" /\ result'[c].out = "ok"
               \/ store.maker = c /\ result'[c].out = "error"
    \/ store' # NoKey /\ store'.maker = store.maker
                      /\ store'.profile = store.profile

KeysSurviveFailedCalls == [][store # NoKey => KeyRemoval]_vars

\* The policy API changes or makes a key only for a privileged caller and a
\* valid policy, and makes one only if the open of that very call had been told
\* "not found": a call that was refused access, or met any other error, makes no
\* key, not even when the name has become free since, and neither does one that
\* opened a key which has gone.  Open and OpenWithPolicy never change anything
\* (requirePrivilege, loadOrCreateSpec, the entry points' validate calls).
MutationNeedsPrivilege ==
    [][store' # store =>
         \E c \in Calls :
            /\ pc'[c] # pc[c]
            /\ req[c].op \in {"LoadOrCreate", "Delete", "LoadOrCreateWithPolicy",
                              "ApplyPolicy"}
            /\ PolicyCall(c) =>
                 IsPrivileged(req[c].token) /\ req[c].want \in Policies
            /\ PolicyCall(c) /\ store = NoKey =>
                 req[c].op = "LoadOrCreateWithPolicy" /\ told[c] = "NotFound"]_vars

\* The DACL goes in before the key is finalized: no key this package made is
\* ever persisted with the provider's default descriptor or exportable, not
\* even when the process dies in the middle (createPersistedKey).
NeverDefaultDacl ==
    store # NoKey /\ store.maker \in Calls =>
        /\ \E p \in Policies : store.sd \in Forms[Requested(p)]
        /\ store.profile = "strong"

-----------------------------------------------------------------------------
(***************************************************************************)
(* What the rest relies on beyond the code: callers, provider, accounts.   *)
(***************************************************************************)
CreateOps == {"LoadOrCreate", "LoadOrCreateWithPolicy"}
ChangeOps == CreateOps \cup {"Delete", "ApplyPolicy"}

\* Callers run provisioning, deletion and policy changes one at a time
\* ("Coordinate provisioning and deletion outside this module",
\* docs/README.md; for policy changes nothing says so, and the findings show
\* that it takes them too).
Coordinated == ChangeOps \subseteq Exclusive

\* The provider persists a requested descriptor in a form the classifier
\* recognizes as the same policy.
FaithfulProvider ==
    \A p \in Policies : \A d \in Forms[Requested(p)] : Classify(d) = p

\* The services that policies name run as LocalService: a token with a
\* service SID has the SID of the account, too.
ServicesAreLocal ==
    \A t \in Tokens : t \cap ServiceSids # {} => LocalService \in t

\* The privileged callers that provision may use the keys that are there.
ProvisionersMayOpen ==
    \A k \in Preexisting : \A r \in Requests :
        r.op = "LoadOrCreateWithPolicy" /\ IsPrivileged(r.token)
          => "sign" \in Granted(r.token, k.sd)

-----------------------------------------------------------------------------
(***************************************************************************)
(* Access.                                                                 *)
(***************************************************************************)
Within(sd, bound) == \A t \in Tokens : Granted(t, sd) \subseteq Granted(t, bound)

\* As long as the key is there, no step gives any token a use of it that it
\* did not have ("They never widen access and never recreate or delete the
\* key", docs/README.md, of applySpec).
TightenOnly ==
    [][store # NoKey /\ store' # NoKey => Within(store'.sd, store.sd)]_vars

\* ApplyPolicy writes in one case only: "the key is exactly in the
\* PolicyServiceSigner state and policy is PolicyPrivilegedOnly"; in "any other
\* state" it returns an error "without modifying the key" (the comment of
\* ApplyPolicy, policy_windows.go:53-61; transitionAllowed is what decides).
ApplyAsDocumented ==
    [][\A c \in Calls :
         /\ pc[c] = "write" /\ pc'[c] # "write" /\ store' # store
         /\ req[c].want \in {ServiceSigner, PrivilegedOnly}
         => Classify(store.sd) = ServiceSigner /\ req[c].want = PrivilegedOnly]_vars

\* A Signer the policy API returned is open on a key that grants nobody more
\* than the policy it was opened with, now and for as long as the key exists
\* (checkKeyPolicy before every signer; later changes only tighten).
SignerKeepsPolicy ==
    \A c \in Calls :
        PolicyCall(c) /\ signer[c] # {} /\ SameKey(c) =>
            Within(store.sd, Requested(req[c].want)) /\ store.profile = "strong"

\* LoadOrCreateWithPolicy or ApplyPolicy that succeeds leaves the key in
\* exactly the wanted state at that moment, whatever the provider made of the
\* descriptor it was given (verification before the signer, and the read-backs
\* from the open and from a fresh handle in applySpec).
ConfirmedOnReturn ==
    [][\A c \in Calls :
         /\ Returns(c) /\ result'[c].out = "ok"
         /\ req[c].op \in {"LoadOrCreateWithPolicy", "ApplyPolicy"}
         => store' # NoKey /\ Classify(store'.sd) = req[c].want]_vars

\* A call that made a key and fails without reporting a failed cleanup leaves
\* nothing behind, or a key that passed its verification (loadOrCreateSpec,
\* loadOrCreateKey: only building the signer failed).
OrphanReported ==
    [][\A c \in Calls :
         /\ Returns(c) /\ result'[c].out = "error"
         /\ "Cleanup" \notin result'[c].errs
         /\ store' # NoKey /\ store'.maker = c
         => IF PolicyCall(c) THEN Classify(store'.sd) = req[c].want
            ELSE VerifyDACL(store'.sd)]_vars

\* Without faults a privileged LoadOrCreate fails only over an existing key it
\* may not accept: it never gives up on an absent key, nor on its own.
ProvisioningSucceeds ==
    \A c \in Calls :
        /\ pc[c] = "done" /\ result[c].out = "error"
        /\ req[c].op = "LoadOrCreateWithPolicy"
        /\ req[c].want \in Policies /\ IsPrivileged(req[c].token)
        => view[c] # NoKey /\ view[c].maker # c
           /\ (view[c].profile # "strong" \/ Classify(view[c].sd) # req[c].want)

-----------------------------------------------------------------------------
(***************************************************************************)
(* The abstract key, and progress.                                         *)
(***************************************************************************)
\* Two policies of which the first gives no token a use of the key that the
\* second does not give it: what Windows makes of the two descriptors, whatever
\* transitionAllowed thinks of the pair.
Tightenings ==
    {st \in Policies \X Policies :
       st[1] # st[2] /\ Within(Requested(st[1]), Requested(st[2]))}

Lifecycle == INSTANCE KeyLifecycle WITH
    Makers        <- Calls \cup {Origin},
    States        <- Policies \cup {Unknown},
    Absent        <- NoKey,
    Provisionable <- Policies,
    Tighter       <- Tightenings,
    key           <- IF store = NoKey THEN NoKey
                     ELSE [maker |-> store.maker, state |-> Classify(store.sd)]

\* The whole of the package implements the abstract key: a key in a recognized
\* state moves only to one that grants nobody more, a key in no recognized state
\* is left as it is, and no key is replaced ("rewrite the DACL of an existing key
\* in place, only toward less access", docs/README.md).
ImplementsLifecycle == Lifecycle!LifecycleSpec

\* Every call returns, or its process has died.
CallsReturn == \A c \in Calls : Active(c) ~> ~Active(c)
=============================================================================
