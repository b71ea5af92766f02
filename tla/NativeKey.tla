----------------------------- MODULE NativeKey ------------------------------
(***************************************************************************)
(* The persisted key of one name, and the NCrypt steps every operation of  *)
(* the package is built from: create, configure, finalize, hand over to a  *)
(* signer, delete what the call created, close.  The operations run in     *)
(* separate processes and share only the key storage provider (KSP).       *)
(*                                                                         *)
(* Each element of Calls performs at most one operation.  A created key is *)
(* identified by the call that made it, so a key that was deleted and      *)
(* created again is a different key under the same name.                   *)
(***************************************************************************)
EXTENDS SecurityDescriptor, FiniteSets

CONSTANTS
    Calls,          \* operations that may run
    Requests,       \* what they may be asked to do
    Preexisting,    \* keys that may exist beforehand
    Forms,          \* descriptors the KSP may persist for a requested one
    DefaultSD,      \* the descriptor the KSP gives a key nobody set one on
    Faults,         \* native calls may fail and processes may crash
    Exclusive,      \* operations that callers never run at the same time
    Origin,         \* the maker of a pre-existing key
    NoKey, NoRequest

LegacyOps == {"Open", "LoadOrCreate", "Delete"}
PolicyOps == {"OpenWithPolicy", "LoadOrCreateWithPolicy", "ApplyPolicy"}

\* Not made by NewServicePolicy, or the zero Policy.
InvalidPolicy == Unknown

\* The original API knows no policies; LoadOrCreate asks for the descriptor
\* that is the service-signer policy's.
AllRequests ==
    [op : LegacyOps, want : {ServiceSigner}, token : SUBSET Sids]
      \cup [op : PolicyOps, want : Policies \cup {InvalidPolicy},
            token : SUBSET Sids]

\* "strong": a non-exportable P-256 key.
Profiles == {"strong", "exportable", "foreign"}

Keys == [maker : Calls \cup {Origin}, sd : Descriptors, profile : Profiles]

ASSUME KeyAssumption ==
    /\ Requests \subseteq AllRequests
    /\ Preexisting \subseteq {k \in Keys : k.maker = Origin}
    /\ DefaultSD \in Descriptors
    /\ Forms \in [{Requested(p) : p \in Policies} -> SUBSET Descriptors]
    /\ \A p \in Policies : Forms[Requested(p)] # {}
    /\ Faults \in BOOLEAN
    /\ Origin \notin Calls
    /\ NoKey \notin Keys
    /\ NoRequest \notin AllRequests

VARIABLES
    store,       \* the persisted key, or NoKey
    pc,          \* where each call is
    req,         \* what each call was asked to do
    privileged,  \* what the privilege check told each call
    told,        \* history: what the first nativeKeyStore.open of each call
                 \* told it; no guard reads it
    view,        \* the key each call's handle refers to, as that handle saw it
    live,        \* the native handles each call holds
    signer,      \* the handles owned by the Signer each call returned
    misuse,      \* calls that freed a handle they did not hold or lost one
    result       \* what each call returned

vars == <<store, pc, req, privileged, told, view, live, signer, misuse, result>>

Labels == {"idle", "privilege", "open", "check", "signer", "create",
           "configure", "finalize", "verify", "cleanup", "examine", "write",
           "readback", "reopen", "recheck", "delete", "done", "crashed"}

KeyHandles    == {"provider", "key"}
FreshHandles  == {"provider2", "key2"}
Errors        == {"NotFound", "Mismatch", "Privilege", "Cleanup",
                  "PostWrite", "Other"}

NoResult == [out |-> "none", errs |-> {}]

TypeOK ==
    /\ store \in Keys \cup {NoKey}
    /\ pc \in [Calls -> Labels]
    /\ req \in [Calls -> AllRequests \cup {NoRequest}]
    /\ privileged \in [Calls -> BOOLEAN]
    /\ told \in [Calls -> {"nothing", "opened", "NotFound", "Other"}]
    /\ view \in [Calls -> Keys \cup {NoKey}]
    /\ live \in [Calls -> SUBSET (KeyHandles \cup FreshHandles)]
    /\ signer \in [Calls -> SUBSET KeyHandles]
    /\ misuse \subseteq Calls
    /\ result \in [Calls -> [out : {"none", "ok", "error"}, errs : SUBSET Errors]]

Init ==
    /\ store \in Preexisting \cup {NoKey}
    /\ pc = [c \in Calls |-> "idle"]
    /\ req = [c \in Calls |-> NoRequest]
    /\ privileged = [c \in Calls |-> FALSE]
    /\ told = [c \in Calls |-> "nothing"]
    /\ view = [c \in Calls |-> NoKey]
    /\ live = [c \in Calls |-> {}]
    /\ signer = [c \in Calls |-> {}]
    /\ misuse = {}
    /\ result = [c \in Calls |-> NoResult]

Active(c) == pc[c] \notin {"idle", "done", "crashed"}

Legacy(c) == req[c].op \in LegacyOps

-----------------------------------------------------------------------------
(***************************************************************************)
(* Steps of a call.                                                        *)
(***************************************************************************)
Go(c, label) == pc' = [pc EXCEPT ![c] = label]

Return(c, errs) ==
    /\ Go(c, "done")
    /\ result' = [result EXCEPT ![c] =
                    [out |-> IF errs = {} THEN "ok" ELSE "error", errs |-> errs]]

\* A handle overwritten while live is lost; one freed while not live is freed
\* twice, or was never ours.
Handles(c, acquired, released) ==
    /\ live' = [live EXCEPT ![c] = (@ \cup acquired) \ released]
    /\ misuse' = IF /\ acquired \cap live[c] = {}
                    /\ released \subseteq live[c] \cup acquired
                 THEN misuse ELSE misuse \cup {c}

-----------------------------------------------------------------------------
(***************************************************************************)
(* The KSP (external).  Handles refer to the key they were opened on, not  *)
(* to its name.  A property read answers with what the handle saw or with  *)
(* what is persisted now; it may fail only when native calls may fail, or  *)
(* when the key is gone.                                                   *)
(***************************************************************************)
SameKey(c) == store # NoKey /\ store.maker = view[c].maker

Readable(c) == {view[c].sd} \cup (IF SameKey(c) THEN {store.sd} ELSE {})

CanFail(c) == Faults \/ ~SameKey(c)

MayDelete(c) ==
    SameKey(c) /\ "control" \in Granted(req[c].token, store.sd)

PersistedForms(d) == IF d \in DOMAIN Forms THEN Forms[d] ELSE {d}

\* NCryptOpenKey for the caller of c: the key, or the error it reports.  A
\* caller the DACL does not grant is told "not found", or access denied.
OpenResults(c) ==
    LET granted == store # NoKey /\ "sign" \in Granted(req[c].token, store.sd)
    IN  {r \in {"opened", "NotFound", "Other"} :
           \/ r = "opened" /\ granted
           \/ r = "NotFound" /\ ~granted
           \/ r = "Other" /\ (Faults \/ (store # NoKey /\ ~granted))}

-----------------------------------------------------------------------------
(***************************************************************************)
(* The steps shared by the original and the policy API.                    *)
(***************************************************************************)

\* newCNGSigner exports the public key, which a key that is not ECDSA P-256 does
\* not survive.  If it fails the handles are freed and a key this call has
\* created stays.
MakeSigner(c) ==
    /\ pc[c] = "signer"
    /\ \/ /\ view[c].profile # "foreign"
          /\ Return(c, {})
          /\ signer' = [signer EXCEPT ![c] = KeyHandles]
          /\ Handles(c, {}, {})
       \/ /\ CanFail(c) \/ view[c].profile = "foreign"
          /\ Return(c, {"Other"})
          /\ Handles(c, {}, KeyHandles)
          /\ UNCHANGED signer
    /\ UNCHANGED <<store, req, privileged, told, view>>

\* LoadOrCreate goes on with the provider it opened the key with, the policy
\* engine closed that one and opens another.
CreateProvider(c) == IF Legacy(c) THEN {} ELSE {"provider"}

\* NCryptCreatePersistedKey, never with NCRYPT_OVERWRITE_KEY_FLAG: a name
\* that is taken is an error.  The new key is known to this handle only.
CreateUnfinalized(c) ==
    /\ pc[c] = "create"
    /\ \/ /\ store = NoKey
          /\ Go(c, "configure")
          /\ Handles(c, CreateProvider(c) \cup {"key"}, {})
          /\ view' = [view EXCEPT ![c] = [maker |-> c, sd |-> DefaultSD,
                                          profile |-> "exportable"]]
          /\ UNCHANGED result
       \/ /\ store # NoKey \/ Faults
          /\ Return(c, {"Other"})
          /\ Handles(c, CreateProvider(c), {"provider"})
          /\ UNCHANGED view
    /\ UNCHANGED <<store, req, privileged, told, signer>>

\* Mutant: the key is finalized without its DACL.
ConfigureProfileOnly(c) ==
    /\ pc[c] = "configure"
    /\ Go(c, "finalize")
    /\ view' = [view EXCEPT ![c].profile = "strong"]
    /\ Handles(c, {}, {})
    /\ UNCHANGED <<store, req, privileged, told, signer, result>>

\* Export policy and DACL are set before the key is finalized.
ConfigureKey(c) ==
    /\ pc[c] = "configure"
    /\ \/ /\ Go(c, "finalize")
          /\ view' = [view EXCEPT ![c].sd = Requested(req[c].want),
                                  ![c].profile = "strong"]
          /\ Handles(c, {}, {})
          /\ UNCHANGED result
       \/ /\ Faults
          /\ Return(c, {"Other"})
          /\ Handles(c, {}, KeyHandles)
          /\ UNCHANGED view
    /\ UNCHANGED <<store, req, privileged, told, signer>>

Persist(c) ==
    \E sd \in PersistedForms(view[c].sd) :
        /\ store' = [view[c] EXCEPT !.sd = sd]
        /\ view' = [view EXCEPT ![c].sd = sd]

\* NCryptFinalizeKey persists the key unless another call took the name
\* meanwhile.  One that reports failure may have persisted the key or not.
FinalizeKey(c) ==
    /\ pc[c] = "finalize"
    /\ \/ /\ store = NoKey
          /\ Persist(c)
          /\ \/ Go(c, "verify") /\ UNCHANGED result
             \/ /\ Faults
                /\ Go(c, "cleanup")
                /\ result' = [result EXCEPT ![c].errs = {"Other"}]
       \/ /\ store # NoKey \/ Faults
          /\ Go(c, "cleanup")
          /\ result' = [result EXCEPT ![c].errs = {"Other"}]
          /\ UNCHANGED <<store, view>>
    /\ UNCHANGED <<req, privileged, told, live, signer, misuse>>

\* Mutant: the handle is freed again after it was consumed.
FreesKeyAlways(deleted) == KeyHandles

\* deleteCNGKeyHandle frees the key handle only after a failed deletion; its
\* callers free the provider either way.
FreesAfterDelete(deleted) ==
    {"provider"} \cup (IF deleted THEN {} ELSE {"key"})

\* A successful NCryptDeleteKey consumes the key handle (external), and what
\* the code frees afterwards has to be held still.
HandlesAfterDelete(c, deleted) ==
    LET held == IF deleted THEN live[c] \ {"key"} ELSE live[c]
    IN  /\ live' = [live EXCEPT ![c] = held \ FreesAfterDelete(deleted)]
        /\ misuse' = IF FreesAfterDelete(deleted) \subseteq held
                     THEN misuse ELSE misuse \cup {c}

\* Mutant: the error of a failed deletion is dropped.
CleanupSilently(c) ==
    /\ pc[c] = "cleanup"
    /\ \/ /\ store' = IF SameKey(c) THEN NoKey ELSE store
          /\ HandlesAfterDelete(c, TRUE)
       \/ /\ Faults \/ ~MayDelete(c)
          /\ HandlesAfterDelete(c, FALSE)
          /\ UNCHANGED store
    /\ Return(c, result[c].errs)
    /\ UNCHANGED <<req, privileged, told, view, signer>>

\* cleanupCreatedKey: the error of a failed deletion is joined to the error
\* that led here.
CleanupCreatedKey(c) ==
    /\ pc[c] = "cleanup"
    /\ \/ /\ store' = IF SameKey(c) THEN NoKey ELSE store
          /\ Return(c, result[c].errs)
          /\ HandlesAfterDelete(c, TRUE)
       \/ /\ Faults \/ ~MayDelete(c)
          /\ Return(c, result[c].errs \cup {"Cleanup"})
          /\ HandlesAfterDelete(c, FALSE)
          /\ UNCHANGED store
    /\ UNCHANGED <<req, privileged, told, view, signer>>

\* Close frees the handles still held and clears them.
CloseSigner(c) ==
    /\ signer[c] # {}
    /\ Handles(c, {}, signer[c])
    /\ signer' = [signer EXCEPT ![c] = {}]
    /\ UNCHANGED <<store, pc, req, privileged, told, view, result>>

\* The process of the call dies (external): Windows closes its handles, and a
\* key that was not finalized is gone with them.
Crash(c) ==
    /\ Faults
    /\ Active(c)
    /\ Go(c, "crashed")
    /\ live' = [live EXCEPT ![c] = {}]
    /\ UNCHANGED <<store, req, privileged, told, view, signer, misuse, result>>
=============================================================================
