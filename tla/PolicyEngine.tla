---------------------------- MODULE PolicyEngine ----------------------------
(***************************************************************************)
(* The policy API: OpenWithPolicy, LoadOrCreateWithPolicy and ApplyPolicy, *)
(* and their ForService forms, which differ only in the policy they carry. *)
(* One action per native interaction: everything another process does to   *)
(* the key can fall between two of them.                                   *)
(***************************************************************************)
EXTENDS NativeKey

-----------------------------------------------------------------------------
(***************************************************************************)
(* checkDACLState and checkKeyPolicy: the errors each may end with, {} for *)
(* success.                                                                *)
(***************************************************************************)
CheckDACLState(c, want) ==
    {IF Classify(sd) = want THEN {} ELSE {"Mismatch"} : sd \in Readable(c)}
      \cup (IF CanFail(c) THEN {{"Other"}} ELSE {})

\* The export policy is read first, then the public key.
CheckProfile(c) ==
    {errs \in {{}, {"Mismatch"}, {"Other"}} :
       \/ errs = {} /\ view[c].profile = "strong"
       \/ errs = {"Mismatch"} /\ view[c].profile # "exportable"
            /\ (CanFail(c) \/ view[c].profile = "foreign")
       \/ errs = {"Other"} /\ (CanFail(c) \/ view[c].profile = "exportable")}

\* Mutant: the DACL is not looked at.
CheckKeyProfileOnly(c, want) == CheckProfile(c)

CheckKeyPolicy(c, want) ==
    (CheckProfile(c) \ {{}})
      \cup (IF {} \in CheckProfile(c) THEN CheckDACLState(c, want) ELSE {})

-----------------------------------------------------------------------------
\* The entry points validate the policy first.  Opening needs no privilege
\* unless the policy is privileged-only.
BeginPolicy(c) ==
    /\ pc[c] = "idle"
    /\ \E r \in Requests :
        /\ r.op \in PolicyOps
        /\ r.op \in Exclusive =>
             \A o \in Calls : Active(o) => req[o].op \notin Exclusive
        /\ req' = [req EXCEPT ![c] = r]
        /\ \/ /\ r.want \notin Policies
              /\ Return(c, {"Other"})
           \/ /\ r.want \in Policies
              /\ Go(c, IF r.op = "OpenWithPolicy" /\ r.want # PrivilegedOnly
                       THEN "open" ELSE "privilege")
              /\ UNCHANGED result
    /\ UNCHANGED <<store, privileged, told, view, live, signer, misuse>>

\* Mutant: only opening takes the outcome of the check to heart.
CheckPrivilegeOfOpen(c) ==
    /\ pc[c] = "privilege"
    /\ privileged' = [privileged EXCEPT ![c] = IsPrivileged(req[c].token)]
    /\ IF IsPrivileged(req[c].token) \/ req[c].op # "OpenWithPolicy"
       THEN Go(c, "open") /\ UNCHANGED result
       ELSE Return(c, {"Privilege"})
    /\ UNCHANGED <<store, req, told, view, live, signer, misuse>>

\* A check that fails counts as "not privileged".  Only LoadOrCreate goes on
\* without privilege, for a policy whose key an unprivileged caller may open.
CheckPrivilege(c) ==
    /\ pc[c] = "privilege"
    /\ \E ok \in {IsPrivileged(req[c].token)} \cup (IF Faults THEN {FALSE} ELSE {}) :
        /\ privileged' = [privileged EXCEPT ![c] = ok]
        /\ IF \/ ok
              \/ req[c].op = "LoadOrCreateWithPolicy" /\ req[c].want # PrivilegedOnly
           THEN Go(c, "open") /\ UNCHANGED result
           ELSE Return(c, {"Privilege"})
    /\ UNCHANGED <<store, req, told, view, live, signer, misuse>>

\* Mutants of what follows a failed open: a privileged LoadOrCreate creates the
\* key whatever the error, as the original API does; nobody creates it.
OpenedOr(c, NotOpened(_)) ==
    /\ pc[c] = "open" /\ ~Legacy(c)
    /\ \E answer \in OpenResults(c) :
        /\ told' = [told EXCEPT ![c] = answer]
        /\ \/ /\ answer = "opened"
              /\ view' = [view EXCEPT ![c] = store]
              /\ Handles(c, KeyHandles, {})
              /\ Go(c, IF req[c].op = "ApplyPolicy" THEN "examine" ELSE "check")
              /\ UNCHANGED result
           \/ /\ answer # "opened"
              /\ NotOpened(answer)
              /\ Handles(c, {"provider"}, {"provider"})
              /\ UNCHANGED view
    /\ UNCHANGED <<store, req, privileged, signer>>

StoreOpenOrCreate(c) ==
    LET NotOpened(err) ==
          IF req[c].op = "LoadOrCreateWithPolicy" /\ privileged[c]
          THEN Go(c, "create") /\ UNCHANGED result
          ELSE Return(c, {err})
    IN  OpenedOr(c, NotOpened)

StoreOpenOrFail(c) ==
    LET NotOpened(err) == Return(c, {err}) IN OpenedOr(c, NotOpened)

\* nativeKeyStore.open frees the provider when the key cannot be opened.  Only
\* "not found", and only to a privileged LoadOrCreate, leads to creation.
StoreOpen(c) ==
    /\ pc[c] = "open" /\ ~Legacy(c)
    /\ \E answer \in OpenResults(c) :
        /\ told' = [told EXCEPT ![c] = answer]
        /\ \/ /\ answer = "opened"
              /\ view' = [view EXCEPT ![c] = store]
              /\ Handles(c, KeyHandles, {})
              /\ Go(c, IF req[c].op = "ApplyPolicy" THEN "examine" ELSE "check")
              /\ UNCHANGED result
           \/ /\ answer # "opened"
              /\ IF answer = "NotFound" /\ req[c].op = "LoadOrCreateWithPolicy"
                 THEN IF privileged[c] THEN Go(c, "create") /\ UNCHANGED result
                                       ELSE Return(c, {"Privilege"})
                 ELSE Return(c, {answer})
              /\ Handles(c, {"provider"}, {"provider"})
              /\ UNCHANGED view
    /\ UNCHANGED <<store, req, privileged, signer>>

\* Mutant: an existing key that fails validation is deleted like a new one.
CheckExistingOrDelete(c) ==
    /\ pc[c] = "check" /\ ~Legacy(c)
    /\ \E errs \in CheckKeyPolicy(c, req[c].want) :
        \/ errs = {} /\ Go(c, "signer") /\ UNCHANGED result
        \/ /\ errs # {}
           /\ Go(c, "cleanup")
           /\ result' = [result EXCEPT ![c].errs = errs]
    /\ UNCHANGED <<store, req, privileged, told, view, live, signer, misuse>>

\* signerWithPolicy: an existing key is validated, and left alone if it fails.
CheckExisting(c) ==
    /\ pc[c] = "check" /\ ~Legacy(c)
    /\ \E errs \in CheckKeyPolicy(c, req[c].want) :
        \/ /\ errs = {}
           /\ Go(c, "signer")
           /\ Handles(c, {}, {})
           /\ UNCHANGED result
        \/ /\ errs # {}
           /\ Return(c, errs)
           /\ Handles(c, {}, KeyHandles)
    /\ UNCHANGED <<store, req, privileged, told, view, signer>>

\* The new key is validated like an existing one; if it fails it is deleted.
VerifyCreated(c) ==
    /\ pc[c] = "verify" /\ ~Legacy(c)
    /\ \E errs \in CheckKeyPolicy(c, req[c].want) :
        \/ errs = {} /\ Go(c, "signer") /\ UNCHANGED result
        \/ /\ errs # {}
           /\ Go(c, "cleanup")
           /\ result' = [result EXCEPT ![c].errs = errs]
    /\ UNCHANGED <<store, req, privileged, told, view, live, signer, misuse>>

-----------------------------------------------------------------------------
(***************************************************************************)
(* applySpec once the key is open.                                         *)
(***************************************************************************)

\* What applySpec makes of the descriptor it read: "write", or the errors it
\* returns, {} when the key is in the wanted state already.
Decision(sd, want) ==
    IF Classify(sd) = want THEN {}
    ELSE IF TransitionAllowed(Classify(sd), want) THEN {"write"}
    ELSE {"Mismatch"}

Decisions(c) ==
    (CheckProfile(c) \ {{}})
      \cup (IF {} \in CheckProfile(c)
            THEN {Decision(sd, req[c].want) : sd \in Readable(c)} ELSE {})

Examine(c) ==
    /\ pc[c] = "examine"
    /\ \E errs \in Decisions(c) :
        \/ /\ errs = {"write"}
           /\ Go(c, "write")
           /\ Handles(c, {}, {})
           /\ UNCHANGED result
        \/ /\ errs # {"write"}
           /\ Return(c, errs)
           /\ Handles(c, {}, KeyHandles)
    /\ UNCHANGED <<store, req, privileged, told, view, signer>>

\* The DACL is replaced whatever it has become since it was examined.  The
\* handle then shows what was asked for or what was persisted.
WriteDescriptor(c) ==
    /\ pc[c] = "write"
    /\ \/ /\ SameKey(c)
          /\ \E sd \in PersistedForms(Requested(req[c].want)) :
                /\ store' = [store EXCEPT !.sd = sd]
                /\ \E seen \in {Requested(req[c].want), sd} :
                      view' = [view EXCEPT ![c].sd = seen]
          /\ Go(c, "readback")
          /\ Handles(c, {}, {})
          /\ UNCHANGED result
       \/ /\ CanFail(c)
          /\ Return(c, {"Other"})
          /\ Handles(c, {}, KeyHandles)
          /\ UNCHANGED <<store, view>>
    /\ UNCHANGED <<req, privileged, told, signer>>

\* Nothing is rolled back from here on.
ReadBack(c) ==
    /\ pc[c] = "readback"
    /\ \E errs \in CheckDACLState(c, req[c].want) :
        \/ /\ errs = {}
           /\ Go(c, "reopen")
           /\ Handles(c, {}, {})
           /\ UNCHANGED result
        \/ /\ errs # {}
           /\ Return(c, {"PostWrite"})
           /\ Handles(c, {}, KeyHandles)
    /\ UNCHANGED <<store, req, privileged, told, view, signer>>

\* Mutants: the fresh handle is not used, or asked for until there is one.
ReopenUnused(c) ==
    /\ pc[c] = "reopen"
    /\ Return(c, IF "opened" \in OpenResults(c) THEN {} ELSE {"PostWrite"})
    /\ Handles(c, {}, KeyHandles)
    /\ UNCHANGED <<store, req, privileged, told, view, signer>>

ReopenUntilOpened(c) ==
    /\ pc[c] = "reopen"
    /\ \/ /\ "opened" \in OpenResults(c)
          /\ view' = [view EXCEPT ![c] = store]
          /\ Handles(c, FreshHandles, {})
          /\ Go(c, "recheck")
       \/ /\ OpenResults(c) # {"opened"}
          /\ Go(c, "readback")
          /\ Handles(c, {"provider2"}, {"provider2"})
          /\ UNCHANGED view
    /\ UNCHANGED <<store, req, privileged, told, signer, result>>

\* From here on view is what the fresh handle saw.
Reopen(c) ==
    /\ pc[c] = "reopen"
    /\ \/ /\ "opened" \in OpenResults(c)
          /\ view' = [view EXCEPT ![c] = store]
          /\ Handles(c, FreshHandles, {})
          /\ Go(c, "recheck")
          /\ UNCHANGED result
       \/ /\ OpenResults(c) # {"opened"}
          /\ Return(c, {"PostWrite"})
          /\ Handles(c, {"provider2"}, {"provider2"} \cup KeyHandles)
          /\ UNCHANGED view
    /\ UNCHANGED <<store, req, privileged, told, signer>>

Recheck(c) ==
    /\ pc[c] = "recheck"
    /\ \E errs \in CheckDACLState(c, req[c].want) :
        Return(c, IF errs = {} THEN {} ELSE {"PostWrite"})
    /\ Handles(c, {}, FreshHandles \cup KeyHandles)
    /\ UNCHANGED <<store, req, privileged, told, view, signer>>

PolicyStep(c) ==
    \/ CheckPrivilege(c) \/ StoreOpen(c) \/ CheckExisting(c) \/ VerifyCreated(c)
    \/ Examine(c) \/ WriteDescriptor(c) \/ ReadBack(c) \/ Reopen(c) \/ Recheck(c)
=============================================================================
