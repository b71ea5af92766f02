------------------------------ MODULE LegacyApi -----------------------------
(***************************************************************************)
(* The original API: Open, LoadOrCreate and Delete.  It knows no policies  *)
(* and no privilege check; requests carry the service-signer policy, whose *)
(* descriptor LoadOrCreate asks for.                                       *)
(***************************************************************************)
EXTENDS NativeKey

\* verifyExportPolicy and verifyDACL: {} for success.  The algorithm of the
\* key is found out later, when the signer is made.
ValidatePersistedKey(c) ==
    IF view[c].profile = "exportable" THEN {{"Other"}}
    ELSE {IF VerifyDACL(sd) THEN {} ELSE {"Other"} : sd \in Readable(c)}
           \cup (IF CanFail(c) THEN {{"Other"}} ELSE {})

BeginLegacy(c) ==
    /\ pc[c] = "idle"
    /\ \E r \in Requests :
        /\ r.op \in LegacyOps
        /\ r.op \in Exclusive =>
             \A o \in Calls : Active(o) => req[o].op \notin Exclusive
        /\ req' = [req EXCEPT ![c] = r]
        /\ Go(c, "open")
    /\ UNCHANGED <<store, privileged, told, view, live, signer, misuse, result>>

\* Without a provider, or with a name that does not convert, every operation
\* ends.  Whatever the reason the key itself could not be opened, LoadOrCreate
\* tries to create it, with the provider it holds.
LegacyOpen(c) ==
    /\ pc[c] = "open" /\ Legacy(c)
    /\ \/ /\ "opened" \in OpenResults(c)
          /\ view' = [view EXCEPT ![c] = store]
          /\ Handles(c, KeyHandles, {})
          /\ Go(c, IF req[c].op = "Delete" THEN "delete" ELSE "check")
          /\ UNCHANGED result
       \/ /\ req[c].op = "LoadOrCreate"
          /\ OpenResults(c) # {"opened"}
          /\ Handles(c, {"provider"}, {})
          /\ Go(c, "create")
          /\ UNCHANGED <<view, result>>
       \/ /\ req[c].op # "LoadOrCreate"
          /\ \E err \in OpenResults(c) \ {"opened"} : Return(c, {err})
          /\ Handles(c, {"provider"}, {"provider"})
          /\ UNCHANGED view
       \/ /\ Faults
          /\ Return(c, {"Other"})
          /\ Handles(c, {}, {})
          /\ UNCHANGED view
    /\ UNCHANGED <<store, req, privileged, told, signer>>

LegacyCheck(c) ==
    /\ pc[c] = "check" /\ Legacy(c)
    /\ \E errs \in ValidatePersistedKey(c) :
        \/ /\ errs = {}
           /\ Go(c, "signer")
           /\ Handles(c, {}, {})
           /\ UNCHANGED result
        \/ /\ errs # {}
           /\ Return(c, errs)
           /\ Handles(c, {}, KeyHandles)
    /\ UNCHANGED <<store, req, privileged, told, view, signer>>

LegacyVerifyCreated(c) ==
    /\ pc[c] = "verify" /\ Legacy(c)
    /\ \E errs \in ValidatePersistedKey(c) :
        \/ errs = {} /\ Go(c, "signer") /\ UNCHANGED result
        \/ /\ errs # {}
           /\ Go(c, "cleanup")
           /\ result' = [result EXCEPT ![c].errs = errs]
    /\ UNCHANGED <<store, req, privileged, told, view, live, signer, misuse>>

\* deleteKey once the key is open.
DeleteKey(c) ==
    /\ pc[c] = "delete"
    /\ \/ /\ MayDelete(c)
          /\ store' = NoKey
          /\ Return(c, {})
          /\ HandlesAfterDelete(c, TRUE)
       \/ /\ Faults \/ ~MayDelete(c)
          /\ Return(c, {"Other"})
          /\ HandlesAfterDelete(c, FALSE)
          /\ UNCHANGED store
    /\ UNCHANGED <<req, privileged, told, view, signer>>

LegacyStep(c) ==
    LegacyOpen(c) \/ LegacyCheck(c) \/ LegacyVerifyCreated(c) \/ DeleteKey(c)
=============================================================================
