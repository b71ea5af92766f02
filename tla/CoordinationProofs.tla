------------------------- MODULE CoordinationProofs -------------------------
(***************************************************************************)
(* What is true of a key only if its callers, its provider and its         *)
(* accounts play their part, each as a hypothesis that KeyCustody names:   *)
(*                                                                         *)
(*   Coordinated          changes to the key come one at a time;           *)
(*   FaithfulProvider     a descriptor is persisted as its own policy;     *)
(*   ServicesAreLocal     services run as LocalService;                    *)
(*   ProvisionersMayOpen  existing keys do not lock out the privileged.    *)
(*                                                                         *)
(* The runs racing_apply and migrate_other_account show what happens to    *)
(* TightenOnly without the first and without the third.                    *)
(***************************************************************************)
EXTENDS KeyCustodyProofs, DescriptorProofs

-----------------------------------------------------------------------------
(***************************************************************************)
(* How a step moves keys: the persisted one, and the view of its call.     *)
(***************************************************************************)
\* The key is opened, by name.
Opens(c) ==
    /\ store' = store /\ store # NoKey
    /\ view' = [view EXCEPT ![c] = store]
    /\ \/ pc[c] = "open" /\ pc'[c] \in {"check", "examine", "delete"}
       \/ pc[c] = "reopen" /\ pc'[c] = "recheck"

\* A key of the call's own, not yet persisted, is created or configured.
Prepares(c) ==
    /\ store' = store
    /\ \E key \in Keys : key.maker = c /\ view' = [view EXCEPT ![c] = key]
    /\ \/ pc[c] = "create" /\ store = NoKey /\ pc'[c] = "configure"
       \/ pc[c] = "configure" /\ pc'[c] = "finalize"

\* It is persisted, in some form.
Persists(c) ==
    /\ store = NoKey /\ store' \in Keys
    /\ store'.maker = c /\ store'.profile = "strong"
    /\ store'.sd \in Forms[Requested(req[c].want)]
    /\ view' = [view EXCEPT ![c] = store']
    /\ pc[c] = "finalize" /\ pc'[c] \in {"verify", "cleanup"}
    /\ pc'[c] = "cleanup" => Faults

\* The DACL of the key the call opened is replaced.
Rewrites(c) ==
    /\ SameKey(c) /\ store' \in Keys
    /\ store'.maker = store.maker /\ store'.profile = store.profile
    /\ store'.sd \in Forms[Requested(req[c].want)]
    /\ \E key \in Keys : /\ view' = [view EXCEPT ![c] = key]
                         /\ key.maker = view[c].maker /\ key.profile = view[c].profile
    /\ pc[c] = "write" /\ pc'[c] = "readback"

Removes(c) ==
    /\ store # NoKey /\ store' = NoKey /\ view' = view
    /\ \/ pc[c] = "cleanup" /\ SameKey(c)
       \/ pc[c] = "delete"
    /\ pc'[c] = "done"

\* Neither key nor view moves, so control does not get where one has.
Rests(c) ==
    /\ UNCHANGED <<store, view>>
    /\ pc'[c] \in {"check", "examine", "delete", "recheck", "configure", "verify",
                   "readback"} => pc'[c] = pc[c]
    /\ pc'[c] = "finalize" => pc[c] = "finalize"

LEMMA KeyMoves ==
    ASSUME CoreInv, NEW c \in Calls, Step(c)
    PROVE  \/ Rests(c)
           \/ Opens(c) \/ Prepares(c) \/ Persists(c) \/ Rewrites(c) \/ Removes(c)
<1>1. /\ store \in Keys \cup {NoKey} /\ pc \in [Calls -> Labels]
      /\ view \in [Calls -> Keys \cup {NoKey}]
      /\ RequestAt(c) /\ ViewAt(c)
  BY DEF CoreInv, TypeOK, ControlOK
<1>2. ASSUME NEW key \in Keys, NEW sd \in Descriptors
      PROVE  /\ [key EXCEPT !.sd = sd] \in Keys
             /\ [key EXCEPT !.sd = sd].maker = key.maker
             /\ [key EXCEPT !.sd = sd].profile = key.profile
             /\ [key EXCEPT !.sd = sd].sd = sd
  BY <1>2 DEF Keys
<1>3. CASE StoreOpen(c)
  BY <1>1, <1>3, OpenedExists DEF StoreOpen, Go, Return, Opens, Rests
<1>4. CASE LegacyOpen(c)
  BY <1>1, <1>4, OpenedExists DEF LegacyOpen, Go, Return, Opens, Rests
<1>5. CASE Reopen(c)
  BY <1>1, <1>5, OpenedExists DEF Reopen, Go, Return, Opens, Rests
<1>6. CASE CreateUnfinalized(c)
  <2>1. [maker |-> c, sd |-> DefaultSD, profile |-> "exportable"] \in Keys
    BY KeyAssumption DEF Keys, Profiles
  <2> QED BY <1>1, <1>6, <2>1 DEF CreateUnfinalized, Go, Return, Prepares, Rests
<1>7. CASE ConfigureKey(c)
  <2>1. view[c] \in Keys /\ view[c].maker = c /\ Requested(req[c].want) \in Descriptors
    BY <1>1, <1>7, RequestedType
       DEF RequestAt, ViewAt, ConfigureKey, CreateLabels, KeyLabels
  <2>2. CASE /\ Go(c, "finalize")
             /\ view' = [view EXCEPT ![c].sd = Requested(req[c].want), ![c].profile = "strong"]
    <3> DEFINE key == [view[c] EXCEPT !.sd = Requested(req[c].want), !.profile = "strong"]
    <3>1. key \in Keys /\ key.maker = c
      BY <2>1 DEF Keys, Profiles
    <3>2. view' = [view EXCEPT ![c] = key]
      BY <1>1, <2>2
    <3> QED BY <1>1, <1>7, <2>2, <3>1, <3>2 DEF ConfigureKey, Go, Prepares
  <2> QED BY <1>1, <1>7, <2>2 DEF ConfigureKey, Go, Return, Rests
<1>8. CASE FinalizeKey(c)
  <2>1. /\ view[c] \in Keys /\ view[c].maker = c /\ view[c].profile = "strong"
        /\ view[c].sd = Requested(req[c].want) /\ req[c].want \in Policies
    BY <1>1, <1>8 DEF RequestAt, ViewAt, FinalizeKey, CreateLabels, KeyLabels
  <2>2. CASE store = NoKey /\ Persist(c)
    <3>0. PersistedForms(view[c].sd) = Forms[Requested(req[c].want)]
      BY <2>1, PersistedFormsType
    <3>1. PICK sd \in Forms[Requested(req[c].want)] :
            store' = [view[c] EXCEPT !.sd = sd] /\ view' = [view EXCEPT ![c].sd = sd]
      BY <2>2, <3>0, Zenon DEF Persist
    <3>2. sd \in Descriptors
      BY <2>1, PersistedFormsType, RequestedType
    <3>3. /\ store' \in Keys /\ store'.maker = c /\ store'.profile = "strong"
          /\ store'.sd = sd
      BY <1>2, <2>1, <3>1, <3>2
    <3>4. view' = [view EXCEPT ![c] = store']
      BY <1>1, <3>1
    <3> QED BY <1>1, <1>8, <2>2, <3>1, <3>3, <3>4, KeyAssumption DEF FinalizeKey, Go, Persists, Keys
  <2> QED BY <1>1, <1>8, <2>2 DEF FinalizeKey, Go, Rests
<1>9. CASE WriteDescriptor(c)
  <2>1. view[c] \in Keys /\ req[c].want \in Policies
    BY <1>1, <1>9 DEF RequestAt, ViewAt, WriteDescriptor, ApplyLabels, KeyLabels
  <2>2. CASE /\ SameKey(c) /\ Go(c, "readback")
             /\ \E sd \in PersistedForms(Requested(req[c].want)) :
                   /\ store' = [store EXCEPT !.sd = sd]
                   /\ \E seen \in {Requested(req[c].want), sd} :
                         view' = [view EXCEPT ![c].sd = seen]
    <3>0. PICK sd \in Forms[Requested(req[c].want)] :
            /\ store' = [store EXCEPT !.sd = sd]
            /\ \E seen \in {Requested(req[c].want), sd} : view' = [view EXCEPT ![c].sd = seen]
      BY <2>1, <2>2, PersistedFormsType
    <3>1. PICK seen \in {Requested(req[c].want), sd} :
            store' = [store EXCEPT !.sd = sd] /\ view' = [view EXCEPT ![c].sd = seen]
      BY <3>0
    <3>2. sd \in Descriptors /\ seen \in Descriptors /\ store \in Keys
      BY <1>1, <2>1, <2>2, PersistedFormsType, RequestedType DEF SameKey
    <3>3. /\ store' \in Keys /\ store'.maker = store.maker
          /\ store'.profile = store.profile /\ store'.sd = sd
      BY <1>2, <3>1, <3>2
    <3> DEFINE key == [view[c] EXCEPT !.sd = seen]
    <3>4. key \in Keys /\ key.maker = view[c].maker /\ key.profile = view[c].profile
      BY <1>2, <2>1, <3>2
    <3>5. view' = [view EXCEPT ![c] = key]
      BY <1>1, <3>1
    <3>6. pc[c] = "write" /\ pc'[c] = "readback"
      BY <1>1, <1>9, <2>2 DEF WriteDescriptor, Go
    <3> QED BY <2>2, <3>1, <3>3, <3>4, <3>5, <3>6 DEF Rewrites
  <2> QED BY <1>1, <1>9, <2>2 DEF WriteDescriptor, Go, Return, Rests
<1>10. CASE CleanupCreatedKey(c)
  BY <1>1, <1>10 DEF CleanupCreatedKey, Return, Go, Removes, SameKey, Rests
<1>11. CASE DeleteKey(c)
  BY <1>1, <1>11 DEF DeleteKey, Return, Go, Removes, MayDelete, SameKey, Rests
<1>12. CASE BeginLegacy(c) \/ BeginPolicy(c) \/ CloseSigner(c) \/ Crash(c) \/ MakeSigner(c)
  BY <1>1, <1>12 DEF BeginLegacy, BeginPolicy, CloseSigner, Crash, MakeSigner, Go, Return, Rests
<1>13. CASE LegacyCheck(c) \/ LegacyVerifyCreated(c)
  BY <1>1, <1>13 DEF LegacyCheck, LegacyVerifyCreated, Go, Return, Rests
<1>14. CASE CheckPrivilege(c) \/ CheckExisting(c) \/ VerifyCreated(c)
  BY <1>1, <1>14 DEF CheckPrivilege, CheckExisting, VerifyCreated, Go, Return, Rests
<1>15. CASE Examine(c) \/ ReadBack(c) \/ Recheck(c)
  BY <1>1, <1>15 DEF Examine, ReadBack, Recheck, Go, Return, Rests
<1> QED
  BY <1>3, <1>4, <1>5, <1>6, <1>7, <1>8, <1>9, <1>10, <1>11, <1>12, <1>13, <1>14, <1>15
     DEF Step, CallStep, NativeStep, LegacyStep, PolicyStep

\* The action that runs at each label.
LEMMA ActionAt ==
    ASSUME NEW c \in Calls, Step(c)
    PROVE  \/ CloseSigner(c) \/ Crash(c)
           \/ pc[c] = "idle"      /\ (BeginLegacy(c) \/ BeginPolicy(c))
           \/ pc[c] = "privilege" /\ CheckPrivilege(c)
           \/ pc[c] = "open"      /\ (LegacyOpen(c) \/ StoreOpen(c))
           \/ pc[c] = "check"     /\ (LegacyCheck(c) \/ CheckExisting(c))
           \/ pc[c] = "signer"    /\ MakeSigner(c)
           \/ pc[c] = "create"    /\ CreateUnfinalized(c)
           \/ pc[c] = "configure" /\ ConfigureKey(c)
           \/ pc[c] = "finalize"  /\ FinalizeKey(c)
           \/ pc[c] = "verify"    /\ (LegacyVerifyCreated(c) \/ VerifyCreated(c))
           \/ pc[c] = "cleanup"   /\ CleanupCreatedKey(c)
           \/ pc[c] = "examine"   /\ Examine(c)
           \/ pc[c] = "write"     /\ WriteDescriptor(c)
           \/ pc[c] = "readback"  /\ ReadBack(c)
           \/ pc[c] = "reopen"    /\ Reopen(c)
           \/ pc[c] = "recheck"   /\ Recheck(c)
           \/ pc[c] = "delete"    /\ DeleteKey(c)
<1>1. BeginLegacy(c) \/ BeginPolicy(c) => pc[c] = "idle"
  BY DEF BeginLegacy, BeginPolicy
<1>2. NativeStep(c) =>
        \/ pc[c] = "signer" /\ MakeSigner(c)
        \/ pc[c] = "create" /\ CreateUnfinalized(c)
        \/ pc[c] = "configure" /\ ConfigureKey(c)
        \/ pc[c] = "finalize" /\ FinalizeKey(c)
        \/ pc[c] = "cleanup" /\ CleanupCreatedKey(c)
  BY DEF NativeStep, MakeSigner, CreateUnfinalized, ConfigureKey, FinalizeKey,
         CleanupCreatedKey
<1>3. LegacyStep(c) =>
        \/ pc[c] = "open" /\ LegacyOpen(c)
        \/ pc[c] = "check" /\ LegacyCheck(c)
        \/ pc[c] = "verify" /\ LegacyVerifyCreated(c)
        \/ pc[c] = "delete" /\ DeleteKey(c)
  BY DEF LegacyStep, LegacyOpen, LegacyCheck, LegacyVerifyCreated, DeleteKey
<1>4. PolicyStep(c) =>
        \/ pc[c] = "privilege" /\ CheckPrivilege(c)
        \/ pc[c] = "open" /\ StoreOpen(c)
        \/ pc[c] = "check" /\ CheckExisting(c)
        \/ pc[c] = "verify" /\ VerifyCreated(c)
        \/ pc[c] = "examine" /\ Examine(c)
        \/ pc[c] = "write" /\ WriteDescriptor(c)
        \/ pc[c] = "readback" /\ ReadBack(c)
        \/ pc[c] = "reopen" /\ Reopen(c)
        \/ pc[c] = "recheck" /\ Recheck(c)
  BY DEF PolicyStep, CheckPrivilege, StoreOpen, CheckExisting, VerifyCreated, Examine,
         WriteDescriptor, ReadBack, Reopen, Recheck
<1> QED BY <1>1, <1>2, <1>3, <1>4 DEF Step, CallStep

\* Where control goes from where, and that a call never changes its request.
LEMMA ControlMoves ==
    ASSUME CoreInv, NEW c \in Calls, Step(c)
    PROVE  /\ pc[c] # "idle" => req'[c] = req[c]
           /\ \/ pc'[c] = pc[c]
              \/ pc[c] \notin {"idle", "done", "crashed"} /\ pc'[c] = "crashed"
              \/ /\ pc[c] \notin {"done", "crashed", "finalize", "verify"}
                 /\ pc'[c] = "done"
              \/ /\ <<pc[c], pc'[c]>> \in
                      {<<"idle", "privilege">>, <<"idle", "open">>, <<"privilege", "open">>,
                       <<"open", "check">>, <<"open", "create">>, <<"open", "examine">>,
                       <<"open", "delete">>, <<"create", "configure">>,
                       <<"configure", "finalize">>, <<"finalize", "verify">>,
                       <<"finalize", "cleanup">>, <<"verify", "cleanup">>,
                       <<"verify", "signer">>, <<"check", "signer">>,
                       <<"examine", "write">>, <<"write", "readback">>,
                       <<"readback", "reopen">>, <<"reopen", "recheck">>}
<1>0. /\ pc \in [Calls -> Labels]
      /\ req \in [Calls -> AllRequests \cup {NoRequest}]
  BY DEF CoreInv, TypeOK
<1>1. CASE BeginPolicy(c)
  BY <1>0, <1>1 DEF BeginPolicy, Go, Return
<1>2. CASE BeginLegacy(c)
  BY <1>0, <1>2 DEF BeginLegacy, Go
<1>3. CASE CheckPrivilege(c)
  BY <1>0, <1>3 DEF CheckPrivilege, Go, Return
<1>4. CASE StoreOpen(c)
  BY <1>0, <1>4 DEF StoreOpen, Go, Return
<1>5. CASE LegacyOpen(c)
  BY <1>0, <1>5 DEF LegacyOpen, Go, Return
<1>6. CASE CheckExisting(c)
  BY <1>0, <1>6 DEF CheckExisting, Go, Return
<1>7. CASE VerifyCreated(c)
  BY <1>0, <1>7 DEF VerifyCreated, Go
<1>8. CASE Examine(c)
  BY <1>0, <1>8 DEF Examine, Go, Return
<1>9. CASE WriteDescriptor(c)
  BY <1>0, <1>9 DEF WriteDescriptor, Go, Return
<1>10. CASE ReadBack(c)
  BY <1>0, <1>10 DEF ReadBack, Go, Return
<1>11. CASE Reopen(c)
  BY <1>0, <1>11 DEF Reopen, Go, Return
<1>12. CASE Recheck(c)
  BY <1>0, <1>12 DEF Recheck, Go, Return
<1>13. CASE LegacyCheck(c)
  BY <1>0, <1>13 DEF LegacyCheck, Go, Return
<1>14. CASE LegacyVerifyCreated(c)
  BY <1>0, <1>14 DEF LegacyVerifyCreated, Go
<1>15. CASE DeleteKey(c)
  BY <1>0, <1>15 DEF DeleteKey, Go, Return
<1>16. CASE MakeSigner(c)
  BY <1>0, <1>16 DEF MakeSigner, Go, Return
<1>17. CASE CreateUnfinalized(c)
  BY <1>0, <1>17 DEF CreateUnfinalized, Go, Return
<1>18. CASE ConfigureKey(c)
  BY <1>0, <1>18 DEF ConfigureKey, Go, Return
<1>19. CASE FinalizeKey(c)
  BY <1>0, <1>19 DEF FinalizeKey, Go
<1>20. CASE CleanupCreatedKey(c)
  BY <1>0, <1>20 DEF CleanupCreatedKey, Go, Return
<1>21. CASE CloseSigner(c)
  BY <1>0, <1>21 DEF CloseSigner
<1>22. CASE Crash(c)
  BY <1>0, <1>22 DEF Crash, Go, Active
<1> QED
  BY <1>1, <1>2, <1>3, <1>4, <1>5, <1>6, <1>7, <1>8, <1>9, <1>10, <1>11,
     <1>12, <1>13, <1>14, <1>15, <1>16, <1>17, <1>18, <1>19, <1>20, <1>21, <1>22
     DEF Step, CallStep, NativeStep, LegacyStep, PolicyStep

-----------------------------------------------------------------------------
(***************************************************************************)
(* Whose key is whose.  This part needs no coordination.                   *)
(***************************************************************************)
\* A call that may have persisted a key.
Made(c) ==
    /\ pc[c] \in {"verify", "cleanup", "signer", "done", "crashed"}
    /\ req[c].op \in CreateOps

\* No key is known, to the provider or to another call, before the call that
\* makes it has persisted it.
NoneAhead ==
    /\ \A c \in Calls : store # NoKey /\ store.maker = c => Made(c)
    /\ \A c, d \in Calls :
          view[d] # NoKey /\ view[d].maker = c
            => Made(c) \/ (d = c /\ pc[c] \in {"configure", "finalize"})

\* A call has seen the key it looks at, and nobody changes a key's profile.
SeenAt(c) ==
    /\ view[c] # NoKey /\ SameKey(c) => store.profile = view[c].profile
    /\ signer[c] # {} => view[c] # NoKey
    /\ pc[c] \in {"idle", "privilege", "open", "create"} => view[c] = NoKey

KeysKnown == NoneAhead /\ \A c \in Calls : SeenAt(c)

LEMMA KnownInit == Init => KeysKnown
<1> SUFFICES ASSUME Init PROVE KeysKnown
  OBVIOUS
<1>1. store = NoKey \/ (store \in Keys /\ store.maker = Origin)
  BY KeyAssumption DEF Init
<1> QED BY <1>1, KeyAssumption DEF Init, KeysKnown, NoneAhead, SeenAt

LEMMA MadeStays ==
    ASSUME CoreInv, NEW c \in Calls, Step(c), NEW d \in Calls, Made(d)
    PROVE  Made(d)'
<1>1. CASE d = c
  BY <1>1, ControlMoves DEF Made
<1>2. CASE d # c
  BY <1>2, StepIsOnlyCall DEF Made, OnlyCall, CoreInv
<1> QED BY <1>1, <1>2

LEMMA NoneAheadStep ==
    ASSUME CoreInv, KeysKnown, NEW c \in Calls, Step(c)
    PROVE  NoneAhead'
<1>0. /\ NoneAhead /\ RequestAt(c) /\ ViewAt(c)
      /\ view \in [Calls -> Keys \cup {NoKey}] /\ store \in Keys \cup {NoKey}
  BY DEF CoreInv, TypeOK, ControlOK, KeysKnown
<1>1. \A d \in Calls : Made(d) => Made(d)'
  BY MadeStays
<1>2. \A d \in Calls \ {c} : pc'[d] = pc[d] /\ view'[d] = view[d]
  BY StepIsOnlyCall DEF OnlyCall, CoreInv
<1>3. pc[c] \in {"configure", "finalize"} /\ view[c] # NoKey
        => Made(c)' \/ pc'[c] \in {"configure", "finalize"}
  <2>1. pc[c] \in {"configure", "finalize"} => req[c].op \in CreateOps /\ req'[c] = req[c]
    BY <1>0, ControlMoves DEF RequestAt, CreateLabels, CreateOps
  <2> QED BY <2>1, ControlMoves DEF Made
<1>4. ASSUME NEW d \in Calls, NEW e \in Calls, view[d] # NoKey, view[d].maker = e
      PROVE  Made(e)' \/ (d = e /\ pc'[e] \in {"configure", "finalize"})
  BY <1>0, <1>1, <1>2, <1>3, <1>4 DEF NoneAhead
<1>5. ASSUME NEW d \in Calls, store # NoKey, store.maker = d PROVE Made(d)'
  BY <1>0, <1>1, <1>5 DEF NoneAhead
<1>6. CASE Rests(c) \/ Removes(c)
  BY <1>4, <1>5, <1>6 DEF NoneAhead, Rests, Removes
<1>7. CASE Opens(c)
  <2>1. store' # NoKey /\ store' = store /\ view'[c] = store
    BY <1>0, <1>7 DEF Opens
  <2>2. ASSUME NEW d \in Calls, NEW e \in Calls, view'[d] # NoKey, view'[d].maker = e
        PROVE  Made(e)' \/ (d = e /\ pc'[e] \in {"configure", "finalize"})
    BY <1>2, <1>4, <1>5, <2>1, <2>2
  <2> QED BY <1>5, <2>1, <2>2 DEF NoneAhead
<1>8. CASE Prepares(c)
  <2>1. store' = store /\ view'[c].maker = c /\ pc'[c] \in {"configure", "finalize"}
    BY <1>0, <1>8 DEF Prepares
  <2>2. ASSUME NEW d \in Calls, NEW e \in Calls, view'[d] # NoKey, view'[d].maker = e
        PROVE  Made(e)' \/ (d = e /\ pc'[e] \in {"configure", "finalize"})
    BY <1>2, <1>4, <2>1, <2>2
  <2> QED BY <1>5, <2>1, <2>2 DEF NoneAhead
<1>9. CASE Persists(c)
  <2>1. store'.maker = c /\ view'[c] = store'
    BY <1>0, <1>9 DEF Persists
  <2>2. Made(c)'
    BY <1>0, <1>9, ControlMoves DEF Persists, Made, RequestAt, CreateLabels, CreateOps
  <2>3. ASSUME NEW d \in Calls, NEW e \in Calls, view'[d] # NoKey, view'[d].maker = e
        PROVE  Made(e)' \/ (d = e /\ pc'[e] \in {"configure", "finalize"})
    BY <1>2, <1>4, <2>1, <2>2, <2>3
  <2> QED BY <2>1, <2>2, <2>3 DEF NoneAhead
<1>10. CASE Rewrites(c)
  <2>1. /\ store # NoKey /\ store'.maker = store.maker
        /\ view[c] # NoKey /\ view'[c].maker = view[c].maker
    BY <1>0, <1>10 DEF Rewrites, SameKey, ViewAt, KeyLabels, ApplyLabels
  <2>2. ASSUME NEW d \in Calls, NEW e \in Calls, view'[d] # NoKey, view'[d].maker = e
        PROVE  Made(e)' \/ (d = e /\ pc'[e] \in {"configure", "finalize"})
    BY <1>2, <1>4, <2>1, <2>2
  <2> QED BY <1>5, <2>1, <2>2 DEF NoneAhead
<1> QED BY <1>6, <1>7, <1>8, <1>9, <1>10, KeyMoves

LEMMA SeenStep ==
    ASSUME CoreInv, KeysKnown, NEW c \in Calls, Step(c), NEW d \in Calls
    PROVE  SeenAt(d)'
<1>0. /\ NoneAhead /\ SeenAt(d) /\ RequestAt(c) /\ ViewAt(c)
      /\ view \in [Calls -> Keys \cup {NoKey}] /\ store \in Keys \cup {NoKey}
  BY DEF CoreInv, TypeOK, ControlOK, KeysKnown
<1>1. CASE d # c
  <2>1. /\ view'[d] = view[d] /\ pc'[d] = pc[d] /\ signer'[d] = signer[d]
    BY <1>1, StepIsOnlyCall DEF OnlyCall, CoreInv
  <2>2. view[d] # NoKey => view[d].maker # c \/ Made(c)
    BY <1>0, <1>1 DEF NoneAhead
  <2>3. Persists(c) => ~Made(c)
    BY DEF Persists, Made
  <2> QED BY <1>0, <2>1, <2>2, <2>3, KeyMoves
          DEF SeenAt, SameKey, Rests, Opens, Prepares, Persists, Rewrites, Removes
<1>2. CASE d = c
  <2>1. signer'[c] # {} => view'[c] # NoKey
    <3>1. CASE signer'[c] = signer[c] /\ view' = view
      BY <1>0, <1>2, <3>1 DEF SeenAt
    <3>2. CASE view' # view
      BY <1>0, <3>2, KeyAssumption, KeyMoves DEF Rests, Opens, Prepares, Persists, Rewrites, Removes
    <3>3. CASE MakeSigner(c)
      BY <1>0, <3>3 DEF MakeSigner, ViewAt, KeyLabels
    <3>4. CASE CloseSigner(c)
      BY <1>0, <3>4 DEF CloseSigner, CoreInv, TypeOK
    <3>5. MakeSigner(c) \/ CloseSigner(c) \/ UNCHANGED signer
      BY ActionAt DEF BeginLegacy, BeginPolicy, Crash, CreateUnfinalized, ConfigureKey,
         FinalizeKey, CleanupCreatedKey, LegacyOpen, LegacyCheck, LegacyVerifyCreated,
         DeleteKey, CheckPrivilege, StoreOpen, CheckExisting, VerifyCreated, Examine,
         WriteDescriptor, ReadBack, Reopen, Recheck
    <3> QED BY <3>1, <3>2, <3>3, <3>4, <3>5
  <2>2. pc'[c] \in {"idle", "privilege", "open", "create"} => view'[c] = NoKey
    BY <1>0, <1>2, ControlMoves, KeyMoves
       DEF SeenAt, Rests, Opens, Prepares, Persists, Rewrites, Removes
  <2>3. view'[c] # NoKey /\ SameKey(c)' => store'.profile = view'[c].profile
    <3>1. CASE Rests(c) \/ Removes(c)
      BY <1>0, <1>2, <3>1 DEF SeenAt, SameKey, Rests, Removes
    <3>2. CASE Opens(c) \/ Persists(c)
      BY <1>0, <3>2 DEF Opens, Persists
    <3>3. CASE Prepares(c)
      <4>1. store # NoKey => store.maker # c
        BY <1>0, <3>3 DEF NoneAhead, Prepares, Made
      <4> QED BY <1>0, <3>3, <4>1 DEF Prepares, SameKey
    <3>4. CASE Rewrites(c)
      BY <1>0, <1>2, <3>4, KeyAssumption
         DEF Rewrites, SeenAt, SameKey, ViewAt, KeyLabels, ApplyLabels
    <3> QED BY <3>1, <3>2, <3>3, <3>4, KeyMoves
  <2> QED BY <1>2, <2>1, <2>2, <2>3 DEF SeenAt
<1> QED BY <1>1, <1>2

LEMMA KnownNext == CoreInv /\ KeysKnown /\ [Next]_vars => KeysKnown'
<1> SUFFICES ASSUME CoreInv, KeysKnown, [Next]_vars PROVE KeysKnown'
  OBVIOUS
<1>1. CASE UNCHANGED vars
  BY <1>1 DEF vars, KeysKnown, NoneAhead, Made, SeenAt, SameKey
<1>2. CASE Next
  <2>1. PICK c \in Calls : Step(c)
    BY <1>2 DEF Next
  <2> QED BY <2>1, NoneAheadStep, SeenStep DEF KeysKnown
<1> QED BY <1>1, <1>2

\* No key gets ahead of its maker and none changes its profile, for any
\* interleaving of calls.
THEOREM KeysKnownCorrect == Spec => []KeysKnown
<1>1. Init => CoreInv /\ KeysKnown
  BY CoreInit, KnownInit
<1>2. (CoreInv /\ KeysKnown) /\ [Next]_vars => (CoreInv /\ KeysKnown)'
  BY CoreNext, KnownNext
<1> QED BY <1>1, <1>2, PTL DEF Spec

-----------------------------------------------------------------------------
(***************************************************************************)
(* What it takes for a check to succeed: a descriptor that could be read   *)
(* and was the right one.                                                  *)
(***************************************************************************)
LEMMA Accepted ==
    ASSUME NEW c \in Calls, NEW want
    PROVE  /\ {} \in CheckDACLState(c, want) => \E sd \in Readable(c) : Classify(sd) = want
           /\ {} \in CheckKeyPolicy(c, want) =>
                view[c].profile = "strong" /\ \E sd \in Readable(c) : Classify(sd) = want
           /\ {} \in ValidatePersistedKey(c) => \E sd \in Readable(c) : VerifyDACL(sd)
<1>1. {} \in CheckDACLState(c, want) => \E sd \in Readable(c) : Classify(sd) = want
  BY DEF CheckDACLState
<1>2. {} \in CheckProfile(c) => view[c].profile = "strong"
  BY DEF CheckProfile
<1>3. {} \in ValidatePersistedKey(c) => \E sd \in Readable(c) : VerifyDACL(sd)
  BY DEF ValidatePersistedKey
<1> QED BY <1>1, <1>2, <1>3 DEF CheckKeyPolicy

LEMMA Decided ==
    ASSUME NEW c \in Calls
    PROVE  /\ {} \in Decisions(c) => \E sd \in Readable(c) : Classify(sd) = req[c].want
           /\ {"write"} \in Decisions(c) =>
                \E sd \in Readable(c) : TransitionAllowed(Classify(sd), req[c].want)
<1>1. {"write"} \notin CheckProfile(c)
  BY DEF CheckProfile
<1>2. \A sd : /\ Decision(sd, req[c].want) = {} => Classify(sd) = req[c].want
              /\ Decision(sd, req[c].want) = {"write"}
                   => TransitionAllowed(Classify(sd), req[c].want)
  BY DEF Decision
<1> QED BY <1>1, <1>2 DEF Decisions

-----------------------------------------------------------------------------
(***************************************************************************)
(* With changes one at a time, the key a changing call works on is the     *)
(* persisted one, and what it has checked stays true until it returns.     *)
(***************************************************************************)
Changing(c) == Active(c) /\ req[c].op \in ChangeOps

OneChanger == \A c, d \in Calls : Changing(c) /\ Changing(d) => c = d

\* Labels at which the view of a changing call is the persisted key.
SeeingLabels == {"check", "verify", "signer", "examine", "write", "delete", "recheck"}

StillAsSeen(c) ==
    /\ pc[c] \in SeeingLabels => store = view[c]
    /\ pc[c] \in {"readback", "reopen"} => SameKey(c)
    /\ pc[c] \in {"configure", "finalize"} => store = NoKey

StillAsChecked(c) ==
    /\ pc[c] = "write" => TransitionAllowed(Classify(store.sd), req[c].want)
    /\ pc[c] = "signer" => IF Legacy(c) THEN VerifyDACL(store.sd)
                           ELSE Classify(store.sd) = req[c].want

CoordinatedInv ==
    /\ KeysKnown
    /\ OneChanger
    /\ \A c \in Calls : Changing(c) => StillAsSeen(c) /\ StillAsChecked(c)

LEMMA CoordinatedInit == Init => CoordinatedInv
<1> SUFFICES ASSUME Init PROVE CoordinatedInv
  OBVIOUS
<1>1. \A c \in Calls : ~Changing(c)
  BY DEF Init, Changing, Active
<1> QED BY <1>1, KnownInit DEF CoordinatedInv, OneChanger

\* Only a changing call changes the persisted key, ...
LEMMA ChangersChange ==
    ASSUME CoreInv, NEW c \in Calls, Step(c), store' # store
    PROVE  Changing(c)
<1>1. Persists(c) \/ Rewrites(c) \/ Removes(c)
  BY KeyMoves DEF Rests, Opens, Prepares
<1>2. pc[c] \in {"finalize", "write", "cleanup", "delete"}
  BY <1>1 DEF Persists, Rewrites, Removes
<1>3. RequestAt(c)
  BY DEF CoreInv, ControlOK
<1> QED BY <1>2, <1>3
        DEF RequestAt, CreateLabels, ApplyLabels, Changing, Active, CreateOps, ChangeOps

\* ... and one begins only when no other is under way.
LEMMA ChangersBegin ==
    ASSUME Coordinated, CoreInv, NEW c \in Calls, Step(c), Changing(c)'
    PROVE  Changing(c) \/ \A d \in Calls : ~Changing(d)
<1>1. CASE pc[c] = "idle"
  <2>1. BeginLegacy(c) \/ BeginPolicy(c) \/ CloseSigner(c)
    BY <1>1, ActionAt DEF Crash, Active
  <2>2. ~CloseSigner(c)
    BY <1>1 DEF CloseSigner, Changing, Active
  <2>3. PICK r \in Requests :
          /\ r.op \in Exclusive => \A o \in Calls : Active(o) => req[o].op \notin Exclusive
          /\ req' = [req EXCEPT ![c] = r]
    BY <2>1, <2>2 DEF BeginLegacy, BeginPolicy
  <2>4. req'[c] = r
    BY <2>3 DEF CoreInv, TypeOK
  <2> QED BY <2>3, <2>4 DEF Changing, Coordinated
<1>2. CASE pc[c] # "idle"
  BY <1>2, ControlMoves DEF Changing, Active
<1> QED BY <1>1, <1>2

LEMMA OneChangerStep ==
    ASSUME Coordinated, CoreInv, OneChanger, NEW c \in Calls, Step(c)
    PROVE  OneChanger'
<1>1. \A d \in Calls \ {c} : Changing(d)' = Changing(d)
  BY StepIsOnlyCall DEF OnlyCall, CoreInv, Changing, Active
<1> QED BY <1>1, ChangersBegin DEF OneChanger

LEMMA OthersStill ==
    ASSUME CoreInv, OneChanger, NEW c \in Calls, Step(c), NEW d \in Calls, d # c,
           Changing(d), StillAsSeen(d), StillAsChecked(d)
    PROVE  StillAsSeen(d)' /\ StillAsChecked(d)'
<1>1. store' = store
  BY ChangersChange DEF OneChanger
<1>2. pc'[d] = pc[d] /\ view'[d] = view[d] /\ req'[d] = req[d]
  BY StepIsOnlyCall DEF OnlyCall, CoreInv
<1> QED BY <1>1, <1>2 DEF StillAsSeen, StillAsChecked, SameKey, Legacy

LEMMA SeenStill ==
    ASSUME CoreInv, KeysKnown, NEW c \in Calls, Step(c), Changing(c) => StillAsSeen(c),
           Changing(c)'
    PROVE  StillAsSeen(c)'
<1>0. /\ SeenAt(c) /\ ViewAt(c)
      /\ view \in [Calls -> Keys \cup {NoKey}] /\ store \in Keys \cup {NoKey}
  BY DEF CoreInv, TypeOK, ControlOK, KeysKnown
<1>1. pc[c] # "idle" => Changing(c)
  BY ControlMoves DEF Changing, Active
<1>2. CASE Rests(c)
  BY <1>0, <1>1, <1>2, ControlMoves DEF Rests, StillAsSeen, SameKey, SeeingLabels
<1>3. CASE Opens(c)
  BY <1>0, <1>3 DEF Opens, StillAsSeen
<1>4. CASE Prepares(c)
  BY <1>1, <1>4 DEF Prepares, StillAsSeen, SeeingLabels
<1>5. CASE Persists(c)
  BY <1>0, <1>5 DEF Persists, StillAsSeen, SeeingLabels
<1>6. CASE Rewrites(c)
  BY <1>0, <1>6, KeyAssumption DEF Rewrites, StillAsSeen, SeeingLabels, SameKey
<1>7. CASE Removes(c)
  BY <1>7 DEF Removes, Changing, Active
<1> QED BY <1>2, <1>3, <1>4, <1>5, <1>6, <1>7, KeyMoves

LEMMA CheckedStill ==
    ASSUME CoreInv, KeysKnown, NEW c \in Calls, Step(c),
           Changing(c) => StillAsSeen(c) /\ StillAsChecked(c), Changing(c)'
    PROVE  StillAsChecked(c)'
<1>0. pc \in [Calls -> Labels]
  BY DEF CoreInv, TypeOK
<1>1. pc[c] # "idle" => Changing(c) /\ req'[c] = req[c]
  BY ControlMoves DEF Changing, Active
<1>2. pc[c] \in SeeingLabels => Readable(c) = {store.sd}
  BY <1>1 DEF StillAsSeen, Readable, SeeingLabels
<1>3. CASE pc'[c] \notin {"write", "signer"}
  BY <1>3 DEF StillAsChecked
<1>4. CASE pc'[c] \in {"write", "signer"} /\ pc'[c] = pc[c]
  BY <1>1, <1>4, KeyMoves
     DEF StillAsChecked, Legacy, Rests, Opens, Prepares, Persists, Rewrites, Removes
<1>5. CASE pc'[c] = "write" /\ pc'[c] # pc[c]
  <2>1. pc[c] = "examine"
    BY <1>5, ControlMoves
  <2>2. Examine(c) /\ store' = store
    BY <1>0, <1>5, <2>1, ActionAt DEF CloseSigner, Crash, Go, Examine
  <2>3. {"write"} \in Decisions(c)
    BY <1>0, <1>5, <2>2 DEF Examine, Return, Go
  <2>4. TransitionAllowed(Classify(store.sd), req[c].want)
    BY <1>2, <2>1, <2>3, Decided DEF SeeingLabels
  <2> QED BY <1>1, <1>5, <2>1, <2>2, <2>4 DEF StillAsChecked
<1>6. CASE pc'[c] = "signer" /\ pc'[c] # pc[c]
  <2>1. pc[c] \in {"check", "verify"}
    BY <1>6, ControlMoves
  <2>2. /\ CheckExisting(c) \/ VerifyCreated(c) \/ LegacyCheck(c) \/ LegacyVerifyCreated(c)
        /\ store' = store
    BY <1>0, <1>6, <2>1, ActionAt DEF CloseSigner, Crash, Go, CheckExisting, VerifyCreated,
       LegacyCheck, LegacyVerifyCreated
  <2>3. IF Legacy(c) THEN {} \in ValidatePersistedKey(c)
                     ELSE {} \in CheckKeyPolicy(c, req[c].want)
    BY <1>0, <1>6, <2>2 DEF CheckExisting, VerifyCreated, LegacyCheck, LegacyVerifyCreated,
       Return, Go
  <2>4. IF Legacy(c) THEN VerifyDACL(store.sd) ELSE Classify(store.sd) = req[c].want
    BY <1>2, <2>1, <2>3, Accepted DEF SeeingLabels
  <2> QED BY <1>1, <1>6, <2>1, <2>2, <2>4 DEF StillAsChecked, Legacy
<1> QED BY <1>3, <1>4, <1>5, <1>6

LEMMA CoordinatedNext ==
    ASSUME Coordinated PROVE CoreInv /\ CoordinatedInv /\ [Next]_vars => CoordinatedInv'
<1> SUFFICES ASSUME CoreInv, CoordinatedInv, [Next]_vars PROVE CoordinatedInv'
  OBVIOUS
<1>1. KeysKnown'
  BY KnownNext DEF CoordinatedInv
<1>2. CASE UNCHANGED vars
  BY <1>1, <1>2 DEF vars, CoordinatedInv, OneChanger, Changing, Active, StillAsSeen,
     StillAsChecked, SameKey, Legacy
<1>3. CASE Next
  <2>1. PICK c \in Calls : Step(c)
    BY <1>3 DEF Next
  <2>2. OneChanger'
    BY <2>1, OneChangerStep DEF CoordinatedInv
  <2>3. ASSUME NEW d \in Calls, Changing(d)' PROVE StillAsSeen(d)' /\ StillAsChecked(d)'
    <3>1. CASE d = c
      BY <2>1, <2>3, <3>1, SeenStill, CheckedStill DEF CoordinatedInv
    <3>2. CASE d # c
      <4>1. Changing(d)
        BY <2>1, <2>3, <3>2, StepIsOnlyCall DEF OnlyCall, CoreInv, Changing, Active
      <4> QED BY <2>1, <3>2, <4>1, OthersStill DEF CoordinatedInv
    <3> QED BY <3>1, <3>2
  <2> QED BY <1>1, <2>2, <2>3 DEF CoordinatedInv
<1> QED BY <1>2, <1>3

LEMMA CoordinatedCorrect == ASSUME Coordinated PROVE Spec => [](CoreInv /\ CoordinatedInv)
<1>1. Init => CoreInv /\ CoordinatedInv
  BY CoreInit, CoordinatedInit
<1>2. (CoreInv /\ CoordinatedInv) /\ [Next]_vars => (CoreInv /\ CoordinatedInv)'
  BY CoreNext, CoordinatedNext
<1> QED BY <1>1, <1>2, PTL DEF Spec

-----------------------------------------------------------------------------
(***************************************************************************)
(* What a call that returns says of the key.                               *)
(***************************************************************************)
LEMMA OkReturns ==
    ASSUME CoreInv, NEW c \in Calls, Step(c), Returns(c), result'[c].out = "ok"
    PROVE  \/ pc[c] = "signer" /\ store' = store
           \/ pc[c] = "examine" /\ store' = store /\ {} \in Decisions(c)
           \/ /\ pc[c] = "recheck" /\ store' = store
              /\ {} \in CheckDACLState(c, req[c].want)
           \/ Legacy(c) /\ pc[c] # "idle"
<1>0. /\ pc \in [Calls -> Labels] /\ RequestAt(c) /\ ViewAt(c)
      /\ result \in [Calls -> [out : {"none", "ok", "error"}, errs : SUBSET Errors]]
  BY DEF CoreInv, TypeOK, ControlOK
<1>1. ~CloseSigner(c) /\ ~Crash(c)
  BY <1>0 DEF Returns, CloseSigner, Crash, Go
<1>2. ASSUME NEW errs, Return(c, errs) PROVE errs = {}
  BY <1>0, <1>2 DEF Return
<1>3. /\ pc[c] \notin {"idle", "privilege", "create", "configure", "write", "readback",
                       "reopen", "finalize", "verify"}
      /\ pc[c] = "open" \/ pc[c] = "check" => Legacy(c)
  <2>1. pc[c] \notin {"idle", "privilege", "create", "configure", "write", "readback",
                      "reopen", "finalize", "verify"}
    BY <1>0, <1>1, <1>2, ActionAt DEF Returns, Go, BeginLegacy, BeginPolicy, CheckPrivilege,
       CreateUnfinalized, ConfigureKey, WriteDescriptor, ReadBack, Reopen, FinalizeKey,
       VerifyCreated, LegacyVerifyCreated
  <2>2. pc[c] = "open" \/ pc[c] = "check" => Legacy(c)
    BY <1>0, <1>1, <1>2, ActionAt DEF Returns, Go, StoreOpen, CheckExisting, LegacyOpen,
       LegacyCheck
  <2> QED BY <2>1, <2>2
<1>4. pc[c] # "cleanup"
  <2> SUFFICES ASSUME pc[c] = "cleanup" PROVE FALSE
    OBVIOUS
  <2>1. CleanupCreatedKey(c) /\ result[c].errs # {}
    BY <1>0, <1>1, ActionAt DEF ViewAt
  <2> QED BY <1>2, <2>1 DEF CleanupCreatedKey
<1>5. pc[c] = "delete" => Legacy(c)
  BY <1>0 DEF RequestAt, Legacy, LegacyOps
<1>6. pc[c] = "signer" => store' = store
  BY <1>1, ActionAt DEF MakeSigner
<1>7. pc[c] = "examine" => store' = store /\ {} \in Decisions(c)
  <2> SUFFICES ASSUME pc[c] = "examine" PROVE store' = store /\ {} \in Decisions(c)
    OBVIOUS
  <2>1. Examine(c)
    BY <1>1, ActionAt
  <2>2. PICK errs \in Decisions(c) : Go(c, "write") \/ Return(c, errs)
    BY <2>1 DEF Examine
  <2>3. ~Go(c, "write")
    BY <1>0 DEF Returns, Go
  <2> QED BY <1>2, <2>1, <2>2, <2>3 DEF Examine
<1>8. pc[c] = "recheck" => store' = store /\ {} \in CheckDACLState(c, req[c].want)
  <2> SUFFICES ASSUME pc[c] = "recheck"
               PROVE  store' = store /\ {} \in CheckDACLState(c, req[c].want)
    OBVIOUS
  <2>1. Recheck(c)
    BY <1>1, ActionAt
  <2>2. PICK errs \in CheckDACLState(c, req[c].want) :
          Return(c, IF errs = {} THEN {} ELSE {"PostWrite"})
    BY <2>1 DEF Recheck
  <2> QED BY <1>2, <2>1, <2>2 DEF Recheck
<1> QED BY <1>1, <1>3, <1>4, <1>5, <1>6, <1>7, <1>8, ActionAt

\* A provisioning or tightening call that reports success leaves the key in
\* the wanted state, for any number of calls and whatever the provider makes
\* of a descriptor, if changes come one at a time.
THEOREM Confirmed == Coordinated => (Spec => ConfirmedOnReturn)
<1> SUFFICES ASSUME Coordinated PROVE Spec => ConfirmedOnReturn
  OBVIOUS
<1> DEFINE Right(c) == store' # NoKey /\ Classify(store'.sd) = req[c].want
           Success(c) == /\ Returns(c) /\ result'[c].out = "ok"
                         /\ req[c].op \in {"LoadOrCreateWithPolicy", "ApplyPolicy"}
<1>1. CoreInv /\ CoordinatedInv /\ [Next]_vars => [\A c \in Calls : Success(c) => Right(c)]_vars
  <2> SUFFICES ASSUME CoreInv, CoordinatedInv, Next, NEW d \in Calls, Success(d)
               PROVE  Right(d)
    OBVIOUS
  <2>1. PICK c \in Calls : Step(c)
    BY DEF Next
  <2>2. d = c
    BY <2>1, StepIsOnlyCall DEF OnlyCall, Returns, CoreInv
  <2>3. ~Legacy(d) /\ ViewAt(d)
    BY DEF Legacy, LegacyOps, CoreInv, ControlOK
  <2>4. /\ pc[d] \in {"signer", "examine", "recheck"} /\ store' = store
        /\ pc[d] = "examine" => {} \in Decisions(d)
        /\ pc[d] = "recheck" => {} \in CheckDACLState(d, req[d].want)
    BY <2>1, <2>2, <2>3, OkReturns
  <2>5. StillAsSeen(d) /\ StillAsChecked(d)
    BY <2>4 DEF CoordinatedInv, Changing, Active, ChangeOps, CreateOps
  <2>6. store = view[d] /\ store # NoKey
    BY <2>3, <2>4, <2>5 DEF StillAsSeen, SeeingLabels, ViewAt, KeyLabels, ApplyLabels
  <2>7. Readable(d) = {store.sd}
    BY <2>6 DEF Readable
  <2>8. Classify(store.sd) = req[d].want
    BY <2>3, <2>4, <2>5, <2>7, Accepted, Decided DEF StillAsChecked
  <2> QED BY <2>4, <2>6, <2>8
<1>2. Spec => [](CoreInv /\ CoordinatedInv)
  BY CoordinatedCorrect
<1> QED BY <1>1, <1>2, PTL DEF Spec, ConfirmedOnReturn

\* A call that fails and leaves behind the key it made says that it could not
\* clean up, or had verified the key.
THEOREM Orphans == Coordinated => (Spec => OrphanReported)
<1> SUFFICES ASSUME Coordinated PROVE Spec => OrphanReported
  OBVIOUS
<1> DEFINE Verified(c) == IF PolicyCall(c) THEN Classify(store'.sd) = req[c].want
                          ELSE VerifyDACL(store'.sd)
           Leaves(c) == /\ Returns(c) /\ result'[c].out = "error"
                        /\ "Cleanup" \notin result'[c].errs
                        /\ store' # NoKey /\ store'.maker = c
<1>1. CoreInv /\ CoordinatedInv /\ [Next]_vars => [\A c \in Calls : Leaves(c) => Verified(c)]_vars
  <2> SUFFICES ASSUME CoreInv, CoordinatedInv, Next, NEW d \in Calls, Leaves(d)
               PROVE  Verified(d)
    OBVIOUS
  <2>1. PICK c \in Calls : Step(c)
    BY DEF Next
  <2>2. d = c
    BY <2>1, StepIsOnlyCall DEF OnlyCall, Returns, CoreInv
  <2>3. store' = store
    BY <2>1, <2>2, KeyMoves
       DEF Returns, Rests, Opens, Prepares, Persists, Rewrites, Removes
  <2>4. Made(d) /\ pc[d] \in {"cleanup", "signer"}
    <3>1. Made(d)
      BY <2>3 DEF CoordinatedInv, KeysKnown, NoneAhead
    <3> QED BY <2>1, <2>2, <3>1, ControlMoves DEF Made, Returns
  <2>5. pc[d] # "cleanup"
    <3> SUFFICES ASSUME pc[d] = "cleanup" PROVE FALSE
      OBVIOUS
    <3>1. SameKey(d)
      BY <2>3 DEF CoreInv, ControlOK, ViewAt, CreateLabels, SameKey
    <3>2. CleanupCreatedKey(d)
      BY <2>1, <2>2, ActionAt DEF Returns, CloseSigner, Crash, Go, CoreInv, TypeOK
    <3>3. Return(d, result[d].errs \cup {"Cleanup"})
      BY <2>3, <3>1, <3>2 DEF CleanupCreatedKey, SameKey
    <3> QED BY <3>3 DEF Return, CoreInv, TypeOK
  <2>6. StillAsChecked(d)
    BY <2>4, <2>5 DEF Made, CoordinatedInv, Changing, Active, ChangeOps
  <2>7. PolicyCall(d) <=> ~Legacy(d)
    BY <2>4, <2>5 DEF CoreInv, ControlOK, RequestAt, TypeOK, AllRequests, PolicyCall,
       Legacy, LegacyOps, PolicyOps
  <2> QED BY <2>3, <2>4, <2>5, <2>6, <2>7 DEF StillAsChecked
<1>2. Spec => [](CoreInv /\ CoordinatedInv)
  BY CoordinatedCorrect
<1> QED BY <1>1, <1>2, PTL DEF Spec, OrphanReported

-----------------------------------------------------------------------------
(***************************************************************************)
(* Access only tightens.                                                   *)
(***************************************************************************)
\* What the tables of policies and of allowed rewrites say together: for an
\* account that runs the services, no rewrite grants what was not granted.
LEMMA TransitionsNarrow ==
    ASSUME NEW old \in Policies, NEW new \in Policies, TransitionAllowed(old, new),
           NEW t, t \cap ServiceSids # {} => LocalService \in t
    PROVE  PolicyGrants(t, new) \subseteq PolicyGrants(t, old)
<1>1. /\ PrivilegedOnly.state = "privileged-only" /\ ServiceSigner.state = "service-signer"
      /\ \A s : ServicePolicy(s).state = "service-sid" /\ ServicePolicy(s).sid = s
  BY DEF PrivilegedOnly, ServiceSigner, ServicePolicy
<1>2. \/ new = PrivilegedOnly
      \/ old = ServiceSigner /\ \E s \in ServiceSids : new = ServicePolicy(s)
  BY <1>1, PolicyTrustees DEF TransitionAllowed
<1>3. CASE new = PrivilegedOnly
  BY <1>3 DEF PolicyGrants
<1>4. CASE old = ServiceSigner /\ \E s \in ServiceSids : new = ServicePolicy(s)
  <2>1. Trustee(old) = LocalService /\ old # PrivilegedOnly
    BY <1>1, <1>4 DEF Trustee
  <2>2. Trustee(new) \in ServiceSids
    BY <1>1, <1>4 DEF Trustee
  <2> QED BY <2>1, <2>2 DEF PolicyGrants
<1> QED BY <1>2, <1>3, <1>4

\* The same of the descriptors that are asked for.
LEMMA TransitionsTighten ==
    ASSUME ServicesAreLocal, NEW old \in Policies, NEW new \in Policies,
           TransitionAllowed(old, new)
    PROVE  <<new, old>> \in Tightenings
<1>1. new # old
  BY DEF TransitionAllowed
<1>2. ASSUME NEW t \in Tokens
      PROVE  Granted(t, Requested(new)) \subseteq Granted(t, Requested(old))
  <2>1. t \cap ServiceSids # {} => LocalService \in t
    BY DEF ServicesAreLocal
  <2>2. PolicyGrants(t, new) \subseteq PolicyGrants(t, old)
    BY <2>1, TransitionsNarrow
  <2>3. \A p \in Policies : Granted(t, Requested(p)) = PolicyGrants(t, p)
    BY Classified, RequestedClassified, GrantsOfPolicy
  <2> QED BY <2>2, <2>3
<1> QED BY <1>1, <1>2 DEF Tightenings, Within

LEMMA AllowedFromPolicy ==
    ASSUME NEW d, NEW want, TransitionAllowed(Classify(d), want)
    PROVE  Classify(d) \in Policies
<1>1. Classify(d) \in Policies \/ Classify(d) = Unknown
  BY DEF Classify
<1>2. Unknown.state = "unknown"
  BY DEF Unknown
<1> QED BY <1>1, <1>2 DEF TransitionAllowed

\* Every rewrite goes from the descriptor of one policy to that of another
\* which the policy engine allows.
LEMMA RewritesAllowed ==
    ASSUME FaithfulProvider, CoreInv, CoordinatedInv, NEW c \in Calls, Rewrites(c)
    PROVE  /\ Classify(store.sd) \in Policies /\ Classify(store'.sd) = req[c].want
           /\ req[c].want \in Policies
           /\ TransitionAllowed(Classify(store.sd), req[c].want)
<1>1. pc[c] = "write" /\ RequestAt(c)
  BY DEF Rewrites, CoreInv, ControlOK
<1>2. req[c].want \in Policies /\ Changing(c)
  BY <1>1 DEF RequestAt, ApplyLabels, Changing, Active, ChangeOps
<1>3. TransitionAllowed(Classify(store.sd), req[c].want)
  BY <1>1, <1>2 DEF CoordinatedInv, StillAsChecked
<1>4. Classify(store'.sd) = req[c].want
  BY <1>2 DEF Rewrites, FaithfulProvider
<1> QED BY <1>2, <1>3, <1>4, AllowedFromPolicy

\* Writing a descriptor is the only step that leads from a key to a key, and it
\* gives no token a use of the key it did not have.
LEMMA StepsTighten ==
    ASSUME FaithfulProvider, ServicesAreLocal, CoreInv, CoordinatedInv,
           NEW c \in Calls, Step(c), store # NoKey, store' # NoKey
    PROVE  Within(store'.sd, store.sd)
<1>1. CASE store' = store
  BY <1>1 DEF Within
<1>2. CASE Rewrites(c)
  <2> DEFINE old == Classify(store.sd)
             new == Classify(store'.sd)
  <2>1. old \in Policies /\ new \in Policies /\ TransitionAllowed(old, new)
    BY <1>2, RewritesAllowed
  <2>2. ASSUME NEW t \in Tokens PROVE Granted(t, store'.sd) \subseteq Granted(t, store.sd)
    <3>1. Granted(t, store.sd) = PolicyGrants(t, old)
      BY <2>1, Classified, GrantsOfPolicy
    <3>2. Granted(t, store'.sd) = PolicyGrants(t, new)
      BY <2>1, Classified, GrantsOfPolicy
    <3>3. t \cap ServiceSids # {} => LocalService \in t
      BY DEF ServicesAreLocal
    <3> HIDE DEF old, new
    <3> QED BY <2>1, <3>1, <3>2, <3>3, TransitionsNarrow
  <2> QED BY <2>2 DEF Within
<1> QED BY <1>1, <1>2, KeyMoves DEF Rests, Opens, Prepares, Persists, Removes

\* As long as a key is there, no account gains a use of it: for every set of
\* tokens and services, if the services run as LocalService, the provider
\* keeps to the policy it was asked for and changes come one at a time (the
\* write of applySpec replaces the DACL it examined, and transitionAllowed
\* only lets it become narrower).
THEOREM Tightens ==
    Coordinated /\ FaithfulProvider /\ ServicesAreLocal => (Spec => TightenOnly)
<1> SUFFICES ASSUME Coordinated, FaithfulProvider, ServicesAreLocal PROVE Spec => TightenOnly
  OBVIOUS
<1>1. CoreInv /\ CoordinatedInv /\ [Next]_vars
        => [store # NoKey /\ store' # NoKey => Within(store'.sd, store.sd)]_vars
  BY StepsTighten DEF Next
<1>2. Spec => [](CoreInv /\ CoordinatedInv)
  BY CoordinatedCorrect
<1> QED BY <1>1, <1>2, PTL DEF Spec, TightenOnly

-----------------------------------------------------------------------------
(***************************************************************************)
(* The package implements the abstract key.                                *)
(***************************************************************************)
AbstractKey == IF store = NoKey THEN NoKey
               ELSE [maker |-> store.maker, state |-> Classify(store.sd)]

LEMMA AbstractKeyType ==
    ASSUME store \in Keys \cup {NoKey}
    PROVE  /\ AbstractKey = NoKey <=> store = NoKey
           /\ store # NoKey =>
                AbstractKey \in [maker : Calls \cup {Origin}, state : Policies \cup {Unknown}]
<1>1. \A d : Classify(d) \in Policies \cup {Unknown}
  BY DEF Classify
<1>2. store # NoKey =>
        AbstractKey \in [maker : Calls \cup {Origin}, state : Policies \cup {Unknown}]
  BY <1>1 DEF AbstractKey, Keys
<1> QED BY <1>2, AbsentAssumption DEF AbstractKey

\* Persisting a new key provisions the abstract one, writing its descriptor
\* tightens it, deleting it and cleaning it up remove it, and no other step of
\* any call shows.  That the state moved to is a tighter one is a fact about
\* what Windows grants, so it takes the account of the services.
THEOREM Implements ==
    Coordinated /\ FaithfulProvider /\ ServicesAreLocal => (Spec => ImplementsLifecycle)
<1> SUFFICES ASSUME Coordinated, FaithfulProvider, ServicesAreLocal
             PROVE  Spec => ImplementsLifecycle
  OBVIOUS
<1>1. Init => Lifecycle!LifecycleInit
  <2> SUFFICES ASSUME Init PROVE Lifecycle!LifecycleInit
    OBVIOUS
  <2>1. store \in Keys \cup {NoKey}
    BY KeyAssumption DEF Init
  <2> QED BY <2>1, AbstractKeyType DEF Lifecycle!LifecycleInit, AbstractKey
<1>2. CoreInv /\ CoordinatedInv /\ [Next]_vars => [Lifecycle!LifecycleNext]_AbstractKey
  <2> SUFFICES ASSUME CoreInv, CoordinatedInv, Next
               PROVE  Lifecycle!LifecycleNext \/ UNCHANGED AbstractKey
    BY DEF vars, AbstractKey
  <2>1. PICK c \in Calls : Step(c)
    BY DEF Next
  <2>2. store \in Keys \cup {NoKey} /\ store' \in Keys \cup {NoKey}
    BY <2>1, CoreStep DEF CoreInv, TypeOK
  <2>3. CASE store' = store
    BY <2>3 DEF AbstractKey
  <2>4. CASE Persists(c)
    <3>1. AbstractKey = NoKey /\ store' # NoKey
      BY <2>4, KeyAssumption DEF Persists, AbstractKey
    <3>2. store'.maker = c /\ Classify(store'.sd) \in Policies
      BY <2>4 DEF Persists, FaithfulProvider, CoreInv, ControlOK, RequestAt, CreateLabels
    <3>3. AbstractKey' \in [maker : Calls \cup {Origin}, state : Policies]
      BY <3>1, <3>2 DEF AbstractKey
    <3>4. Lifecycle!Provision
      BY <3>1, <3>3 DEF Lifecycle!Provision, AbstractKey
    <3> QED BY <3>4 DEF Lifecycle!LifecycleNext
  <2>5. CASE Rewrites(c)
    <3> DEFINE old == Classify(store.sd)
               new == Classify(store'.sd)
    <3>1. old \in Policies /\ new \in Policies /\ TransitionAllowed(old, new)
      BY <2>5, RewritesAllowed
    <3>2. store # NoKey /\ store' # NoKey /\ store'.maker = store.maker
      BY <2>5, KeyAssumption DEF Rewrites, SameKey
    <3>3. AbstractKey # NoKey
      BY <2>2, <3>2, AbstractKeyType
    <3>4. <<new, old>> \in Tightenings
      BY <3>1, TransitionsTighten
    <3>5. AbstractKey.state = old /\ AbstractKey' = [AbstractKey EXCEPT !.state = new]
      BY <3>2 DEF AbstractKey
    <3> HIDE DEF old, new
    <3>6. Lifecycle!Tighten
      BY <3>1, <3>3, <3>4, <3>5 DEF Lifecycle!Tighten, AbstractKey
    <3> QED BY <3>6 DEF Lifecycle!LifecycleNext
  <2>6. CASE Removes(c)
    <3>1. AbstractKey # NoKey /\ AbstractKey' = NoKey
      BY <2>2, <2>6, AbstractKeyType DEF Removes, AbstractKey
    <3>2. Lifecycle!Remove
      BY <3>1 DEF Lifecycle!Remove, AbstractKey
    <3> QED BY <3>2 DEF Lifecycle!LifecycleNext
  <2> QED BY <2>1, <2>3, <2>4, <2>5, <2>6, KeyMoves DEF Rests, Opens, Prepares
<1>3. Spec => [](CoreInv /\ CoordinatedInv)
  BY CoordinatedCorrect
<1> QED BY <1>1, <1>2, <1>3, PTL
        DEF Spec, ImplementsLifecycle, Lifecycle!LifecycleSpec, AbstractKey

-----------------------------------------------------------------------------
(***************************************************************************)
(* Signers that stay within their policy.  A key never grants more than    *)
(* when a call looked at it, so a check that was right then stays right.   *)
(***************************************************************************)
BoundAt(c) ==
    /\ pc[c] = "check" => req[c].op # "ApplyPolicy"
    /\ view[c] # NoKey /\ req[c].op # "ApplyPolicy" /\ SameKey(c)
         => Within(store.sd, view[c].sd)
    /\ PolicyCall(c) /\ (pc[c] = "signer" \/ signer[c] # {}) /\ SameKey(c)
         => Within(store.sd, Requested(req[c].want)) /\ store.profile = "strong"

LEMMA BoundOther ==
    ASSUME FaithfulProvider, ServicesAreLocal, CoreInv, CoordinatedInv,
           NEW c \in Calls, Step(c), NEW d \in Calls, d # c, BoundAt(d)
    PROVE  BoundAt(d)'
<1>0. KeysKnown /\ ViewAt(d)
  BY DEF CoordinatedInv, CoreInv, ControlOK
<1>1. /\ view'[d] = view[d] /\ pc'[d] = pc[d] /\ signer'[d] = signer[d] /\ req'[d] = req[d]
  BY StepIsOnlyCall DEF OnlyCall, CoreInv
<1>2. view[d] # NoKey /\ SameKey(d)'
        => SameKey(d) /\ Within(store'.sd, store.sd) /\ store'.profile = store.profile
  <2> SUFFICES ASSUME view[d] # NoKey, SameKey(d)'
               PROVE  SameKey(d) /\ Within(store'.sd, store.sd) /\ store'.profile = store.profile
    OBVIOUS
  <2>1. CASE store' = store
    BY <1>1, <2>1 DEF SameKey, Within
  <2>2. CASE Rewrites(c)
    BY <1>1, <2>2, StepsTighten DEF Rewrites, SameKey
  <2>3. ~Persists(c)
    <3>1. view[d].maker = c => Made(c)
      BY <1>0 DEF KeysKnown, NoneAhead
    <3> QED BY <1>1, <3>1 DEF Persists, SameKey, Made
  <2> QED BY <2>1, <2>2, <2>3, KeyMoves DEF Rests, Opens, Prepares, Removes, SameKey
<1>3. pc[d] = "signer" \/ signer[d] # {} => view[d] # NoKey
  BY <1>0 DEF KeysKnown, SeenAt, ViewAt, KeyLabels
<1>4. \A low, mid, high : Within(low, mid) /\ Within(mid, high) => Within(low, high)
  BY DEF Within
<1> QED BY <1>1, <1>2, <1>3, <1>4 DEF BoundAt, PolicyCall

LEMMA BoundSelf ==
    ASSUME CoreInv, CoordinatedInv, HandleDiscipline, NEW c \in Calls, Step(c), BoundAt(c)
    PROVE  BoundAt(c)'
<1>0. /\ NoneAhead /\ SeenAt(c) /\ RequestAt(c) /\ ViewAt(c)
      /\ view \in [Calls -> Keys \cup {NoKey}] /\ pc \in [Calls -> Labels]
  BY DEF CoordinatedInv, KeysKnown, CoreInv, ControlOK, TypeOK
<1>1. pc'[c] = "check" => req'[c].op # "ApplyPolicy"
  <2>1. CASE pc'[c] = pc[c]
    BY <2>1, ControlMoves DEF BoundAt
  <2>2. CASE pc'[c] = "check" /\ pc[c] = "open"
    <3>1. StoreOpen(c) \/ LegacyOpen(c)
      BY <1>0, <2>2, ActionAt DEF CloseSigner, Crash, Go
    <3> QED BY <1>0, <2>2, <3>1 DEF StoreOpen, LegacyOpen, Go, Return, Legacy, LegacyOps
  <2> QED BY <2>1, <2>2, ControlMoves
<1>2. view'[c] # NoKey /\ req'[c].op # "ApplyPolicy" /\ SameKey(c)'
        => Within(store'.sd, view'[c].sd)
  <2>1. pc[c] # "idle" => req'[c] = req[c]
    BY ControlMoves
  <2>2. CASE Rests(c)
    BY <1>0, <2>1, <2>2 DEF Rests, SeenAt, SameKey, BoundAt
  <2>3. CASE Opens(c) \/ Persists(c)
    BY <1>0, <2>3 DEF Opens, Persists, Within
  <2>4. CASE Prepares(c)
    <3>1. store # NoKey => store.maker # c
      BY <1>0, <2>4 DEF NoneAhead, Prepares, Made
    <3> QED BY <1>0, <2>4, <3>1 DEF Prepares, SameKey
  <2>5. CASE Rewrites(c)
    BY <1>0, <2>1, <2>5 DEF Rewrites, RequestAt, ApplyLabels
  <2>6. CASE Removes(c)
    BY <2>6 DEF Removes, SameKey
  <2> QED BY <2>2, <2>3, <2>4, <2>5, <2>6, KeyMoves
<1>3. ASSUME PolicyCall(c)', pc'[c] = "signer" \/ signer'[c] # {}, SameKey(c)'
      PROVE  Within(store'.sd, Requested(req'[c].want)) /\ store'.profile = "strong"
  <2>1. CASE pc[c] = "signer"
    <3>1. MakeSigner(c) \/ UNCHANGED <<store, view, req>>
      BY <2>1, ActionAt DEF CloseSigner, Crash
    <3>2. UNCHANGED <<store, view, req>>
      BY <3>1 DEF MakeSigner
    <3> QED BY <1>3, <2>1, <3>2 DEF BoundAt, PolicyCall, SameKey
  <2>2. CASE pc[c] # "signer" /\ pc'[c] = "signer"
    <3>1. pc[c] \in {"check", "verify"} /\ req'[c] = req[c]
      BY <2>2, ControlMoves
    <3>2. ~Legacy(c) /\ req[c].want \in Policies /\ req[c].op # "ApplyPolicy"
      BY <1>0, <1>3, <3>1 DEF RequestAt, CreateLabels, BoundAt, PolicyCall, Legacy, LegacyOps,
         PolicyOps
    <3>3. CheckExisting(c) \/ VerifyCreated(c)
      BY <1>0, <2>2, <3>1, <3>2, ActionAt
         DEF CloseSigner, Crash, Go, LegacyCheck, LegacyVerifyCreated
    <3>4. {} \in CheckKeyPolicy(c, req[c].want) /\ UNCHANGED <<store, view>>
      BY <1>0, <2>2, <3>3 DEF CheckExisting, VerifyCreated, Return, Go
    <3>5. SameKey(c) /\ view[c] # NoKey
      BY <1>0, <1>3, <3>1, <3>4 DEF SameKey, ViewAt, KeyLabels
    <3>6. store.profile = "strong"
      BY <1>0, <3>4, <3>5, Accepted DEF SeenAt
    <3>7. PICK sd \in Readable(c) : Classify(sd) = req[c].want
      BY <3>4, Accepted
    <3>8. Within(store.sd, sd)
      BY <3>2, <3>5, <3>7 DEF BoundAt, Readable, Within
    <3>9. \A t : Granted(t, sd) = Granted(t, Requested(req[c].want))
      BY <3>2, <3>7, ClassifiedGrants
    <3> QED BY <3>1, <3>4, <3>6, <3>8, <3>9 DEF Within
  <2>3. CASE pc[c] # "signer" /\ pc'[c] # "signer"
    <3>1. CASE signer[c] = {}
      BY <1>3, <2>3, <3>1, ActionAt DEF CloseSigner, Crash, BeginLegacy, BeginPolicy,
         CreateUnfinalized, ConfigureKey, FinalizeKey, CleanupCreatedKey, LegacyOpen,
         LegacyCheck, LegacyVerifyCreated, DeleteKey, CheckPrivilege, StoreOpen,
         CheckExisting, VerifyCreated, Examine, WriteDescriptor, ReadBack, Reopen, Recheck
    <3>2. CASE signer[c] # {}
      <4>1. CloseSigner(c)
        BY <3>2, ActionAt DEF HandleDiscipline, Crash, Active
      <4> QED BY <1>3, <2>3, <4>1 DEF CloseSigner, CoreInv, TypeOK
    <3> QED BY <3>1, <3>2
  <2> QED BY <2>1, <2>2, <2>3
<1> QED BY <1>1, <1>2, <1>3 DEF BoundAt

\* A Signer of the policy API is open on a key that, as long as it exists,
\* grants nobody more than the policy the caller named: whatever other calls,
\* one change at a time, do to the key after the check and after the return.
THEOREM SignersKeepPolicy ==
    Coordinated /\ FaithfulProvider /\ ServicesAreLocal => (Spec => []SignerKeepsPolicy)
<1> SUFFICES ASSUME Coordinated, FaithfulProvider, ServicesAreLocal
             PROVE  Spec => []SignerKeepsPolicy
  OBVIOUS
<1> DEFINE Bound == \A c \in Calls : BoundAt(c)
<1>1. Init => Bound
  BY DEF Init, BoundAt
<1>2. CoreInv /\ CoordinatedInv /\ HandleDiscipline /\ Bound /\ [Next]_vars => Bound'
  <2> SUFFICES ASSUME CoreInv, CoordinatedInv, HandleDiscipline, Bound, [Next]_vars,
                      NEW d \in Calls
               PROVE  BoundAt(d)'
    OBVIOUS
  <2>1. CASE UNCHANGED vars
    BY <2>1 DEF vars, BoundAt, SameKey, PolicyCall
  <2>2. CASE Next
    <3>1. PICK c \in Calls : Step(c)
      BY <2>2 DEF Next
    <3> QED BY <3>1, BoundOther, BoundSelf
  <2> QED BY <2>1, <2>2
<1>3. Bound => SignerKeepsPolicy
  BY DEF BoundAt, SignerKeepsPolicy
<1>4. Spec => [](CoreInv /\ CoordinatedInv)
  BY CoordinatedCorrect
<1>5. Spec => []HandleDiscipline
  BY HandlesCorrect
<1> HIDE DEF Bound
<1> QED BY <1>1, <1>2, <1>3, <1>4, <1>5, PTL DEF Spec

-----------------------------------------------------------------------------
(***************************************************************************)
(* Provisioning.  Nothing but an existing key that is not acceptable stops *)
(* a privileged LoadOrCreate: every key it can meet may be opened by it,   *)
(* and its own passes the checks.                                          *)
(***************************************************************************)
Provisioning(c) ==
    /\ req[c] # NoRequest /\ req[c].op = "LoadOrCreateWithPolicy"
    /\ req[c].want \in Policies /\ IsPrivileged(req[c].token)

\* No privileged caller is shut out of the key.
KeyMayBeOpened ==
    store # NoKey =>
      \A r \in Requests : r.op = "LoadOrCreateWithPolicy" /\ IsPrivileged(r.token)
                            => "sign" \in Granted(r.token, store.sd)

ProvisionedAt(c) ==
    /\ req[c] \in Requests \cup {NoRequest}
    /\ Provisioning(c) =>
         /\ pc[c] = "open" => privileged[c]
         /\ pc[c] = "create" => store = NoKey
         /\ pc[c] = "verify" => Classify(view[c].sd) = req[c].want
         /\ pc[c] = "signer" => view[c].profile = "strong"
         /\ pc[c] # "cleanup"
         /\ pc[c] = "done" /\ result[c].out = "error" =>
              /\ view[c] # NoKey /\ view[c].maker # c
              /\ view[c].profile # "strong" \/ Classify(view[c].sd) # req[c].want

LEMMA PolicyKeyMayBeOpened ==
    ASSUME NEW d, Classify(d) \in Policies, NEW t, IsPrivileged(t)
    PROVE  "sign" \in Granted(t, d)
<1>1. Granted(t, d) = PolicyGrants(t, Classify(d))
  BY Classified, GrantsOfPolicy
<1>2. t \cap {SYSTEM, Administrators} # {}
  BY DEF IsPrivileged
<1> QED BY <1>1, <1>2 DEF PolicyGrants, Uses

LEMMA MayBeOpenedStep ==
    ASSUME FaithfulProvider, CoreInv, CoordinatedInv, KeyMayBeOpened,
           NEW c \in Calls, Step(c)
    PROVE  KeyMayBeOpened'
<1>1. CASE store' \in {store, NoKey}
  BY <1>1 DEF KeyMayBeOpened
<1>2. CASE Persists(c) \/ Rewrites(c)
  <2>1. req[c].want \in Policies
    BY <1>2 DEF Persists, Rewrites, CoreInv, ControlOK, RequestAt, CreateLabels, ApplyLabels
  <2>2. Classify(store'.sd) \in Policies
    BY <1>2, <2>1 DEF Persists, Rewrites, FaithfulProvider
  <2> QED BY <2>2, PolicyKeyMayBeOpened DEF KeyMayBeOpened
<1> QED BY <1>1, <1>2, KeyMoves DEF Rests, Opens, Prepares, Removes

LEMMA ProvisionedOther ==
    ASSUME CoreInv, CoordinatedInv, NEW c \in Calls, Step(c), NEW d \in Calls, d # c,
           ProvisionedAt(d)
    PROVE  ProvisionedAt(d)'
<1>1. /\ pc'[d] = pc[d] /\ req'[d] = req[d] /\ privileged'[d] = privileged[d]
      /\ view'[d] = view[d] /\ result'[d] = result[d]
  BY StepIsOnlyCall DEF OnlyCall, CoreInv
<1>2. pc[d] = "create" /\ Provisioning(d) => store' = store
  BY ChangersChange
     DEF CoordinatedInv, OneChanger, Changing, Active, Provisioning, ChangeOps, CreateOps
<1> QED BY <1>1, <1>2 DEF ProvisionedAt, Provisioning

\* Without faults, on the key that is there, the checks say what is the case.
LEMMA ChecksAreExact ==
    ASSUME ~Faults, NEW c \in Calls, store # NoKey, store = view[c],
           view[c].profile \in Profiles
    PROVE  /\ ~CanFail(c)
           /\ \A want : \A errs \in CheckKeyPolicy(c, want) :
                errs = {} <=> view[c].profile = "strong" /\ Classify(view[c].sd) = want
<1>1. SameKey(c) /\ ~CanFail(c) /\ Readable(c) = {view[c].sd}
  BY DEF SameKey, CanFail, Readable
<1>2. \A errs \in CheckProfile(c) : errs = {} <=> view[c].profile = "strong"
  BY <1>1 DEF CheckProfile, Profiles
<1>3. {} \in CheckProfile(c) <=> view[c].profile = "strong"
  BY DEF CheckProfile
<1>4. \A want : \A errs \in CheckDACLState(c, want) :
        errs = {} <=> Classify(view[c].sd) = want
  BY <1>1 DEF CheckDACLState
<1> QED BY <1>1, <1>2, <1>3, <1>4 DEF CheckKeyPolicy

LEMMA ProvisionedSelf ==
    ASSUME ~Faults, FaithfulProvider, CoreInv, CoordinatedInv, KeyMayBeOpened,
           NEW c \in Calls, Step(c), ProvisionedAt(c)
    PROVE  ProvisionedAt(c)'
<1>0. /\ NoneAhead /\ RequestAt(c) /\ ViewAt(c)
      /\ pc \in [Calls -> Labels] /\ view \in [Calls -> Keys \cup {NoKey}]
      /\ store \in Keys \cup {NoKey} /\ privileged \in [Calls -> BOOLEAN]
      /\ req \in [Calls -> AllRequests \cup {NoRequest}]
      /\ result \in [Calls -> [out : {"none", "ok", "error"}, errs : SUBSET Errors]]
  BY DEF CoordinatedInv, KeysKnown, CoreInv, ControlOK, TypeOK
<1>1. req'[c] \in Requests \cup {NoRequest}
  <2>1. CASE pc[c] = "idle"
    BY <1>0, <2>1, ActionAt
       DEF ProvisionedAt, CloseSigner, Crash, BeginLegacy, BeginPolicy
  <2>2. CASE pc[c] # "idle"
    BY <2>2, ControlMoves DEF ProvisionedAt
  <2> QED BY <2>1, <2>2
<1> SUFFICES ASSUME Provisioning(c)'
             PROVE  /\ pc'[c] = "open" => privileged'[c]
                    /\ pc'[c] = "create" => store' = NoKey
                    /\ pc'[c] = "verify" => Classify(view'[c].sd) = req'[c].want
                    /\ pc'[c] = "signer" => view'[c].profile = "strong"
                    /\ pc'[c] # "cleanup"
                    /\ pc'[c] = "done" /\ result'[c].out = "error" =>
                         /\ view'[c] # NoKey /\ view'[c].maker # c
                         /\ view'[c].profile # "strong" \/ Classify(view'[c].sd) # req'[c].want
  BY <1>1 DEF ProvisionedAt
<1>2. ~Crash(c)
  BY DEF Crash
<1>3. CASE CloseSigner(c)
  BY <1>0, <1>3 DEF CloseSigner, ProvisionedAt, Provisioning
<1>4. CASE pc[c] = "idle" /\ (BeginLegacy(c) \/ BeginPolicy(c))
  BY <1>0, <1>4 DEF BeginLegacy, BeginPolicy, Go, Return, Provisioning, LegacyOps
<1> SUFFICES ASSUME pc[c] # "idle", ~CloseSigner(c)
             PROVE  /\ pc'[c] = "open" => privileged'[c]
                    /\ pc'[c] = "create" => store' = NoKey
                    /\ pc'[c] = "verify" => Classify(view'[c].sd) = req'[c].want
                    /\ pc'[c] = "signer" => view'[c].profile = "strong"
                    /\ pc'[c] # "cleanup"
                    /\ pc'[c] = "done" /\ result'[c].out = "error" =>
                         /\ view'[c] # NoKey /\ view'[c].maker # c
                         /\ view'[c].profile # "strong" \/ Classify(view'[c].sd) # req'[c].want
  BY <1>2, <1>3, <1>4, ActionAt
<1>5. req'[c] = req[c] /\ Provisioning(c) /\ ~Legacy(c) /\ req[c] \in Requests
  BY <1>1, ControlMoves DEF Provisioning, Legacy, LegacyOps
<1>6. Active(c) => StillAsSeen(c)
  BY <1>5 DEF CoordinatedInv, Changing, Provisioning, ChangeOps, CreateOps
<1>7. CASE pc[c] = "privilege"
  <2>1. CheckPrivilege(c)
    BY <1>2, <1>7, ActionAt
  <2>2. privileged'[c] /\ pc'[c] = "open"
    BY <1>0, <1>5, <2>1 DEF CheckPrivilege, Go, Provisioning, IsPrivileged
  <2> QED BY <2>2
<1>8. CASE pc[c] = "open"
  <2>1. StoreOpen(c) /\ privileged[c]
    BY <1>2, <1>5, <1>8, ActionAt DEF LegacyOpen, ProvisionedAt
  <2>2. store # NoKey => OpenResults(c) = {"opened"}
    BY <1>5 DEF KeyMayBeOpened, OpenResults, Provisioning
  <2>3. store = NoKey => OpenResults(c) = {"NotFound"}
    BY DEF OpenResults
  <2>4. store' = store /\ (pc'[c] = "check" \/ (pc'[c] = "create" /\ store = NoKey))
    BY <1>0, <1>5, <2>1, <2>2, <2>3 DEF StoreOpen, Go, Provisioning
  <2> QED BY <2>4
<1>9. CASE pc[c] = "check"
  <2>1. CheckExisting(c) /\ UNCHANGED <<store, view>>
    BY <1>2, <1>5, <1>9, ActionAt DEF LegacyCheck, CheckExisting
  <2>2. store = view[c] /\ view[c] \in Keys /\ store # NoKey
    BY <1>0, <1>6, <1>9 DEF Active, StillAsSeen, SeeingLabels, ViewAt, KeyLabels
  <2>3. view[c].maker # c
    BY <1>0, <1>9, <2>2 DEF NoneAhead, Made
  <2>4. PICK errs \in CheckKeyPolicy(c, req[c].want) :
          \/ errs = {} /\ Go(c, "signer")
          \/ errs # {} /\ Return(c, errs)
    BY <2>1 DEF CheckExisting
  <2>5. errs = {} <=> view[c].profile = "strong" /\ Classify(view[c].sd) = req[c].want
    BY <2>2, ChecksAreExact DEF Keys
  <2> QED BY <1>0, <1>5, <2>1, <2>2, <2>3, <2>4, <2>5 DEF Go, Return
<1>10. CASE pc[c] = "signer"
  <2>1. MakeSigner(c) /\ view[c].profile = "strong"
    BY <1>2, <1>5, <1>10, ActionAt DEF ProvisionedAt
  <2>2. store = view[c] /\ view[c] \in Keys /\ store # NoKey
    BY <1>0, <1>6, <1>10 DEF Active, StillAsSeen, SeeingLabels, ViewAt, KeyLabels
  <2>3. Return(c, {})
    BY <2>1, <2>2, ChecksAreExact DEF MakeSigner, Keys
  <2> QED BY <1>0, <2>3 DEF Go, Return
<1>11. CASE pc[c] = "create"
  <2>1. CreateUnfinalized(c) /\ store = NoKey
    BY <1>2, <1>5, <1>11, ActionAt DEF ProvisionedAt
  <2> QED BY <1>0, <2>1 DEF CreateUnfinalized, Go
<1>12. CASE pc[c] = "configure"
  BY <1>0, <1>2, <1>12, ActionAt DEF ConfigureKey, Go
<1>13. CASE pc[c] = "finalize"
  <2>1. FinalizeKey(c) /\ store = NoKey
    BY <1>2, <1>6, <1>13, ActionAt DEF Active, StillAsSeen
  <2>2. pc'[c] = "verify"
    BY <1>0, <2>1 DEF FinalizeKey, Go
  <2>3. Persists(c)
    BY <1>13, <2>2, KeyMoves DEF Rests, Opens, Prepares, Rewrites, Removes
  <2>4. Classify(view'[c].sd) = req[c].want
    BY <1>0, <1>5, <2>3 DEF Persists, FaithfulProvider, Provisioning
  <2> QED BY <1>5, <2>2, <2>4
<1>14. CASE pc[c] = "verify"
  <2>1. VerifyCreated(c) /\ Classify(view[c].sd) = req[c].want /\ UNCHANGED view
    BY <1>2, <1>5, <1>14, ActionAt DEF LegacyVerifyCreated, VerifyCreated, ProvisionedAt
  <2>2. store = view[c] /\ view[c] \in Keys /\ store # NoKey /\ view[c].profile = "strong"
    BY <1>0, <1>6, <1>14 DEF Active, StillAsSeen, SeeingLabels, ViewAt, KeyLabels
  <2>3. \A errs \in CheckKeyPolicy(c, req[c].want) : errs = {}
    BY <2>1, <2>2, ChecksAreExact DEF Keys
  <2> QED BY <1>0, <2>1, <2>2, <2>3 DEF VerifyCreated, Go
<1>15. pc[c] \notin {"cleanup", "examine", "write", "readback", "reopen", "recheck", "delete"}
  BY <1>0, <1>5 DEF ProvisionedAt, Provisioning, RequestAt, ApplyLabels
<1> QED BY <1>2, <1>7, <1>8, <1>9, <1>10, <1>11, <1>12, <1>13, <1>14, <1>15, ActionAt

\* Without faults a privileged LoadOrCreateWithPolicy ends with a Signer, or
\* over an existing key that does not have the policy it asked for: for any
\* number of calls before and beside it.
THEOREM Provisions ==
    Coordinated /\ FaithfulProvider /\ ProvisionersMayOpen /\ ~Faults
      => (Spec => []ProvisioningSucceeds)
<1> SUFFICES ASSUME Coordinated, FaithfulProvider, ProvisionersMayOpen, ~Faults
             PROVE  Spec => []ProvisioningSucceeds
  OBVIOUS
<1> DEFINE Provisioned == KeyMayBeOpened /\ \A c \in Calls : ProvisionedAt(c)
<1>1. Init => Provisioned
  <2> SUFFICES ASSUME Init PROVE Provisioned
    OBVIOUS
  <2>1. KeyMayBeOpened
    BY DEF Init, KeyMayBeOpened, ProvisionersMayOpen
  <2>2. \A c \in Calls : ProvisionedAt(c)
    BY DEF Init, ProvisionedAt, Provisioning
  <2> QED BY <2>1, <2>2
<1>2. CoreInv /\ CoordinatedInv /\ Provisioned /\ [Next]_vars => Provisioned'
  <2> SUFFICES ASSUME CoreInv, CoordinatedInv, Provisioned, [Next]_vars PROVE Provisioned'
    OBVIOUS
  <2>1. CASE UNCHANGED vars
    BY <2>1 DEF vars, KeyMayBeOpened, ProvisionedAt, Provisioning
  <2>2. CASE Next
    <3>1. PICK c \in Calls : Step(c)
      BY <2>2 DEF Next
    <3>2. KeyMayBeOpened'
      BY <3>1, MayBeOpenedStep
    <3>3. ASSUME NEW d \in Calls PROVE ProvisionedAt(d)'
      BY <3>1, ProvisionedOther, ProvisionedSelf
    <3> QED BY <3>2, <3>3
  <2> QED BY <2>1, <2>2
<1>3. CoreInv /\ Provisioned => ProvisioningSucceeds
  <2> SUFFICES ASSUME CoreInv, Provisioned, NEW c \in Calls, pc[c] = "done",
                      result[c].out = "error", req[c].op = "LoadOrCreateWithPolicy",
                      req[c].want \in Policies, IsPrivileged(req[c].token)
               PROVE  /\ view[c] # NoKey /\ view[c].maker # c
                      /\ view[c].profile # "strong" \/ Classify(view[c].sd) # req[c].want
    BY DEF ProvisioningSucceeds
  <2>1. Provisioning(c)
    BY DEF Provisioning, CoreInv, ControlOK, RequestAt
  <2> QED BY <2>1 DEF ProvisionedAt
<1>4. Spec => [](CoreInv /\ CoordinatedInv)
  BY CoordinatedCorrect
<1> HIDE DEF Provisioned
<1> QED BY <1>1, <1>2, <1>3, <1>4, PTL DEF Spec
=============================================================================
