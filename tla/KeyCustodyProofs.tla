-------------------------- MODULE KeyCustodyProofs --------------------------
(***************************************************************************)
(* Theorems about KeyCustody, for every set of calls, requests, tokens and *)
(* pre-existing keys, every provider, with and without faults, coordinated *)
(* or not.                                                                 *)
(***************************************************************************)
EXTENDS KeyCustody, TLAPS

-----------------------------------------------------------------------------
(***************************************************************************)
(* What the helpers return.                                                *)
(***************************************************************************)

\* The SDDL of a policy converts to a descriptor (policySDDL).
LEMMA RequestedType == \A p \in Policies : Requested(p) \in Descriptors
<1> SUFFICES ASSUME NEW p \in Policies PROVE Requested(p) \in Descriptors
  OBVIOUS
<1>1. ASSUME NEW sid \in Sids, NEW mask \in SUBSET Rights
      PROVE  Allow(sid, mask) \in ACEs
  BY DEF Allow, ACEs
<1>2. {SYSTEM, Administrators, LocalService} \subseteq Sids
  BY DEF Sids, WellKnownSids
<1>3. {"GR", "GX"} \in SUBSET Rights /\ {"GA"} \in SUBSET Rights
  BY DEF Rights
<1>4. AdministrativeAces \in Seq(ACEs)
  <2>1. Allow(SYSTEM, {"GA"}) \in ACEs /\ Allow(Administrators, {"GA"}) \in ACEs
    BY <1>1, <1>2, <1>3
  <2> QED BY <2>1 DEF AdministrativeAces
<1>5. ASSUME NEW aces \in Seq(ACEs) PROVE Protected(aces) \in Descriptors
  BY DEF Protected, Descriptors
<1>6. CASE p = PrivilegedOnly
  BY <1>4, <1>5, <1>6 DEF Requested
<1>7. CASE p # PrivilegedOnly
  <2>1. Trustee(p) \in Sids
    BY <1>2, <1>7 DEF Trustee, Policies, ServicePolicy, Sids
  <2>2. Append(AdministrativeAces, Allow(Trustee(p), {"GR", "GX"})) \in Seq(ACEs)
    BY <1>1, <1>3, <1>4, <2>1
  <2> QED BY <1>5, <1>7, <2>2 DEF Requested
<1> QED BY <1>6, <1>7

\* What the provider persists is a descriptor, and for a requested one it is
\* one of its forms.
LEMMA PersistedFormsType ==
    /\ \A d \in Descriptors : PersistedForms(d) \subseteq Descriptors
    /\ \A p \in Policies : PersistedForms(Requested(p)) = Forms[Requested(p)]
BY KeyAssumption DEF PersistedForms

\* The error sets the checks and the opens may end with.
LEMMA OutcomeTypes ==
    ASSUME NEW c \in Calls
    PROVE  /\ OpenResults(c) \subseteq {"opened", "NotFound", "Other"}
           /\ \A w : CheckDACLState(c, w) \subseteq SUBSET Errors
           /\ \A w : CheckKeyPolicy(c, w) \subseteq SUBSET Errors
           /\ ValidatePersistedKey(c) \subseteq SUBSET Errors
           /\ Decisions(c) \subseteq (SUBSET Errors) \cup {{"write"}}
<1>1. OpenResults(c) \subseteq {"opened", "NotFound", "Other"}
  BY DEF OpenResults
<1>2. \A w : CheckDACLState(c, w) \subseteq SUBSET Errors
  BY DEF CheckDACLState, Errors
<1>3. CheckProfile(c) \subseteq SUBSET Errors
  BY DEF CheckProfile, Errors
<1>4. \A w : CheckKeyPolicy(c, w) \subseteq SUBSET Errors
  BY <1>2, <1>3 DEF CheckKeyPolicy
<1>5. ValidatePersistedKey(c) \subseteq SUBSET Errors
  BY DEF ValidatePersistedKey, Errors
<1>6. \A sd, w : Decision(sd, w) \in (SUBSET Errors) \cup {{"write"}}
  BY DEF Decision, Errors
<1>7. Decisions(c) \subseteq (SUBSET Errors) \cup {{"write"}}
  BY <1>3, <1>6 DEF Decisions
<1> QED BY <1>1, <1>2, <1>4, <1>5, <1>7

\* "opened" is reported only of a key that exists.
LEMMA OpenedExists ==
    ASSUME NEW c \in Calls, "opened" \in OpenResults(c) PROVE store # NoKey
BY DEF OpenResults

-----------------------------------------------------------------------------
(***************************************************************************)
(* Type correctness and control.  A step of TypeOK that reads view[c] or   *)
(* store as a key needs ViewAt to know that it is one, and ViewAt needs    *)
(* RequestAt to know which policy is being provisioned, so the three are   *)
(* proved together.                                                        *)
(***************************************************************************)
\* The calls are independent but for the key: a step of c changes the state
\* of no other call.
OnlyCall(c) ==
    \A d \in Calls \ {c} :
        /\ pc'[d] = pc[d] /\ req'[d] = req[d] /\ privileged'[d] = privileged[d]
        /\ told'[d] = told[d]
        /\ view'[d] = view[d] /\ live'[d] = live[d] /\ signer'[d] = signer[d]
        /\ result'[d] = result[d]

LEMMA StepIsOnlyCall ==
    ASSUME TypeOK, NEW c \in Calls, Step(c) PROVE OnlyCall(c)
<1>1. CASE BeginPolicy(c)
  BY <1>1 DEF TypeOK, BeginPolicy, Go, Return, OnlyCall
<1>2. CASE BeginLegacy(c)
  BY <1>2 DEF TypeOK, BeginLegacy, Go, OnlyCall
<1>3. CASE CheckPrivilege(c)
  BY <1>3 DEF TypeOK, CheckPrivilege, Go, Return, OnlyCall
<1>4. CASE StoreOpen(c)
  BY <1>4 DEF TypeOK, StoreOpen, Go, Return, Handles, OnlyCall
<1>5. CASE LegacyOpen(c)
  BY <1>5 DEF TypeOK, LegacyOpen, Go, Return, Handles, OnlyCall
<1>6. CASE CheckExisting(c)
  BY <1>6 DEF TypeOK, CheckExisting, Go, Return, Handles, OnlyCall
<1>7. CASE VerifyCreated(c)
  BY <1>7 DEF TypeOK, VerifyCreated, Go, OnlyCall
<1>8. CASE Examine(c)
  BY <1>8 DEF TypeOK, Examine, Go, Return, Handles, OnlyCall
<1>9. CASE WriteDescriptor(c)
  BY <1>9 DEF TypeOK, WriteDescriptor, Go, Return, Handles, OnlyCall
<1>10. CASE ReadBack(c)
  BY <1>10 DEF TypeOK, ReadBack, Go, Return, Handles, OnlyCall
<1>11. CASE Reopen(c)
  BY <1>11 DEF TypeOK, Reopen, Go, Return, Handles, OnlyCall
<1>12. CASE Recheck(c)
  BY <1>12 DEF TypeOK, Recheck, Go, Return, Handles, OnlyCall
<1>13. CASE LegacyCheck(c)
  BY <1>13 DEF TypeOK, LegacyCheck, Go, Return, Handles, OnlyCall
<1>14. CASE LegacyVerifyCreated(c)
  BY <1>14 DEF TypeOK, LegacyVerifyCreated, Go, OnlyCall
<1>15. CASE DeleteKey(c)
  BY <1>15 DEF TypeOK, DeleteKey, Go, Return, HandlesAfterDelete, OnlyCall
<1>16. CASE MakeSigner(c)
  BY <1>16 DEF TypeOK, MakeSigner, Go, Return, Handles, OnlyCall
<1>17. CASE CreateUnfinalized(c)
  BY <1>17 DEF TypeOK, CreateUnfinalized, Go, Return, Handles, OnlyCall
<1>18. CASE ConfigureKey(c)
  BY <1>18 DEF TypeOK, ConfigureKey, Go, Return, Handles, OnlyCall
<1>19. CASE FinalizeKey(c)
  BY <1>19 DEF TypeOK, FinalizeKey, Persist, Go, OnlyCall
<1>20. CASE CleanupCreatedKey(c)
  BY <1>20 DEF TypeOK, CleanupCreatedKey, Go, Return, HandlesAfterDelete, OnlyCall
<1>21. CASE CloseSigner(c)
  BY <1>21 DEF TypeOK, CloseSigner, Handles, OnlyCall
<1>22. CASE Crash(c)
  BY <1>22 DEF TypeOK, Crash, Go, Active, OnlyCall
<1> QED
  BY <1>1, <1>2, <1>3, <1>4, <1>5, <1>6, <1>7, <1>8, <1>9, <1>10, <1>11,
     <1>12, <1>13, <1>14, <1>15, <1>16, <1>17, <1>18, <1>19, <1>20, <1>21, <1>22
     DEF Step, CallStep, NativeStep, LegacyStep, PolicyStep

LEMMA ControlFrame ==
    ASSUME ControlOK, NEW c \in Calls, OnlyCall(c), RequestAt(c)', ViewAt(c)'
    PROVE  ControlOK'
<1> SUFFICES ASSUME NEW d \in Calls, d # c PROVE RequestAt(d)' /\ ViewAt(d)'
  BY DEF ControlOK
<1>1. RequestAt(d) /\ ViewAt(d)
  BY DEF ControlOK
<1>2. /\ pc'[d] = pc[d] /\ req'[d] = req[d] /\ privileged'[d] = privileged[d]
      /\ told'[d] = told[d] /\ view'[d] = view[d] /\ result'[d] = result[d]
  BY DEF OnlyCall
<1>3. RequestAt(d)'
  BY <1>1, <1>2 DEF RequestAt, PolicyCall
<1>4. ViewAt(d)'
  BY <1>1, <1>2 DEF ViewAt
<1> QED BY <1>3, <1>4

\* What the three building blocks of a step do to the types.
LEMMA StepTypes ==
    ASSUME TypeOK, NEW c \in Calls
    PROVE  /\ \A label \in Labels : Go(c, label) => pc' \in [Calls -> Labels]
           /\ \A errs \in SUBSET Errors : Return(c, errs) =>
                 /\ pc' \in [Calls -> Labels]
                 /\ result' \in [Calls -> [out : {"none", "ok", "error"},
                                           errs : SUBSET Errors]]
           /\ \A acquired, released \in SUBSET (KeyHandles \cup FreshHandles) :
                 Handles(c, acquired, released) =>
                   /\ live' \in [Calls -> SUBSET (KeyHandles \cup FreshHandles)]
                   /\ misuse' \subseteq Calls
           /\ \A deleted \in BOOLEAN : HandlesAfterDelete(c, deleted) =>
                 /\ live' \in [Calls -> SUBSET (KeyHandles \cup FreshHandles)]
                 /\ misuse' \subseteq Calls
<1>1. \A label \in Labels : Go(c, label) => pc' \in [Calls -> Labels]
  BY DEF TypeOK, Go
<1>2. \A errs \in SUBSET Errors : Return(c, errs) =>
        /\ pc' \in [Calls -> Labels]
        /\ result' \in [Calls -> [out : {"none", "ok", "error"},
                                  errs : SUBSET Errors]]
  BY DEF TypeOK, Return, Go, Labels
<1>3. \A acquired, released \in SUBSET (KeyHandles \cup FreshHandles) :
        Handles(c, acquired, released) =>
          /\ live' \in [Calls -> SUBSET (KeyHandles \cup FreshHandles)]
          /\ misuse' \subseteq Calls
  BY DEF TypeOK, Handles
<1>4. \A deleted \in BOOLEAN : HandlesAfterDelete(c, deleted) =>
        /\ live' \in [Calls -> SUBSET (KeyHandles \cup FreshHandles)]
        /\ misuse' \subseteq Calls
  BY DEF TypeOK, HandlesAfterDelete
<1> QED BY <1>1, <1>2, <1>3, <1>4

LEMMA CoreInit == Init => CoreInv
<1> SUFFICES ASSUME Init PROVE CoreInv
  OBVIOUS
<1>1. TypeOK
  BY KeyAssumption DEF Init, TypeOK, Labels, NoResult
<1>2. ControlOK
  BY DEF Init, ControlOK, RequestAt, ViewAt, PolicyCall, CreateLabels,
         ApplyLabels, KeyLabels
<1> QED BY <1>1, <1>2 DEF CoreInv

LEMMA BeginPolicyCore ==
    ASSUME CoreInv, NEW c \in Calls, BeginPolicy(c)
    PROVE  TypeOK' /\ RequestAt(c)' /\ ViewAt(c)'
<1>1. TypeOK'
  <2>1. req' \in [Calls -> AllRequests \cup {NoRequest}]
    BY KeyAssumption DEF CoreInv, TypeOK, BeginPolicy
  <2>2. pc' \in [Calls -> Labels]
    BY DEF CoreInv, TypeOK, BeginPolicy, Go, Return, Labels
  <2>3. result' \in [Calls -> [out : {"none", "ok", "error"}, errs : SUBSET Errors]]
    BY DEF CoreInv, TypeOK, BeginPolicy, Return, Errors
  <2> QED BY <2>1, <2>2, <2>3 DEF CoreInv, TypeOK, BeginPolicy
<1>2. RequestAt(c)'
  BY KeyAssumption DEF CoreInv, TypeOK, ControlOK, BeginPolicy, Go, Return, RequestAt,
     PolicyCall, CreateLabels, ApplyLabels
<1>3. ViewAt(c)'
  BY DEF CoreInv, TypeOK, ControlOK, BeginPolicy, Go, Return, ViewAt, CreateLabels,
     ApplyLabels, KeyLabels
<1> QED BY <1>1, <1>2, <1>3

LEMMA BeginLegacyCore ==
    ASSUME CoreInv, NEW c \in Calls, BeginLegacy(c)
    PROVE  TypeOK' /\ RequestAt(c)' /\ ViewAt(c)'
<1>1. TypeOK'
  BY KeyAssumption DEF CoreInv, TypeOK, BeginLegacy, Go, Labels
<1>2. RequestAt(c)'
  BY KeyAssumption DEF CoreInv, TypeOK, ControlOK, BeginLegacy, Go, RequestAt,
     PolicyCall, LegacyOps, PolicyOps, CreateLabels, ApplyLabels
<1>3. ViewAt(c)'
  BY DEF CoreInv, TypeOK, ControlOK, BeginLegacy, Go, ViewAt, CreateLabels,
     ApplyLabels, KeyLabels
<1> QED BY <1>1, <1>2, <1>3

LEMMA CheckPrivilegeCore ==
    ASSUME CoreInv, NEW c \in Calls, CheckPrivilege(c)
    PROVE  TypeOK' /\ RequestAt(c)' /\ ViewAt(c)'
<1>1. TypeOK'
  <2>1. privileged' \in [Calls -> BOOLEAN]
    BY DEF CoreInv, TypeOK, CheckPrivilege, IsPrivileged
  <2>2. pc' \in [Calls -> Labels]
    BY DEF CoreInv, TypeOK, CheckPrivilege, Go, Return, Labels
  <2>3. result' \in [Calls -> [out : {"none", "ok", "error"}, errs : SUBSET Errors]]
    BY DEF CoreInv, TypeOK, CheckPrivilege, Return, Errors
  <2> QED BY <2>1, <2>2, <2>3 DEF CoreInv, TypeOK, CheckPrivilege
<1>2. RequestAt(c)'
  <2>1. /\ RequestAt(c) /\ pc[c] = "privilege" /\ req' = req
        /\ pc'[c] \in {"open", "done"}
    BY DEF CoreInv, TypeOK, ControlOK, CheckPrivilege, Go, Return
  <2>2. privileged'[c] => IsPrivileged(req[c].token)
    BY DEF CoreInv, TypeOK, CheckPrivilege
  <2>3. pc'[c] = "open" /\ req[c].op = "ApplyPolicy" => privileged'[c]
    BY DEF CoreInv, TypeOK, CheckPrivilege, Go, Return
  <2> QED BY <2>1, <2>2, <2>3 DEF RequestAt, PolicyCall, CreateLabels, ApplyLabels
<1>3. ViewAt(c)'
  BY DEF CoreInv, TypeOK, ControlOK, CheckPrivilege, Go, Return, ViewAt, CreateLabels,
     ApplyLabels, KeyLabels
<1> QED BY <1>1, <1>2, <1>3

LEMMA StoreOpenCore ==
    ASSUME CoreInv, NEW c \in Calls, StoreOpen(c)
    PROVE  TypeOK' /\ RequestAt(c)' /\ ViewAt(c)'
<1>1. TypeOK'
  <2>1. pc' \in [Calls -> Labels]
    BY DEF CoreInv, TypeOK, StoreOpen, Go, Return, Labels
  <2>2. result' \in [Calls -> [out : {"none", "ok", "error"}, errs : SUBSET Errors]]
    <3>1. UNCHANGED result \/ \E errs \in SUBSET Errors : Return(c, errs)
      BY OutcomeTypes DEF StoreOpen, Errors
    <3> QED BY <3>1, StepTypes DEF CoreInv, TypeOK
  <2>3. /\ live' \in [Calls -> SUBSET (KeyHandles \cup FreshHandles)]
        /\ misuse' \subseteq Calls
    <3>1. Handles(c, KeyHandles, {}) \/ Handles(c, {"provider"}, {"provider"})
      BY DEF StoreOpen
    <3> QED BY <3>1 DEF CoreInv, TypeOK, Handles, KeyHandles, FreshHandles
  <2>4. view' \in [Calls -> Keys \cup {NoKey}]
    BY DEF CoreInv, TypeOK, StoreOpen
  <2>5. told' \in [Calls -> {"nothing", "opened", "NotFound", "Other"}]
    BY OutcomeTypes DEF CoreInv, TypeOK, StoreOpen
  <2> QED BY <2>1, <2>2, <2>3, <2>4, <2>5 DEF CoreInv, TypeOK, StoreOpen
<1>2. RequestAt(c)'
  BY DEF CoreInv, TypeOK, ControlOK, StoreOpen, Go, Return, RequestAt, Legacy, AllRequests,
     PolicyCall, CreateLabels, ApplyLabels, PolicyOps, LegacyOps
<1>3. ViewAt(c)'
  BY OpenedExists DEF CoreInv, TypeOK, ControlOK, StoreOpen, Go, Return, ViewAt, CreateLabels,
     ApplyLabels, KeyLabels
<1> QED BY <1>1, <1>2, <1>3

LEMMA LegacyOpenCore ==
    ASSUME CoreInv, NEW c \in Calls, LegacyOpen(c)
    PROVE  TypeOK' /\ RequestAt(c)' /\ ViewAt(c)'
<1>1. TypeOK'
  <2>1. pc' \in [Calls -> Labels]
    BY DEF CoreInv, TypeOK, LegacyOpen, Go, Return, Labels
  <2>2. result' \in [Calls -> [out : {"none", "ok", "error"}, errs : SUBSET Errors]]
    BY OutcomeTypes DEF CoreInv, TypeOK, LegacyOpen, Return, Errors
  <2>3. /\ live' \in [Calls -> SUBSET (KeyHandles \cup FreshHandles)]
        /\ misuse' \subseteq Calls
    <3>1. \E acquired, released \in SUBSET (KeyHandles \cup FreshHandles) :
             Handles(c, acquired, released)
      BY DEF LegacyOpen, KeyHandles
    <3> QED BY <3>1, StepTypes DEF CoreInv
  <2>4. view' \in [Calls -> Keys \cup {NoKey}]
    BY DEF CoreInv, TypeOK, LegacyOpen
  <2> QED BY <2>1, <2>2, <2>3, <2>4 DEF CoreInv, TypeOK, LegacyOpen
<1>2. RequestAt(c)'
  BY DEF CoreInv, TypeOK, ControlOK, LegacyOpen, Go, Return, RequestAt, Legacy, AllRequests,
     PolicyCall, CreateLabels, ApplyLabels, PolicyOps, LegacyOps, Policies
<1>3. ViewAt(c)'
  BY OpenedExists DEF CoreInv, TypeOK, ControlOK, LegacyOpen, Go, Return, ViewAt, CreateLabels,
     ApplyLabels, KeyLabels
<1> QED BY <1>1, <1>2, <1>3

LEMMA CheckExistingCore ==
    ASSUME CoreInv, NEW c \in Calls, CheckExisting(c)
    PROVE  TypeOK' /\ RequestAt(c)' /\ ViewAt(c)'
<1>1. TypeOK'
  <2>1. PICK errs \in CheckKeyPolicy(c, req[c].want) :
          \/ Go(c, "signer") /\ Handles(c, {}, {}) /\ UNCHANGED result
          \/ Return(c, errs) /\ Handles(c, {}, KeyHandles)
    BY DEF CheckExisting
  <2>2. errs \in SUBSET Errors
    BY OutcomeTypes
  <2> QED BY <2>1, <2>2, StepTypes DEF CoreInv, TypeOK, CheckExisting, Labels
<1>2. RequestAt(c)'
  BY DEF CoreInv, TypeOK, ControlOK, CheckExisting, Go, Return, RequestAt,
     PolicyCall, CreateLabels, ApplyLabels
<1>3. ViewAt(c)'
  BY DEF CoreInv, TypeOK, ControlOK, CheckExisting, Go, Return, ViewAt, CreateLabels,
     ApplyLabels, KeyLabels
<1> QED BY <1>1, <1>2, <1>3

LEMMA VerifyCreatedCore ==
    ASSUME CoreInv, NEW c \in Calls, VerifyCreated(c)
    PROVE  TypeOK' /\ RequestAt(c)' /\ ViewAt(c)'
<1>1. TypeOK'
  <2>1. PICK errs \in CheckKeyPolicy(c, req[c].want) :
          \/ Go(c, "signer") /\ UNCHANGED result
          \/ Go(c, "cleanup") /\ result' = [result EXCEPT ![c].errs = errs]
    BY DEF VerifyCreated
  <2>2. errs \in SUBSET Errors
    BY OutcomeTypes
  <2>3. result' \in [Calls -> [out : {"none", "ok", "error"}, errs : SUBSET Errors]]
    <3>1. result' = result \/ result' = [result EXCEPT ![c].errs = errs]
      BY <2>1
    <3>2. [result[c] EXCEPT !.errs = errs] \in
            [out : {"none", "ok", "error"}, errs : SUBSET Errors]
      BY <2>2 DEF CoreInv, TypeOK
    <3> QED BY <3>1, <3>2 DEF CoreInv, TypeOK
  <2>4. pc' \in [Calls -> Labels]
    BY <2>1, StepTypes DEF CoreInv, Labels
  <2> QED BY <2>3, <2>4 DEF CoreInv, TypeOK, VerifyCreated
<1>2. RequestAt(c)'
  BY DEF CoreInv, TypeOK, ControlOK, VerifyCreated, Go, RequestAt,
     PolicyCall, CreateLabels, ApplyLabels
<1>3. ViewAt(c)'
  BY DEF CoreInv, TypeOK, ControlOK, VerifyCreated, Go, ViewAt, CreateLabels,
     ApplyLabels, KeyLabels
<1> QED BY <1>1, <1>2, <1>3

LEMMA ExamineCore ==
    ASSUME CoreInv, NEW c \in Calls, Examine(c)
    PROVE  TypeOK' /\ RequestAt(c)' /\ ViewAt(c)'
<1>1. TypeOK'
  <2>1. PICK errs \in Decisions(c) :
          \/ Go(c, "write") /\ Handles(c, {}, {}) /\ UNCHANGED result
          \/ errs # {"write"} /\ Return(c, errs) /\ Handles(c, {}, KeyHandles)
    BY DEF Examine
  <2>2. errs # {"write"} => errs \in SUBSET Errors
    BY OutcomeTypes
  <2> QED BY <2>1, <2>2, StepTypes DEF CoreInv, TypeOK, Examine, Labels
<1>2. RequestAt(c)'
  BY DEF CoreInv, TypeOK, ControlOK, Examine, Go, Return, Handles, RequestAt, PolicyCall,
     CreateLabels, ApplyLabels
<1>3. ViewAt(c)'
  BY DEF CoreInv, TypeOK, ControlOK, Examine, Go, Return, Handles, ViewAt, CreateLabels,
     ApplyLabels, KeyLabels
<1> QED BY <1>1, <1>2, <1>3

LEMMA WriteDescriptorCore ==
    ASSUME CoreInv, NEW c \in Calls, WriteDescriptor(c)
    PROVE  TypeOK' /\ RequestAt(c)' /\ ViewAt(c)'
<1>1. /\ store' \in Keys \cup {NoKey}
      /\ view' \in [Calls -> Keys \cup {NoKey}]
      /\ view'[c] \in Keys
  <2>1. view[c] \in Keys /\ req[c].want \in Policies
    BY DEF CoreInv, TypeOK, ControlOK, ViewAt, RequestAt, KeyLabels, ApplyLabels,
           WriteDescriptor
  <2>2. CASE UNCHANGED <<store, view>>
    BY <2>1, <2>2 DEF CoreInv, TypeOK
  <2>3. CASE ~UNCHANGED <<store, view>>
    <3>1. store \in Keys
      BY <2>3 DEF CoreInv, TypeOK, WriteDescriptor, SameKey
    <3>2. PICK sd \in PersistedForms(Requested(req[c].want)) :
            /\ store' = [store EXCEPT !.sd = sd]
            /\ \E seen \in {Requested(req[c].want), sd} :
                  view' = [view EXCEPT ![c].sd = seen]
      BY <2>3 DEF WriteDescriptor
    <3>3. PICK seen \in {Requested(req[c].want), sd} :
            view' = [view EXCEPT ![c].sd = seen]
      BY <3>2
    <3>4. sd \in Descriptors /\ seen \in Descriptors
      BY <2>1, <3>2, <3>3, RequestedType, PersistedFormsType
    <3>5. store' \in Keys
      BY <3>1, <3>2, <3>4 DEF Keys
    <3>6. [view[c] EXCEPT !.sd = seen] \in Keys
      BY <2>1, <3>4 DEF Keys
    <3> QED BY <3>3, <3>5, <3>6 DEF CoreInv, TypeOK
  <2> QED BY <2>2, <2>3
<1>2. TypeOK'
  <2>1. /\ pc' \in [Calls -> Labels]
        /\ result' \in [Calls -> [out : {"none", "ok", "error"}, errs : SUBSET Errors]]
        /\ live' \in [Calls -> SUBSET (KeyHandles \cup FreshHandles)]
        /\ misuse' \subseteq Calls
    BY StepTypes DEF CoreInv, TypeOK, WriteDescriptor, Labels, Errors
  <2> QED BY <1>1, <2>1 DEF CoreInv, TypeOK, WriteDescriptor
<1>3. RequestAt(c)'
  BY DEF CoreInv, TypeOK, ControlOK, WriteDescriptor, Go, Return, RequestAt, PolicyCall,
     CreateLabels, ApplyLabels
<1>4. ViewAt(c)'
  <2>1. pc'[c] \in {"readback", "done"}
    BY DEF CoreInv, TypeOK, WriteDescriptor, Go, Return
  <2> QED BY <1>1, <2>1, KeyAssumption DEF ViewAt, CreateLabels
<1> QED BY <1>2, <1>3, <1>4

LEMMA ReadBackCore ==
    ASSUME CoreInv, NEW c \in Calls, ReadBack(c)
    PROVE  TypeOK' /\ RequestAt(c)' /\ ViewAt(c)'
<1>1. TypeOK'
  BY StepTypes DEF CoreInv, TypeOK, ReadBack, Labels, Errors
<1>2. RequestAt(c)'
  BY DEF CoreInv, TypeOK, ControlOK, ReadBack, Go, Return, Handles, RequestAt, PolicyCall,
     CreateLabels, ApplyLabels
<1>3. ViewAt(c)'
  BY DEF CoreInv, TypeOK, ControlOK, ReadBack, Go, Return, Handles, ViewAt, CreateLabels,
     ApplyLabels, KeyLabels
<1> QED BY <1>1, <1>2, <1>3

LEMMA ReopenCore ==
    ASSUME CoreInv, NEW c \in Calls, Reopen(c)
    PROVE  TypeOK' /\ RequestAt(c)' /\ ViewAt(c)'
<1>1. TypeOK'
  <2>1. view' \in [Calls -> Keys \cup {NoKey}]
    BY DEF CoreInv, TypeOK, Reopen
  <2>2. /\ pc' \in [Calls -> Labels]
        /\ result' \in [Calls -> [out : {"none", "ok", "error"}, errs : SUBSET Errors]]
        /\ live' \in [Calls -> SUBSET (KeyHandles \cup FreshHandles)]
        /\ misuse' \subseteq Calls
    BY StepTypes DEF CoreInv, TypeOK, Reopen, Labels, Errors, FreshHandles
  <2> QED BY <2>1, <2>2 DEF CoreInv, TypeOK, Reopen
<1>2. RequestAt(c)'
  BY DEF CoreInv, TypeOK, ControlOK, Reopen, Go, Return, Handles, RequestAt, PolicyCall,
     CreateLabels, ApplyLabels
<1>3. ViewAt(c)'
  BY OpenedExists DEF CoreInv, TypeOK, ControlOK, Reopen, Go, Return, Handles, ViewAt, CreateLabels,
     ApplyLabels, KeyLabels
<1> QED BY <1>1, <1>2, <1>3

LEMMA RecheckCore ==
    ASSUME CoreInv, NEW c \in Calls, Recheck(c)
    PROVE  TypeOK' /\ RequestAt(c)' /\ ViewAt(c)'
<1>1. TypeOK'
  BY StepTypes DEF CoreInv, TypeOK, Recheck, Errors
<1>2. RequestAt(c)'
  BY DEF CoreInv, TypeOK, ControlOK, Recheck, Go, Return, Handles, RequestAt, PolicyCall,
     CreateLabels, ApplyLabels
<1>3. ViewAt(c)'
  BY DEF CoreInv, TypeOK, ControlOK, Recheck, Go, Return, Handles, ViewAt, CreateLabels,
     ApplyLabels, KeyLabels
<1> QED BY <1>1, <1>2, <1>3

LEMMA LegacyCheckCore ==
    ASSUME CoreInv, NEW c \in Calls, LegacyCheck(c)
    PROVE  TypeOK' /\ RequestAt(c)' /\ ViewAt(c)'
<1>1. TypeOK'
  <2>1. PICK errs \in ValidatePersistedKey(c) :
          \/ Go(c, "signer") /\ Handles(c, {}, {}) /\ UNCHANGED result
          \/ Return(c, errs) /\ Handles(c, {}, KeyHandles)
    BY DEF LegacyCheck
  <2>2. errs \in SUBSET Errors
    BY OutcomeTypes
  <2> QED BY <2>1, <2>2, StepTypes DEF CoreInv, TypeOK, LegacyCheck, Labels, Errors
<1>2. RequestAt(c)'
  BY DEF CoreInv, TypeOK, ControlOK, LegacyCheck, Go, Return, Handles, RequestAt, PolicyCall,
     CreateLabels, ApplyLabels
<1>3. ViewAt(c)'
  BY DEF CoreInv, TypeOK, ControlOK, LegacyCheck, Go, Return, Handles, ViewAt, CreateLabels,
     ApplyLabels, KeyLabels
<1> QED BY <1>1, <1>2, <1>3

LEMMA LegacyVerifyCreatedCore ==
    ASSUME CoreInv, NEW c \in Calls, LegacyVerifyCreated(c)
    PROVE  TypeOK' /\ RequestAt(c)' /\ ViewAt(c)'
<1>1. TypeOK'
  <2>1. PICK errs \in ValidatePersistedKey(c) :
          \/ Go(c, "signer") /\ UNCHANGED result
          \/ Go(c, "cleanup") /\ result' = [result EXCEPT ![c].errs = errs]
    BY DEF LegacyVerifyCreated
  <2>2. errs \in SUBSET Errors
    BY OutcomeTypes
  <2>3. result' \in [Calls -> [out : {"none", "ok", "error"}, errs : SUBSET Errors]]
    <3>1. result' = result \/ result' = [result EXCEPT ![c].errs = errs]
      BY <2>1
    <3>2. [result[c] EXCEPT !.errs = errs] \in
            [out : {"none", "ok", "error"}, errs : SUBSET Errors]
      BY <2>2 DEF CoreInv, TypeOK
    <3> QED BY <3>1, <3>2 DEF CoreInv, TypeOK
  <2>4. pc' \in [Calls -> Labels]
    BY <2>1, StepTypes DEF CoreInv, Labels
  <2> QED BY <2>3, <2>4 DEF CoreInv, TypeOK, LegacyVerifyCreated
<1>2. RequestAt(c)'
  BY DEF CoreInv, TypeOK, ControlOK, LegacyVerifyCreated, Go, RequestAt, PolicyCall,
     CreateLabels, ApplyLabels
<1>3. ViewAt(c)'
  BY DEF CoreInv, TypeOK, ControlOK, LegacyVerifyCreated, Go, ViewAt, CreateLabels,
     ApplyLabels, KeyLabels
<1> QED BY <1>1, <1>2, <1>3

LEMMA DeleteKeyCore ==
    ASSUME CoreInv, NEW c \in Calls, DeleteKey(c)
    PROVE  TypeOK' /\ RequestAt(c)' /\ ViewAt(c)'
<1>1. TypeOK'
  BY StepTypes DEF CoreInv, TypeOK, DeleteKey, Errors
<1>2. RequestAt(c)'
  BY DEF CoreInv, TypeOK, ControlOK, DeleteKey, Go, Return, Handles, RequestAt, PolicyCall,
     CreateLabels, ApplyLabels
<1>3. ViewAt(c)'
  BY DEF CoreInv, TypeOK, ControlOK, DeleteKey, Go, Return, Handles, ViewAt, CreateLabels,
     ApplyLabels, KeyLabels
<1> QED BY <1>1, <1>2, <1>3

LEMMA MakeSignerCore ==
    ASSUME CoreInv, NEW c \in Calls, MakeSigner(c)
    PROVE  TypeOK' /\ RequestAt(c)' /\ ViewAt(c)'
<1>1. TypeOK'
  <2>1. signer' \in [Calls -> SUBSET KeyHandles]
    BY DEF CoreInv, TypeOK, MakeSigner
  <2> QED BY <2>1, StepTypes DEF CoreInv, TypeOK, MakeSigner, Errors
<1>2. RequestAt(c)'
  BY DEF CoreInv, TypeOK, ControlOK, MakeSigner, Go, Return, Handles, RequestAt, PolicyCall,
     CreateLabels, ApplyLabels
<1>3. ViewAt(c)'
  BY DEF CoreInv, TypeOK, ControlOK, MakeSigner, Go, Return, Handles, ViewAt, CreateLabels,
     ApplyLabels, KeyLabels
<1> QED BY <1>1, <1>2, <1>3

LEMMA CreateUnfinalizedCore ==
    ASSUME CoreInv, NEW c \in Calls, CreateUnfinalized(c)
    PROVE  TypeOK' /\ RequestAt(c)' /\ ViewAt(c)'
<1>1. TypeOK'
  <2>1. view' \in [Calls -> Keys \cup {NoKey}]
    BY KeyAssumption DEF CoreInv, TypeOK, CreateUnfinalized, Keys, Profiles
  <2>2. CreateProvider(c) \subseteq KeyHandles
    BY DEF CreateProvider, KeyHandles
  <2>3. /\ pc' \in [Calls -> Labels]
        /\ result' \in [Calls -> [out : {"none", "ok", "error"}, errs : SUBSET Errors]]
        /\ live' \in [Calls -> SUBSET (KeyHandles \cup FreshHandles)]
        /\ misuse' \subseteq Calls
    BY <2>2, StepTypes DEF CoreInv, TypeOK, CreateUnfinalized, Labels, Errors, KeyHandles
  <2> QED BY <2>1, <2>3 DEF CoreInv, TypeOK, CreateUnfinalized
<1>2. RequestAt(c)'
  BY DEF CoreInv, TypeOK, ControlOK, CreateUnfinalized, Go, Return, Handles, RequestAt, PolicyCall,
     CreateLabels, ApplyLabels
<1>3. ViewAt(c)'
  BY KeyAssumption DEF CoreInv, TypeOK, ControlOK, CreateUnfinalized, Go, Return, Handles, ViewAt, CreateLabels,
     ApplyLabels, KeyLabels, Keys, Profiles
<1> QED BY <1>1, <1>2, <1>3

LEMMA ConfigureKeyCore ==
    ASSUME CoreInv, NEW c \in Calls, ConfigureKey(c)
    PROVE  TypeOK' /\ RequestAt(c)' /\ ViewAt(c)'
<1>1. TypeOK'
  <2>1. req[c].want \in Policies /\ view[c] \in Keys
    BY DEF CoreInv, TypeOK, ControlOK, RequestAt, ViewAt, CreateLabels, KeyLabels,
           ConfigureKey
  <2>2. view' \in [Calls -> Keys \cup {NoKey}]
    <3>1. [view[c] EXCEPT !.sd = Requested(req[c].want), !.profile = "strong"] \in Keys
      BY <2>1, RequestedType DEF Keys, Profiles
    <3>2. view \in [Calls -> Keys \cup {NoKey}]
      BY DEF CoreInv, TypeOK
    <3>3. \/ view' = view
          \/ view' = [view EXCEPT ![c].sd = Requested(req[c].want),
                                  ![c].profile = "strong"]
      BY DEF ConfigureKey
    <3> QED BY <3>1, <3>2, <3>3
  <2> QED BY <2>2, StepTypes DEF CoreInv, TypeOK, ConfigureKey, Labels, Errors
<1>2. RequestAt(c)'
  BY DEF CoreInv, TypeOK, ControlOK, ConfigureKey, Go, Return, Handles, RequestAt, PolicyCall,
     CreateLabels, ApplyLabels
<1>3. ViewAt(c)'
  <2>1. view[c] \in Keys /\ view[c].maker = c
    BY DEF CoreInv, TypeOK, ControlOK, ViewAt, CreateLabels, KeyLabels, ConfigureKey
  <2>2. CASE pc'[c] = "done"
    BY <2>2 DEF ViewAt, KeyLabels, ApplyLabels, CreateLabels
  <2>3. CASE pc'[c] # "done"
    <3>1. /\ pc'[c] = "finalize" /\ req'[c] = req[c]
          /\ view'[c] = [view[c] EXCEPT !.sd = Requested(req[c].want),
                                       !.profile = "strong"]
      BY <2>3 DEF CoreInv, TypeOK, ConfigureKey, Go, Return
    <3>2. /\ view'[c] \in Keys /\ view'[c].maker = c /\ view'[c].profile = "strong"
          /\ view'[c].sd = Requested(req[c].want)
      <4>1. req[c].want \in Policies
        BY DEF CoreInv, ControlOK, RequestAt, CreateLabels, ConfigureKey
      <4> QED BY <2>1, <3>1, <4>1, RequestedType DEF Keys, Profiles
    <3> QED BY <3>1, <3>2, KeyAssumption DEF ViewAt, CreateLabels
  <2> QED BY <2>2, <2>3
<1> QED BY <1>1, <1>2, <1>3

LEMMA FinalizeKeyCore ==
    ASSUME CoreInv, NEW c \in Calls, FinalizeKey(c)
    PROVE  TypeOK' /\ RequestAt(c)' /\ ViewAt(c)'
<1>1. TypeOK'
  <2>1. view[c] \in Keys
    BY DEF CoreInv, TypeOK, ControlOK, ViewAt, KeyLabels, FinalizeKey
  <2>2. /\ store' \in Keys \cup {NoKey}
        /\ view' \in [Calls -> Keys \cup {NoKey}]
    <3>1. \A sd \in Descriptors : [view[c] EXCEPT !.sd = sd] \in Keys
      BY <2>1 DEF Keys
    <3>2. PersistedForms(view[c].sd) \subseteq Descriptors
      BY <2>1, PersistedFormsType DEF Keys
    <3>3. store \in Keys \cup {NoKey} /\ view \in [Calls -> Keys \cup {NoKey}]
      BY DEF CoreInv, TypeOK
    <3>4. UNCHANGED <<store, view>> \/ Persist(c)
      BY DEF FinalizeKey
    <3> QED BY <3>1, <3>2, <3>3, <3>4 DEF Persist
  <2>3. pc' \in [Calls -> Labels]
    BY StepTypes DEF CoreInv, FinalizeKey, Labels
  <2>4. result' \in [Calls -> [out : {"none", "ok", "error"}, errs : SUBSET Errors]]
    <3>1. result' = result \/ result' = [result EXCEPT ![c].errs = {"Other"}]
      BY DEF FinalizeKey
    <3>2. result \in [Calls -> [out : {"none", "ok", "error"}, errs : SUBSET Errors]]
      BY DEF CoreInv, TypeOK
    <3> QED BY <3>1, <3>2 DEF Errors
  <2> QED BY <2>2, <2>3, <2>4 DEF CoreInv, TypeOK, FinalizeKey
<1>2. RequestAt(c)'
  BY DEF CoreInv, TypeOK, ControlOK, FinalizeKey, Persist, Go, RequestAt, PolicyCall,
     CreateLabels, ApplyLabels
<1>3. ViewAt(c)'
  <2>1. /\ view[c] \in Keys /\ view[c].maker = c /\ view[c].profile = "strong"
    BY DEF CoreInv, TypeOK, ControlOK, ViewAt, CreateLabels, KeyLabels, FinalizeKey
  <2>2. /\ pc'[c] \in {"verify", "cleanup"}
        /\ pc'[c] = "cleanup" => result'[c].errs = {"Other"}
    BY DEF CoreInv, TypeOK, FinalizeKey, Go
  <2>3. view'[c] = view[c] \/ \E sd \in Descriptors : view'[c] = [view[c] EXCEPT !.sd = sd]
    BY <2>1, PersistedFormsType DEF CoreInv, TypeOK, FinalizeKey, Persist, Keys
  <2>4. view'[c] \in Keys /\ view'[c].maker = c /\ view'[c].profile = "strong"
    BY <2>1, <2>3 DEF Keys
  <2> QED BY <2>2, <2>4, KeyAssumption DEF ViewAt
<1> QED BY <1>1, <1>2, <1>3

LEMMA CleanupCreatedKeyCore ==
    ASSUME CoreInv, NEW c \in Calls, CleanupCreatedKey(c)
    PROVE  TypeOK' /\ RequestAt(c)' /\ ViewAt(c)'
<1>1. TypeOK'
  <2>1. result[c].errs \in SUBSET Errors
    BY DEF CoreInv, TypeOK
  <2>2. result[c].errs \cup {"Cleanup"} \in SUBSET Errors
    BY <2>1 DEF Errors
  <2> QED BY <2>1, <2>2, StepTypes DEF CoreInv, TypeOK, CleanupCreatedKey
<1>2. RequestAt(c)'
  BY DEF CoreInv, TypeOK, ControlOK, CleanupCreatedKey, Go, Return, Handles, RequestAt, PolicyCall,
     CreateLabels, ApplyLabels
<1>3. ViewAt(c)'
  BY DEF CoreInv, TypeOK, ControlOK, CleanupCreatedKey, Go, Return, Handles, ViewAt, CreateLabels,
     ApplyLabels, KeyLabels
<1> QED BY <1>1, <1>2, <1>3

LEMMA CloseSignerCore ==
    ASSUME CoreInv, NEW c \in Calls, CloseSigner(c)
    PROVE  TypeOK' /\ RequestAt(c)' /\ ViewAt(c)'
<1>1. TypeOK'
  BY StepTypes DEF CoreInv, TypeOK, CloseSigner, KeyHandles
<1>2. RequestAt(c)'
  BY DEF CoreInv, TypeOK, ControlOK, CloseSigner, Handles, RequestAt, PolicyCall,
     CreateLabels, ApplyLabels
<1>3. ViewAt(c)'
  BY DEF CoreInv, TypeOK, ControlOK, CloseSigner, Handles, ViewAt, CreateLabels,
     ApplyLabels, KeyLabels
<1> QED BY <1>1, <1>2, <1>3

LEMMA CrashCore ==
    ASSUME CoreInv, NEW c \in Calls, Crash(c)
    PROVE  TypeOK' /\ RequestAt(c)' /\ ViewAt(c)'
<1>1. TypeOK'
  BY StepTypes DEF CoreInv, TypeOK, Crash, Labels
<1>2. RequestAt(c)'
  BY DEF CoreInv, TypeOK, ControlOK, Crash, Go, Active, RequestAt, PolicyCall,
     CreateLabels, ApplyLabels
<1>3. ViewAt(c)'
  BY DEF CoreInv, TypeOK, ControlOK, Crash, Go, Active, ViewAt, CreateLabels,
     ApplyLabels, KeyLabels
<1> QED BY <1>1, <1>2, <1>3

LEMMA CoreStep ==
    ASSUME CoreInv, NEW c \in Calls, Step(c)
    PROVE  TypeOK' /\ RequestAt(c)' /\ ViewAt(c)'
<1>1. CASE BeginLegacy(c) \/ BeginPolicy(c) \/ CloseSigner(c) \/ Crash(c)
  BY <1>1, BeginLegacyCore, BeginPolicyCore, CloseSignerCore, CrashCore
<1>2. CASE NativeStep(c)
  BY <1>2, MakeSignerCore, CreateUnfinalizedCore, ConfigureKeyCore, FinalizeKeyCore,
     CleanupCreatedKeyCore DEF NativeStep
<1>3. CASE LegacyStep(c)
  BY <1>3, LegacyOpenCore, LegacyCheckCore, LegacyVerifyCreatedCore, DeleteKeyCore
     DEF LegacyStep
<1>4. CASE PolicyStep(c)
  BY <1>4, CheckPrivilegeCore, StoreOpenCore, CheckExistingCore, VerifyCreatedCore,
     ExamineCore, WriteDescriptorCore, ReadBackCore, ReopenCore, RecheckCore
     DEF PolicyStep
<1> QED BY <1>1, <1>2, <1>3, <1>4 DEF Step, CallStep

LEMMA CoreNext == CoreInv /\ [Next]_vars => CoreInv'
<1> SUFFICES ASSUME CoreInv, [Next]_vars PROVE CoreInv'
  OBVIOUS
<1>1. CASE UNCHANGED vars
  BY <1>1 DEF vars, CoreInv, TypeOK, ControlOK, RequestAt, ViewAt, PolicyCall
<1>2. CASE Next
  <2>1. PICK c \in Calls : Step(c)
    BY <1>2 DEF Next, Step
  <2>2. TypeOK' /\ RequestAt(c)' /\ ViewAt(c)'
    BY <2>1, CoreStep
  <2>3. ControlOK'
    BY <2>1, <2>2, StepIsOnlyCall, ControlFrame DEF CoreInv
  <2> QED BY <2>2, <2>3 DEF CoreInv
<1> QED BY <1>1, <1>2

\* The invariant all others rest on, for any number of calls, requests and
\* forms the provider persists.
THEOREM CoreCorrect == Spec => []CoreInv
<1>1. Init => CoreInv
  BY CoreInit
<1>2. CoreInv /\ [Next]_vars => CoreInv'
  BY CoreNext
<1> QED BY <1>1, <1>2, PTL DEF Spec

\* No call ever leaves the labels, records and errors of its type, and no
\* created, opened or rewritten key ceases to be a key with a descriptor.
THEOREM TypeCorrect == Spec => []TypeOK
<1>1. CoreInv => TypeOK
  BY DEF CoreInv
<1> QED BY <1>1, CoreCorrect, PTL

\* Whatever the other calls do, a call of the policy API reaches a step that
\* makes or rewrites a key only with a valid policy and a privileged caller.
THEOREM ControlCorrect == Spec => []ControlOK
<1>1. CoreInv => ControlOK
  BY DEF CoreInv
<1> QED BY <1>1, CoreCorrect, PTL

-----------------------------------------------------------------------------
(***************************************************************************)
(* Handles.  HandleDiscipline is preserved by every step from a state in   *)
(* CoreInv, which says which API a call that reaches "create" came from.   *)
(***************************************************************************)

\* What one call holds, and that it has neither lost nor misused a handle.
HandlesAt(c) ==
    /\ c \notin misuse
    /\ live[c] = HeldAt(c)
    /\ signer[c] # {} => pc[c] = "done"

LEMMA HandleCalls ==
    ASSUME TypeOK PROVE HandleDiscipline <=> \A c \in Calls : HandlesAt(c)
BY DEF TypeOK, HandleDiscipline, HandlesAt

\* A step that takes and frees the handles its labels say leaves its call
\* holding what the new label says.
LEMMA HandleFrame ==
    ASSUME TypeOK, TypeOK', HandleDiscipline, NEW c \in Calls, OnlyCall(c),
           HandlesAt(c)', misuse' \subseteq misuse \cup {c}
    PROVE  HandleDiscipline'
<1>1. ASSUME NEW d \in Calls, d # c PROVE HandlesAt(d)'
  <2>1. HandlesAt(d)
    BY HandleCalls
  <2>2. /\ pc'[d] = pc[d] /\ req'[d] = req[d] /\ live'[d] = live[d]
        /\ signer'[d] = signer[d]
    BY <1>1 DEF OnlyCall
  <2>3. HeldAt(d)' = HeldAt(d)
    BY <2>2 DEF HeldAt, Legacy
  <2> QED BY <1>1, <2>1, <2>2, <2>3 DEF HandlesAt
<1>2. misuse' = {}
  BY DEF HandleDiscipline, HandlesAt
<1>3. \A d \in Calls : HandlesAt(d)'
  BY <1>1
<1> QED BY <1>2, <1>3 DEF HandleDiscipline, HandlesAt

LEMMA HandleStep ==
    ASSUME CoreInv, HandleDiscipline, NEW c \in Calls, Step(c)
    PROVE  HandlesAt(c)' /\ misuse' \subseteq misuse \cup {c}
<1> USE DEF KeyLabels, ApplyLabels, KeyHandles, FreshHandles
<1>0. /\ HandlesAt(c)
      /\ misuse = {}
      /\ pc \in [Calls -> Labels] /\ live[c] \subseteq KeyHandles \cup FreshHandles
      /\ live \in [Calls -> SUBSET (KeyHandles \cup FreshHandles)]
      /\ signer \in [Calls -> SUBSET KeyHandles]
      /\ req \in [Calls -> AllRequests \cup {NoRequest}]
  BY HandleCalls DEF CoreInv, TypeOK, HandleDiscipline
<1>1. CASE BeginPolicy(c)
  BY <1>0, <1>1 DEF BeginPolicy, Go, Return, HandlesAt, HeldAt, Legacy
<1>2. CASE BeginLegacy(c)
  BY <1>0, <1>2 DEF BeginLegacy, Go, HandlesAt, HeldAt, Legacy
<1>3. CASE CheckPrivilege(c)
  BY <1>0, <1>3 DEF CheckPrivilege, Go, Return, HandlesAt, HeldAt, Legacy
<1>4. CASE StoreOpen(c)
  BY <1>0, <1>4 DEF StoreOpen, Go, Return, Handles, HandlesAt, HeldAt, Legacy
<1>5. CASE LegacyOpen(c)
  BY <1>0, <1>5 DEF LegacyOpen, Go, Return, Handles, HandlesAt, HeldAt, Legacy
<1>6. CASE CheckExisting(c)
  BY <1>0, <1>6 DEF CheckExisting, Go, Return, Handles, HandlesAt, HeldAt, Legacy
<1>7. CASE VerifyCreated(c)
  BY <1>0, <1>7 DEF VerifyCreated, Go, HandlesAt, HeldAt, Legacy
<1>8. CASE Examine(c)
  BY <1>0, <1>8 DEF Examine, Go, Return, Handles, HandlesAt, HeldAt, Legacy
<1>9. CASE WriteDescriptor(c)
  BY <1>0, <1>9 DEF WriteDescriptor, Go, Return, Handles, HandlesAt, HeldAt, Legacy
<1>10. CASE ReadBack(c)
  BY <1>0, <1>10 DEF ReadBack, Go, Return, Handles, HandlesAt, HeldAt, Legacy
<1>11. CASE Reopen(c)
  BY <1>0, <1>11 DEF Reopen, Go, Return, Handles, HandlesAt, HeldAt, Legacy
<1>12. CASE Recheck(c)
  BY <1>0, <1>12 DEF Recheck, Go, Return, Handles, HandlesAt, HeldAt, Legacy
<1>13. CASE LegacyCheck(c)
  BY <1>0, <1>13 DEF LegacyCheck, Go, Return, Handles, HandlesAt, HeldAt, Legacy
<1>14. CASE LegacyVerifyCreated(c)
  BY <1>0, <1>14 DEF LegacyVerifyCreated, Go, HandlesAt, HeldAt, Legacy
<1>15. CASE DeleteKey(c)
  BY <1>0, <1>15 DEF DeleteKey, Go, Return, HandlesAfterDelete, FreesAfterDelete, HandlesAt, HeldAt, Legacy
<1>16. CASE MakeSigner(c)
  BY <1>0, <1>16 DEF MakeSigner, Go, Return, Handles, HandlesAt, HeldAt, Legacy
<1>17. CASE CreateUnfinalized(c)
  BY <1>0, <1>17 DEF CreateUnfinalized, Go, Return, Handles, CreateProvider, HandlesAt, HeldAt, Legacy
<1>18. CASE ConfigureKey(c)
  BY <1>0, <1>18 DEF ConfigureKey, Go, Return, Handles, HandlesAt, HeldAt, Legacy
<1>19. CASE FinalizeKey(c)
  BY <1>0, <1>19 DEF FinalizeKey, Go, HandlesAt, HeldAt, Legacy
<1>20. CASE CleanupCreatedKey(c)
  BY <1>0, <1>20 DEF CleanupCreatedKey, Go, Return, HandlesAfterDelete, FreesAfterDelete, HandlesAt, HeldAt, Legacy
<1>21. CASE CloseSigner(c)
  BY <1>0, <1>21 DEF CloseSigner, Handles, HandlesAt, HeldAt, Legacy
<1>22. CASE Crash(c)
  BY <1>0, <1>22 DEF Crash, Go, Active, HandlesAt, HeldAt, Legacy
<1> QED
  BY <1>1, <1>2, <1>3, <1>4, <1>5, <1>6, <1>7, <1>8, <1>9, <1>10, <1>11,
     <1>12, <1>13, <1>14, <1>15, <1>16, <1>17, <1>18, <1>19, <1>20, <1>21, <1>22
     DEF Step, CallStep, NativeStep, LegacyStep, PolicyStep

\* No call of any caller ever frees a native handle twice, frees one it does
\* not hold or loses one, and each that returned holds its Signer's handles
\* and nothing else: on every path, for any number of calls.
THEOREM HandlesCorrect == Spec => []HandleDiscipline
<1>1. Init => CoreInv /\ HandleDiscipline
  <2>1. Init => HandleDiscipline
    BY DEF Init, HandleDiscipline, HeldAt, KeyLabels, ApplyLabels
  <2> QED BY <2>1, CoreInit
<1>2. (CoreInv /\ HandleDiscipline) /\ [Next]_vars => (CoreInv /\ HandleDiscipline)'
  <2> SUFFICES ASSUME CoreInv, HandleDiscipline, [Next]_vars
               PROVE  CoreInv' /\ HandleDiscipline'
    OBVIOUS
  <2>1. CoreInv'
    BY CoreNext
  <2>2. CASE UNCHANGED vars
    <3>1. \A c \in Calls : HeldAt(c)' = HeldAt(c)
      BY <2>2 DEF vars, HeldAt, Legacy
    <3> QED BY <2>1, <2>2, <3>1 DEF vars, HandleDiscipline
  <2>3. CASE Next
    <3>1. PICK c \in Calls : Step(c)
      BY <2>3 DEF Next
    <3>2. OnlyCall(c)
      BY <3>1, StepIsOnlyCall DEF CoreInv
    <3>3. HandlesAt(c)' /\ misuse' \subseteq misuse \cup {c}
      BY <3>1, HandleStep
    <3> QED BY <2>1, <3>2, <3>3, HandleFrame DEF CoreInv
  <2> QED BY <2>1, <2>2, <2>3
<1> QED BY <1>1, <1>2, PTL DEF Spec

-----------------------------------------------------------------------------
(***************************************************************************)
(* The persisted key.  One lemma says which steps change it, and how; the  *)
(* theorems about it follow from that lemma and CoreInv.                   *)
(***************************************************************************)
LEMMA StoreChanges ==
    ASSUME CoreInv, NEW c \in Calls, Step(c), store' # store
    PROVE  \/ FinalizeKey(c) /\ store = NoKey /\ Persist(c)
           \/ WriteDescriptor(c) /\ SameKey(c)
                /\ \E sd \in PersistedForms(Requested(req[c].want)) :
                      store' = [store EXCEPT !.sd = sd]
           \/ CleanupCreatedKey(c) /\ SameKey(c) /\ store' = NoKey
                /\ Return(c, result[c].errs)
           \/ DeleteKey(c) /\ store' = NoKey /\ Return(c, {})
<1>1. CASE BeginLegacy(c) \/ BeginPolicy(c) \/ CloseSigner(c) \/ Crash(c)
  BY <1>1 DEF BeginLegacy, BeginPolicy, CloseSigner, Crash
<1>2. CASE NativeStep(c)
  BY <1>2 DEF NativeStep, MakeSigner, CreateUnfinalized, ConfigureKey, FinalizeKey,
     CleanupCreatedKey
<1>3. CASE LegacyStep(c)
  BY <1>3 DEF LegacyStep, LegacyOpen, LegacyCheck, LegacyVerifyCreated, DeleteKey
<1>4. CASE PolicyStep(c)
  BY <1>4 DEF PolicyStep, CheckPrivilege, StoreOpen, CheckExisting, VerifyCreated,
     Examine, WriteDescriptor, ReadBack, Reopen, Recheck
<1> QED BY <1>1, <1>2, <1>3, <1>4 DEF Step, CallStep

\* A key disappears only through a Delete that says so or through the failing
\* call that made it, and is never replaced by another: with any number of
\* calls racing each other, and whatever fails.
THEOREM KeysSurvive == Spec => KeysSurviveFailedCalls
<1>1. CoreInv /\ [Next]_vars => [store # NoKey => KeyRemoval]_vars
  <2> SUFFICES ASSUME CoreInv, Next, store # NoKey PROVE KeyRemoval
    OBVIOUS
  <2>1. PICK c \in Calls : Step(c)
    BY DEF Next
  <2>2. CASE store' = store
    <3>1. store \in Keys /\ store' # NoKey
      BY <2>2 DEF CoreInv, TypeOK
    <3> QED BY <2>2, <3>1 DEF KeyRemoval
  <2>3. CASE store' # store
    <3>1. CASE WriteDescriptor(c) /\ \E sd : store' = [store EXCEPT !.sd = sd]
      <4>1. store \in Keys /\ store' \in Keys \cup {NoKey}
        BY <2>1, CoreStep DEF CoreInv, TypeOK
      <4>2. req[c].want \in Policies
        BY <3>1 DEF CoreInv, ControlOK, RequestAt, ApplyLabels, WriteDescriptor
      <4>3. \E sd \in Descriptors : store' = [store EXCEPT !.sd = sd]
        BY <2>1, <2>3, <3>1, <4>2, StoreChanges, RequestedType, PersistedFormsType
           DEF FinalizeKey, WriteDescriptor, CleanupCreatedKey, DeleteKey
      <4>4. store' \in Keys /\ store'.maker = store.maker /\ store'.profile = store.profile
        BY <4>1, <4>3 DEF Keys
      <4> QED BY <4>4, KeyAssumption DEF KeyRemoval
    <3>2. CASE CleanupCreatedKey(c) /\ SameKey(c) /\ store' = NoKey /\ Return(c, result[c].errs)
      <4>1. view[c].maker = c /\ result[c].errs # {}
        BY <3>2 DEF CoreInv, ControlOK, ViewAt, CreateLabels, CleanupCreatedKey
      <4>2. Returns(c) /\ result'[c].out = "error"
        BY <3>2, <4>1 DEF CoreInv, TypeOK, CleanupCreatedKey, Return, Go, Returns
      <4> QED BY <3>2, <4>1, <4>2 DEF KeyRemoval, SameKey
    <3>3. CASE DeleteKey(c) /\ store' = NoKey /\ Return(c, {})
      <4>1. req[c].op = "Delete"
        BY <3>3 DEF CoreInv, ControlOK, RequestAt, DeleteKey
      <4>2. Returns(c) /\ result'[c].out = "ok"
        BY <3>3 DEF CoreInv, TypeOK, DeleteKey, Return, Go, Returns
      <4> QED BY <3>3, <4>1, <4>2 DEF KeyRemoval
    <3> QED BY <2>1, <2>3, <3>1, <3>2, <3>3, StoreChanges
  <2> QED BY <2>2, <2>3
<1>2. Init => CoreInv
  BY CoreInit
<1>3. CoreInv /\ [Next]_vars => CoreInv'
  BY CoreNext
<1> QED BY <1>1, <1>2, <1>3, PTL DEF Spec, KeysSurviveFailedCalls

\* The policy API never makes or rewrites a key for a caller that is not
\* privileged or for an invalid policy, makes one only where its open was told
\* "not found", and an Open changes nothing.
THEOREM MutationsPrivileged == Spec => MutationNeedsPrivilege
<1> DEFINE Allowed(c) ==
        /\ pc'[c] # pc[c]
        /\ req[c].op \in {"LoadOrCreate", "Delete", "LoadOrCreateWithPolicy", "ApplyPolicy"}
        /\ PolicyCall(c) => IsPrivileged(req[c].token) /\ req[c].want \in Policies
        /\ PolicyCall(c) /\ store = NoKey =>
             req[c].op = "LoadOrCreateWithPolicy" /\ told[c] = "NotFound"
<1>1. CoreInv /\ [Next]_vars => [store' # store => \E c \in Calls : Allowed(c)]_vars
  <2> SUFFICES ASSUME CoreInv, Next, store' # store PROVE \E c \in Calls : Allowed(c)
    OBVIOUS
  <2>1. PICK c \in Calls : Step(c)
    BY DEF Next
  <2>2. FinalizeKey(c) \/ WriteDescriptor(c) \/ CleanupCreatedKey(c) \/ DeleteKey(c)
    BY <2>1, StoreChanges
  <2>3. pc'[c] # pc[c]
    BY <2>2 DEF CoreInv, TypeOK, FinalizeKey, WriteDescriptor, CleanupCreatedKey,
       DeleteKey, Return, Go
  <2>4. pc[c] \in {"finalize", "write", "cleanup", "delete"}
    BY <2>2 DEF FinalizeKey, WriteDescriptor, CleanupCreatedKey, DeleteKey
  <2>5. RequestAt(c)
    BY DEF CoreInv, ControlOK
  <2>6. PolicyCall(c) => IsPrivileged(req[c].token) /\ req[c].want \in Policies
    BY <2>4, <2>5 DEF RequestAt, CreateLabels, ApplyLabels, PolicyCall, PolicyOps
  <2>7. req[c].op \in {"LoadOrCreate", "Delete", "LoadOrCreateWithPolicy", "ApplyPolicy"}
    BY <2>4, <2>5 DEF RequestAt, CreateLabels, ApplyLabels
  <2>8. ASSUME store = NoKey PROVE FinalizeKey(c)
    BY <2>1, <2>8, StoreChanges DEF SameKey, MayDelete, DeleteKey
  <2>9. ASSUME PolicyCall(c), store = NoKey
        PROVE  req[c].op = "LoadOrCreateWithPolicy" /\ told[c] = "NotFound"
    BY <2>5, <2>8, <2>9 DEF FinalizeKey, RequestAt, CreateLabels, PolicyCall, PolicyOps
  <2>10. Allowed(c)
    BY <2>3, <2>6, <2>7, <2>9
  <2> QED BY <2>10
<1>2. Init => CoreInv
  BY CoreInit
<1>3. CoreInv /\ [Next]_vars => CoreInv'
  BY CoreNext
<1> QED BY <1>1, <1>2, <1>3, PTL DEF Spec, MutationNeedsPrivilege

\* No key the package made is ever persisted with a descriptor other than what
\* the provider makes of a requested one, nor exportable.
THEOREM NeverDefault == Spec => []NeverDefaultDacl
<1>1. Init => CoreInv /\ NeverDefaultDacl
  <2>1. Init => NeverDefaultDacl
    BY KeyAssumption DEF Init, NeverDefaultDacl
  <2> QED BY <2>1, CoreInit
<1>2. (CoreInv /\ NeverDefaultDacl) /\ [Next]_vars => (CoreInv /\ NeverDefaultDacl)'
  <2> SUFFICES ASSUME CoreInv, NeverDefaultDacl, [Next]_vars
               PROVE  CoreInv' /\ NeverDefaultDacl'
    OBVIOUS
  <2>1. CoreInv'
    BY CoreNext
  <2>2. CASE store' = store
    BY <2>1, <2>2 DEF NeverDefaultDacl
  <2>3. CASE store' = NoKey
    BY <2>1, <2>3 DEF NeverDefaultDacl
  <2>4. ASSUME store' # store, store' # NoKey PROVE NeverDefaultDacl'
    <3>1. PICK c \in Calls : Step(c)
      BY <2>4 DEF Next, vars
    <3>2. FinalizeKey(c) =>
            /\ req[c].want \in Policies /\ view[c].sd = Requested(req[c].want)
            /\ view[c] \in Keys /\ view[c].profile = "strong"
      BY DEF CoreInv, TypeOK, ControlOK, RequestAt, ViewAt, CreateLabels, KeyLabels,
         FinalizeKey
    <3>3. CASE FinalizeKey(c) /\ store = NoKey /\ Persist(c)
      <4>1. PICK sd \in PersistedForms(view[c].sd) : store' = [view[c] EXCEPT !.sd = sd]
        BY <3>3 DEF Persist
      <4>2. sd \in Forms[Requested(req[c].want)]
        BY <3>2, <3>3, <4>1, PersistedFormsType
      <4>3. store'.sd = sd /\ store'.profile = "strong"
        BY <3>2, <3>3, <4>1 DEF Keys
      <4> QED BY <3>2, <3>3, <4>2, <4>3 DEF NeverDefaultDacl
    <3>4. CASE WriteDescriptor(c) /\ SameKey(c)
                /\ \E sd \in PersistedForms(Requested(req[c].want)) :
                      store' = [store EXCEPT !.sd = sd]
      <4>1. store \in Keys /\ req[c].want \in Policies
        BY <3>4 DEF CoreInv, TypeOK, ControlOK, RequestAt, ApplyLabels,
           WriteDescriptor, SameKey
      <4>2. PICK sd \in Forms[Requested(req[c].want)] : store' = [store EXCEPT !.sd = sd]
        BY <3>4, <4>1, PersistedFormsType
      <4>3. store'.sd = sd /\ store'.profile = store.profile /\ store'.maker = store.maker
        BY <4>1, <4>2 DEF Keys
      <4> QED BY <4>1, <4>2, <4>3, KeyAssumption DEF NeverDefaultDacl
    <3> QED BY <2>4, <3>1, <3>3, <3>4, StoreChanges
  <2> QED BY <2>1, <2>2, <2>3, <2>4
<1> QED BY <1>1, <1>2, PTL DEF Spec
=============================================================================
