----------------------- MODULE SignerLifecycleProofs ------------------------
(***************************************************************************)
(* Signers, for any number of signers, goroutines and handle values.       *)
(*                                                                         *)
(* What Close does holds without any coordination.  Behind it is that a    *)
(* handle Windows holds for a signer is the one in the signer's field, and *)
(* that what a Close has freed or cleared stays so, as a signer is made    *)
(* only once.  That no freed handle is used holds for callers that keep to *)
(* what is documented: a field is then cleared before anything else looks  *)
(* at it.  The example programs use signers as the package offers them,    *)
(* and release theirs on every path.                                       *)
(***************************************************************************)
EXTENDS ExampleClients, TLAPS

ClosePcs == {"freeKey", "clearKey", "freeProvider", "clearProvider"}

Gone(s, k) == \A h \in Handles : ~Owned(h, s, k)
Cleared(s, k) == field[s][k] = NoHandle

Control ==
    \A g \in Goroutines :
        /\ pc[g] # "idle" => on[g] \in made /\ done[g] < Operations
        /\ pc[g] \in {"query", "sign"} => op[g] = "sign"
        /\ pc[g] \in ClosePcs => op[g] = "close"

OwnedInField ==
    \A h \in Handles, s \in Signers, k \in Kinds :
        Owned(h, s, k) => field[s][k] = h /\ s \in made

Closing ==
    \A g \in Goroutines :
        /\ pc[g] \in {"clearKey", "freeProvider", "clearProvider"} => Gone(on[g], "key")
        /\ pc[g] \in {"freeProvider", "clearProvider"} => Cleared(on[g], "key")
        /\ pc[g] = "clearProvider" => Gone(on[g], "provider")

ClosedIsGone ==
    \A s \in closed : Gone(s, "key") /\ Gone(s, "provider") /\ Cleared(s, "key")

CloseInv ==
    /\ SignerTypeOK /\ Control /\ OwnedInField /\ Closing /\ ClosedIsGone
    /\ ClosedSignersRefuse

LEMMA InitCloseInv == SignerInit => CloseInv
<1> SUFFICES ASSUME SignerInit PROVE CloseInv
  OBVIOUS
<1>1. SignerTypeOK
  BY SignerAssumption
     DEF SignerInit, SignerTypeOK, Results, Answer, SignerOps
<1>2. Control /\ Closing /\ ClosedIsGone
  BY DEF SignerInit, Control, Closing, ClosedIsGone, ClosePcs
<1>3. OwnedInField
  BY SignerAssumption DEF SignerInit, OwnedInField, Owned, Free, Kinds
<1>4. ClosedSignersRefuse
  BY DEF SignerInit, ClosedSignersRefuse
<1> QED BY <1>1, <1>2, <1>3, <1>4 DEF CloseInv

-----------------------------------------------------------------------------
(***************************************************************************)
(* Steps that leave the handles and the fields alone.                      *)
(***************************************************************************)
HandleFrame == UNCHANGED <<made, field, owner, closed>>

LEMMA ResultTypes ==
    /\ \A s \in Signers : Signature(s) \in Results
    /\ \A out \in {"none", "closed", "error", "released"} : Answer(out) \in Results
    /\ Kinds = {"provider", "key"} /\ SignerOps = {"sign", "close"}
BY DEF Results, Kinds, SignerOps

\* A goroutine that finishes leaves the types alone.
LEMMA FinishTypes ==
    ASSUME SignerTypeOK, NEW g \in Goroutines, NEW r \in Results, Finish(g, r),
           done[g] < Operations
    PROVE  /\ pc' \in [Goroutines -> {"idle", "query", "sign", "freeKey", "clearKey",
                                      "freeProvider", "clearProvider"}]
           /\ result' \in [Goroutines -> Results] /\ done' \in [Goroutines -> 0..Operations]
           /\ \A f \in Goroutines :
                 pc'[f] \in {"query", "sign"} => pc[f] \in {"query", "sign"}
<1>1. Operations \in Nat
  BY SignerAssumption
<1>2. pc' = [pc EXCEPT ![g] = "idle"]
  BY DEF Finish, Step
<1>3. \A f \in Goroutines : pc'[f] \in {"query", "sign"} => pc[f] \in {"query", "sign"}
  BY <1>2 DEF SignerTypeOK
<1>4. result' \in [Goroutines -> Results] /\ done' \in [Goroutines -> 0..Operations]
  BY <1>1 DEF SignerTypeOK, Finish
<1> QED BY <1>2, <1>3, <1>4 DEF SignerTypeOK

\* Whatever a goroutine does next, if it leaves the handles alone then what is
\* said of the handles, and of the other goroutines, stays true.
LEMMA FrameInv ==
    ASSUME CloseInv, HandleFrame, NEW g \in Goroutines,
           SignerTypeOK',
           \A f \in Goroutines \ {g} :
               /\ pc'[f] = pc[f] /\ on'[f] = on[f] /\ op'[f] = op[f]
               /\ late'[f] = late[f] /\ result'[f] = result[f] /\ done'[f] = done[f],
           pc'[g] # "idle" => on'[g] \in made /\ done'[g] < Operations,
           pc'[g] \in {"query", "sign"} => op'[g] = "sign",
           pc'[g] \in ClosePcs => op'[g] = "close" /\ pc'[g] = "freeKey",
           op'[g] = "sign" /\ late'[g] => pc'[g] = "idle" /\ result'[g] = Answer("closed")
    PROVE  CloseInv'
<1>1. UNCHANGED <<made, field, owner, closed>>
  BY DEF HandleFrame
<1>2. Control'
  BY <1>1 DEF CloseInv, Control
<1>3. OwnedInField' /\ ClosedIsGone'
  BY <1>1 DEF CloseInv, OwnedInField, ClosedIsGone, Owned, Gone, Cleared
<1>4. Closing'
  BY <1>1 DEF CloseInv, Closing, ClosePcs, Owned, Gone, Cleared
<1>5. ClosedSignersRefuse'
  BY <1>1 DEF CloseInv, ClosedSignersRefuse
<1> QED BY <1>2, <1>3, <1>4, <1>5 DEF CloseInv

LEMMA BeginInv ==
    ASSUME CloseInv, NEW g \in Goroutines, NEW s \in Signers, BeginOperation(g, s),
           UNCHANGED excluded
    PROVE  CloseInv'
<1>1. /\ HandleFrame /\ UNCHANGED stale /\ s \in made /\ pc[g] = "idle" /\ done[g] < Operations
      /\ on' = [on EXCEPT ![g] = s]
      /\ \E o \in SignerOps : op' = [op EXCEPT ![g] = o]
  BY DEF BeginOperation, BeginSign, RejectDigest, BeginClose, Begin, HandleFrame, SignerOps
<1>2. SignerTypeOK /\ Operations \in Nat
  BY SignerAssumption DEF CloseInv
<1>3. /\ excluded' \in Disciplines /\ made' \subseteq Signers
      /\ field' \in [Signers -> [Kinds -> Handles \cup {NoHandle}]]
      /\ owner' \in [Handles -> Objects \cup {Free}]
      /\ op' \in [Goroutines -> SignerOps \cup {"none"}]
      /\ on' \in [Goroutines -> Signers \cup {NoSigner}]
      /\ closed' \subseteq made' /\ stale' \subseteq Goroutines
  BY <1>1, <1>2 DEF SignerTypeOK, HandleFrame
<1>4. CASE BeginSign(g, s)
  <2>1. /\ op' = [op EXCEPT ![g] = "sign"] /\ late' = [late EXCEPT ![g] = s \in closed]
        /\ ChecksHandle(g, s)
    BY <1>4 DEF BeginSign, Begin
  <2>2. late' \in [Goroutines -> BOOLEAN]
    BY <1>2, <2>1 DEF SignerTypeOK
  <2>3. s \in closed => field[s]["key"] = NoHandle
    BY DEF CloseInv, ClosedIsGone, Cleared
  <2>4. CASE Finish(g, Answer("closed")) /\ UNCHANGED register
    <3>1. SignerTypeOK'
      <4>1. /\ pc' \in [Goroutines -> {"idle", "query", "sign", "freeKey", "clearKey",
                                       "freeProvider", "clearProvider"}]
            /\ result' \in [Goroutines -> Results] /\ done' \in [Goroutines -> 0..Operations]
            /\ \A f \in Goroutines :
                  pc'[f] \in {"query", "sign"} => pc[f] \in {"query", "sign"}
        BY <1>1, <1>2, <2>4, ResultTypes, FinishTypes
      <4> QED BY <1>2, <1>3, <2>2, <2>4, <4>1 DEF SignerTypeOK
    <3>2. pc'[g] = "idle" /\ result'[g] = Answer("closed")
      BY <1>2, <2>4 DEF SignerTypeOK, Finish, Step
    <3>3. \A f \in Goroutines \ {g} :
            /\ pc'[f] = pc[f] /\ on'[f] = on[f] /\ op'[f] = op[f]
            /\ late'[f] = late[f] /\ result'[f] = result[f] /\ done'[f] = done[f]
      BY <1>1, <1>2, <2>1, <2>4 DEF SignerTypeOK, Finish, Step
    <3> QED BY <1>1, <3>1, <3>2, <3>3, FrameInv DEF ClosePcs
  <2>5. CASE /\ field[s]["key"] # NoHandle
             /\ register' = [register EXCEPT ![g] = field[s]["key"]]
             /\ Step(g, "query") /\ UNCHANGED <<result, done>>
    <3>1. SignerTypeOK'
      <4>1. field[s]["key"] \in Handles
        BY <1>1, <1>2, <2>5, ResultTypes DEF SignerTypeOK
      <4>2. /\ pc' \in [Goroutines -> {"idle", "query", "sign", "freeKey", "clearKey",
                                       "freeProvider", "clearProvider"}]
            /\ register' \in [Goroutines -> Handles \cup {NoHandle}]
            /\ \A f \in Goroutines : pc'[f] \in {"query", "sign"} => register'[f] \in Handles
        BY <1>2, <2>5, <4>1 DEF SignerTypeOK, Step
      <4> QED BY <1>2, <1>3, <2>2, <2>5, <4>2 DEF SignerTypeOK
    <3>2. pc'[g] = "query" /\ op'[g] = "sign" /\ ~late'[g] /\ on'[g] = s /\ done'[g] = done[g]
      BY <1>1, <1>2, <2>1, <2>3, <2>5 DEF SignerTypeOK, Step
    <3>3. \A f \in Goroutines \ {g} :
            /\ pc'[f] = pc[f] /\ on'[f] = on[f] /\ op'[f] = op[f]
            /\ late'[f] = late[f] /\ result'[f] = result[f] /\ done'[f] = done[f]
      BY <1>1, <1>2, <2>1, <2>5 DEF SignerTypeOK, Step
    <3> QED BY <1>1, <3>1, <3>2, <3>3, FrameInv DEF ClosePcs
  <2> QED BY <2>1, <2>4, <2>5 DEF ChecksHandle
<1>5. CASE RejectDigest(g, s)
  <2>1. /\ late' = [late EXCEPT ![g] = s \in closed] /\ op' = [op EXCEPT ![g] = "sign"]
        /\ Finish(g, Answer("error")) /\ UNCHANGED register /\ s \notin closed
    BY <1>5 DEF RejectDigest, Begin, CloseInv, ClosedIsGone, Cleared
  <2>2. SignerTypeOK'
    <3>1. /\ pc' \in [Goroutines -> {"idle", "query", "sign", "freeKey", "clearKey",
                                     "freeProvider", "clearProvider"}]
          /\ result' \in [Goroutines -> Results] /\ done' \in [Goroutines -> 0..Operations]
          /\ \A f \in Goroutines :
                pc'[f] \in {"query", "sign"} => pc[f] \in {"query", "sign"}
      BY <1>1, <1>2, <2>1, ResultTypes, FinishTypes
    <3>2. late' \in [Goroutines -> BOOLEAN]
      BY <1>2, <2>1 DEF SignerTypeOK
    <3> QED BY <1>2, <1>3, <2>1, <3>1, <3>2 DEF SignerTypeOK
  <2>3. pc'[g] = "idle" /\ op'[g] = "sign" /\ ~late'[g]
    BY <1>2, <2>1 DEF SignerTypeOK, Finish, Step
  <2>4. \A f \in Goroutines \ {g} :
          /\ pc'[f] = pc[f] /\ on'[f] = on[f] /\ op'[f] = op[f]
          /\ late'[f] = late[f] /\ result'[f] = result[f] /\ done'[f] = done[f]
    BY <1>1, <1>2, <2>1 DEF SignerTypeOK, Finish, Step
  <2> QED BY <1>1, <2>2, <2>3, <2>4, FrameInv DEF ClosePcs
<1>6. CASE BeginClose(g, s)
  <2>1. /\ op' = [op EXCEPT ![g] = "close"] /\ Step(g, "freeKey")
        /\ UNCHANGED <<register, late, result, done>>
    BY <1>6 DEF BeginClose, Begin
  <2>2. SignerTypeOK'
    BY <1>2, <1>3, <2>1 DEF SignerTypeOK, Step
  <2> QED BY <1>1, <1>2, <2>1, <2>2, FrameInv DEF SignerTypeOK, Step, ClosePcs
<1> QED BY <1>4, <1>5, <1>6 DEF BeginOperation

LEMMA NativeSignInv ==
    ASSUME CloseInv, NEW g \in Goroutines, QuerySignature(g) \/ SignDigest(g),
           UNCHANGED excluded
    PROVE  CloseInv'
<1>1. /\ HandleFrame /\ UNCHANGED <<op, on, register, late>>
      /\ pc[g] \in {"query", "sign"} /\ stale' \subseteq Goroutines
      /\ \/ \E r \in Results : Finish(g, r)
         \/ Step(g, "sign") /\ UNCHANGED <<result, done>>
  BY ResultTypes DEF QuerySignature, SignDigest, HandleFrame, Uses, CloseInv, SignerTypeOK
<1>2. SignerTypeOK /\ Operations \in Nat /\ done[g] < Operations /\ on[g] \in made
      /\ op[g] = "sign" /\ ~late[g]
  BY <1>1, SignerAssumption DEF CloseInv, Control, ClosedSignersRefuse
<1>3. SignerTypeOK'
  <2>1. CASE \E r \in Results : Finish(g, r)
    BY <1>1, <1>2, <2>1, FinishTypes DEF SignerTypeOK, HandleFrame
  <2>2. CASE Step(g, "sign") /\ UNCHANGED <<result, done>>
    BY <1>1, <1>2, <2>2 DEF SignerTypeOK, HandleFrame, Step
  <2> QED BY <1>1, <2>1, <2>2
<1> QED BY <1>1, <1>2, <1>3, FrameInv DEF SignerTypeOK, Finish, Step, ClosePcs

-----------------------------------------------------------------------------
(***************************************************************************)
(* A signer is made.                                                       *)
(***************************************************************************)
LEMMA MakeInv ==
    ASSUME CloseInv, NEW s \in Signers, MakeSigner(s), UNCHANGED excluded
    PROVE  CloseInv'
<1>1. PICK p \in Handles, h \in Handles :
         /\ owner[p] = Free /\ owner[h] = Free /\ p # h
         /\ field' = [field EXCEPT ![s] = [provider |-> p, key |-> h]]
         /\ owner' = [owner EXCEPT ![p] = [signer |-> s, kind |-> "provider"],
                                   ![h] = [signer |-> s, kind |-> "key"]]
  BY DEF MakeSigner
<1>2. /\ s \notin made /\ made' = made \cup {s} /\ made \subseteq Signers
      /\ UNCHANGED <<pc, op, on, register, late, result, done, closed, stale>>
  BY DEF MakeSigner, goroutineVars, CloseInv, SignerTypeOK
<1>3. SignerTypeOK'
  <2>1. [provider |-> p, key |-> h] \in [Kinds -> Handles \cup {NoHandle}]
    BY DEF Kinds
  <2>2. owner' \in [Handles -> Objects \cup {Free}]
    BY <1>1 DEF CloseInv, SignerTypeOK, Objects, Kinds
  <2> QED BY <1>1, <1>2, <2>1, <2>2 DEF CloseInv, SignerTypeOK
<1>4. /\ \A t \in Signers \ {s} : field'[t] = field[t]
      /\ field'[s]["provider"] = p /\ field'[s]["key"] = h
  BY <1>1 DEF CloseInv, SignerTypeOK
<1>5. \A x \in Handles, t \in Signers, k \in Kinds :
         Owned(x, t, k)' => \/ t # s /\ Owned(x, t, k)
                            \/ t = s /\ field'[s][k] = x
  <2> SUFFICES ASSUME NEW x \in Handles, NEW t \in Signers, NEW k \in Kinds, Owned(x, t, k)'
               PROVE  \/ t # s /\ Owned(x, t, k)
                      \/ t = s /\ field'[s][k] = x
    OBVIOUS
  <2>1. CASE x # p /\ x # h
    <3>1. Owned(x, t, k)
      BY <1>1, <2>1 DEF Owned, CloseInv, SignerTypeOK
    <3> QED BY <1>2, <3>1 DEF CloseInv, OwnedInField
  <2>2. CASE x = p \/ x = h
    BY <1>1, <1>4, <2>2 DEF Owned, CloseInv, SignerTypeOK
  <2> QED BY <2>1, <2>2
<1>6. Control'
  BY <1>2 DEF CloseInv, Control
<1>7. OwnedInField'
  BY <1>2, <1>4, <1>5 DEF CloseInv, OwnedInField
<1>8. \A t \in made, k \in Kinds :
         /\ Gone(t, k) => Gone(t, k)'
         /\ Cleared(t, k) => Cleared(t, k)'
  BY <1>2, <1>4, <1>5 DEF Gone, Cleared
<1>9. Closing'
  BY <1>2, <1>8 DEF CloseInv, Closing, Control, Kinds
<1>10. ClosedIsGone' /\ ClosedSignersRefuse'
  BY <1>2, <1>8 DEF CloseInv, SignerTypeOK, ClosedIsGone, ClosedSignersRefuse, Kinds
<1> QED BY <1>3, <1>6, <1>7, <1>9, <1>10 DEF CloseInv

-----------------------------------------------------------------------------
(***************************************************************************)
(* Close.                                                                  *)
(***************************************************************************)
\* A goroutine that is in Close.
LEMMA InClose ==
    ASSUME CloseInv, NEW g \in Goroutines, pc[g] \in ClosePcs
    PROVE  /\ on[g] \in made /\ on[g] \in Signers /\ op[g] = "close"
           /\ done[g] < Operations /\ done[g] \in Nat /\ Operations \in Nat
           /\ \A k \in Kinds : field[on[g]][k] \in Handles \cup {NoHandle}
BY SignerAssumption DEF CloseInv, Control, SignerTypeOK, ClosePcs

\* A handle that is freed is owned by no signer, and others keep their owner.
LEMMA FreedIsGone ==
    ASSUME CloseInv, NEW s \in Signers, NEW k \in Kinds, FreeObject(field[s][k])
    PROVE  /\ \A h \in Handles, t \in Signers, j \in Kinds :
                 Owned(h, t, j)' => Owned(h, t, j)
           /\ Gone(s, k)'
           /\ owner' \in [Handles -> Objects \cup {Free}]
<1>1. /\ owner \in [Handles -> Objects \cup {Free}]
      /\ field[s][k] \in Handles \cup {NoHandle}
  BY DEF CloseInv, SignerTypeOK
<1>2. owner' = IF field[s][k] \in Handles
               THEN [owner EXCEPT ![field[s][k]] = Free] ELSE owner
  BY DEF FreeObject
<1>3. \A t \in Signers, j \in Kinds : [signer |-> t, kind |-> j] # Free
  BY SignerAssumption DEF Free, Kinds
<1>4. \A h \in Handles, t \in Signers, j \in Kinds : Owned(h, t, j)' => Owned(h, t, j)
  BY <1>1, <1>2, <1>3 DEF Owned
<1>5. Gone(s, k)'
  <2> SUFFICES ASSUME NEW h \in Handles, Owned(h, s, k)' PROVE FALSE
    BY DEF Gone
  <2>1. field[s][k] = h
    BY <1>4 DEF CloseInv, OwnedInField
  <2> QED BY <1>1, <1>2, <1>3, <2>1 DEF Owned
<1> QED BY <1>1, <1>2, <1>4, <1>5

LEMMA ClearedIsGone ==
    ASSUME CloseInv, NEW s \in Signers, NEW k \in Kinds, Cleared(s, k)
    PROVE  Gone(s, k)
BY SignerAssumption DEF CloseInv, OwnedInField, Cleared, Gone

\* What the two steps that free share: the next point of the goroutine follows
\* from what is gone.
LEMMA FreeInv ==
    ASSUME CloseInv, NEW g \in Goroutines, NEW k \in Kinds,
           NEW clear \in ClosePcs, NEW next \in ClosePcs,
           pc[g] \in ClosePcs, FreesUnlessCleared(g, k, clear, next),
           k = "key" => clear = "clearKey" /\ next = "freeProvider",
           k = "provider" => /\ pc[g] = "freeProvider"
                             /\ clear = "clearProvider" /\ next = "clearProvider",
           UNCHANGED <<excluded, made, field, op, on, register, late, result, done, closed>>
    PROVE  CloseInv'
<1> DEFINE s == on[g]
<1>1. /\ s \in made /\ s \in Signers /\ op[g] = "close" /\ done[g] < Operations
      /\ field[s][k] \in Handles \cup {NoHandle}
  BY InClose
<1>2. PICK label \in {clear, next} :
         /\ pc' = [pc EXCEPT ![g] = label]
         /\ label = next => clear = next \/ Cleared(s, k)
  BY DEF FreesUnlessCleared, Step, Cleared
<1>3. /\ \A h \in Handles, t \in Signers, j \in Kinds : Owned(h, t, j)' => Owned(h, t, j)
      /\ Gone(s, k)' /\ owner' \in [Handles -> Objects \cup {Free}]
      /\ stale' \subseteq Goroutines
  <2>1. CASE field[s][k] # NoHandle
    BY <1>1, <2>1, FreedIsGone DEF FreesUnlessCleared, Uses, CloseInv, SignerTypeOK
  <2>2. CASE field[s][k] = NoHandle
    <3>1. UNCHANGED <<owner, stale>> /\ Gone(s, k)
      BY <1>1, <2>2, ClearedIsGone DEF FreesUnlessCleared, Cleared
    <3> QED BY <3>1 DEF CloseInv, SignerTypeOK, Gone, Owned
  <2> QED BY <2>1, <2>2
<1>4. SignerTypeOK'
  BY <1>2, <1>3 DEF CloseInv, SignerTypeOK, ClosePcs
<1>5. Control'
  BY <1>1, <1>2 DEF CloseInv, Control, SignerTypeOK, ClosePcs
<1>6. OwnedInField'
  BY <1>3 DEF CloseInv, OwnedInField
<1>7. \A t \in Signers, j \in Kinds :
         (Gone(t, j) => Gone(t, j)') /\ (Cleared(t, j)' <=> Cleared(t, j))
  BY <1>3 DEF Gone, Cleared
<1>8. Closing'
  <2> SUFFICES ASSUME NEW f \in Goroutines
               PROVE  /\ pc'[f] \in {"clearKey", "freeProvider", "clearProvider"} =>
                             Gone(on[f], "key")'
                      /\ pc'[f] \in {"freeProvider", "clearProvider"} =>
                             Cleared(on[f], "key")'
                      /\ pc'[f] = "clearProvider" => Gone(on[f], "provider")'
    BY DEF Closing, Gone, Cleared, Owned
  <2>1. CASE f # g
    <3>1. pc'[f] = pc[f] /\ (pc[f] # "idle" => on[f] \in Signers)
      BY <1>2, <2>1 DEF CloseInv, Control, SignerTypeOK
    <3> QED BY <1>7, <3>1 DEF CloseInv, Closing, Kinds
  <2>2. CASE f = g /\ k = "key"
    BY <1>1, <1>2, <1>3, <1>7, <2>2 DEF CloseInv, SignerTypeOK, Kinds
  <2>3. CASE f = g /\ k = "provider"
    BY <1>1, <1>2, <1>3, <1>7, <2>3 DEF CloseInv, SignerTypeOK, Closing, Kinds
  <2> QED BY <2>1, <2>2, <2>3 DEF Kinds
<1>9. ClosedIsGone'
  BY <1>7 DEF CloseInv, SignerTypeOK, ClosedIsGone, Kinds
<1>10. ClosedSignersRefuse'
  BY <1>1, <1>2 DEF CloseInv, SignerTypeOK, ClosedSignersRefuse
<1> QED BY <1>4, <1>5, <1>6, <1>8, <1>9, <1>10 DEF CloseInv

\* What the two steps that clear a field share: nothing was owned through it.
LEMMA ClearFrame ==
    ASSUME CloseInv, NEW g \in Goroutines, NEW k \in Kinds, pc[g] \in ClosePcs,
           Gone(on[g], k), ClearField(g, k), UNCHANGED <<made, owner, on>>
    PROVE  /\ field' \in [Signers -> [Kinds -> Handles \cup {NoHandle}]]
           /\ OwnedInField'
           /\ \A t \in Signers, j \in Kinds :
                 (Gone(t, j)' <=> Gone(t, j)) /\ (Cleared(t, j) => Cleared(t, j)')
           /\ Cleared(on[g], k)'
<1>1. on[g] \in Signers /\ field \in [Signers -> [Kinds -> Handles \cup {NoHandle}]]
  BY InClose DEF CloseInv, SignerTypeOK
<1>2. field' = [field EXCEPT ![on[g]][k] = NoHandle]
  BY DEF ClearField
<1>3. /\ \A t \in Signers, j \in Kinds :
            field'[t][j] = IF t = on[g] /\ j = k THEN NoHandle ELSE field[t][j]
      /\ field' \in [Signers -> [Kinds -> Handles \cup {NoHandle}]]
  BY <1>1, <1>2
<1>4. OwnedInField'
  BY <1>3 DEF CloseInv, OwnedInField, Gone, Owned
<1> QED BY <1>1, <1>3, <1>4 DEF Gone, Cleared, Owned

\* What remains to be shown of the two is about control and what was closed.
LEMMA ClearInv ==
    ASSUME CloseInv, NEW g \in Goroutines, NEW k \in Kinds, pc[g] \in ClosePcs,
           Gone(on[g], k), ClearField(g, k),
           UNCHANGED <<excluded, made, owner, op, on, register, late, stale>>,
           NEW label \in {"idle", "freeProvider"}, pc' = [pc EXCEPT ![g] = label],
           label = "freeProvider" => k = "key" /\ UNCHANGED <<result, done, closed>>,
           label = "idle" =>
               /\ pc[g] = "clearProvider" /\ closed' = closed \cup {on[g]}
               /\ result' = [result EXCEPT ![g] = Answer("released")]
               /\ done' = [done EXCEPT ![g] = @ + 1]
    PROVE  CloseInv'
<1>1. /\ on[g] \in made /\ on[g] \in Signers /\ op[g] = "close"
      /\ done[g] < Operations /\ done[g] \in Nat /\ Operations \in Nat
  BY InClose
<1>2. /\ field' \in [Signers -> [Kinds -> Handles \cup {NoHandle}]]
      /\ OwnedInField' /\ Cleared(on[g], k)'
      /\ \A t \in Signers, j \in Kinds :
            (Gone(t, j)' <=> Gone(t, j)) /\ (Cleared(t, j) => Cleared(t, j)')
  BY ClearFrame
<1>3. SignerTypeOK'
  <2>1. /\ closed' \subseteq made /\ result' \in [Goroutines -> Results]
        /\ done' \in [Goroutines -> 0..Operations]
    BY <1>1, ResultTypes DEF CloseInv, SignerTypeOK
  <2> QED BY <1>2, <2>1 DEF CloseInv, SignerTypeOK
<1>4. Control'
  BY <1>1 DEF CloseInv, Control, SignerTypeOK, ClosePcs
<1>5. Closing'
  <2> SUFFICES ASSUME NEW f \in Goroutines
               PROVE  /\ pc'[f] \in {"clearKey", "freeProvider", "clearProvider"} =>
                             Gone(on[f], "key")'
                      /\ pc'[f] \in {"freeProvider", "clearProvider"} =>
                             Cleared(on[f], "key")'
                      /\ pc'[f] = "clearProvider" => Gone(on[f], "provider")'
    BY DEF Closing, Gone, Cleared, Owned
  <2>1. CASE f # g
    <3>1. pc'[f] = pc[f] /\ (pc[f] # "idle" => on[f] \in Signers)
      BY <2>1 DEF CloseInv, Control, SignerTypeOK
    <3> QED BY <1>2, <3>1 DEF CloseInv, Closing, Kinds
  <2>2. CASE f = g
    BY <1>1, <1>2, <2>2 DEF CloseInv, SignerTypeOK, Kinds
  <2> QED BY <2>1, <2>2
<1>6. ClosedIsGone'
  <2>1. \A t \in closed : Gone(t, "key")' /\ Gone(t, "provider")' /\ Cleared(t, "key")'
    BY <1>2 DEF CloseInv, SignerTypeOK, ClosedIsGone, Kinds
  <2>2. label = "idle" =>
           Gone(on[g], "key") /\ Gone(on[g], "provider") /\ Cleared(on[g], "key")
    BY DEF CloseInv, Closing
  <2>3. label = "idle" =>
           Gone(on[g], "key")' /\ Gone(on[g], "provider")' /\ Cleared(on[g], "key")'
    BY <1>1, <1>2, <2>2 DEF Kinds, Gone, Cleared, Owned
  <2>4. \/ closed' = closed
        \/ label = "idle" /\ closed' = closed \cup {on[g]}
    <3>1. CASE label = "idle"
      BY <3>1
    <3>2. CASE label = "freeProvider"
      BY <3>2
    <3> QED BY <3>1, <3>2
  <2> QED BY <2>1, <2>3, <2>4 DEF ClosedIsGone, Gone, Cleared, Owned
<1>7. ClosedSignersRefuse'
  BY <1>1 DEF CloseInv, SignerTypeOK, ClosedSignersRefuse
<1> QED BY <1>2, <1>3, <1>4, <1>5, <1>6, <1>7 DEF CloseInv

LEMMA CloseStepInv ==
    ASSUME CloseInv, NEW g \in Goroutines, UNCHANGED excluded,
           FreeKey(g) \/ ClearKey(g) \/ FreeProvider(g) \/ ClearProvider(g)
    PROVE  CloseInv'
<1>1. CASE FreeKey(g)
  BY <1>1, FreeInv DEF FreeKey, ClosePcs, Kinds
<1>2. CASE FreeProvider(g)
  BY <1>2, FreeInv DEF FreeProvider, ClosePcs, Kinds
<1>3. CASE ClearKey(g)
  <2>1. pc[g] \in ClosePcs /\ Gone(on[g], "key")
    BY <1>3 DEF ClearKey, ClosePcs, CloseInv, Closing
  <2> QED BY <1>3, <2>1, ClearInv DEF ClearKey, Step, Kinds
<1>4. CASE ClearProvider(g)
  <2>1. pc[g] \in ClosePcs /\ Gone(on[g], "provider")
    BY <1>4 DEF ClearProvider, ClosePcs, CloseInv, Closing
  <2> QED BY <1>4, <2>1, ClearInv DEF ClearProvider, Finish, Step, Kinds
<1> QED BY <1>1, <1>2, <1>3, <1>4

LEMMA CloseInvStep == CloseInv /\ [SignerNext]_signerVars => CloseInv'
<1>1. ASSUME CloseInv, UNCHANGED signerVars PROVE CloseInv'
  BY <1>1 DEF signerVars, goroutineVars, CloseInv, SignerTypeOK, Control, OwnedInField,
              Closing, ClosedIsGone, ClosedSignersRefuse, Gone, Cleared, Owned
<1> QED BY <1>1, BeginInv, NativeSignInv, MakeInv, CloseStepInv DEF SignerNext, SignerStep

LEMMA CloseInvariant == SignerSpec => []CloseInv
BY InitCloseInv, CloseInvStep, PTL DEF SignerSpec

-----------------------------------------------------------------------------
\* Signers, handles and goroutines stay within their types.
THEOREM SignerTypes == SignerSpec => []SignerTypeOK
<1>1. CloseInv => SignerTypeOK
  BY DEF CloseInv
<1> QED BY <1>1, CloseInvariant, PTL

\* For any number of goroutines that use signers in any way, also by several
\* Closes of one signer at once: when Close has returned, Windows holds nothing
\* for the signer and Sign only says that it is closed.
THEOREM CloseIsFinal == SignerSpec => []ClosedStaysClosed
<1>1. CloseInv => ClosedStaysClosed
  BY DEF CloseInv, ClosedIsGone, ClosedStaysClosed, CloseReleases, Gone, Kinds
<1> QED BY <1>1, CloseInvariant, PTL

-----------------------------------------------------------------------------
(***************************************************************************)
(* Callers that keep to what is documented.                                *)
(***************************************************************************)
Kept == Documented \subseteq excluded

Busy(g) == pc[g] # "idle"

\* Only Signs share a signer.
Exclusion ==
    \A f, g \in Goroutines :
        f # g /\ Busy(f) /\ Busy(g) /\ on[f] = on[g] => op[f] = "sign" /\ op[g] = "sign"

ClearLabel(k) == IF k = "key" THEN "clearKey" ELSE "clearProvider"

\* A field holds the signer's own handle, until the Close that frees it.
FieldsLive ==
    \A s \in made, k \in Kinds :
        field[s][k] # NoHandle =>
            \/ Owned(field[s][k], s, k)
            \/ \E g \in Goroutines : pc[g] = ClearLabel(k) /\ on[g] = s

\* While Sign runs, its field is what it was when it was checked.
Steady ==
    \A g \in Goroutines : pc[g] \in {"query", "sign"} =>
        register[g] = field[on[g]]["key"] /\ register[g] # NoHandle

OwnSignatures ==
    \A g \in Goroutines : (pc[g] = "idle" /\ result[g].out = "signature") =>
        op[g] = "sign" /\ result[g].key = on[g]

UseParts == Exclusion /\ FieldsLive /\ Steady /\ OwnSignatures /\ stale = {}

UseInv == CloseInv /\ (Kept => UseParts)

LEMMA InitUseInv == SignerInit => UseInv
BY InitCloseInv
   DEF SignerInit, UseInv, UseParts, Exclusion, Busy, FieldsLive, Steady, OwnSignatures,
       Answer

\* No other goroutine works on the signer of a Close, and no Close on that of a
\* Sign.
LEMMA NoOther ==
    ASSUME CloseInv, Exclusion, NEW g \in Goroutines, NEW f \in Goroutines, f # g,
           Busy(f), Busy(g), on[f] = on[g]
    PROVE  pc[f] \in {"query", "sign"} /\ pc[g] \in {"query", "sign"}
<1>1. op[f] = "sign" /\ op[g] = "sign"
  BY DEF Exclusion
<1> QED BY <1>1 DEF CloseInv, Control, SignerTypeOK, ClosePcs, Busy

\* What Sign passes to NCrypt is the handle of its signer's key.
LEMMA SignUsesOwnKey ==
    ASSUME CloseInv, UseParts, NEW g \in Goroutines, pc[g] \in {"query", "sign"},
           NEW h \in KeyHandle(g)
    PROVE  Owned(h, on[g], "key")
<1>1. h = field[on[g]]["key"] /\ h # NoHandle /\ on[g] \in made
  BY DEF KeyHandle, UseParts, Steady, CloseInv, Control
<1>2. ~\E f \in Goroutines : pc[f] = "clearKey" /\ on[f] = on[g]
  BY NoOther DEF UseParts, Busy
<1> QED BY <1>1, <1>2 DEF UseParts, FieldsLive, ClearLabel, Kinds

\* What Close frees is a handle of its signer.
LEMMA CloseFreesOwn ==
    ASSUME CloseInv, UseParts, NEW g \in Goroutines, NEW k \in Kinds,
           pc[g] = IF k = "key" THEN "freeKey" ELSE "freeProvider",
           field[on[g]][k] # NoHandle
    PROVE  Owned(field[on[g]][k], on[g], k)
<1>1. on[g] \in made
  BY InClose DEF ClosePcs
<1>2. ASSUME NEW f \in Goroutines, pc[f] = ClearLabel(k), on[f] = on[g] PROVE FALSE
  <2>1. f # g /\ Busy(f) /\ Busy(g) /\ pc[g] \notin {"query", "sign"}
    BY <1>2 DEF ClearLabel, Busy
  <2> QED BY <1>2, <2>1, NoOther DEF UseParts
<1> QED BY <1>1, <1>2 DEF UseParts, FieldsLive

-----------------------------------------------------------------------------
LEMMA BeginUse ==
    ASSUME CloseInv, Kept, UseParts, NEW g \in Goroutines, NEW s \in Signers,
           BeginOperation(g, s)
    PROVE  UseParts'
<1>1. PICK o \in SignerOps :
         /\ op' = [op EXCEPT ![g] = o] /\ MayRun(o, s)
         /\ o = "close" => pc'[g] # "idle"
  BY DEF BeginOperation, BeginSign, RejectDigest, BeginClose, Begin, Step, SignerOps,
         CloseInv, SignerTypeOK
<1>2. /\ UNCHANGED <<made, field, owner, stale>> /\ on' = [on EXCEPT ![g] = s]
      /\ pc[g] = "idle" /\ s \in made
      /\ \/ /\ \E r \in {"closed", "error"} :
                  result' = [result EXCEPT ![g] = Answer(r)]
            /\ pc' = [pc EXCEPT ![g] = "idle"] /\ UNCHANGED register
         \/ /\ UNCHANGED result /\ pc' = [pc EXCEPT ![g] = "freeKey"]
            /\ UNCHANGED register
         \/ /\ UNCHANGED result /\ pc' = [pc EXCEPT ![g] = "query"]
            /\ register' = [register EXCEPT ![g] = field[s]["key"]]
            /\ field[s]["key"] # NoHandle
  BY DEF BeginOperation, BeginSign, RejectDigest, BeginClose, Begin, Step, Finish,
         ChecksHandle
<1>3. SignerTypeOK /\ UseParts
  BY DEF CloseInv
<1>4. ASSUME NEW f \in Goroutines, f # g, Busy(f), on[f] = s
      PROVE  o = "sign" /\ op[f] = "sign"
  <2>1. op[f] \in SignerOps
    BY <1>4 DEF CloseInv, Control, SignerTypeOK, ClosePcs, Busy, SignerOps
  <2>2. Running(op[f], s)
    BY <1>4 DEF Running, Busy
  <2>3. <<o, op[f]>> \notin Documented
    BY <1>1, <2>1, <2>2 DEF MayRun, Kept
  <2> QED BY <2>1, <2>3 DEF Documented, SignerOps
<1>5. Exclusion'
  BY <1>1, <1>2, <1>3, <1>4 DEF SignerTypeOK, UseParts, Exclusion, Busy
<1>6. FieldsLive'
  <2>1. \A f \in Goroutines : pc[f] # "idle" => pc'[f] = pc[f] /\ on'[f] = on[f]
    BY <1>2, <1>3 DEF SignerTypeOK
  <2> QED BY <1>2, <1>3, <2>1 DEF UseParts, FieldsLive, ClearLabel, Owned
<1>7. Steady'
  BY <1>2, <1>3 DEF SignerTypeOK, UseParts, Steady
<1>8. OwnSignatures'
  BY <1>1, <1>2, <1>3 DEF SignerTypeOK, UseParts, OwnSignatures, Answer
<1> QED BY <1>2, <1>3, <1>5, <1>6, <1>7, <1>8 DEF UseParts

LEMMA NativeSignUse ==
    ASSUME CloseInv, UseParts, NEW g \in Goroutines, QuerySignature(g) \/ SignDigest(g)
    PROVE  UseParts'
<1>1. /\ UNCHANGED <<made, field, owner, op, on, register>>
      /\ pc[g] \in {"query", "sign"} /\ op[g] = "sign" /\ SignerTypeOK
  BY DEF QuerySignature, SignDigest, CloseInv, Control
<1>2. PICK h \in KeyHandle(g) :
         /\ Uses(g, h, "key")
         /\ \/ Step(g, "sign") /\ UNCHANGED result
            \/ Finish(g, Answer("error"))
            \/ \E s \in Signers : Owned(h, s, "key") /\ Finish(g, Signature(s))
  BY DEF QuerySignature, SignDigest
<1>3. Owned(h, on[g], "key")
  BY <1>1, SignUsesOwnKey
<1>4. stale' = {}
  BY <1>2, <1>3 DEF Uses, UseParts
<1>5. \E label \in {"sign", "idle"} : pc' = [pc EXCEPT ![g] = label]
  BY <1>2 DEF Step, Finish
<1>6. Exclusion' /\ Steady'
  BY <1>1, <1>5 DEF SignerTypeOK, UseParts, Exclusion, Busy, Steady
<1>7. FieldsLive'
  BY <1>1, <1>5 DEF SignerTypeOK, UseParts, FieldsLive, ClearLabel, Owned
<1>8. OwnSignatures'
  <2>1. CASE Step(g, "sign") /\ UNCHANGED result
    BY <1>1, <2>1 DEF SignerTypeOK, UseParts, OwnSignatures, Step
  <2>2. CASE Finish(g, Answer("error"))
    BY <1>1, <2>2 DEF SignerTypeOK, UseParts, OwnSignatures, Finish, Step, Answer
  <2>3. ASSUME NEW s \in Signers, Owned(h, s, "key"), Finish(g, Signature(s))
        PROVE  OwnSignatures'
    <3>1. s = on[g]
      BY <1>3, <2>3 DEF Owned
    <3> QED BY <1>1, <2>3, <3>1
       DEF SignerTypeOK, UseParts, OwnSignatures, Finish, Step, Signature
  <2> QED BY <1>2, <2>1, <2>2, <2>3
<1> QED BY <1>4, <1>6, <1>7, <1>8 DEF UseParts

LEMMA MakeUse ==
    ASSUME CloseInv, UseParts, NEW s \in Signers, MakeSigner(s)
    PROVE  UseParts'
<1>1. PICK p \in Handles, h \in Handles :
         /\ owner[p] = Free /\ owner[h] = Free /\ p # h
         /\ field' = [field EXCEPT ![s] = [provider |-> p, key |-> h]]
         /\ owner' = [owner EXCEPT ![p] = [signer |-> s, kind |-> "provider"],
                                   ![h] = [signer |-> s, kind |-> "key"]]
  BY DEF MakeSigner
<1>2. /\ s \notin made /\ made' = made \cup {s} /\ made \subseteq Signers
      /\ UNCHANGED <<pc, op, on, register, result, stale>>
      /\ owner \in [Handles -> Objects \cup {Free}]
  BY DEF MakeSigner, goroutineVars, CloseInv, SignerTypeOK
<1>3. /\ \A t \in Signers \ {s} : field'[t] = field[t]
      /\ field'[s]["provider"] = p /\ field'[s]["key"] = h
  BY <1>1 DEF CloseInv, SignerTypeOK
<1>4. \A g \in Goroutines : pc[g] # "idle" => on[g] \in made
  BY DEF CloseInv, Control
<1>5. \A x \in Handles, t \in Signers, k \in Kinds : Owned(x, t, k) => Owned(x, t, k)'
  <2>1. \A t \in Signers, k \in Kinds : [signer |-> t, kind |-> k] # Free
    BY SignerAssumption DEF Free, Kinds
  <2> QED BY <1>1, <1>2, <2>1 DEF Owned
<1>6. FieldsLive'
  <2> SUFFICES ASSUME NEW t \in made', NEW k \in Kinds, field'[t][k] # NoHandle
               PROVE  \/ Owned(field[t][k], t, k)'
                      \/ \E g \in Goroutines : pc'[g] = ClearLabel(k) /\ on'[g] = t
    BY DEF FieldsLive, ClearLabel
  <2>1. CASE t = s
    BY <1>1, <1>2, <1>3, <2>1 DEF Owned, Kinds
  <2>2. CASE t # s
    <3>1. t \in made /\ field'[t] = field[t]
      BY <1>2, <1>3, <2>2
    <3>2. \/ Owned(field[t][k], t, k)
          \/ \E g \in Goroutines : pc[g] = ClearLabel(k) /\ on[g] = t
      BY <3>1 DEF UseParts, FieldsLive
    <3>3. Owned(field[t][k], t, k) => Owned(field[t][k], t, k)'
      BY <1>2, <1>5, <3>1 DEF Owned
    <3> QED BY <1>2, <3>2, <3>3
  <2> QED BY <2>1, <2>2
<1>7. Steady'
  BY <1>2, <1>3, <1>4 DEF UseParts, Steady
<1>8. Exclusion' /\ OwnSignatures'
  BY <1>2 DEF UseParts, Exclusion, Busy, OwnSignatures
<1> QED BY <1>2, <1>6, <1>7, <1>8 DEF UseParts

-----------------------------------------------------------------------------
\* A step of Close changes one signer, which no Sign and no other Close is on.
LEMMA FreeUse ==
    ASSUME CloseInv, UseParts, NEW g \in Goroutines, NEW k \in Kinds,
           NEW next \in ClosePcs, FreesUnlessCleared(g, k, ClearLabel(k), next),
           pc[g] = IF k = "key" THEN "freeKey" ELSE "freeProvider",
           UNCHANGED <<made, field, op, on, register, result>>
    PROVE  UseParts'
<1> DEFINE s == on[g]
<1>1. /\ s \in made /\ s \in Signers /\ op[g] = "close" /\ SignerTypeOK
  BY InClose DEF ClosePcs, CloseInv
<1>2. PICK label \in ClosePcs : pc' = [pc EXCEPT ![g] = label]
  BY DEF FreesUnlessCleared, Step, ClearLabel, ClosePcs, Kinds
<1>3. field[s][k] # NoHandle => Owned(field[s][k], s, k)
  BY CloseFreesOwn
<1>4. stale' = {}
  BY <1>3 DEF FreesUnlessCleared, Uses, UseParts
<1>5. Exclusion' /\ Steady'
  BY <1>1, <1>2 DEF SignerTypeOK, UseParts, Exclusion, Busy, Steady, ClosePcs
<1>6. FieldsLive'
  <2> SUFFICES ASSUME NEW t \in made, NEW j \in Kinds, field[t][j] # NoHandle
               PROVE  \/ Owned(field[t][j], t, j)'
                      \/ \E f \in Goroutines : pc'[f] = ClearLabel(j) /\ on[f] = t
    BY DEF FieldsLive, ClearLabel
  <2>1. CASE t = s /\ j = k
    <3>1. pc' = [pc EXCEPT ![g] = ClearLabel(k)]
      BY <2>1 DEF FreesUnlessCleared, Step
    <3> QED BY <1>1, <2>1, <3>1 DEF SignerTypeOK
  <2>2. CASE (t # s \/ j # k) /\ Owned(field[t][j], t, j)
    <3>1. field[s][k] # NoHandle => field[t][j] # field[s][k]
      BY <1>3, <2>2 DEF Owned
    <3>2. owner'[field[t][j]] = owner[field[t][j]]
      BY <2>2, <3>1 DEF FreesUnlessCleared, FreeObject, Owned, SignerTypeOK, CloseInv
    <3> QED BY <2>2, <3>2 DEF Owned
  <2>3. ASSUME NEW f \in Goroutines, pc[f] = ClearLabel(j), on[f] = t
        PROVE  \E e \in Goroutines : pc'[e] = ClearLabel(j) /\ on[e] = t
    <3>1. f # g
      BY <2>3 DEF ClearLabel
    <3> QED BY <1>1, <1>2, <2>3, <3>1 DEF SignerTypeOK
  <2> QED BY <2>1, <2>2, <2>3 DEF UseParts, FieldsLive
<1>7. OwnSignatures'
  BY <1>1, <1>2 DEF SignerTypeOK, UseParts, OwnSignatures, ClosePcs
<1> QED BY <1>4, <1>5, <1>6, <1>7 DEF UseParts

LEMMA ClearUse ==
    ASSUME CloseInv, UseParts, NEW g \in Goroutines, NEW k \in Kinds,
           pc[g] = ClearLabel(k), ClearField(g, k),
           NEW label \in {"idle", "freeProvider"}, pc' = [pc EXCEPT ![g] = label],
           label = "idle" => result' = [result EXCEPT ![g] = Answer("released")],
           label # "idle" => UNCHANGED result,
           UNCHANGED <<made, owner, op, on, register, stale>>
    PROVE  UseParts'
<1> DEFINE s == on[g]
<1>1. /\ s \in made /\ s \in Signers /\ op[g] = "close" /\ SignerTypeOK
  BY InClose DEF ClosePcs, CloseInv, ClearLabel
<1>2. \A t \in Signers, j \in Kinds :
         field'[t][j] = IF t = s /\ j = k THEN NoHandle ELSE field[t][j]
  BY <1>1 DEF ClearField, SignerTypeOK
<1>3. Exclusion'
  BY <1>1 DEF SignerTypeOK, UseParts, Exclusion, Busy, ClearLabel
<1>4. FieldsLive'
  <2> SUFFICES ASSUME NEW t \in made, NEW j \in Kinds, field'[t][j] # NoHandle
               PROVE  \/ Owned(field'[t][j], t, j)
                      \/ \E f \in Goroutines : pc'[f] = ClearLabel(j) /\ on[f] = t
    BY DEF FieldsLive, ClearLabel, Owned
  <2>1. (t # s \/ j # k) /\ field'[t][j] = field[t][j] /\ t \in Signers
    BY <1>1, <1>2 DEF SignerTypeOK
  <2>2. ASSUME NEW f \in Goroutines, pc[f] = ClearLabel(j), on[f] = t
        PROVE  pc'[f] = ClearLabel(j)
    <3>1. f # g
      BY <2>1, <2>2 DEF ClearLabel, Kinds
    <3> QED BY <1>1, <2>2, <3>1 DEF SignerTypeOK
  <2> QED BY <2>1, <2>2 DEF UseParts, FieldsLive
<1>5. Steady'
  <2> SUFFICES ASSUME NEW f \in Goroutines, pc'[f] \in {"query", "sign"}
               PROVE  register[f] = field'[on[f]]["key"] /\ register[f] # NoHandle
    BY DEF Steady
  <2>1. f # g /\ pc[f] = pc'[f] /\ on[f] \in Signers
    BY <1>1 DEF SignerTypeOK, CloseInv, Control
  <2>2. on[f] # s
    BY <2>1, NoOther DEF UseParts, Busy, ClearLabel
  <2> QED BY <1>2, <2>1, <2>2 DEF UseParts, Steady, Kinds
<1>6. OwnSignatures'
  BY <1>1 DEF SignerTypeOK, UseParts, OwnSignatures, Answer
<1> QED BY <1>3, <1>4, <1>5, <1>6 DEF UseParts

LEMMA CloseUse ==
    ASSUME CloseInv, UseParts, NEW g \in Goroutines,
           FreeKey(g) \/ ClearKey(g) \/ FreeProvider(g) \/ ClearProvider(g)
    PROVE  UseParts'
<1>1. CASE FreeKey(g)
  BY <1>1, FreeUse DEF FreeKey, ClosePcs, ClearLabel, Kinds
<1>2. CASE FreeProvider(g)
  BY <1>2, FreeUse DEF FreeProvider, ClosePcs, ClearLabel, Kinds
<1>3. CASE ClearKey(g)
  BY <1>3, ClearUse DEF ClearKey, Step, ClearLabel, Kinds
<1>4. CASE ClearProvider(g)
  BY <1>4, ClearUse DEF ClearProvider, Finish, Step, ClearLabel, Kinds
<1> QED BY <1>1, <1>2, <1>3, <1>4

LEMMA UseInvStep == UseInv /\ [SignerNext]_signerVars => UseInv'
<1> SUFFICES ASSUME UseInv, [SignerNext]_signerVars PROVE UseInv'
  OBVIOUS
<1>1. CloseInv /\ CloseInv' /\ (Kept' <=> Kept)
  BY CloseInvStep DEF UseInv, Kept, SignerNext, signerVars
<1>2. ASSUME Kept PROVE UseParts'
  <2>1. UseParts
    BY <1>2 DEF UseInv
  <2>2. CASE UNCHANGED signerVars
    BY <2>1, <2>2 DEF signerVars, goroutineVars, UseParts, Exclusion, Busy, FieldsLive,
                      ClearLabel, Steady, OwnSignatures, Owned
  <2>3. CASE SignerNext
    BY <1>1, <1>2, <2>1, <2>3, BeginUse, NativeSignUse, MakeUse, CloseUse
       DEF SignerNext, SignerStep
  <2> QED BY <2>2, <2>3
<1> QED BY <1>1, <1>2 DEF UseInv

LEMMA UseInvariant == SignerSpec => []UseInv
BY InitUseInv, UseInvStep, PTL DEF SignerSpec

-----------------------------------------------------------------------------
\* If Close is not run at the same time as Sign or another Close on a signer, no
\* native call gets a handle that was freed, though the values of handles are
\* given out again and Close is repeated at will.
THEOREM NoStaleHandle == SignerSpec => []HandlesAreLive
<1>1. UseInv => HandlesAreLive
  BY DEF UseInv, UseParts, Kept, HandlesAreLive
<1> QED BY <1>1, UseInvariant, PTL

\* Under the same condition, what Sign returns was made by the signer's own key,
\* for any number of signers.
THEOREM OwnKeySigns == SignerSpec => []SignsWithOwnKey
<1>1. UseInv => SignsWithOwnKey
  BY DEF UseInv, UseParts, Kept, OwnSignatures, SignsWithOwnKey
<1> QED BY <1>1, UseInvariant, PTL

-----------------------------------------------------------------------------
(***************************************************************************)
(* The example programs.                                                   *)
(***************************************************************************)
\* Each program acquires its signer first and ends with the deferred Close.
LEMMA StepsFacts ==
    ASSUME NEW p \in DOMAIN Steps
    PROVE  /\ Len(Steps[p]) \in Nat /\ Len(Steps[p]) >= 2
           /\ Steps[p][Len(Steps[p])] = "close"
           /\ \A n \in 1..Len(Steps[p]) :
                 /\ n # 1 => Steps[p][n] \notin {"open", "loadOrCreate"}
                 /\ n = 1 => Steps[p][n] \in {"open", "loadOrCreate"}
<1>1. p \in {"openexisting", "signverify", "disposablelifecycle"}
  BY DEF Steps
<1>2. CASE p = "openexisting"
  <2>1. Steps[p] = <<"open", "close">>
    BY <1>2 DEF Steps
  <2> QED BY <2>1
<1>3. CASE p = "signverify"
  <2>1. Steps[p] = <<"loadOrCreate", "sign", "close">>
    BY <1>3 DEF Steps
  <2> QED BY <2>1
<1>4. CASE p = "disposablelifecycle"
  <2>1. Steps[p] = <<"loadOrCreate", "sign", "close", "delete", "close">>
    BY <1>4 DEF Steps
  <2> QED BY <2>1
<1> QED BY <1>1, <1>2, <1>3, <1>4

ExampleTypeOK ==
    /\ program \in [Goroutines -> DOMAIN Steps]
    /\ mine \in [Goroutines -> Signers \cup {NoSigner}]
    /\ stage \in [Goroutines -> Nat \ {0}]

\* Before its first step a program has no signer; after its last one the
\* signer is closed, or the Close that closes it is running.
Releasing ==
    \A g \in Goroutines :
        /\ stage[g] = 1 => mine[g] = NoSigner
        /\ Exited(g) => \/ mine[g] = NoSigner
                        \/ mine[g] \in closed
                        \/ pc[g] \in ClosePcs /\ on[g] = mine[g]

ReleaseInv == CloseInv /\ ExampleTypeOK /\ Releasing

\* A step of a program is a step of the package, or none.
LEMMA ExampleSignerStep ==
    ASSUME CloseInv, [ExampleNext]_exampleVars PROVE [SignerNext]_signerVars
<1>1. CASE UNCHANGED exampleVars
  BY <1>1 DEF exampleVars
<1>2. ASSUME NEW g \in Goroutines, ExampleStep(g), UNCHANGED <<excluded, program>>
      PROVE  [SignerNext]_signerVars
  <2>1. CASE AcquireFails(g) \/ Signed(g) \/ Delete(g)
    BY <2>1 DEF AcquireFails, Signed, Delete
  <2>2. CASE Acquire(g) \/ Work(g)
    BY <1>2, <2>2 DEF Acquire, Work, SignerNext
  <2>3. CASE Sign(g) \/ Close(g)
    <3>1. BeginSign(g, mine[g]) \/ BeginClose(g, mine[g])
      BY <2>3 DEF Sign, Close
    <3>2. mine[g] \in Signers
      BY <3>1 DEF BeginSign, BeginClose, Begin, CloseInv, SignerTypeOK
    <3> QED BY <1>2, <3>1, <3>2 DEF SignerNext, BeginOperation
  <2> QED BY <1>2, <2>1, <2>2, <2>3 DEF ExampleStep
<1> QED BY <1>1, <1>2 DEF ExampleNext

LEMMA InitReleaseInv == ExampleInit => ReleaseInv
<1> SUFFICES ASSUME ExampleInit PROVE ReleaseInv
  OBVIOUS
<1>1. CloseInv
  BY InitCloseInv DEF ExampleInit
<1>2. ExampleTypeOK
  BY DEF ExampleInit, ExampleTypeOK
<1>3. Releasing
  BY <1>2, StepsFacts DEF ExampleInit, ExampleTypeOK, Releasing, Exited, StepsOf
<1> QED BY <1>1, <1>2, <1>3 DEF ReleaseInv

\* Where a step may take a program: what it holds when it is over.
LEMMA ReleaseStep ==
    ASSUME ReleaseInv, CloseInv', NEW g \in Goroutines, ExampleStep(g),
           UNCHANGED <<excluded, program>>
    PROVE  ExampleTypeOK' /\ Releasing'
<1> DEFINE n == Len(StepsOf(g))
<1>1. /\ n \in Nat /\ n >= 2 /\ stage[g] \in Nat \ {0}
      /\ StepsOf(g)' = StepsOf(g) /\ Exited(g) <=> stage[g] > n
      /\ StepsOf(g)[n] = "close"
      /\ \A k \in 1..n : StepsOf(g)[k] \in {"open", "loadOrCreate"} <=> k = 1
  BY StepsFacts DEF ReleaseInv, ExampleTypeOK, StepsOf, Exited
<1>2. \A f \in Goroutines \ {g} : pc'[f] = pc[f] /\ on'[f] = on[f]
  BY DEF ExampleStep, AcquireFails, Acquire, Sign, Signed, Close, Delete, Work,
         SignerStep, QuerySignature, SignDigest, FreeKey, ClearKey, FreeProvider,
         ClearProvider, FreesUnlessCleared, BeginSign, ChecksHandle, BeginClose, Begin,
         MakeSigner, Finish, Step, signerVars, goroutineVars, ReleaseInv, CloseInv,
         SignerTypeOK
<1>3. closed \subseteq closed'
  BY DEF ExampleStep, AcquireFails, Acquire, Sign, Signed, Close, Delete, Work,
         SignerStep, QuerySignature, SignDigest, FreeKey, ClearKey, FreeProvider,
         ClearProvider, BeginSign, BeginClose, MakeSigner, signerVars
\* It is enough to look at the program itself.
<1>4. ASSUME stage' \in [Goroutines -> Nat \ {0}],
             mine' \in [Goroutines -> Signers \cup {NoSigner}],
             \A f \in Goroutines \ {g} : stage'[f] = stage[f] /\ mine'[f] = mine[f],
             stage'[g] = 1 => mine'[g] = NoSigner,
             stage'[g] > n => \/ mine'[g] = NoSigner
                              \/ mine'[g] \in closed'
                              \/ pc'[g] \in ClosePcs /\ on'[g] = mine'[g]
      PROVE  ExampleTypeOK' /\ Releasing'
  <2>1. ExampleTypeOK'
    BY <1>4 DEF ReleaseInv, ExampleTypeOK
  <2>2. Releasing'
    BY <1>1, <1>2, <1>3, <1>4 DEF ReleaseInv, ExampleTypeOK, Releasing, Exited, StepsOf
  <2> QED BY <2>1, <2>2
<1>5. stage \in [Goroutines -> Nat \ {0}] /\ mine \in [Goroutines -> Signers \cup {NoSigner}]
  BY DEF ReleaseInv, ExampleTypeOK
\* Inside the program nothing is asked of the signer.
<1>6. ASSUME NEW k \in 2..n, GoTo(g, k), mine' \in [Goroutines -> Signers \cup {NoSigner}],
             \A f \in Goroutines \ {g} : mine'[f] = mine[f]
      PROVE  ExampleTypeOK' /\ Releasing'
  <2>1. stage' = [stage EXCEPT ![g] = k] /\ k \in Nat \ {0} /\ k # 1 /\ ~(k > n)
    BY <1>1, <1>6 DEF GoTo
  <2> QED BY <1>4, <1>5, <1>6, <2>1
<1>7. CASE AcquireFails(g)
  <2>1. stage[g] = 1 /\ stage' = [stage EXCEPT ![g] = n + 1] /\ mine' = mine
    BY <1>1, <1>7 DEF AcquireFails, At, GoTo
  <2>2. mine'[g] = NoSigner /\ n + 1 \in Nat \ {0}
    BY <1>1, <2>1 DEF ReleaseInv, Releasing
  <2> QED BY <1>4, <1>5, <2>1, <2>2
<1>8. CASE Acquire(g)
  <2>1. PICK s \in Signers : mine' = [mine EXCEPT ![g] = s]
    BY <1>8 DEF Acquire
  <2>2. GoTo(g, 2) /\ 2 \in 2..n
    BY <1>1, <1>8 DEF Acquire, At
  <2> QED BY <1>5, <1>6, <2>1, <2>2
<1>9. CASE Sign(g)
  <2>1. mine' = mine /\ stage' = stage /\ ~(stage[g] > n)
    BY <1>1, <1>9 DEF Sign, At
  <2> QED BY <1>4, <1>5, <2>1 DEF ReleaseInv, Releasing
<1>10. CASE Signed(g)
  <2>1. ~Exited(g) /\ stage[g] # n /\ mine' = mine /\ (GoTo(g, stage[g] + 1) \/ GoTo(g, n))
    BY <1>1, <1>10 DEF Signed, At
  <2>2. stage[g] + 1 \in 2..n /\ n \in 2..n
    BY <1>1, <2>1
  <2> QED BY <1>5, <1>6, <2>1, <2>2
<1>11. CASE Delete(g)
  <2>1. ~Exited(g) /\ stage[g] # n /\ mine' = mine /\ GoTo(g, stage[g] + 1)
    BY <1>1, <1>11 DEF Delete, At
  <2>2. stage[g] + 1 \in 2..n
    BY <1>1, <2>1
  <2> QED BY <1>5, <1>6, <2>1, <2>2
<1>12. CASE Close(g)
  <2>1. /\ mine' = mine /\ stage' = [stage EXCEPT ![g] = @ + 1]
        /\ stage[g] + 1 \in Nat \ {0} /\ stage[g] + 1 # 1
        /\ pc'[g] = "freeKey" /\ on'[g] = mine[g]
    BY <1>1, <1>12
    DEF Close, GoTo, BeginClose, Begin, Step, ReleaseInv, CloseInv, SignerTypeOK
  <2> QED BY <1>4, <1>5, <2>1 DEF ClosePcs
<1>13. CASE Work(g)
  <2>1. mine' = mine /\ stage' = stage /\ on' = on /\ SignerStep(g)
    BY <1>13 DEF Work, SignerStep, QuerySignature, SignDigest, FreeKey, ClearKey,
                 FreeProvider, ClearProvider
  <2>2. pc[g] \in ClosePcs => pc'[g] \in ClosePcs \/ on[g] \in closed'
    BY <2>1
    DEF SignerStep, QuerySignature, SignDigest, FreeKey, ClearKey, FreeProvider,
        ClearProvider, FreesUnlessCleared, Step, Finish, ClosePcs, ReleaseInv, CloseInv,
        SignerTypeOK
  <2>3. stage[g] > n => \/ mine[g] = NoSigner
                        \/ mine[g] \in closed'
                        \/ pc'[g] \in ClosePcs /\ on[g] = mine[g]
    BY <1>1, <1>3, <2>2 DEF ReleaseInv, Releasing
  <2> QED BY <1>4, <1>5, <2>1, <2>3 DEF ReleaseInv, Releasing
<1> QED BY <1>7, <1>8, <1>9, <1>10, <1>11, <1>12, <1>13 DEF ExampleStep

LEMMA ReleaseInvStep == ReleaseInv /\ [ExampleNext]_exampleVars => ReleaseInv'
<1> SUFFICES ASSUME ReleaseInv, [ExampleNext]_exampleVars PROVE ReleaseInv'
  OBVIOUS
<1>1. CloseInv'
  BY ExampleSignerStep, CloseInvStep DEF ReleaseInv
<1>2. CASE UNCHANGED exampleVars
  BY <1>1, <1>2
  DEF exampleVars, signerVars, goroutineVars, ReleaseInv, ExampleTypeOK, Releasing,
      Exited, StepsOf
<1>3. ASSUME NEW g \in Goroutines, ExampleStep(g), UNCHANGED <<excluded, program>>
      PROVE  ReleaseInv'
  BY <1>1, <1>3, ReleaseStep DEF ReleaseInv
<1> QED BY <1>2, <1>3 DEF ExampleNext

LEMMA ReleaseInvariant == ExampleSpec => []ReleaseInv
<1> QED BY InitReleaseInv, ReleaseInvStep, PTL DEF ExampleSpec

\* A program that has ended holds no handle: whether it could not open a key,
\* failed to sign, or went through, its deferred Close has run (examples/).
THEOREM ProgramsRelease == ExampleSpec => []EndsReleased
<1>1. ReleaseInv => EndsReleased
  <2> SUFFICES ASSUME ReleaseInv, NEW g \in Goroutines, Exited(g), pc[g] = "idle",
                      NEW h \in Handles, NEW k \in Kinds, Owned(h, mine[g], k)
               PROVE  FALSE
    BY DEF EndsReleased, Holds
  <2>1. mine[g] = NoSigner \/ mine[g] \in closed
    BY DEF ReleaseInv, Releasing, ClosePcs
  <2>2. owner[h].signer = mine[g] /\ owner[h].kind = k /\ owner[h] \in Objects \cup {Free}
    BY DEF ReleaseInv, CloseInv, SignerTypeOK, Owned
  <2>3. mine[g] # NoSigner
    BY <2>2, SignerAssumption DEF Objects, Free, Kinds
  <2> QED BY <2>1, <2>3 DEF ReleaseInv, CloseInv, ClosedIsGone, Gone, Kinds
<1> QED BY <1>1, ReleaseInvariant, PTL

\* The programs use signers as the package offers them: what holds of signers
\* however they are used holds of the programs'.
THEOREM ProgramsAreClients == ExampleSpec => SignerSpec
<1>1. ExampleInit => SignerInit
  BY DEF ExampleInit
<1>2. CloseInv /\ [ExampleNext]_exampleVars => [SignerNext]_signerVars
  BY ExampleSignerStep
<1>3. ReleaseInv => CloseInv
  BY DEF ReleaseInv
<1> QED BY <1>1, <1>2, <1>3, ReleaseInvariant, PTL DEF ExampleSpec, SignerSpec
=============================================================================
