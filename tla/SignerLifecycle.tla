-------------------------- MODULE SignerLifecycle ---------------------------
(***************************************************************************)
(* Signers of one process (cngSigner): Sign with its two native calls, and *)
(* Close, on several goroutines.  The key handle is a field that is read   *)
(* and cleared without a lock, and the values of handles that were freed   *)
(* are given out again.                                                    *)
(***************************************************************************)
EXTENDS Integers

CONSTANTS
    Signers,       \* signers the process opens, each on a key of its own
    Goroutines,
    Handles,       \* values of native handles
    NoHandle,      \* the zero value of a handle field
    NoSigner,
    Operations,    \* bound: operations of a goroutine
    Disciplines    \* sets of pairs of operations that callers may agree not to
                   \* run at once on a signer

Kinds == {"provider", "key"}
SignerOps == {"sign", "close"}

ASSUME SignerAssumption ==
    /\ NoHandle \notin Handles
    /\ NoSigner \notin Signers
    /\ Operations \in Nat
    /\ Disciplines \subseteq SUBSET (SignerOps \X SignerOps)

\* Close is not to be run "concurrently with Sign on the same signer"
\* (docs/README.md), nor with itself, which the documentation leaves open.
Documented == {<<"sign", "close">>, <<"close", "sign">>, <<"close", "close">>}

VARIABLES
    excluded,    \* what the callers of this behaviour keep to
    made,        \* signers that exist
    field,       \* the handle fields of each signer
    owner,       \* what a handle refers to: a signer's provider or key
    pc, op, on,  \* where a goroutine is, in which operation, on which signer
    register,    \* the key handle Sign read when it checked it
    late,        \* Sign was called after a Close had returned
    result,      \* what the last operation returned
    done,        \* operations finished
    closed,      \* signers on which Close has returned
    stale        \* goroutines that used a handle that was not their signer's

goroutineVars == <<pc, op, on, register, late, result, done>>
signerVars == <<excluded, made, field, owner, goroutineVars, closed, stale>>

Objects == [signer : Signers, kind : Kinds]
Free == [signer |-> NoSigner, kind |-> "free"]

\* A signature is identified by the signer whose key made it.
Signature(s) == [out |-> "signature", key |-> s]
Answer(out) == [out |-> out, key |-> NoSigner]
Results == {Answer(out) : out \in {"none", "closed", "error", "released"}}
             \cup {Signature(s) : s \in Signers}

\* Types, and that Sign gets as far as its native calls only with a key handle
\* that it has read and found to be one.
SignerTypeOK ==
    /\ excluded \in Disciplines
    /\ made \subseteq Signers
    /\ field \in [Signers -> [Kinds -> Handles \cup {NoHandle}]]
    /\ owner \in [Handles -> Objects \cup {Free}]
    /\ pc \in [Goroutines -> {"idle", "query", "sign", "freeKey", "clearKey",
                              "freeProvider", "clearProvider"}]
    /\ op \in [Goroutines -> SignerOps \cup {"none"}]
    /\ on \in [Goroutines -> Signers \cup {NoSigner}]
    /\ register \in [Goroutines -> Handles \cup {NoHandle}]
    /\ \A g \in Goroutines : pc[g] \in {"query", "sign"} => register[g] \in Handles
    /\ late \in [Goroutines -> BOOLEAN]
    /\ result \in [Goroutines -> Results]
    /\ done \in [Goroutines -> 0..Operations]
    /\ closed \subseteq made
    /\ stale \subseteq Goroutines

SignerInit ==
    /\ excluded \in Disciplines
    /\ made = {}
    /\ field = [s \in Signers |-> [k \in Kinds |-> NoHandle]]
    /\ owner = [h \in Handles |-> Free]
    /\ pc = [g \in Goroutines |-> "idle"]
    /\ op = [g \in Goroutines |-> "none"]
    /\ on = [g \in Goroutines |-> NoSigner]
    /\ register = [g \in Goroutines |-> NoHandle]
    /\ late = [g \in Goroutines |-> FALSE]
    /\ result = [g \in Goroutines |-> Answer("none")]
    /\ done = [g \in Goroutines |-> 0]
    /\ closed = {}
    /\ stale = {}

Running(o, s) == \E g \in Goroutines : pc[g] # "idle" /\ op[g] = o /\ on[g] = s

MayRun(o, s) == \A other \in SignerOps : Running(other, s) => <<o, other>> \notin excluded

Step(g, label) == pc' = [pc EXCEPT ![g] = label]

Finish(g, r) ==
    /\ Step(g, "idle")
    /\ result' = [result EXCEPT ![g] = r]
    /\ done' = [done EXCEPT ![g] = @ + 1]

Owned(h, s, k) == h \in Handles /\ owner[h] = [signer |-> s, kind |-> k]

\* Notes that a handle was passed to a native call.
Uses(g, h, k) ==
    stale' = IF Owned(h, on[g], k) THEN stale ELSE stale \cup {g}

-----------------------------------------------------------------------------
\* An entry point hands out a signer: Windows gave two handles nobody holds.
MakeSigner(s) ==
    /\ s \notin made
    /\ made' = made \cup {s}
    /\ \E p, k \in {h \in Handles : owner[h] = Free} :
          /\ p # k
          /\ field' = [field EXCEPT ![s] = [provider |-> p, key |-> k]]
          /\ owner' = [owner EXCEPT ![p] = [signer |-> s, kind |-> "provider"],
                                    ![k] = [signer |-> s, kind |-> "key"]]
    /\ UNCHANGED <<goroutineVars, closed, stale>>

Begin(g, o, s) ==
    /\ pc[g] = "idle"
    /\ done[g] < Operations
    /\ s \in made
    /\ MayRun(o, s)
    /\ op' = [op EXCEPT ![g] = o]
    /\ on' = [on EXCEPT ![g] = s]

\* Mutant: the handle is not checked.
ChecksNothing(g, s) ==
    /\ register' = [register EXCEPT ![g] = field[s]["key"]]
    /\ Step(g, "query")
    /\ UNCHANGED <<result, done>>

ChecksHandle(g, s) ==
    IF field[s]["key"] = NoHandle
    THEN Finish(g, Answer("closed")) /\ UNCHANGED register
    ELSE /\ register' = [register EXCEPT ![g] = field[s]["key"]]
         /\ Step(g, "query")
         /\ UNCHANGED <<result, done>>

BeginSign(g, s) ==
    /\ Begin(g, "sign", s)
    /\ late' = [late EXCEPT ![g] = s \in closed]
    /\ ChecksHandle(g, s)
    /\ UNCHANGED <<made, field, owner, closed, stale>>

\* The digest is empty.
RejectDigest(g, s) ==
    /\ Begin(g, "sign", s)
    /\ field[s]["key"] # NoHandle
    /\ late' = [late EXCEPT ![g] = s \in closed]
    /\ Finish(g, Answer("error"))
    /\ UNCHANGED <<made, field, owner, register, closed, stale>>

\* The field is read again for each native call; the compiler may use the value
\* it has read before.
KeyHandle(g) == {register[g], field[on[g]]["key"]}

\* The first NCryptSignHash, which asks for the size.  A handle that is free or
\* not a key is refused.
QuerySignature(g) ==
    /\ pc[g] = "query"
    /\ \E h \in KeyHandle(g) :
          /\ Uses(g, h, "key")
          /\ \/ /\ \E s \in Signers : Owned(h, s, "key")
                /\ Step(g, "sign")
                /\ UNCHANGED <<result, done>>
             \/ Finish(g, Answer("error"))
    /\ UNCHANGED <<made, field, owner, op, on, register, late, closed>>

\* The second NCryptSignHash, and the conversion of what it returns, which
\* fails if the KSP returned something that is not a P-256 signature.
SignDigest(g) ==
    /\ pc[g] = "sign"
    /\ \E h \in KeyHandle(g) :
          /\ Uses(g, h, "key")
          /\ \/ \E s \in Signers :
                   Owned(h, s, "key") /\ Finish(g, Signature(s))
             \/ Finish(g, Answer("error"))
    /\ UNCHANGED <<made, field, owner, op, on, register, late, closed>>

-----------------------------------------------------------------------------
BeginClose(g, s) ==
    /\ Begin(g, "close", s)
    /\ Step(g, "freeKey")
    /\ UNCHANGED <<made, field, owner, register, late, result, done, closed, stale>>

\* NCryptFreeObject; a value that is not a handle any more frees nothing.
FreeObject(h) == owner' = IF h \in Handles THEN [owner EXCEPT ![h] = Free] ELSE owner

\* Mutant: freed without looking whether it was freed before.
FreesAlways(g, k, clear, next) ==
    /\ FreeObject(field[on[g]][k])
    /\ Uses(g, field[on[g]][k], k)
    /\ Step(g, clear)

FreesUnlessCleared(g, k, clear, next) ==
    IF field[on[g]][k] # NoHandle
    THEN /\ FreeObject(field[on[g]][k])
         /\ Uses(g, field[on[g]][k], k)
         /\ Step(g, clear)
    ELSE Step(g, next) /\ UNCHANGED <<owner, stale>>

FreeKey(g) ==
    /\ pc[g] = "freeKey"
    /\ FreesUnlessCleared(g, "key", "clearKey", "freeProvider")
    /\ UNCHANGED <<made, field, op, on, register, late, result, done, closed>>

\* Mutant: the field keeps the value of the freed handle.
KeepField(g, k) == UNCHANGED field

ClearField(g, k) == field' = [field EXCEPT ![on[g]][k] = NoHandle]

ClearKey(g) ==
    /\ pc[g] = "clearKey"
    /\ ClearField(g, "key")
    /\ Step(g, "freeProvider")
    /\ UNCHANGED <<made, owner, op, on, register, late, result, done, closed, stale>>

FreeProvider(g) ==
    /\ pc[g] = "freeProvider"
    /\ FreesUnlessCleared(g, "provider", "clearProvider", "clearProvider")
    /\ UNCHANGED <<made, field, op, on, register, late, result, done, closed>>

ClearProvider(g) ==
    /\ pc[g] = "clearProvider"
    /\ ClearField(g, "provider")
    /\ closed' = closed \cup {on[g]}
    /\ Finish(g, Answer("released"))
    /\ UNCHANGED <<made, owner, op, on, register, late, stale>>

SignerStep(g) ==
    \/ QuerySignature(g) \/ SignDigest(g)
    \/ FreeKey(g) \/ ClearKey(g) \/ FreeProvider(g) \/ ClearProvider(g)

BeginOperation(g, s) == BeginSign(g, s) \/ RejectDigest(g, s) \/ BeginClose(g, s)

SignerNext ==
    /\ \/ \E s \in Signers : MakeSigner(s)
       \/ \E g \in Goroutines : SignerStep(g) \/ \E s \in Signers : BeginOperation(g, s)
    /\ UNCHANGED excluded

SignerSpec == SignerInit /\ [][SignerNext]_signerVars

-----------------------------------------------------------------------------
\* No native call gets a handle that was freed or belongs to something else,
\* and none is freed twice, also by a Close that is repeated, if callers keep
\* to what is documented.
HandlesAreLive == Documented \subseteq excluded => stale = {}

\* A signature that Sign returns was made by the signer's own key, so that it
\* verifies under Public(), although handle values are given out again.
SignsWithOwnKey ==
    Documented \subseteq excluded => \A g \in Goroutines :
        (pc[g] = "idle" /\ result[g].out = "signature") =>
            op[g] = "sign" /\ result[g].key = on[g]

\* Once Close has returned, Sign does nothing but say so; no signer is opened
\* again by whatever else is running.
ClosedSignersRefuse ==
    \A g \in Goroutines :
        (op[g] = "sign" /\ late[g]) => pc[g] = "idle" /\ result[g] = Answer("closed")

\* When Close has returned, Windows holds nothing for the signer any more.
CloseReleases ==
    \A s \in closed, h \in Handles, k \in Kinds : ~Owned(h, s, k)

\* A Close that has returned is final, without any coordination: nothing is
\* held for the signer again and nothing is signed with it.
ClosedStaysClosed == ClosedSignersRefuse /\ CloseReleases
=============================================================================
