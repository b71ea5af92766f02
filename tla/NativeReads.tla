---------------------------- MODULE NativeReads -----------------------------
(***************************************************************************)
(* Reading a value whose size only Windows knows.  The package does it in  *)
(* three ways: it asks for the size and then reads (getSecurityDescriptor, *)
(* exportPublicKey, Sign), it doubles a buffer until the value fits        *)
(* (moduleFileName), or it takes the size a failed read asks for           *)
(* (systemDirectory).  A persisted descriptor can be replaced by another   *)
(* process between any two calls; the other values do not change.          *)
(***************************************************************************)
EXTENDS Integers

CONSTANTS
    Protocols,       \* those of the readers checked
    Lengths,         \* lengths the value may have
    Contents,        \* what tells two values of the same length apart
    Changes,         \* bound: how often the value is replaced
    MaxPath,         \* syscall.MAX_PATH
    GrowthLimit,     \* moduleFileName stops growing at this size
    NothingRead

TwoCalls == {"descriptor", "fixed"}
Growing == {"module", "directory"}

Values == [length : Lengths, content : Contents]

ASSUME ReadAssumption ==
    /\ Protocols \subseteq TwoCalls \cup Growing
    /\ Lengths \subseteq Nat \ {0}
    /\ Changes \in Nat
    /\ MaxPath \in Nat \ {0}
    /\ GrowthLimit \in Nat /\ MaxPath < 2 * GrowthLimit
    /\ NothingRead \notin [length : Nat, content : Contents]

VARIABLES
    protocol,    \* how the value is read
    value,       \* the value Windows holds
    changes,     \* how often it was replaced
    pc,          \* where the reader is
    buffer,      \* the length of its buffer, 0 before there is one
    reported,    \* the length the last call reported
    held,        \* what the buffer holds: a value cut to the buffer, or nothing
    outcome      \* what it returned

readVars == <<protocol, value, changes, pc, buffer, reported, held, outcome>>

\* What is returned may be shorter or longer than any value.
Results == [length : Nat, content : Contents]

ReadTypeOK ==
    /\ protocol \in Protocols
    /\ value \in Values
    /\ changes \in 0..Changes
    /\ pc \in {"query", "read", "take", "done"}
    /\ buffer \in Nat
    /\ protocol = "module" => buffer < 2 * GrowthLimit
    /\ reported \in Nat
    /\ held \in Results \cup {NothingRead}
    /\ outcome \in Results \cup {NothingRead}

ReadInit ==
    /\ protocol \in Protocols
    /\ value \in Values
    /\ changes = 0
    /\ pc = IF protocol \in TwoCalls THEN "query" ELSE "read"
    /\ buffer = IF protocol \in TwoCalls THEN 0 ELSE MaxPath
    /\ reported = 0
    /\ held = NothingRead
    /\ outcome = NothingRead

\* External: another process replaces the persisted descriptor.
ReplaceValue ==
    /\ protocol = "descriptor"
    /\ changes < Changes
    /\ changes' = changes + 1
    /\ value' \in Values
    /\ UNCHANGED <<protocol, pc, buffer, reported, held, outcome>>

Fail ==
    /\ pc' = "done"
    /\ UNCHANGED <<buffer, reported, held, outcome>>

-----------------------------------------------------------------------------
(***************************************************************************)
(* Two calls: the size, then the value.                                    *)
(***************************************************************************)
\* External: a key may be said to have no descriptor.
ReportedSizes == {value.length} \cup IF protocol = "descriptor" THEN {0} ELSE {}

\* Mutant: the size is not looked at.
UsableUnchecked(n) == n >= 0

UsableSize(n) == protocol = "descriptor" => n # 0

QuerySize ==
    /\ pc = "query"
    /\ \/ \E n \in ReportedSizes :
             /\ UsableSize(n)
             /\ reported' = n
             /\ buffer' = n
             /\ pc' = "read"
             /\ UNCHANGED <<held, outcome>>
       \/ Fail
    /\ UNCHANGED <<protocol, value, changes>>

\* External: NCrypt refuses a buffer that is too small, and reports how much of
\* a larger one it filled.
ReadValue ==
    /\ pc = "read"
    /\ protocol \in TwoCalls
    /\ \/ /\ value.length <= buffer
          /\ held' = value
          /\ reported' = value.length
          /\ pc' = "take"
          /\ UNCHANGED <<buffer, outcome>>
       \/ Fail
    /\ UNCHANGED <<protocol, value, changes>>

\* Mutant: the whole buffer is returned.
WholeBuffer == buffer

\* getSecurityDescriptor cuts the buffer to the reported length; Sign and
\* exportPublicKey return it whole.
Returned == IF protocol = "descriptor" THEN reported ELSE buffer

TakeValue ==
    /\ pc = "take"
    /\ protocol \in TwoCalls
    /\ outcome' = [held EXCEPT !.length = Returned]
    /\ pc' = "done"
    /\ UNCHANGED <<protocol, value, changes, buffer, reported, held>>

-----------------------------------------------------------------------------
(***************************************************************************)
(* A buffer that grows.                                                    *)
(***************************************************************************)
\* External: GetModuleFileNameW cuts what does not fit and reports the size of
\* the buffer, GetSystemDirectoryW writes nothing and reports the size that is
\* needed with the terminating NUL.  Both need room for the NUL.
Fits == value.length < buffer

ReadPath ==
    /\ pc = "read"
    /\ protocol \in Growing
    /\ \/ /\ reported' = IF Fits THEN value.length
                         ELSE IF protocol = "module" THEN buffer
                         ELSE value.length + 1
          /\ held' = IF Fits THEN value
                     ELSE IF protocol = "module"
                     THEN [value EXCEPT !.length = buffer - 1]
                     ELSE NothingRead
          /\ pc' = "take"
          /\ UNCHANGED <<buffer, outcome>>
       \/ Fail
    /\ UNCHANGED <<protocol, value, changes>>

AcceptsPath == reported < buffer

TakePath ==
    /\ pc = "take"
    /\ protocol \in Growing
    /\ AcceptsPath
    /\ outcome' = [held EXCEPT !.length = reported]
    /\ pc' = "done"
    /\ UNCHANGED <<protocol, value, changes, buffer, reported, held>>

\* Mutant: growth stops one size too early.
StopsEarly == protocol = "module" /\ 2 * buffer >= GrowthLimit

StopsGrowing == protocol = "module" /\ buffer >= GrowthLimit

\* Mutant: growth by what was reported, for both functions.
NextSizeReported == reported

NextSize == IF protocol = "module" THEN 2 * buffer ELSE reported

GrowBuffer ==
    /\ pc = "take"
    /\ protocol \in Growing
    /\ ~AcceptsPath
    /\ IF StopsGrowing THEN Fail
       ELSE /\ buffer' = NextSize
            /\ pc' = "read"
            /\ UNCHANGED <<reported, held, outcome>>
    /\ UNCHANGED <<protocol, value, changes>>

ReadStep == QuerySize \/ ReadValue \/ TakeValue \/ ReadPath \/ TakePath \/ GrowBuffer

ReadNext == ReplaceValue \/ ReadStep

ReadSpec == ReadInit /\ [][ReadNext]_readVars

\* The reader keeps running and native calls return.
FairReadSpec == ReadSpec /\ WF_readVars(ReadStep)

-----------------------------------------------------------------------------
\* What is returned is one value that was there, whole and without padding,
\* however often the value is replaced while it is read.
ReturnsOneValue ==
    outcome # NothingRead =>
        /\ outcome = held
        /\ outcome.length \in Lengths
        /\ protocol # "descriptor" => outcome = value

\* The buffer is never sliced beyond its end, and it is not empty when the
\* address of its first element is taken.
StaysInBuffer ==
    /\ pc = "read" => buffer > 0
    /\ pc = "done" /\ outcome # NothingRead => outcome.length <= buffer

\* A path is given up for its length only if it does not fit into GrowthLimit.
LongPathsAreRead ==
    (pc = "take" /\ protocol = "module" /\ ~AcceptsPath /\ StopsGrowing) =>
        value.length >= GrowthLimit

\* Every read ends.
ReadEnds == <>(pc = "done")
=============================================================================
