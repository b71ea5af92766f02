------------------------------ MODULE DaclWalk ------------------------------
(***************************************************************************)
(* verifyDACL as it runs: it gets at the DACL, converts the nine SIDs it   *)
(* compares with, each with a deferred LocalFree, and walks over the ACEs; *)
(* every native call may fail and every return runs the deferred calls.    *)
(* SecurityDescriptor!VerifyDACL states what it decides.                   *)
(***************************************************************************)
EXTENDS SecurityDescriptor

CONSTANTS WalkInputs    \* the descriptors examined

ASSUME WalkAssumption == WalkInputs \subseteq Descriptors

VARIABLES
    persisted,    \* what getSecurityDescriptor returned
    walkPc, next, \* where the function is, and the index of the next ACE
    converted,    \* how many SIDs have been converted
    deferred,     \* the SIDs whose LocalFree is still to run, last one first
    live,         \* SIDs that Windows has allocated
    freedTwice,
    found,        \* required trustees seen
    outcome       \* what the function returns

walkVars ==
    <<persisted, walkPc, next, converted, deferred, live, freedTwice, found, outcome>>

\* In the order of their conversion.
ComparedSids ==
    <<SYSTEM, Administrators, LocalService, "Everyone", "AuthUsers",
      "BuiltinUsers", "Interactive", "Service", "Anonymous">>

WalkTypeOK ==
    /\ persisted \in Descriptors
    /\ walkPc \in {"dacl", "count", "convert", "ace", "return", "done"}
    /\ next \in 1..(Len(persisted.aces) + 1)
    /\ converted \in 0..Len(ComparedSids)
    /\ deferred \in Seq(Sids)
    /\ live \subseteq Sids
    /\ freedTwice \in BOOLEAN
    /\ found \subseteq {SYSTEM, Administrators, LocalService}
    /\ outcome \in {"none", "verified", "rejected", "failed"}

WalkInit ==
    /\ persisted \in WalkInputs
    /\ walkPc = "dacl"
    /\ next = 1
    /\ converted = 0
    /\ deferred = <<>>
    /\ live = {}
    /\ freedTwice = FALSE
    /\ found = {}
    /\ outcome = "none"

\* Any return runs what was deferred before it.
Return(v) == walkPc' = "return" /\ outcome' = v

Continue(label) == walkPc' = label /\ UNCHANGED outcome

-----------------------------------------------------------------------------
\* Windows refuses a malformed descriptor, and may fail on any other.
GetDacl ==
    /\ walkPc = "dacl"
    /\ \/ persisted.intact /\ persisted.present /\ Continue("count")
       \/ persisted.intact /\ ~persisted.present /\ Return("rejected")
       \/ Return("failed")
    /\ UNCHANGED <<persisted, next, converted, deferred, live, freedTwice, found>>

CountAces ==
    /\ walkPc = "count"
    /\ \/ persisted.aces # <<>> /\ Continue("convert")
       \/ persisted.aces = <<>> /\ Return("rejected")
       \/ Return("failed")
    /\ UNCHANGED <<persisted, next, converted, deferred, live, freedTwice, found>>

\* Mutant: the SID is not freed.
ConvertUndeferred(sid) == live' = live \cup {sid} /\ UNCHANGED deferred

ConvertAndDefer(sid) ==
    live' = live \cup {sid} /\ deferred' = <<sid>> \o deferred

ConvertSid ==
    /\ walkPc = "convert"
    /\ converted < Len(ComparedSids)
    /\ \/ /\ ConvertAndDefer(ComparedSids[converted + 1])
          /\ converted' = converted + 1
          /\ UNCHANGED <<walkPc, outcome>>
       \/ Return("failed") /\ UNCHANGED <<converted, deferred, live>>
    /\ UNCHANGED <<persisted, next, freedTwice, found>>

AllConverted ==
    /\ walkPc = "convert"
    /\ converted = Len(ComparedSids)
    /\ Continue("ace")
    /\ UNCHANGED <<persisted, next, converted, deferred, live, freedTwice, found>>

-----------------------------------------------------------------------------
\* Mutant: a trustee may come twice.
AcceptableTwice(ace) ==
    /\ ace.sid \notin ForbiddenSids
    /\ ace.sid \in {SYSTEM, Administrators} => "GA" \in ace.mask
    /\ ace.sid = LocalService => "GR" \in ace.mask /\ ace.mask \cap {"GW", "GA"} = {}

\* The comparisons with the nine SIDs, of an allow ACE.
Acceptable(ace) ==
    /\ ace.sid \notin ForbiddenSids
    /\ ace.sid \notin found
    /\ ace.sid \in {SYSTEM, Administrators} => "GA" \in ace.mask
    /\ ace.sid = LocalService => "GR" \in ace.mask /\ ace.mask \cap {"GW", "GA"} = {}

Remember(ace) ==
    found' = IF ace.type = "allow"
             THEN found \cup ({ace.sid} \cap {SYSTEM, Administrators, LocalService})
             ELSE found

WalkAce ==
    /\ walkPc = "ace"
    /\ next <= Len(persisted.aces)
    /\ LET ace == persisted.aces[next]
       IN  \/ /\ ace.type # "allow" \/ Acceptable(ace)
              /\ Remember(ace)
              /\ next' = next + 1
              /\ UNCHANGED <<walkPc, outcome>>
           \/ /\ ace.type = "allow" /\ ~Acceptable(ace)
              /\ Return("rejected")
              /\ UNCHANGED <<next, found>>
           \* GetAce fails.
           \/ Return("failed") /\ UNCHANGED <<next, found>>
    /\ UNCHANGED <<persisted, converted, deferred, live, freedTwice>>

FoundRequired == found = {SYSTEM, Administrators, LocalService}

EndWalk ==
    /\ walkPc = "ace"
    /\ next > Len(persisted.aces)
    /\ Return(IF FoundRequired THEN "verified" ELSE "rejected")
    /\ UNCHANGED <<persisted, next, converted, deferred, live, freedTwice, found>>

\* A deferred LocalFree.
FreeSid ==
    /\ walkPc = "return"
    /\ deferred # <<>>
    /\ freedTwice' = (freedTwice \/ Head(deferred) \notin live)
    /\ live' = live \ {Head(deferred)}
    /\ deferred' = Tail(deferred)
    /\ UNCHANGED <<persisted, walkPc, next, converted, found, outcome>>

Returned ==
    /\ walkPc = "return"
    /\ deferred = <<>>
    /\ walkPc' = "done"
    /\ UNCHANGED <<persisted, next, converted, deferred, live, freedTwice, found, outcome>>

WalkNext ==
    \/ GetDacl \/ CountAces \/ ConvertSid \/ AllConverted
    \/ WalkAce \/ EndWalk \/ FreeSid \/ Returned

WalkSpec == WalkInit /\ [][WalkNext]_walkVars

-----------------------------------------------------------------------------
\* The walk, which stops at the first offending ACE and remembers only which
\* required trustees it has seen, decides what VerifyDACL says of the whole
\* DACL, in whatever order its ACEs are.
WalkDecides ==
    /\ outcome = "verified" => VerifyDACL(persisted)
    /\ outcome = "rejected" => ~VerifyDACL(persisted)

\* On every path out of the function, each SID that was allocated has been
\* freed, once.
SidsAreFreed ==
    /\ ~freedTwice
    /\ walkPc = "done" => live = {}
=============================================================================
