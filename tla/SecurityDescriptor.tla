------------------------- MODULE SecurityDescriptor -------------------------
(***************************************************************************)
(* The persisted DACL of a machine key: what the package requests, what    *)
(* the two acceptance tests of the package accept (the exact classifier of *)
(* sd.go and the older structural walk verifyDACL), which rewrites the     *)
(* policy engine allows, and what a DACL lets a token do.                  *)
(*                                                                         *)
(* A 32-bit access mask is the set of the rights it holds.  The generic    *)
(* bits keep their names; FRX stands for FILE_GENERIC_READ together with   *)
(* FILE_GENERIC_EXECUTE, and FW for the remaining bits of 0x001F01FF       *)
(* (write, DELETE, WRITE_DAC, WRITE_OWNER).                                *)
(***************************************************************************)
EXTENDS Integers, Sequences

CONSTANT ServiceSids       \* the per-service SIDs S-1-5-80-x-x-x-x-x in play

SYSTEM         == "SYSTEM"
Administrators == "Administrators"
LocalService   == "LocalService"
NoSid          == ""

ForbiddenSids == {"Everyone", "AuthUsers", "BuiltinUsers",
                  "Interactive", "Service", "Anonymous"}

\* A trustee outside every list above, such as a domain account.
OtherSid == "OtherSid"

WellKnownSids ==
    {SYSTEM, Administrators, LocalService, OtherSid} \cup ForbiddenSids

ASSUME ServiceSidsAssumption ==
    ServiceSids \cap (WellKnownSids \cup {NoSid}) = {}

Sids == WellKnownSids \cup ServiceSids

-----------------------------------------------------------------------------
(***************************************************************************)
(* Descriptors.  "intact" says that every length, offset and revision of   *)
(* the self-relative buffer is one the parsers accept; "present" that it   *)
(* holds a DACL that is not NULL.                                          *)
(***************************************************************************)
Rights == {"GA", "GR", "GW", "GX", "FRX", "FW"}

ACEs == [type : {"allow", "deny"}, flags : {"none", "inherited"},
         mask : SUBSET Rights, sid : Sids]

Descriptors == [intact : BOOLEAN, present : BOOLEAN, protected : BOOLEAN,
                aces : Seq(ACEs)]

AdministrativeMasks == {{"GA"}, {"GA", "GR", "GW", "FRX", "FW"}}
LocalServiceMasks   == {{"GR", "GX"}, {"GR"}, {"GR", "FRX"}}
ServiceMasks        == {{"GR", "GX"}, {"GR", "FRX"}}

SidsOf(d) == {d.aces[i].sid : i \in DOMAIN d.aces}

-----------------------------------------------------------------------------
(***************************************************************************)
(* The policies.  A policy is the DACL state that satisfies it and, for    *)
(* the service-sid state, the service it names.                            *)
(***************************************************************************)
ServiceSigner       == [state |-> "service-signer", sid |-> NoSid]
PrivilegedOnly      == [state |-> "privileged-only", sid |-> NoSid]
ServicePolicy(s)    == [state |-> "service-sid", sid |-> s]
Unknown             == [state |-> "unknown", sid |-> NoSid]

Policies == {ServiceSigner, PrivilegedOnly}
              \cup {ServicePolicy(s) : s \in ServiceSids}

Allow(sid, mask) ==
    [type |-> "allow", flags |-> "none", mask |-> mask, sid |-> sid]

Protected(aces) ==
    [intact |-> TRUE, present |-> TRUE, protected |-> TRUE, aces |-> aces]

AdministrativeAces == <<Allow(SYSTEM, {"GA"}), Allow(Administrators, {"GA"})>>

\* Besides SYSTEM and Administrators a policy grants at most one trustee.
Trustee(p) == IF p = ServiceSigner THEN LocalService ELSE p.sid

Trustees(p) ==
    {SYSTEM, Administrators} \cup (IF p = PrivilegedOnly THEN {} ELSE {Trustee(p)})

\* The descriptor the SDDL of a policy converts to.
Requested(p) ==
    Protected(IF p = PrivilegedOnly THEN AdministrativeAces
              ELSE Append(AdministrativeAces, Allow(Trustee(p), {"GR", "GX"})))

-----------------------------------------------------------------------------
(***************************************************************************)
(* The exact classifier.                                                   *)
(***************************************************************************)
\* Mutant: ACEs of any type are collected.
ParsedAnyType(d) == d.intact /\ d.present /\ d.protected

Parsed(d) ==
    /\ d.intact /\ d.present /\ d.protected
    /\ \A i \in DOMAIN d.aces : d.aces[i].type = "allow"

MaskRecognized(ace) ==
    \/ ace.sid \in {SYSTEM, Administrators} /\ ace.mask \in AdministrativeMasks
    \/ ace.sid = LocalService /\ ace.mask \in LocalServiceMasks
    \/ ace.sid \in ServiceSids /\ ace.mask \in ServiceMasks

NoDuplicates(d) ==
    \A i, j \in DOMAIN d.aces : d.aces[i].sid = d.aces[j].sid => i = j

Recognized(d) ==
    /\ Parsed(d)
    /\ NoDuplicates(d)
    /\ \A i \in DOMAIN d.aces :
          d.aces[i].flags = "none" /\ MaskRecognized(d.aces[i])
    /\ {SYSTEM, Administrators} \subseteq SidsOf(d)

\* The policy that grants the trustees of d, if d is recognized at all.
Classify(d) ==
    IF Recognized(d) /\ \E p \in Policies : SidsOf(d) = Trustees(p)
    THEN CHOOSE p \in Policies : SidsOf(d) = Trustees(p)
    ELSE Unknown

\* Mutant: a privileged-only key may be handed to a service.
TransitionFromPrivileged(current, want) ==
    want.state # "service-signer" /\ current.state # "unknown"

TransitionAllowed(current, want) ==
    \/ /\ want.state = "privileged-only"
       /\ current.state \in {"service-signer", "service-sid"}
    \/ want.state = "service-sid" /\ current.state = "service-signer"

-----------------------------------------------------------------------------
(***************************************************************************)
(* The structural walk of the original API: only allow ACEs are looked at, *)
(* extra trustees, flags and protection are not.                           *)
(***************************************************************************)
GrantedOnce(d, sid) ==
    \E i \in DOMAIN d.aces :
        /\ d.aces[i].type = "allow" /\ d.aces[i].sid = sid
        /\ \A j \in DOMAIN d.aces :
              d.aces[j].type = "allow" /\ d.aces[j].sid = sid => j = i

VerifyDACL(d) ==
    /\ d.intact /\ d.present /\ d.aces # <<>>
    /\ \A sid \in {SYSTEM, Administrators, LocalService} : GrantedOnce(d, sid)
    /\ \A i \in DOMAIN d.aces :
          LET ace == d.aces[i]
          IN  ace.type = "allow" =>
                /\ ace.sid \notin ForbiddenSids
                /\ ace.sid \in {SYSTEM, Administrators} => "GA" \in ace.mask
                /\ ace.sid = LocalService =>
                     "GR" \in ace.mask /\ ace.mask \cap {"GW", "GA"} = {}

-----------------------------------------------------------------------------
(***************************************************************************)
(* What Windows makes of a DACL (external): the uses of the key that the   *)
(* ACEs for a token's SIDs allow.  A key without a DACL is open to all.    *)
(***************************************************************************)
Uses == {"sign", "control"}

MaskUses(mask) ==
    (IF mask \cap {"GA", "GR", "FRX"} # {} THEN {"sign"} ELSE {})
      \cup (IF mask \cap {"GA", "GW", "FW"} # {} THEN {"control"} ELSE {})

AceUses(token, d, type) ==
    UNION {MaskUses(d.aces[i].mask) :
             i \in {j \in DOMAIN d.aces :
                      d.aces[j].sid \in token /\ d.aces[j].type = type}}

Granted(token, d) ==
    IF ~d.present THEN Uses
    ELSE AceUses(token, d, "allow") \ AceUses(token, d, "deny")

IsPrivileged(token) == SYSTEM \in token \/ Administrators \in token
=============================================================================
