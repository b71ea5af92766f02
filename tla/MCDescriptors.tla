--------------------------- MODULE MCDescriptors ----------------------------
(***************************************************************************)
(* Small instances of PersistedDescriptor for TLC.                         *)
(*                                                                         *)
(* Buffers are around the sizes of the ACLs with two and three ACEs: 52    *)
(* bytes are the privileged-only ACL.  Offsets are of 8 bits, the largest  *)
(* of them so close to the limit that adding the ACL header wraps.  DACLs  *)
(* are all those of up to four ACEs drawn from lists that have accepted    *)
(* ACEs and near misses for each trustee.                                  *)
(***************************************************************************)
EXTENDS PersistedDescriptor

CONSTANTS serviceA, serviceB

MCServiceSids == {serviceA, serviceB}

-----------------------------------------------------------------------------
MCOffsetRange == 256

GoodHeader(length, offset, size, count) ==
    [length |-> length, revision |-> 1, selfRelative |-> TRUE,
     present |-> TRUE, protected |-> TRUE, daclOffset |-> offset,
     aclRevision |-> 2, aclSize |-> size, aceCount |-> count]

MCHeaders ==
    {GoodHeader(length, offset, size, count) :
        length \in {19, 20, 27, 28, 48, 72, 76, 112},
        offset \in {0, 19, 20, 24, 252},
        size \in {7, 8, 12, 24, 28, 52, 56, 92}, count \in 0..3}
      \cup {[GoodHeader(72, 20, 52, 2) EXCEPT
                !.revision = r, !.selfRelative = s, !.present = p,
                !.protected = q, !.aclRevision = a] :
               r \in {1, 2}, s \in BOOLEAN, p \in BOOLEAN, q \in BOOLEAN,
               a \in {2, 3, 4}}

\* The length of a well-formed ACE of each trustee.
SubAuthorities ==
    [sid \in {SYSTEM, Administrators, LocalService, serviceA, OtherSid} |->
        CASE sid = Administrators -> 2
          [] sid = serviceA -> 6
          [] sid = OtherSid -> 15
          [] OTHER -> 1]

Fields(size, revision, count, ace) ==
    [size |-> size, sidRevision |-> revision, subAuthorities |-> count, ace |-> ace]

\* Every size against every count, and defects that are not of the size.
MCCandidates ==
    {Fields(16 + 4 * SubAuthorities[sid], 1, SubAuthorities[sid], Allow(sid, {"GA"})) :
        sid \in DOMAIN SubAuthorities}
      \cup {Fields(size, 1, count, Allow(OtherSid, {"GR"})) :
               size \in {0, 7, 8, 10, 12, 16, 20, 24, 80}, count \in {0, 1, 2, 16}}
      \cup {Fields(20, revision, 1, [Allow(OtherSid, {"GR"}) EXCEPT !.type = t]) :
               revision \in {1, 2}, t \in {"allow", "deny"}}

\* The ACL of a privileged-only key and what may follow its two ACEs.
TrailingHeaders ==
    {GoodHeader(20 + size, 20, size, count) : size \in {52, 56, 72}, count \in 0..3}

TrailingCandidates ==
    {Fields(20, 1, 1, Allow(SYSTEM, {"GA"})),
     Fields(24, 1, 2, Allow(Administrators, {"GA"})),
     Fields(20, 1, 1, Allow(LocalService, {"GR"})),
     Fields(20, 1, 1, Allow(OtherSid, {"GR"}))}

-----------------------------------------------------------------------------
KspAdministrative == {"GA", "GR", "GW", "FRX", "FW"}

MCAces ==
    {Allow(SYSTEM, {"GA"}), Allow(SYSTEM, {"GA", "GR"}),
     Allow(Administrators, {"GA"}), Allow(Administrators, KspAdministrative),
     Allow(LocalService, {"GR"}), Allow(LocalService, {"GR", "FRX"}),
     Allow(LocalService, {"GR", "GW"}),
     Allow(serviceA, {"GR", "GX"}), Allow(serviceA, {"GR"}),
     Allow(serviceB, {"GR", "FRX"}), Allow(OtherSid, {"GR"}),
     [Allow(LocalService, {"GR"}) EXCEPT !.flags = "inherited"],
     [Allow(SYSTEM, {"GA"}) EXCEPT !.type = "deny"]}

\* The walk tells fewer ACEs apart and takes more steps.
MCWalkAces ==
    {Allow(SYSTEM, {"GA"}), Allow(SYSTEM, {"GR"}),
     Allow(Administrators, KspAdministrative),
     Allow(LocalService, {"GR", "GX"}), Allow(LocalService, {"GR", "GW"}),
     Allow(serviceA, {"GR", "FRX"}), Allow("BuiltinUsers", {"GR"}),
     [Allow("Everyone", {"GA"}) EXCEPT !.type = "deny"],
     [Allow(LocalService, {"GR"}) EXCEPT !.type = "deny"]}

Dacls(allAces) == {Protected(s) : s \in UNION {[1..n -> allAces] : n \in 0..4}}

\* Every defect of the header.
Defective ==
    {[intact |-> intact, present |-> present, protected |-> protected,
      aces |-> Requested(ServiceSigner).aces] :
        intact \in BOOLEAN, present \in BOOLEAN, protected \in BOOLEAN}

MCInputs == Dacls(MCAces) \cup Defective
MCWalkInputs == Dacls(MCWalkAces) \cup Defective

EmptyDacl == {Protected(<<>>)}

-----------------------------------------------------------------------------
\* The inputs of the two that are not run.
MCIdleHeader == GoodHeader(20, 20, 8, 0)
MCIdleDescriptor == Protected(<<>>)
=============================================================================
