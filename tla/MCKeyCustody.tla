---------------------------- MODULE MCKeyCustody ----------------------------
(***************************************************************************)
(* Small instances of KeyCustody for TLC: two services, a handful of       *)
(* tokens and descriptors, and the request sets of the runs.               *)
(***************************************************************************)
EXTENDS KeyCustody, TLC

CONSTANTS serviceA, serviceB

MCServiceSids == {serviceA, serviceB}

CallSymmetry == Permutations(Calls)

-----------------------------------------------------------------------------
Admin      == {Administrators, OtherSid}
System     == {SYSTEM}
AnyLS      == {LocalService, "Service"}
AgentA     == {LocalService, "Service", serviceA}
AgentB     == {LocalService, "Service", serviceB}
Domain     == {"Everyone", "AuthUsers", OtherSid}
User       == {"Everyone", "AuthUsers", "BuiltinUsers", "Interactive"}

\* A service with its SID enabled that runs as another account.
NetworkA   == {"Service", serviceA}

MCTokens        == {Admin, System, AnyLS, AgentA, AgentB, User, Domain}
MCTokensNetwork == MCTokens \cup {NetworkA}

-----------------------------------------------------------------------------
\* The masks the Microsoft Software KSP was seen to persist.
KspAce(ace) ==
    [ace EXCEPT !.mask = IF @ = {"GA"} THEN {"GA", "GR", "GW", "FRX", "FW"}
                         ELSE {"GR", "FRX"}]

KspForm(d) == [d EXCEPT !.aces = [i \in DOMAIN @ |-> KspAce(@[i])]]

\* The original API accepts an additional trustee, the classifier does not.
LooseForm(d) ==
    [d EXCEPT !.aces = Append(@, Allow(OtherSid, {"GR"}))]

RequestedSDs == {Requested(p) : p \in Policies}

FaithfulForms   == [d \in RequestedSDs |-> {KspForm(d)}]
EitherForms     == [d \in RequestedSDs |-> {d, KspForm(d)}]
UnfaithfulForms == [d \in RequestedSDs |-> {KspForm(d), LooseForm(d)}]

\* Neither API accepts what the provider would use by default.
MCDefaultSD ==
    [intact |-> TRUE, present |-> TRUE, protected |-> FALSE,
     aces |-> AdministrativeAces \o <<Allow("BuiltinUsers", {"GR"})>>]

Existing(sd, profile) == [maker |-> Origin, sd |-> sd, profile |-> profile]

StrongKeys == {Existing(KspForm(Requested(p)), "strong") :
                 p \in {ServiceSigner, PrivilegedOnly, ServicePolicy(serviceA)}}

OddKeys == {Existing(LooseForm(Requested(ServiceSigner)), "strong"),
            Existing(Requested(ServiceSigner), "exportable"),
            Existing(Requested(ServiceSigner), "foreign")}

AllExisting     == StrongKeys \cup OddKeys
SignerKeyOnly   == {Existing(Requested(ServiceSigner), "strong")}

-----------------------------------------------------------------------------
Request(op, want, token) == [op |-> op, want |-> want, token |-> token]

ToA == ServicePolicy(serviceA)

ValidPolicies == {ServiceSigner, PrivilegedOnly, ToA}

LegacyRequests ==
    {Request("Open", ServiceSigner, AnyLS),
     Request("LoadOrCreate", ServiceSigner, Admin),
     Request("LoadOrCreate", ServiceSigner, User),
     Request("Delete", ServiceSigner, Admin)}

OpenRequests ==
    {Request("OpenWithPolicy", p, Admin) : p \in ValidPolicies}
      \cup {Request("OpenWithPolicy", ServiceSigner, AnyLS),
            Request("OpenWithPolicy", PrivilegedOnly, AgentA),
            Request("OpenWithPolicy", ToA, AgentA)}

ProvisionRequests ==
    {Request("LoadOrCreateWithPolicy", p, Admin) : p \in ValidPolicies}
      \cup {Request("LoadOrCreateWithPolicy", p, AgentA) :
              p \in {ServiceSigner, PrivilegedOnly}}

ApplyRequests ==
    {Request("ApplyPolicy", p, Admin) : p \in ValidPolicies}
      \cup {Request("ApplyPolicy", PrivilegedOnly, AgentA)}

InvalidRequests ==
    {Request(op, InvalidPolicy, Admin) :
       op \in {"LoadOrCreateWithPolicy", "ApplyPolicy"}}

AllRequestsMC ==
    LegacyRequests \cup OpenRequests \cup ProvisionRequests
      \cup ApplyRequests \cup InvalidRequests

\* What administrators do with a key, and the service that opens it.
AdminRequests ==
    {Request("LoadOrCreate", ServiceSigner, Admin),
     Request("LoadOrCreateWithPolicy", ServiceSigner, Admin),
     Request("LoadOrCreateWithPolicy", ToA, Admin),
     Request("ApplyPolicy", ToA, Admin),
     Request("ApplyPolicy", PrivilegedOnly, Admin),
     Request("OpenWithPolicy", ToA, AgentA)}

ApplyOnly == {Request("ApplyPolicy", p, Admin) : p \in ValidPolicies}

MigrateOnly == {Request("ApplyPolicy", ToA, Admin)}

ApplyPolicyOnly ==
    {Request("ApplyPolicy", p, Admin) : p \in {ServiceSigner, PrivilegedOnly}}

-----------------------------------------------------------------------------
\* "Coordinate provisioning and deletion outside this module" (docs/README.md)
DocumentedExclusive == {"LoadOrCreate", "LoadOrCreateWithPolicy", "Delete"}

\* The same, and policy changes too.
ChangesExclusive == DocumentedExclusive \cup {"ApplyPolicy"}

NothingExclusive == {}

\* The instances that check what the theorems prove under a hypothesis meet it.
ASSUME HypothesesHold ==
    /\ Exclusive = ChangesExclusive => Coordinated
    /\ Forms \in {FaithfulForms, EitherForms} => FaithfulProvider
    /\ Tokens = MCTokens => ServicesAreLocal
    /\ ProvisionersMayOpen
=============================================================================
