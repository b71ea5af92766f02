-------------------------- MODULE DescriptorProofs --------------------------
(***************************************************************************)
(* Facts about descriptors, policies and what a recognized DACL grants,    *)
(* for every set of service SIDs.                                          *)
(***************************************************************************)
EXTENDS SecurityDescriptor, TLAPS

\* The trustees of the policies are all different.
LEMMA SidsDistinct ==
    /\ SYSTEM # Administrators /\ LocalService \notin {SYSTEM, Administrators}
    /\ \A s \in ServiceSids : s \notin {SYSTEM, Administrators, LocalService, NoSid}
BY ServiceSidsAssumption DEF SYSTEM, Administrators, LocalService, WellKnownSids, NoSid

\* The trustees of each policy, and which of them tell it from the others.
LEMMA PolicyTrustees ==
    /\ PrivilegedOnly \in Policies /\ Trustees(PrivilegedOnly) = {SYSTEM, Administrators}
    /\ ServiceSigner \in Policies
    /\ Trustees(ServiceSigner) = {SYSTEM, Administrators, LocalService}
    /\ \A s \in ServiceSids :
          /\ ServicePolicy(s) \in Policies
          /\ Trustees(ServicePolicy(s)) = {SYSTEM, Administrators, s}
    /\ \A p \in Policies : \/ p = PrivilegedOnly \/ p = ServiceSigner
                           \/ \E s \in ServiceSids : p = ServicePolicy(s)
<1>1. /\ ServiceSigner # PrivilegedOnly
      /\ \A s \in ServiceSids : /\ ServicePolicy(s) # PrivilegedOnly
                                /\ ServicePolicy(s) # ServiceSigner
                                /\ ServicePolicy(s).sid = s
  BY DEF ServiceSigner, PrivilegedOnly, ServicePolicy
<1> QED BY <1>1 DEF Policies, Trustees, Trustee

\* No two policies have the same trustees.
LEMMA TrusteesInjective ==
    \A p, q \in Policies : Trustees(p) = Trustees(q) => p = q
<1> SUFFICES ASSUME NEW p \in Policies, NEW q \in Policies, Trustees(p) = Trustees(q)
             PROVE  p = q
  OBVIOUS
<1>1. CASE p = PrivilegedOnly
  BY <1>1, PolicyTrustees, SidsDistinct
<1>2. CASE p = ServiceSigner
  BY <1>2, PolicyTrustees, SidsDistinct
<1>3. CASE \E s \in ServiceSids : p = ServicePolicy(s)
  <2>1. PICK s \in ServiceSids : p = ServicePolicy(s)
    BY <1>3
  <2>2. CASE \E t \in ServiceSids : q = ServicePolicy(t)
    <3>1. PICK t \in ServiceSids : q = ServicePolicy(t)
      BY <2>2
    <3>2. {SYSTEM, Administrators, s} = {SYSTEM, Administrators, t}
      BY <2>1, <3>1, PolicyTrustees
    <3>3. s = t
      BY <3>2, SidsDistinct
    <3> QED BY <2>1, <3>1, <3>3
  <2>3. CASE q \in {PrivilegedOnly, ServiceSigner}
    BY <2>1, <2>3, PolicyTrustees, SidsDistinct
  <2> QED BY <2>2, <2>3, PolicyTrustees
<1> QED BY <1>1, <1>2, <1>3, PolicyTrustees

\* What Classify says of a recognized descriptor with a policy's trustees.
LEMMA ClassifyPolicy ==
    ASSUME NEW d, NEW p \in Policies, Recognized(d), SidsOf(d) = Trustees(p)
    PROVE  Classify(d) = p
BY TrusteesInjective DEF Classify

LEMMA ClassifyUnknown ==
    ASSUME NEW d, ~Recognized(d) \/ \A p \in Policies : SidsOf(d) # Trustees(p)
    PROVE  Classify(d) = Unknown
BY DEF Classify

-----------------------------------------------------------------------------
(***************************************************************************)
(* Counting: with distinct trustees, the number of ACEs is the number of   *)
(* trustees.                                                               *)
(***************************************************************************)
LEMMA TwoAces ==
    ASSUME NEW d \in Descriptors, NoDuplicates(d),
           {SYSTEM, Administrators} \subseteq SidsOf(d)
    PROVE  Len(d.aces) = 2 <=> SidsOf(d) = {SYSTEM, Administrators}
<1> DEFINE n == Len(d.aces)
<1>1. n \in Nat /\ DOMAIN d.aces = 1..n
  BY DEF Descriptors
<1>2. PICK a \in 1..n, b \in 1..n :
        d.aces[a].sid = SYSTEM /\ d.aces[b].sid = Administrators
  BY <1>1 DEF SidsOf
<1>3. a # b
  BY <1>2, SidsDistinct
<1>4. ASSUME n = 2 PROVE SidsOf(d) = {SYSTEM, Administrators}
  <2>1. \A k \in 1..n : k = a \/ k = b
    BY <1>3, <1>4
  <2> QED BY <1>1, <1>2, <2>1 DEF SidsOf
<1>5. ASSUME SidsOf(d) = {SYSTEM, Administrators} PROVE n = 2
  <2>1. \A k \in 1..n : d.aces[k].sid \in {SYSTEM, Administrators}
    BY <1>1, <1>5 DEF SidsOf
  <2>2. \A k \in 1..n : k = a \/ k = b
    BY <1>1, <1>2, <2>1 DEF NoDuplicates
  <2> HIDE DEF n
  <2>3. n >= 2
    BY <1>1, <1>3
  <2>4. ~(n >= 3)
    <3> SUFFICES ASSUME n >= 3 PROVE FALSE
      OBVIOUS
    <3>1. 1 \in 1..n /\ 2 \in 1..n /\ 3 \in 1..n
      BY <1>1
    <3>2. 1 \in {a, b} /\ 2 \in {a, b} /\ 3 \in {a, b}
      BY <2>2, <3>1
    <3> QED BY <3>2
  <2> QED BY <1>1, <2>3, <2>4
<1> QED BY <1>4, <1>5

LEMMA ThreeAces ==
    ASSUME NEW d \in Descriptors, NoDuplicates(d), NEW sid,
           {SYSTEM, Administrators, sid} \subseteq SidsOf(d),
           sid \notin {SYSTEM, Administrators}
    PROVE  Len(d.aces) = 3 <=> SidsOf(d) = {SYSTEM, Administrators, sid}
<1> DEFINE n == Len(d.aces)
<1>1. n \in Nat /\ DOMAIN d.aces = 1..n
  BY DEF Descriptors
<1>2. PICK a \in 1..n, b \in 1..n, e \in 1..n :
        /\ d.aces[a].sid = SYSTEM /\ d.aces[b].sid = Administrators
        /\ d.aces[e].sid = sid
  BY <1>1 DEF SidsOf
<1>3. a # b /\ a # e /\ b # e
  BY <1>2, SidsDistinct
<1>4. ASSUME n = 3 PROVE SidsOf(d) = {SYSTEM, Administrators, sid}
  <2>1. \A k \in 1..n : k = a \/ k = b \/ k = e
    BY <1>3, <1>4
  <2> QED BY <1>1, <1>2, <2>1 DEF SidsOf
<1>5. ASSUME SidsOf(d) = {SYSTEM, Administrators, sid} PROVE n = 3
  <2>1. \A k \in 1..n : d.aces[k].sid \in {SYSTEM, Administrators, sid}
    BY <1>1, <1>5 DEF SidsOf
  <2>2. \A k \in 1..n : k = a \/ k = b \/ k = e
    BY <1>1, <1>2, <2>1 DEF NoDuplicates
  <2> HIDE DEF n
  <2>3. n >= 3
    BY <1>1, <1>3
  <2>4. ~(n >= 4)
    <3> SUFFICES ASSUME n >= 4 PROVE FALSE
      OBVIOUS
    <3>1. 1 \in 1..n /\ 2 \in 1..n /\ 3 \in 1..n /\ 4 \in 1..n
      BY <1>1
    <3>2. /\ 1 \in {a, b, e} /\ 2 \in {a, b, e}
          /\ 3 \in {a, b, e} /\ 4 \in {a, b, e}
      BY <2>2, <3>1
    <3> QED BY <3>2
  <2> QED BY <1>1, <2>3, <2>4
<1> QED BY <1>4, <1>5

\* A second trustee beside SYSTEM and Administrators fits no policy.
LEMMA TwoExtras ==
    ASSUME NEW d, NEW s \in ServiceSids, NEW t \in ServiceSids \cup {LocalService},
           s # t, s \in SidsOf(d), t \in SidsOf(d)
    PROVE  \A p \in Policies : SidsOf(d) # Trustees(p)
<1> SUFFICES ASSUME NEW p \in Policies, SidsOf(d) = Trustees(p)
             PROVE  FALSE
  OBVIOUS
<1>1. s \in Trustees(p) /\ t \in Trustees(p)
  OBVIOUS
<1>2. PICK x : Trustees(p) \subseteq {SYSTEM, Administrators, x}
  BY PolicyTrustees
<1> QED BY <1>1, <1>2, SidsDistinct


-----------------------------------------------------------------------------
(***************************************************************************)
(* What it means to be classified.                                         *)
(***************************************************************************)
LEMMA UnknownIsNoPolicy == Unknown \notin Policies
BY DEF Unknown, Policies, ServiceSigner, PrivilegedOnly, ServicePolicy

\* A descriptor is classified as a policy exactly if it is recognized and
\* grants the trustees of that policy.
LEMMA Classified ==
    ASSUME NEW d, NEW p \in Policies
    PROVE  Classify(d) = p <=> Recognized(d) /\ SidsOf(d) = Trustees(p)
<1>1. ASSUME Classify(d) = p PROVE Recognized(d) /\ SidsOf(d) = Trustees(p)
  <2>1. Recognized(d) /\ \E q \in Policies : SidsOf(d) = Trustees(q)
    BY <1>1, UnknownIsNoPolicy DEF Classify
  <2>2. PICK q \in Policies : SidsOf(d) = Trustees(q)
    BY <2>1
  <2>3. Classify(d) = q
    BY <2>1, <2>2, ClassifyPolicy
  <2> QED BY <1>1, <2>1, <2>2, <2>3
<1> QED BY <1>1, ClassifyPolicy

\* The masks the classifier accepts, by what verifyDACL and Windows see in them.
LEMMA AcceptedMasks ==
    /\ \A mask \in AdministrativeMasks :
          "GA" \in mask /\ MaskUses(mask) = Uses
    /\ \A mask \in LocalServiceMasks :
          /\ "GR" \in mask /\ mask \cap {"GW", "GA"} = {}
          /\ MaskUses(mask) = {"sign"}
    /\ \A mask \in ServiceMasks : MaskUses(mask) = {"sign"}
BY DEF AdministrativeMasks, LocalServiceMasks, ServiceMasks, MaskUses, Uses

\* What the classifier recognizes as service-signer, verifyDACL accepts.
LEMMA SignerPassesWalk ==
    ASSUME NEW d \in Descriptors, Classify(d) = ServiceSigner
    PROVE  VerifyDACL(d)
<1>1. Recognized(d) /\ SidsOf(d) = {SYSTEM, Administrators, LocalService}
  BY Classified, PolicyTrustees
<1>2. /\ d.intact /\ d.present /\ NoDuplicates(d)
      /\ \A i \in DOMAIN d.aces :
            d.aces[i].type = "allow" /\ MaskRecognized(d.aces[i])
  BY <1>1 DEF Recognized, Parsed
<1>3. ASSUME NEW sid \in {SYSTEM, Administrators, LocalService}
      PROVE  GrantedOnce(d, sid)
  <2>1. PICK i \in DOMAIN d.aces : d.aces[i].sid = sid
    BY <1>1 DEF SidsOf
  <2> QED BY <1>2, <2>1 DEF GrantedOnce, NoDuplicates
<1>4. d.aces # <<>>
  <2>1. PICK i \in DOMAIN d.aces : d.aces[i].sid = SYSTEM
    BY <1>1 DEF SidsOf
  <2> QED BY <2>1
<1>5. ASSUME NEW i \in DOMAIN d.aces
      PROVE  /\ d.aces[i].sid \notin ForbiddenSids
             /\ d.aces[i].sid \in {SYSTEM, Administrators} => "GA" \in d.aces[i].mask
             /\ d.aces[i].sid = LocalService =>
                  "GR" \in d.aces[i].mask /\ d.aces[i].mask \cap {"GW", "GA"} = {}
  <2>1. d.aces[i].sid \in {SYSTEM, Administrators, LocalService}
    BY <1>1 DEF SidsOf
  <2>2. d.aces[i].sid \notin ForbiddenSids
    BY <2>1 DEF SYSTEM, Administrators, LocalService, ForbiddenSids
  <2>3. MaskRecognized(d.aces[i])
    BY <1>2
  <2> QED BY <2>1, <2>2, <2>3, AcceptedMasks, SidsDistinct DEF MaskRecognized
<1> QED BY <1>2, <1>3, <1>4, <1>5 DEF VerifyDACL

-----------------------------------------------------------------------------
(***************************************************************************)
(* What a recognized DACL grants.                                          *)
(***************************************************************************)
PolicyGrants(token, p) ==
    (IF token \cap {SYSTEM, Administrators} # {} THEN Uses ELSE {})
      \cup (IF p # PrivilegedOnly /\ Trustee(p) \in token THEN {"sign"} ELSE {})

\* It depends only on the policy: not on the order of the ACEs, nor on which of
\* the accepted masks they have.
LEMMA GrantsOfPolicy ==
    ASSUME NEW d, NEW token, NEW p \in Policies,
           Recognized(d), SidsOf(d) = Trustees(p)
    PROVE  Granted(token, d) = PolicyGrants(token, p)
<1> DEFINE ofToken(type) == {j \in DOMAIN d.aces :
                               d.aces[j].sid \in token /\ d.aces[j].type = type}
<1>1. /\ d.present
      /\ \A i \in DOMAIN d.aces :
            d.aces[i].type = "allow" /\ MaskRecognized(d.aces[i])
  BY DEF Recognized, Parsed
<1>2. AceUses(token, d, "deny") = {}
  <2>1. ofToken("deny") = {}
    BY <1>1
  <2> QED BY <2>1 DEF AceUses
<1>3. \A i \in DOMAIN d.aces :
        MaskUses(d.aces[i].mask) = IF d.aces[i].sid \in {SYSTEM, Administrators}
                                   THEN Uses ELSE {"sign"}
  BY <1>1, AcceptedMasks, SidsDistinct DEF MaskRecognized
<1>4. \A sid \in Trustees(p) : \E i \in DOMAIN d.aces : d.aces[i].sid = sid
  BY DEF SidsOf
<1>5. \A i \in DOMAIN d.aces : d.aces[i].sid \in Trustees(p)
  BY DEF SidsOf
<1>6. p # PrivilegedOnly => Trustee(p) \in Trustees(p)
                            /\ Trustee(p) \notin {SYSTEM, Administrators}
  BY SidsDistinct DEF Trustees, Trustee, Policies, ServicePolicy
<1>7. {SYSTEM, Administrators} \subseteq Trustees(p)
  BY DEF Trustees
<1>8. AceUses(token, d, "allow") = PolicyGrants(token, p)
  <2>1. \A use : use \in AceUses(token, d, "allow") <=>
          \E i \in DOMAIN d.aces : d.aces[i].sid \in token
                                   /\ use \in MaskUses(d.aces[i].mask)
    BY <1>1 DEF AceUses
  <2>2. ASSUME NEW use \in AceUses(token, d, "allow")
        PROVE  use \in PolicyGrants(token, p)
    <3>1. PICK i \in DOMAIN d.aces :
            d.aces[i].sid \in token /\ use \in MaskUses(d.aces[i].mask)
      BY <2>1
    <3>2. CASE d.aces[i].sid \in {SYSTEM, Administrators}
      BY <1>3, <3>1, <3>2 DEF PolicyGrants
    <3>3. CASE d.aces[i].sid \notin {SYSTEM, Administrators}
      <4>1. p # PrivilegedOnly /\ d.aces[i].sid = Trustee(p)
        BY <1>5, <3>3 DEF Trustees
      <4> QED BY <1>3, <3>1, <3>3, <4>1 DEF PolicyGrants
    <3> QED BY <3>2, <3>3
  <2>3. ASSUME NEW use \in PolicyGrants(token, p)
        PROVE  use \in AceUses(token, d, "allow")
    <3>1. CASE token \cap {SYSTEM, Administrators} # {} /\ use \in Uses
      <4>1. PICK sid \in token : sid \in {SYSTEM, Administrators}
        BY <3>1
      <4>2. PICK i \in DOMAIN d.aces : d.aces[i].sid = sid
        BY <1>4, <1>7, <4>1
      <4> QED BY <1>3, <2>1, <3>1, <4>1, <4>2
    <3>2. CASE p # PrivilegedOnly /\ Trustee(p) \in token /\ use = "sign"
      <4>1. PICK i \in DOMAIN d.aces : d.aces[i].sid = Trustee(p)
        BY <1>4, <1>6, <3>2
      <4> QED BY <1>3, <1>6, <2>1, <3>2, <4>1
    <3> QED BY <3>1, <3>2 DEF PolicyGrants
  <2> QED BY <2>2, <2>3
<1> QED BY <1>1, <1>2, <1>8 DEF Granted

LEMMA AppendToPair ==
    ASSUME NEW x, NEW y, NEW z
    PROVE  LET s == Append(<<x, y>>, z)
           IN  s[1] = x /\ s[2] = y /\ s[3] = z /\ DOMAIN s = {1, 2, 3}
<1> DEFINE S == {x, y, z}
           s == Append(<<x, y>>, z)
<1>1. <<x, y>> \in Seq(S) /\ Len(<<x, y>>) = 2 /\ z \in S
  OBVIOUS
<1>2. s \in Seq(S) /\ Len(s) = 3
  BY <1>1
<1>3. \A i \in 1..2 : s[i] = <<x, y>>[i]
  BY <1>1
<1>4. s[3] = z /\ DOMAIN s = 1..3
  BY <1>1, <1>2
<1> QED BY <1>3, <1>4

\* The descriptor that is requested for a policy is classified as that policy.
LEMMA RequestedClassified ==
    ASSUME NEW p \in Policies
    PROVE  Recognized(Requested(p)) /\ SidsOf(Requested(p)) = Trustees(p)
<1> DEFINE d == Requested(p)
           system == Allow(SYSTEM, {"GA"})
           admins == Allow(Administrators, {"GA"})
           extra == Allow(Trustee(p), {"GR", "GX"})
<1>1. /\ p = PrivilegedOnly => d.aces = <<system, admins>>
      /\ p # PrivilegedOnly => d.aces = Append(<<system, admins>>, extra)
  BY DEF Requested, Protected, AdministrativeAces
<1>2. d.intact /\ d.present /\ d.protected
  BY DEF Requested, Protected
<1>3. /\ system.sid = SYSTEM /\ admins.sid = Administrators /\ extra.sid = Trustee(p)
      /\ \A ace \in {system, admins, extra} : ace.type = "allow" /\ ace.flags = "none"
      /\ system.mask = {"GA"} /\ admins.mask = {"GA"} /\ extra.mask = {"GR", "GX"}
  BY DEF Allow
<1>4. p # PrivilegedOnly => Trustee(p) \in ServiceSids \cup {LocalService}
  BY DEF Policies, Trustee, ServicePolicy
<1>5. /\ MaskRecognized(system) /\ MaskRecognized(admins)
      /\ p # PrivilegedOnly => MaskRecognized(extra)
  BY <1>3, <1>4 DEF MaskRecognized, AdministrativeMasks, LocalServiceMasks, ServiceMasks
<1> HIDE DEF d, system, admins, extra
<1>6. CASE p = PrivilegedOnly
  <2>1. d.aces = <<system, admins>> /\ DOMAIN d.aces = {1, 2}
    BY <1>1, <1>6
  <2>2. SidsOf(d) = {SYSTEM, Administrators}
    BY <1>3, <2>1 DEF SidsOf
  <2>3. NoDuplicates(d)
    BY <1>3, <2>1, SidsDistinct DEF NoDuplicates
  <2>4. Recognized(d)
    BY <1>2, <1>3, <1>5, <2>1, <2>2, <2>3 DEF Recognized, Parsed
  <2> QED BY <1>6, <2>2, <2>4, PolicyTrustees DEF d
<1>7. CASE p # PrivilegedOnly
  <2>1. /\ d.aces[1] = system /\ d.aces[2] = admins /\ d.aces[3] = extra
        /\ DOMAIN d.aces = {1, 2, 3}
    BY <1>1, <1>7, AppendToPair
  <2>2. SidsOf(d) = {SYSTEM, Administrators, Trustee(p)}
    BY <1>3, <2>1 DEF SidsOf
  <2>3. NoDuplicates(d)
    BY <1>3, <1>4, <1>7, <2>1, SidsDistinct DEF NoDuplicates
  <2>4. Recognized(d)
    BY <1>2, <1>3, <1>5, <1>7, <2>1, <2>2, <2>3 DEF Recognized, Parsed
  <2>5. Trustees(p) = {SYSTEM, Administrators, Trustee(p)}
    BY <1>7 DEF Trustees
  <2> QED BY <2>2, <2>4, <2>5 DEF d
<1> QED BY <1>6, <1>7

\* Whatever form of a policy is persisted, as long as it is recognized it
\* grants every token what the requested form grants.
LEMMA ClassifiedGrants ==
    ASSUME NEW d, NEW p \in Policies, Classify(d) = p, NEW token
    PROVE  Granted(token, d) = Granted(token, Requested(p))
BY Classified, RequestedClassified, GrantsOfPolicy
=============================================================================
