----------------------------- MODULE ServiceSid -----------------------------
(***************************************************************************)
(* From a service name to the SID its policy grants, through the decimal   *)
(* text of the SDDL and the binary SID of the persisted DACL, back to the  *)
(* text that is compared: ServiceSID, ServicePolicy.validate, the          *)
(* rendering in parseSID, and isServiceSID.                                *)
(*                                                                         *)
(* A text after the prefix S-1-5-80- is the sequence of its parts, and a   *)
(* part the sequence of its digits.                                        *)
(***************************************************************************)
EXTENDS Numerals

CONSTANTS
    Names,          \* names of services that callers pass
    Supported,      \* the characters ServiceSID accepts
    Upcase,         \* upper case of the supported characters
    MaxNameLength,  \* 256
    Base,           \* of the digits: 10
    Limit,          \* 2^32: sub-authorities are below it
    MaxDigits,      \* 10: digits of the largest sub-authority
    Count,          \* 5: sub-authorities after the 80
    Digest,         \* sub-authorities that SHA-1 gives for a name
    Letter,         \* the letter, digit or sign of a character, in any case
    Texts           \* other texts that isServiceSID is asked about

NoSid == <<>>
SubAuthorities == 0..(Limit - 1)
Digits == DigitsTo(Base)

UpperCase(name) == [i \in DOMAIN name |-> Upcase[name[i]]]

WellFormedName(name) ==
    Len(name) \in 1..MaxNameLength /\ \A i \in DOMAIN name : name[i] \in Supported

ASSUME ServiceSidAssumption ==
    /\ Base \in Nat /\ Base > 1 /\ Limit \in Nat /\ Limit > 0
    /\ MaxDigits \in Nat /\ Count \in Nat /\ MaxNameLength \in Nat
    /\ Supported \subseteq DOMAIN Letter /\ Names \subseteq Seq(DOMAIN Letter)
    /\ Texts \subseteq Seq(Seq(Digits))
    \* Upper case forgets the case and nothing else.
    /\ Upcase \in [Supported -> Supported]
    /\ \A c, d \in Supported : Upcase[c] = Upcase[d] <=> Letter[c] = Letter[d]
    \* A digest has five numbers of 32 bits, and no two upper-case names of
    \* services have the same digest.
    /\ \A n \in Names :
          WellFormedName(n) => Digest[UpperCase(n)] \in [1..Count -> SubAuthorities]
    /\ \A m, n \in Names :
          (WellFormedName(m) /\ WellFormedName(n) /\ UpperCase(m) # UpperCase(n)) =>
              Digest[UpperCase(m)] # Digest[UpperCase(n)]

VARIABLES
    owner,       \* the service whose key is persisted; <<>> if there is none
    policy,      \* the policy the key is opened with
    phase,
    text,        \* the text of a SID
    persisted    \* the sub-authorities in the persisted DACL

sidVars == <<owner, policy, phase, text, persisted>>

-----------------------------------------------------------------------------
\* Decimal texts, and what they are read as.
Decimal == NumeralOf(Base)

Value == NumberOf(Base)

\* Ten digits are enough for 32 bits ("len(p) > 10", sd.go).
ASSUME MaxDigitsSuffice ==
    \A v \in SubAuthorities : Len(Decimal[v]) <= MaxDigits

Render(numbers) == [i \in DOMAIN numbers |-> Decimal[numbers[i]]]

\* Mutant: the name is hashed as it is.
SidOfExactName(name) ==
    IF WellFormedName(name) THEN Render(Digest[name]) ELSE NoSid

ServiceSID(name) ==
    IF WellFormedName(name) THEN Render(Digest[UpperCase(name)]) ELSE NoSid

\* The zero value is what a caller has whose NewServicePolicy failed.
ZeroPolicy == [name |-> <<>>, sid |-> NoSid]

NewServicePolicy(name) ==
    IF ServiceSID(name) = NoSid THEN ZeroPolicy
    ELSE [name |-> name, sid |-> ServiceSID(name)]

Valid(p) == ServiceSID(p.name) # NoSid /\ p.sid = ServiceSID(p.name)

\* Mutant: the value of a part is not checked.
CanonicalDigits(part) ==
    /\ Len(part) \in 1..MaxDigits
    /\ Len(part) > 1 => part[1] # 0

CanonicalPart(part) ==
    /\ Len(part) \in 1..MaxDigits
    /\ Len(part) > 1 => part[1] # 0
    /\ Value[part] < Limit

isServiceSID(t) ==
    Len(t) = Count /\ \A i \in DOMAIN t : CanonicalPart(t[i])

-----------------------------------------------------------------------------
SidTypeOK ==
    /\ owner \in Names \cup {<<>>}
    /\ policy = ZeroPolicy \/ (policy.name \in Names /\ Valid(policy))
    /\ phase \in {"provision", "persist", "read", "compare", "refused", "opened",
                  "mismatch", "unrecognized"}
    /\ text \in Seq(Seq(Digits))
    /\ persisted \in Seq(SubAuthorities)

\* A key to be made for a service, or any text to be recognized.
SidInit ==
    /\ persisted = <<>>
    /\ \/ /\ owner \in Names
          /\ policy \in {NewServicePolicy(name) : name \in Names}
          /\ phase = "provision"
          /\ text = <<>>
       \/ /\ owner = <<>>
          /\ policy = ZeroPolicy
          /\ phase = "compare"
          /\ text \in Texts

\* LoadOrCreateForService: the policy is validated, then its SDDL is built.
Provision ==
    /\ phase = "provision"
    /\ LET p == NewServicePolicy(owner)
       IN  \/ Valid(p) /\ phase' = "persist" /\ text' = p.sid
           \/ ~Valid(p) /\ phase' = "refused" /\ UNCHANGED text
    /\ UNCHANGED <<owner, policy, persisted>>

\* Windows reads the numbers of the SDDL (external).
Persist ==
    /\ phase = "persist"
    /\ persisted' = [i \in DOMAIN text |-> Value[text[i]]]
    /\ phase' = "read"
    /\ UNCHANGED <<owner, policy, text>>

\* OpenForService: the policy is validated, then parseSID renders the SID.
ReadSid ==
    /\ phase = "read"
    /\ \/ Valid(policy) /\ text' = Render(persisted) /\ phase' = "compare"
       \/ ~Valid(policy) /\ phase' = "refused" /\ UNCHANGED text
    /\ UNCHANGED <<owner, policy, persisted>>

\* The classifier, and then checkDACLState.
Compare ==
    /\ phase = "compare"
    /\ phase' = IF ~isServiceSID(text) THEN "unrecognized"
                ELSE IF text = policy.sid THEN "opened" ELSE "mismatch"
    /\ UNCHANGED <<owner, policy, text, persisted>>

SidNext == Provision \/ Persist \/ ReadSid \/ Compare

SidSpec == SidInit /\ [][SidNext]_sidVars

-----------------------------------------------------------------------------
\* Service names are compared without regard to case.
SameService(m, n) ==
    Len(m) = Len(n) /\ \A i \in DOMAIN m : Letter[m[i]] = Letter[n[i]]

\* A key made for a service opens under the policy of that service, however its
\* name was written, and under no other: the conversions to decimal text, to
\* numbers and back lose nothing.
OpensForItsServiceOnly ==
    (owner # <<>> /\ phase \in {"opened", "mismatch", "unrecognized"}) =>
        (phase = "opened" <=> SameService(owner, policy.name))

\* Of all texts, exactly the renderings of five numbers of 32 bits are taken for
\* a service SID: none of them is refused, and no other way to write a number
\* passes, which would let two texts stand for one SID.
RecognizesServiceSids ==
    phase \in {"opened", "mismatch", "unrecognized"} =>
        (phase # "unrecognized" <=>
            \E numbers \in [1..Count -> SubAuthorities] : text = Render(numbers))
=============================================================================
