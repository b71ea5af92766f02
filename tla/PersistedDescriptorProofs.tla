---------------------- MODULE PersistedDescriptorProofs ----------------------
(***************************************************************************)
(* The three things the package does with a persisted descriptor do what   *)
(* their definitions say, for buffers of any size and content, DACLs of    *)
(* any length and every set of service SIDs:                               *)
(*   - the parser reads inside the buffer and the ACL, and accepts exactly *)
(*     the well-formed buffers;                                            *)
(*   - the loop of classifyDescriptorSID decides what Classify says;       *)
(*   - verifyDACL, with its early returns and its deferred calls, decides  *)
(*     what VerifyDACL says and frees each SID once, whichever native call *)
(*     fails.                                                              *)
(***************************************************************************)
EXTENDS PersistedDescriptor, DescriptorProofs

-----------------------------------------------------------------------------
(***************************************************************************)
(* The parser.  The inductive invariant adds to the properties where the   *)
(* next ACE is: it starts where the last one ended, and while an ACE is    *)
(* read its end is within the ACL.                                         *)
(***************************************************************************)
\* The ACEs parsed are well formed and end where the next one starts.
Tiled ==
    /\ \A k \in DOMAIN aces :
          aces[k].at = IF k = 1 THEN 8 ELSE aces[k - 1].at + aces[k - 1].fields.size
    /\ \A k \in DOMAIN aces : WellFormed(aces[k].at, aces[k].fields)
    /\ off = IF aces = <<>> THEN 8
             ELSE aces[Len(aces)].at + aces[Len(aces)].fields.size
    /\ off >= 8 + 16 * Len(aces)

Where ==
    /\ stage = "header" => reach = 0
    /\ stage \in {"header", "acl"} => aces = <<>> /\ off = 8
    /\ stage = "acl" => HeaderAccepted /\ OffsetAccepted /\ reach = sdHeaderSize
    /\ stage \in {"ace", "sid", "accepted"} => Placed
    /\ Placed => off <= buffer.aclSize
    /\ stage = "sid" =>
          reading \in AceFields /\ AceAccepted(reading) /\ Len(aces) < buffer.aceCount

ParserInv == ParserTypeOK /\ Tiled /\ Where /\ ReadsInBounds /\ VerdictIsExact

-----------------------------------------------------------------------------
LEMMA HeaderTypes ==
    ASSUME ParserTypeOK
    PROVE  /\ buffer.length \in Nat /\ buffer.daclOffset \in Nat /\ buffer.aclSize \in Nat
           /\ buffer.aceCount \in Nat
BY ParserAssumption DEF ParserTypeOK, HeaderFields

LEMMA CandidateTypes ==
    ASSUME NEW c \in AceFields
    PROVE  /\ c.size \in Nat /\ c.subAuthorities \in Nat /\ c.sidRevision \in Nat
           /\ SidSize(c) \in Nat /\ SidSize(c) = 8 + 4 * c.subAuthorities
BY ParserAssumption DEF AceFields, SidSize

LEMMA InitParserInv == ParserInit => ParserInv
<1> SUFFICES ASSUME ParserInit PROVE ParserInv
  OBVIOUS
<1>1. ParserTypeOK
  <2>1. Len(aces) = 0 /\ aces \in Seq([at : Nat, fields : AceFields])
    BY DEF ParserInit
  <2>2. buffer \in HeaderFields /\ buffer.aceCount \in Nat
    BY ParserAssumption DEF ParserInit, HeaderFields
  <2> QED BY <2>1, <2>2 DEF ParserInit, ParserTypeOK, aclHeaderSize
<1>2. Tiled
  BY DEF ParserInit, Tiled, aclHeaderSize
<1>3. Where
  BY DEF ParserInit, Where, aclHeaderSize, Placed, AclAccepted
<1>4. ReadsInBounds
  BY <1>1, HeaderTypes DEF ParserInit, ReadsInBounds
<1>5. VerdictIsExact
  BY DEF ParserInit, VerdictIsExact
<1> QED BY <1>1, <1>2, <1>3, <1>4, <1>5 DEF ParserInv

-----------------------------------------------------------------------------
LEMMA HeaderStep == ParserInv /\ ReadHeader => ParserInv'
<1> SUFFICES ASSUME ParserInv, ReadHeader PROVE ParserInv'
  OBVIOUS
<1> USE DEF ParserInv
<1>1. /\ buffer.length \in Nat /\ buffer.daclOffset \in Nat /\ buffer.aclSize \in Nat
      /\ UNCHANGED <<buffer, off, aces, reading>>
      /\ reach' \in {0, 20} /\ stage' \in {"acl", "rejected"}
  BY HeaderTypes DEF ReadHeader, sdHeaderSize
<1>2. ParserTypeOK'
  BY <1>1 DEF ParserTypeOK
<1>3. Tiled'
  BY <1>1 DEF Tiled, WellFormed
<1>4. stage' = "acl" => HeaderAccepted /\ OffsetAccepted
  BY DEF ReadHeader
<1>5. stage' = "rejected" => ~Placed
  BY DEF ReadHeader, Placed
<1>6. Where'
  BY <1>1, <1>4 DEF Where, ReadHeader, HeaderAccepted, OffsetAccepted, AclAccepted, Placed,
     sdHeaderSize, aclHeaderSize
<1>7. ReadsInBounds'
  BY <1>1 DEF ReadsInBounds, ReadHeader, HeaderAccepted, OffsetAccepted, AclAccepted, Placed,
     sdHeaderSize, aclHeaderSize
<1>8. VerdictIsExact'
  BY <1>1, <1>5 DEF VerdictIsExact, HeaderAccepted, OffsetAccepted, AclAccepted, Placed
<1> QED BY <1>2, <1>3, <1>6, <1>7, <1>8

LEMMA AclStep == ParserInv /\ ReadAcl => ParserInv'
<1> SUFFICES ASSUME ParserInv, ReadAcl PROVE ParserInv'
  OBVIOUS
<1> USE DEF ParserInv
<1>1. /\ buffer.length \in Nat /\ buffer.daclOffset \in Nat /\ buffer.aclSize \in Nat
      /\ UNCHANGED <<buffer, off, aces, reading>>
      /\ stage = "acl" /\ stage' = (IF AclAccepted THEN "ace" ELSE "rejected")
  BY HeaderTypes DEF ReadAcl
<1>2. HeaderAccepted /\ OffsetAccepted /\ reach = 20 /\ off = 8
  BY <1>1 DEF Where, sdHeaderSize
<1>3. buffer.daclOffset >= 20 /\ buffer.daclOffset + 8 <= buffer.length
  BY <1>2 DEF OffsetAccepted, sdHeaderSize, aclHeaderSize
<1>4. reach' = buffer.daclOffset + 6
  BY <1>1, <1>2, <1>3 DEF ReadAcl, ReadTo, Max2
<1>5. Placed <=> AclAccepted
  BY <1>2 DEF Placed
<1>6. Placed' = Placed /\ AclAccepted' = AclAccepted
  BY <1>1 DEF Placed, HeaderAccepted, OffsetAccepted, AclAccepted
<1>7. AclAccepted => buffer.aclSize >= 8
  BY DEF AclAccepted, aclHeaderSize
<1>8. ParserTypeOK'
  BY <1>1, <1>4 DEF ParserTypeOK
<1>9. Tiled'
  BY <1>1 DEF Tiled, WellFormed
<1>10. Where'
  BY <1>1, <1>2, <1>5, <1>6, <1>7 DEF Where
<1>11. ReadsInBounds'
  BY <1>1, <1>3, <1>4, <1>5, <1>6, <1>7 DEF ReadsInBounds
<1>12. VerdictIsExact'
  BY <1>1, <1>5, <1>6 DEF VerdictIsExact
<1> QED BY <1>8, <1>9, <1>10, <1>11, <1>12

-----------------------------------------------------------------------------
\* In the ACL, "Placed" is a fact about the headers, which do not change.
LEMMA InTheAcl ==
    ASSUME ParserInv, stage \in {"ace", "sid"}, buffer' = buffer
    PROVE  /\ Placed /\ Placed'
           /\ buffer.length \in Nat /\ buffer.daclOffset \in Nat /\ buffer.aclSize \in Nat
           /\ off \in Nat /\ off >= 8 /\ off <= buffer.aclSize
           /\ buffer.daclOffset >= 20
           /\ buffer.daclOffset + buffer.aclSize <= buffer.length
           /\ reach \in Nat /\ reach <= buffer.daclOffset + buffer.aclSize
<1> USE DEF ParserInv
<1>1. Placed
  BY DEF Where
<1>2. Placed'
  BY <1>1 DEF Placed, HeaderAccepted, OffsetAccepted, AclAccepted
<1>3. /\ buffer.length \in Nat /\ buffer.daclOffset \in Nat /\ buffer.aclSize \in Nat
      /\ off \in Nat /\ reach \in Nat /\ Len(aces) \in Nat
  BY HeaderTypes DEF ParserTypeOK
<1>4. off >= 8
  BY <1>3 DEF Tiled
<1>5. off <= buffer.aclSize /\ reach <= buffer.daclOffset + buffer.aclSize
  BY <1>1 DEF Where, ReadsInBounds
<1>6. buffer.daclOffset >= 20 /\ buffer.daclOffset + buffer.aclSize <= buffer.length
  BY <1>1, <1>3 DEF Placed, OffsetAccepted, AclAccepted, sdHeaderSize
<1> QED BY <1>1, <1>2, <1>3, <1>4, <1>5, <1>6

\* Reading up to a place inside the ACL keeps the reads in bounds.
LEMMA ReadInside ==
    ASSUME ParserInv, stage \in {"ace", "sid"}, buffer' = buffer,
           NEW n \in Nat, n <= buffer.aclSize, ReadTo(n)
    PROVE  reach' \in Nat /\ ReadsInBounds'
<1>1. /\ buffer.daclOffset \in Nat /\ buffer.aclSize \in Nat /\ buffer.length \in Nat
      /\ reach \in Nat /\ reach <= buffer.daclOffset + buffer.aclSize
      /\ buffer.daclOffset + buffer.aclSize <= buffer.length
  BY InTheAcl
<1>2. reach' \in Nat /\ reach' <= buffer.daclOffset + buffer.aclSize
  BY <1>1 DEF ReadTo, Max2
<1> QED BY <1>1, <1>2 DEF ReadsInBounds

LEMMA UnreadInside ==
    ASSUME ParserInv, stage \in {"ace", "sid"}, UNCHANGED <<buffer, reach>>
    PROVE  reach' \in Nat /\ ReadsInBounds'
BY InTheAcl DEF ReadsInBounds

LEMMA TiledKept ==
    ASSUME ParserInv, UNCHANGED <<buffer, off, aces>>
    PROVE  Tiled'
BY DEF ParserInv, Tiled, WellFormed

LEMMA AceStep == ParserInv /\ ReadAce => ParserInv'
<1> SUFFICES ASSUME ParserInv, ReadAce PROVE ParserInv'
  OBVIOUS
<1>1. /\ stage = "ace" /\ UNCHANGED <<buffer, off, aces>> /\ off \in Nat
      /\ buffer.aclSize \in Nat /\ Placed /\ Placed' /\ off <= buffer.aclSize
  BY InTheAcl DEF ReadAce
<1>2. Tiled'
  BY <1>1, TiledKept
<1>3. CASE off + aceFixedSize > buffer.aclSize
  <2>1. stage' = "rejected" /\ UNCHANGED <<reading, reach>> /\ off + 8 > buffer.aclSize
    BY <1>1, <1>3 DEF ReadAce, aceFixedSize
  <2>2. ReadsInBounds' /\ reach' \in Nat
    BY <1>1, <2>1, UnreadInside
  <2>3. ParserTypeOK'
    BY <1>1, <2>1 DEF ParserInv, ParserTypeOK
  <2>4. Where' /\ VerdictIsExact'
    BY <1>1, <2>1 DEF Where, VerdictIsExact
  <2> QED BY <1>2, <2>2, <2>3, <2>4 DEF ParserInv
<1>4. CASE off + aceFixedSize <= buffer.aclSize
  <2>1. /\ ReadTo(off + aceFixedSize) /\ reading' \in AceFields
        /\ stage' = IF AceAccepted(reading') THEN "sid" ELSE "rejected"
    BY <1>1, <1>4, ParserAssumption DEF ReadAce, aceFixedSize
  <2>2. ReadsInBounds' /\ reach' \in Nat
    BY <1>1, <1>4, <2>1, ReadInside DEF aceFixedSize
  <2>3. ParserTypeOK'
    BY <1>1, <2>1, <2>2 DEF ParserInv, ParserTypeOK
  <2>4. Where'
    <3>1. Len(aces) < buffer.aceCount
      BY DEF ReadAce, MoreAces
    <3> QED BY <1>1, <2>1, <3>1 DEF Where, AceAccepted
  <2>5. ~AceAccepted(reading') => ~WellFormed(off, reading')
    <3>1. reading'.size \in Nat /\ reading'.subAuthorities \in Nat
      BY <2>1, CandidateTypes
    <3> DEFINE n == reading'.subAuthorities
    <3>2. n \in Nat => (16 + 4 * n) % 4 = 0
      <4> HIDE DEF n
      <4> QED OBVIOUS
    <3> HIDE DEF n
    <3>3. reading'.size = 16 + 4 * n => reading'.size % 4 = 0 /\ reading'.size >= 8
      BY <3>1, <3>2 DEF n
    <3>4. WellFormed(off, reading') =>
            /\ reading'.size = 16 + 4 * n /\ off + reading'.size <= buffer.aclSize
            /\ reading'.ace.type = "allow"
      BY DEF WellFormed, n
    <3> QED BY <3>3, <3>4 DEF AceAccepted, aceFixedSize
  <2>6. VerdictIsExact'
    BY <1>1, <2>1, <2>5 DEF VerdictIsExact, WellFormed
  <2> QED BY <1>2, <2>2, <2>3, <2>4, <2>6 DEF ParserInv
<1> QED BY <1>1, <1>3, <1>4 DEF aceFixedSize

-----------------------------------------------------------------------------
\* What is known of the ACE whose SID is parsed.
LEMMA AtSid ==
    ASSUME ParserInv, stage = "sid"
    PROVE  /\ reading \in AceFields /\ reading.size \in Nat
           /\ reading.subAuthorities \in Nat
           /\ SidSize(reading) = 8 + 4 * reading.subAuthorities
           /\ reading.size >= 8 /\ off + reading.size <= buffer.aclSize
           /\ reading.ace.type = "allow"
           /\ SidSpace = reading.size - 8
<1>1. reading \in AceFields /\ AceAccepted(reading)
  BY DEF ParserInv, Where
<1> QED BY <1>1, CandidateTypes DEF AceAccepted, aceFixedSize, SidSpace

LEMMA RejectSidStep == ParserInv /\ RejectSid => ParserInv'
<1> SUFFICES ASSUME ParserInv, RejectSid PROVE ParserInv'
  OBVIOUS
<1>1. /\ stage = "sid" /\ stage' = "rejected" /\ UNCHANGED <<buffer, off, aces, reading>>
      /\ ~(SidSpace >= 8 /\ SidAccepted)
  BY DEF RejectSid
<1>2. /\ Placed /\ Placed' /\ off \in Nat /\ off <= buffer.aclSize /\ buffer.aclSize \in Nat
  BY <1>1, InTheAcl
<1>3. Tiled'
  BY <1>1, TiledKept
<1>4. ReadsInBounds' /\ reach' \in Nat
  <2>1. CASE SidSpace >= 8
    <3>1. ReadTo(off + 10) /\ off + 10 \in Nat /\ off + 10 <= buffer.aclSize
      BY <1>1, <1>2, <2>1, AtSid DEF RejectSid, aceFixedSize
    <3> QED BY <1>1, <3>1, ReadInside
  <2>2. CASE ~(SidSpace >= 8)
    <3>1. reach' = reach
      BY <1>1, <2>2 DEF RejectSid
    <3> QED BY <1>1, <3>1, UnreadInside
  <2> QED BY <2>1, <2>2
<1>5. ParserTypeOK'
  BY <1>1, <1>4 DEF ParserInv, ParserTypeOK
<1>6. Where'
  BY <1>1, <1>2 DEF Where
<1>7. ~WellFormed(off, reading)
  BY <1>1, AtSid DEF WellFormed, SidAccepted, sidMaxSubAuth
<1>8. VerdictIsExact'
  BY <1>1, <1>7 DEF VerdictIsExact, WellFormed
<1> QED BY <1>3, <1>4, <1>5, <1>6, <1>8 DEF ParserInv

LEMMA TakeAceStep == ParserInv /\ TakeAce => ParserInv'
<1> SUFFICES ASSUME ParserInv, TakeAce PROVE ParserInv'
  OBVIOUS
<1>1. /\ stage = "sid" /\ UNCHANGED <<buffer, reading>> /\ SidAccepted /\ SidSpace >= 8
      /\ ReadTo(off + 8 + SidSize(reading))
  BY DEF TakeAce, aceFixedSize
<1>2. /\ Placed /\ Placed' /\ off \in Nat /\ off >= 8 /\ off <= buffer.aclSize
      /\ buffer.aclSize \in Nat
  BY <1>1, InTheAcl
<1>3. /\ reading \in AceFields /\ reading.size \in Nat
      /\ reading.subAuthorities \in Nat
      /\ SidSize(reading) = 8 + 4 * reading.subAuthorities
      /\ off + reading.size <= buffer.aclSize /\ reading.ace.type = "allow"
      /\ 8 + SidSize(reading) <= reading.size
      /\ reading.sidRevision = 1 /\ reading.subAuthorities <= 15
  BY <1>1, AtSid DEF SidAccepted, sidMaxSubAuth
<1>4. ReadsInBounds' /\ reach' \in Nat
  <2>1. off + 8 + SidSize(reading) \in Nat /\ off + 8 + SidSize(reading) <= buffer.aclSize
    BY <1>2, <1>3
  <2> QED BY <1>1, <2>1, ReadInside
<1>5. CASE ~FillsAce
  <2>1. stage' = "rejected" /\ UNCHANGED <<aces, off>>
    BY <1>5 DEF TakeAce
  <2>2. Tiled'
    BY <1>1, <2>1, TiledKept
  <2>3. ParserTypeOK'
    BY <1>1, <1>4, <2>1 DEF ParserInv, ParserTypeOK
  <2>4. Where'
    BY <1>1, <1>2, <2>1 DEF Where
  <2>5. ~WellFormed(off, reading)
    BY <1>3, <1>5 DEF WellFormed, FillsAce, aceFixedSize
  <2>6. VerdictIsExact'
    BY <1>1, <2>1, <2>5 DEF VerdictIsExact, WellFormed
  <2> QED BY <1>4, <2>2, <2>3, <2>4, <2>6 DEF ParserInv
<1>6. CASE FillsAce
  <2> DEFINE new == [at |-> off, fields |-> reading]
  <2>1. /\ aces' = Append(aces, new) /\ off' = off + reading.size /\ stage' = "ace"
    BY <1>6 DEF TakeAce
  <2>2. reading.size = 16 + 4 * reading.subAuthorities
    BY <1>3, <1>6 DEF FillsAce, aceFixedSize
  <2>3. WellFormed(off, reading)
    BY <1>3, <2>2 DEF WellFormed
  <2>4. ParserTypeOK'
    <3>1. Len(aces) < buffer.aceCount
      BY <1>1 DEF ParserInv, Where
    <3>2. /\ Len(aces) \in Nat /\ buffer.aceCount \in Nat
          /\ aces \in Seq([at : Nat, fields : AceFields])
          /\ new \in [at : Nat, fields : AceFields]
      BY <1>2, <1>3, HeaderTypes DEF ParserInv, ParserTypeOK
    <3>3. /\ aces' \in Seq([at : Nat, fields : AceFields])
          /\ Len(aces') = Len(aces) + 1
      BY <2>1, <3>2
    <3>4. Len(aces') <= buffer.aceCount
      BY <3>1, <3>2, <3>3
    <3> QED BY <1>1, <1>2, <1>3, <1>4, <2>1, <3>3, <3>4 DEF ParserInv, ParserTypeOK
  <2>5. Tiled'
    <3>1. /\ Len(aces) \in Nat /\ aces \in Seq([at : Nat, fields : AceFields])
          /\ DOMAIN aces = 1..Len(aces)
      BY DEF ParserInv, ParserTypeOK
    <3>2. /\ aces' # <<>> /\ Len(aces') = Len(aces) + 1
          /\ DOMAIN aces' = 1..(Len(aces) + 1)
          /\ aces'[Len(aces) + 1] = new
          /\ \A k \in 1..Len(aces) : aces'[k] = aces[k]
      BY <2>1, <3>1
    <3>3. off' = aces'[Len(aces')].at + aces'[Len(aces')].fields.size
      BY <2>1, <3>2
    <3>4. off' >= 8 + 16 * Len(aces')
      <4>1. off >= 8 + 16 * Len(aces)
        BY DEF ParserInv, Tiled
      <4> QED BY <1>2, <1>3, <2>1, <2>2, <3>1, <3>2, <4>1
    <3>5. ASSUME NEW k \in DOMAIN aces'
          PROVE  /\ aces'[k].at = IF k = 1 THEN 8
                                  ELSE aces'[k - 1].at + aces'[k - 1].fields.size
                 /\ WellFormed(aces[k].at, aces[k].fields)'
      <4>1. CASE k \in 1..Len(aces)
        <5>1. aces'[k] = aces[k] /\ (k # 1 => aces'[k - 1] = aces[k - 1])
          BY <3>1, <3>2, <4>1
        <5>2. /\ aces[k].at = IF k = 1 THEN 8
                                ELSE aces[k - 1].at + aces[k - 1].fields.size
              /\ WellFormed(aces[k].at, aces[k].fields)
          BY <3>1, <4>1 DEF ParserInv, Tiled
        <5>3. WellFormed(aces[k].at, aces[k].fields)'
          BY <1>1, <5>1, <5>2 DEF WellFormed
        <5> QED BY <5>1, <5>2, <5>3
      <4>2. CASE k = Len(aces) + 1
        <5>1. aces'[k] = new /\ new.at = off /\ new.fields = reading
          BY <3>2, <4>2
        <5>2. aces = <<>> <=> k = 1
          BY <3>1, <4>2
        <5>3. off = IF k = 1 THEN 8 ELSE aces[k - 1].at + aces[k - 1].fields.size
          <6>1. Len(aces) = k - 1
            BY <3>1, <4>2
          <6> QED BY <5>2, <6>1 DEF ParserInv, Tiled
        <5>4. k # 1 => aces'[k - 1] = aces[k - 1]
          BY <3>1, <3>2, <4>2
        <5>5. WellFormed(aces[k].at, aces[k].fields)'
          BY <1>1, <2>3, <5>1 DEF WellFormed
        <5> QED BY <5>1, <5>3, <5>4, <5>5
      <4> QED BY <3>1, <3>2, <4>1, <4>2
    <3> QED BY <3>2, <3>3, <3>4, <3>5 DEF Tiled
  <2>6. Where'
    BY <1>1, <1>2, <1>3, <2>1 DEF Where
  <2>7. VerdictIsExact'
    BY <2>1 DEF VerdictIsExact
  <2> QED BY <1>4, <2>4, <2>5, <2>6, <2>7 DEF ParserInv
<1> QED BY <1>5, <1>6

LEMMA FinishStep == ParserInv /\ Finish => ParserInv'
<1> SUFFICES ASSUME ParserInv, Finish PROVE ParserInv'
  OBVIOUS
<1>1. /\ stage = "ace" /\ stage' = "accepted" /\ ~(Len(aces) < buffer.aceCount)
      /\ UNCHANGED <<buffer, off, aces, reading, reach>>
  BY DEF Finish, MoreAces
<1>2. Placed /\ Placed' /\ reach' \in Nat /\ ReadsInBounds'
  BY <1>1, InTheAcl, UnreadInside
<1>3. Tiled'
  BY <1>1, TiledKept
<1>4. ParserTypeOK'
  BY <1>1 DEF ParserInv, ParserTypeOK
<1>5. Where'
  BY <1>1, <1>2 DEF ParserInv, Where
<1>6. Len(aces) = buffer.aceCount
  BY <1>1, HeaderTypes DEF ParserInv, ParserTypeOK
<1>7. VerdictIsExact'
  BY <1>1, <1>2, <1>6 DEF ParserInv, VerdictIsExact, Tiled, WellFormed
<1> QED BY <1>2, <1>3, <1>4, <1>5, <1>7 DEF ParserInv

LEMMA ParserInductive == ParserInv /\ [ParserNext]_parserVars => ParserInv'
<1> SUFFICES ASSUME ParserInv, [ParserNext]_parserVars PROVE ParserInv'
  OBVIOUS
<1>1. CASE ReadHeader
  BY <1>1, HeaderStep
<1>2. CASE ReadAcl
  BY <1>2, AclStep
<1>3. CASE ReadAce
  BY <1>3, AceStep
<1>4. CASE RejectSid
  BY <1>4, RejectSidStep
<1>5. CASE TakeAce
  BY <1>5, TakeAceStep
<1>6. CASE Finish
  BY <1>6, FinishStep
<1>7. CASE UNCHANGED parserVars
  <2>1. UNCHANGED <<buffer, stage, off, aces, reading, reach>>
    BY <1>7 DEF parserVars
  <2>2. Tiled' /\ (Placed <=> Placed')
    BY <2>1, TiledKept DEF Placed, HeaderAccepted, OffsetAccepted, AclAccepted
  <2>3. ParserTypeOK'
    BY <2>1 DEF ParserInv, ParserTypeOK
  <2>4. Where'
    BY <2>1, <2>2 DEF ParserInv, Where, HeaderAccepted, OffsetAccepted, AceAccepted
  <2>5. ReadsInBounds' /\ VerdictIsExact'
    BY <2>1, <2>2 DEF ParserInv, ReadsInBounds, VerdictIsExact, WellFormed
  <2> QED BY <2>2, <2>3, <2>4, <2>5 DEF ParserInv
<1> QED BY <1>1, <1>2, <1>3, <1>4, <1>5, <1>6, <1>7 DEF ParserNext

-----------------------------------------------------------------------------
\* The parser takes no more ACEs than the ACL counts, and works on the headers
\* and ACEs of the buffer (the state of parseSelfRelativeDACL).
THEOREM ParserTypes == ParserSpec => []ParserTypeOK
<1>1. ParserInv => ParserTypeOK
  BY DEF ParserInv
<1> QED BY <1>1, InitParserInv, ParserInductive, PTL DEF ParserSpec

\* Whatever lengths, offsets and counts a buffer claims, parseSelfRelativeDACL
\* reads nothing outside it, nor outside the ACL once it has been placed.
THEOREM ParserStaysInBounds == ParserSpec => []ReadsInBounds
<1>1. ParserInv => ReadsInBounds
  BY DEF ParserInv
<1> QED BY <1>1, InitParserInv, ParserInductive, PTL DEF ParserSpec

\* The ACEs that parseSelfRelativeDACL returns follow each other without gap or
\* overlap, and there are no more of them than the size of the ACL has room for.
THEOREM ParsedAcesTile == ParserSpec => []AcesTileTheAcl
<1>1. ParserInv => AcesTileTheAcl
  <2> SUFFICES ASSUME ParserInv PROVE AcesTileTheAcl
    OBVIOUS
  <2>1. /\ buffer.aclSize \in Nat /\ Len(aces) \in Nat /\ off \in Nat
    BY HeaderTypes DEF ParserInv, ParserTypeOK
  <2>2. Placed => 8 + 16 * Len(aces) <= buffer.aclSize
    BY <2>1 DEF ParserInv, Where, Tiled
  <2> QED BY <2>2 DEF ParserInv, Tiled, WellFormed, AcesTileTheAcl
<1> QED BY <1>1, InitParserInv, ParserInductive, PTL DEF ParserSpec

\* The order of checks in parseSelfRelativeDACL and parseSID amounts to one
\* definition of a well-formed buffer, accepted if and only if it is met.
THEOREM ParserDecides == ParserSpec => []VerdictIsExact
<1>1. ParserInv => VerdictIsExact
  BY DEF ParserInv
<1> QED BY <1>1, InitParserInv, ParserInductive, PTL DEF ParserSpec

-----------------------------------------------------------------------------
(***************************************************************************)
(* The loop of the classifier.                                             *)
(***************************************************************************)
LoopInv == LoopTypeOK /\ LoopInvariant /\ VerdictIsClassify

LEMMA InitLoopInv == LoopInit => LoopInv
<1> SUFFICES ASSUME LoopInit PROVE LoopInv
  OBVIOUS
<1>1. sd \in Descriptors /\ Len(sd.aces) \in Nat
  BY InputsAssumption DEF LoopInit, Descriptors
<1>2. LoopTypeOK
  BY <1>1 DEF LoopInit, LoopTypeOK
<1>3. LoopInvariant
  <2>1. i = 1 /\ 1..(i - 1) = {} /\ seen = {} /\ serviceSid = NoSid
    BY DEF LoopInit
  <2>2. verdict = Undecided => Parsed(sd)
    BY InputsAssumption DEF LoopInit
  <2> QED BY <2>1, <2>2 DEF LoopInvariant
<1>4. VerdictIsClassify
  <2> SUFFICES ASSUME verdict # Undecided PROVE verdict = Classify(sd)
    BY DEF VerdictIsClassify
  <2>1. verdict = Unknown /\ ~Parsed(sd)
    BY DEF LoopInit
  <2> QED BY <2>1, ClassifyUnknown DEF Recognized
<1> QED BY <1>2, <1>3, <1>4 DEF LoopInv

\* The ACE the loop looks at.
LEMMA CurrentAce ==
    ASSUME LoopInv, Examinable
    PROVE  /\ i \in DOMAIN sd.aces /\ DOMAIN sd.aces = 1..Len(sd.aces)
           /\ Len(sd.aces) \in Nat /\ i \in Nat /\ i >= 1
           /\ sd.aces[i] \in ACEs /\ sd.aces[i].sid \in SidsOf(sd)
           /\ \A k \in 1..(i - 1) : k \in DOMAIN sd.aces
           /\ seen \subseteq SidsOf(sd)
<1>1. /\ DOMAIN sd.aces = 1..Len(sd.aces) /\ Len(sd.aces) \in Nat
      /\ \A k \in 1..Len(sd.aces) : sd.aces[k] \in ACEs
  BY DEF LoopInv, LoopTypeOK, Descriptors
<1>2. i \in 1..Len(sd.aces)
  BY <1>1 DEF LoopInv, LoopTypeOK, Examinable
<1>3. \A k \in 1..(i - 1) : k \in DOMAIN sd.aces
  BY <1>1, <1>2
<1>4. seen \subseteq SidsOf(sd)
  BY <1>3 DEF LoopInv, LoopInvariant, Examinable, SidsOf
<1> QED BY <1>1, <1>2, <1>3, <1>4 DEF SidsOf

LEMMA RejectAceInv == LoopInv /\ RejectAce => LoopInv'
<1> SUFFICES ASSUME LoopInv, RejectAce PROVE LoopInv'
  OBVIOUS
<1> DEFINE ace == sd.aces[i]
<1>1. Examinable /\ ~Passes(ace) /\ verdict' = Unknown
      /\ UNCHANGED <<sd, i, seen, serviceSid>>
  BY DEF RejectAce
<1>2. LoopTypeOK'
  BY <1>1 DEF LoopInv, LoopTypeOK
<1>3. verdict' # Undecided
  BY <1>1, InputsAssumption
<1>4. LoopInvariant'
  BY <1>3 DEF LoopInvariant
<1>5. Classify(sd) = Unknown
  <2>1. CASE ace.flags # "none" \/ ~MaskRecognized(ace)
    BY <2>1, <1>1, CurrentAce, ClassifyUnknown DEF Recognized
  <2>2. CASE ace.sid \in seen
    <3>1. PICK k \in 1..(i - 1) : sd.aces[k].sid = ace.sid
      BY <1>1, <2>2 DEF LoopInv, LoopInvariant, Examinable
    <3>2. k \in DOMAIN sd.aces /\ i \in DOMAIN sd.aces /\ k # i
      BY <1>1, CurrentAce
    <3>3. ~NoDuplicates(sd)
      BY <3>1, <3>2 DEF NoDuplicates
    <3> QED BY <3>3, ClassifyUnknown DEF Recognized
  <2>3. CASE ace.flags = "none" /\ MaskRecognized(ace) /\ ace.sid \notin seen
    <3>1. ace.sid \in ServiceSids /\ serviceSid # NoSid
      BY <1>1, <2>3 DEF Passes, Accepted, MaskRecognized
    <3>2. serviceSid \in ServiceSids /\ serviceSid \in seen
      BY <1>1, <3>1 DEF LoopInv, LoopTypeOK, LoopInvariant, Examinable
    <3>3. serviceSid # ace.sid /\ serviceSid \in SidsOf(sd) /\ ace.sid \in SidsOf(sd)
      BY <1>1, <2>3, <3>2, CurrentAce
    <3> QED BY <3>1, <3>2, <3>3, TwoExtras, ClassifyUnknown
  <2> QED BY <2>1, <2>2, <2>3
<1>6. VerdictIsClassify'
  BY <1>1, <1>5 DEF VerdictIsClassify
<1> QED BY <1>2, <1>4, <1>6 DEF LoopInv

LEMMA AcceptAceInv == LoopInv /\ AcceptAce => LoopInv'
<1> SUFFICES ASSUME LoopInv, AcceptAce PROVE LoopInv'
  OBVIOUS
<1> DEFINE ace == sd.aces[i]
<1>1. /\ Examinable /\ Passes(ace) /\ seen' = seen \cup {ace.sid}
      /\ serviceSid' = IF ace.sid \in ServiceSids THEN ace.sid ELSE serviceSid
      /\ i' = i + 1 /\ UNCHANGED <<sd, verdict>>
  BY DEF AcceptAce
<1>2. /\ i \in Nat /\ i >= 1 /\ i <= Len(sd.aces) /\ Len(sd.aces) \in Nat
      /\ ace \in ACEs
  BY <1>1, CurrentAce DEF Examinable
<1>3. ace.sid \in Sids
  BY <1>2 DEF ACEs
<1>4. LoopTypeOK'
  BY <1>1, <1>2, <1>3 DEF LoopInv, LoopTypeOK
<1>5. VerdictIsClassify'
  BY <1>1 DEF VerdictIsClassify, Examinable
<1>6. /\ ace.flags = "none" /\ ace.sid \notin seen /\ MaskRecognized(ace)
      /\ ace.sid \in ServiceSids => serviceSid = NoSid
  BY <1>1, SidsDistinct DEF Passes, Accepted, MaskRecognized
<1>7. LoopInvariant'
  <2>1. 1..(i' - 1) = 1..(i - 1) \cup {i}
    BY <1>1, <1>2
  <2>2. /\ Parsed(sd)
        /\ seen = {sd.aces[k].sid : k \in 1..(i - 1)}
        /\ \A k \in 1..(i - 1) :
              sd.aces[k].flags = "none" /\ MaskRecognized(sd.aces[k])
        /\ \A j, k \in 1..(i - 1) : sd.aces[j].sid = sd.aces[k].sid => j = k
        /\ serviceSid # NoSid => serviceSid \in seen
        /\ seen \cap ServiceSids \subseteq {serviceSid}
    BY <1>1 DEF LoopInv, LoopInvariant, Examinable
  <2>3. seen' = {sd'.aces[k].sid : k \in 1..(i' - 1)}
    <3>1. sd' = sd
      BY <1>1
    <3> QED BY <1>1, <2>1, <2>2, <3>1
  <2>4. \A k \in 1..(i' - 1) :
           sd'.aces[k].flags = "none" /\ MaskRecognized(sd'.aces[k])
    BY <1>1, <1>6, <2>1, <2>2
  <2>5. \A j, k \in 1..(i' - 1) : sd'.aces[j].sid = sd'.aces[k].sid => j = k
    BY <1>1, <1>6, <2>1, <2>2
  <2>6. serviceSid' # NoSid => serviceSid' \in seen'
    BY <1>1, <2>2
  <2>7. seen' \cap ServiceSids \subseteq {serviceSid'}
    BY <1>1, <1>6, <2>2, SidsDistinct
  <2>8. Parsed(sd')
    BY <1>1, <2>2
  <2> QED BY <2>3, <2>4, <2>5, <2>6, <2>7, <2>8 DEF LoopInvariant
<1> QED BY <1>4, <1>5, <1>7 DEF LoopInv

\* After the last ACE the loop has seen every trustee, and the descriptor is
\* recognized if SYSTEM and Administrators are among them.
LEMMA LoopDone ==
    ASSUME LoopInv, verdict = Undecided, i > Len(sd.aces)
    PROVE  /\ seen = SidsOf(sd) /\ NoDuplicates(sd)
           /\ Recognized(sd) <=> {SYSTEM, Administrators} \subseteq seen
           /\ serviceSid \in ServiceSids \cup {NoSid}
           /\ serviceSid # NoSid => serviceSid \in seen
           /\ seen \cap ServiceSids \subseteq {serviceSid}
<1>1. DOMAIN sd.aces = 1..Len(sd.aces) /\ Len(sd.aces) \in Nat
  BY DEF LoopInv, LoopTypeOK, Descriptors
<1>2. i = Len(sd.aces) + 1 /\ 1..(i - 1) = DOMAIN sd.aces
  BY <1>1 DEF LoopInv, LoopTypeOK
<1>3. /\ seen = SidsOf(sd) /\ NoDuplicates(sd) /\ Parsed(sd)
      /\ \A k \in DOMAIN sd.aces :
            sd.aces[k].flags = "none" /\ MaskRecognized(sd.aces[k])
  BY <1>2 DEF LoopInv, LoopInvariant, SidsOf, NoDuplicates
<1>4. Recognized(sd) <=> {SYSTEM, Administrators} \subseteq seen
  BY <1>3 DEF Recognized
<1>5. /\ serviceSid # NoSid => serviceSid \in seen
      /\ seen \cap ServiceSids \subseteq {serviceSid}
  BY DEF LoopInv, LoopInvariant
<1>6. serviceSid \in ServiceSids \cup {NoSid}
  BY DEF LoopInv, LoopTypeOK
<1> QED BY <1>3, <1>4, <1>5, <1>6

\* The checks after the loop, and the switch on the number of ACEs.
LEMMA DecisionIsClassify ==
    ASSUME LoopInv, verdict = Undecided, i > Len(sd.aces)
    PROVE  Decision = Classify(sd)
<1> DEFINE basic == {SYSTEM, Administrators}
<1>0. sd \in Descriptors
  BY DEF LoopInv, LoopTypeOK
<1>1. CASE ~(basic \subseteq seen)
  BY <1>1, LoopDone, ClassifyUnknown DEF Decision
<1>2. CASE LocalService \in seen /\ serviceSid # NoSid
  <2>1. \A p \in Policies : SidsOf(sd) # Trustees(p)
    BY <1>2, LoopDone, TwoExtras, SidsDistinct
  <2> QED BY <1>2, <2>1, ClassifyUnknown DEF Decision
<1>3. CASE basic \subseteq seen /\ ~(LocalService \in seen /\ serviceSid # NoSid)
  <2>0. Recognized(sd) /\ seen = SidsOf(sd) /\ NoDuplicates(sd)
        /\ basic \subseteq SidsOf(sd)
    BY <1>3, LoopDone
  <2>1. Len(sd.aces) = 2 <=> seen = basic
    BY <1>0, <2>0, TwoAces
  <2>2. LocalService \in seen => (Len(sd.aces) = 3 <=> seen = basic \cup {LocalService})
    BY <1>0, <2>0, ThreeAces, SidsDistinct
  <2>3. serviceSid # NoSid =>
          (Len(sd.aces) = 3 <=> seen = basic \cup {serviceSid})
    <3> SUFFICES ASSUME serviceSid # NoSid
                 PROVE  Len(sd.aces) = 3 <=> seen = basic \cup {serviceSid}
      OBVIOUS
    <3>1. serviceSid \in ServiceSids /\ serviceSid \in seen
      BY LoopDone
    <3>2. serviceSid \notin basic /\ basic \cup {serviceSid} \subseteq SidsOf(sd)
      BY <2>0, <3>1, SidsDistinct
    <3> QED BY <1>0, <2>0, <3>2, ThreeAces
  <2>4. CASE Len(sd.aces) = 2
    <3>1. SidsOf(sd) = Trustees(PrivilegedOnly)
      BY <2>0, <2>1, <2>4, PolicyTrustees
    <3> QED BY <1>3, <2>0, <2>4, <3>1, PolicyTrustees, ClassifyPolicy DEF Decision
  <2>5. CASE Len(sd.aces) = 3 /\ LocalService \in seen
    <3>1. SidsOf(sd) = Trustees(ServiceSigner)
      BY <2>0, <2>2, <2>5, PolicyTrustees
    <3> QED BY <1>3, <2>0, <2>5, <3>1, PolicyTrustees, ClassifyPolicy DEF Decision
  <2>6. CASE Len(sd.aces) = 3 /\ LocalService \notin seen /\ serviceSid # NoSid
    <3>1. serviceSid \in ServiceSids
      BY <2>6, LoopDone
    <3>2. SidsOf(sd) = Trustees(ServicePolicy(serviceSid))
      BY <2>0, <2>3, <2>6, <3>1, PolicyTrustees
    <3>3. Classify(sd) = ServicePolicy(serviceSid)
      BY <2>0, <3>1, <3>2, PolicyTrustees, ClassifyPolicy
    <3> QED BY <1>3, <2>6, <3>3 DEF Decision
  <2>7. CASE ~(\/ Len(sd.aces) = 2
               \/ Len(sd.aces) = 3 /\ (LocalService \in seen \/ serviceSid # NoSid))
    <3>1. Decision = Unknown
      BY <1>3, <2>7 DEF Decision
    <3>2. \A p \in Policies : SidsOf(sd) # Trustees(p)
      <4> SUFFICES ASSUME NEW p \in Policies, seen = Trustees(p) PROVE FALSE
        BY <2>0
      <4>1. seen # basic
        BY <2>1, <2>7
      <4>2. seen # basic \cup {LocalService}
        BY <2>2, <2>7
      <4>3. \A s \in ServiceSids : seen # basic \cup {s}
        <5> SUFFICES ASSUME NEW s \in ServiceSids, seen = basic \cup {s}
                     PROVE  FALSE
          OBVIOUS
        <5>1. serviceSid = s /\ serviceSid # NoSid
          BY LoopDone, SidsDistinct
        <5> QED BY <2>3, <2>7, <5>1
      <4> QED BY <4>1, <4>2, <4>3, PolicyTrustees
    <3> QED BY <3>1, <3>2, ClassifyUnknown
  <2> QED BY <2>4, <2>5, <2>6, <2>7
<1> QED BY <1>1, <1>2, <1>3

LEMMA DecideInv == LoopInv /\ Decide => LoopInv'
<1> SUFFICES ASSUME LoopInv, Decide PROVE LoopInv'
  OBVIOUS
<1>1. /\ verdict = Undecided /\ i > Len(sd.aces) /\ verdict' = Decision
      /\ UNCHANGED <<sd, i, seen, serviceSid>>
  BY DEF Decide
<1>2. verdict' = Classify(sd) /\ verdict' = Classify(sd')
  BY <1>1, DecisionIsClassify
<1>3. verdict' \in Policies \cup {Unknown}
  BY <1>2 DEF Classify
<1>4. verdict' # Undecided
  BY <1>3, InputsAssumption
<1>5. LoopTypeOK'
  BY <1>1, <1>3 DEF LoopInv, LoopTypeOK
<1> QED BY <1>2, <1>4, <1>5 DEF LoopInv, LoopInvariant, VerdictIsClassify

LEMMA LoopInductive == LoopInv /\ [LoopNext]_loopVars => LoopInv'
<1> SUFFICES ASSUME LoopInv, [LoopNext]_loopVars PROVE LoopInv'
  OBVIOUS
<1>1. CASE AcceptAce
  BY <1>1, AcceptAceInv
<1>2. CASE RejectAce
  BY <1>2, RejectAceInv
<1>3. CASE Decide
  BY <1>3, DecideInv
<1>4. CASE UNCHANGED loopVars
  <2>1. LoopTypeOK'
    BY <1>4 DEF LoopInv, LoopTypeOK, loopVars
  <2>2. LoopInvariant' /\ VerdictIsClassify'
    BY <1>4 DEF LoopInv, LoopInvariant, VerdictIsClassify, loopVars
  <2> QED BY <2>1, <2>2 DEF LoopInv
<1> QED BY <1>1, <1>2, <1>3, <1>4 DEF LoopNext

\* The loop only sees ACEs of the descriptor and remembers trustees of it (the
\* state of classifyDescriptorSID).
THEOREM LoopTypes == LoopSpec => []LoopTypeOK
<1>1. LoopInv => LoopTypeOK
  BY DEF LoopInv
<1> QED BY InitLoopInv, LoopInductive, <1>1, PTL DEF LoopSpec

\* While it has not decided, the loop has seen exactly the trustees of the ACEs
\* it passed, all distinct, unflagged and with recognized masks.
THEOREM LoopKnowsItsPast == LoopSpec => []LoopInvariant
<1>1. LoopInv => LoopInvariant
  BY DEF LoopInv
<1> QED BY InitLoopInv, LoopInductive, <1>1, PTL DEF LoopSpec

\* Whatever descriptor a key has, the loop of classifyDescriptorSID decides for
\* the policy whose trustees it grants, each once and with a mask the package
\* knows, and for no policy if there is none.
THEOREM LoopDecides == LoopSpec => []VerdictIsClassify
<1>1. LoopInv => VerdictIsClassify
  BY DEF LoopInv
<1> QED BY <1>1, InitLoopInv, LoopInductive, PTL DEF LoopSpec

\* What OpenWithPolicy recognizes as service-signer, verifyDACL accepts as well.
THEOREM SignerAcceptedByOpen == LoopSpec => []StricterThanOpen
<1>1. LoopInv => StricterThanOpen
  <2> SUFFICES ASSUME LoopInv, verdict = ServiceSigner PROVE VerifyDACL(sd)
    BY DEF StricterThanOpen
  <2>1. Classify(sd) = ServiceSigner
    BY PolicyTrustees, InputsAssumption DEF LoopInv, VerdictIsClassify
  <2> QED BY <2>1, SignerPassesWalk DEF LoopInv, LoopTypeOK
<1> QED BY <1>1, InitLoopInv, LoopInductive, PTL DEF LoopSpec

\* The allow-listed masks are harmless: a recognized DACL grants every token
\* exactly what the DACL the package asks for grants.
THEOREM RecognizedGrantsExactly == LoopSpec => []ExactGrants
<1>1. LoopInv => ExactGrants
  <2> SUFFICES ASSUME LoopInv, verdict \in Policies, NEW token \in SUBSET Sids
               PROVE  Granted(token, sd) = Granted(token, Requested(verdict))
    BY DEF ExactGrants
  <2>1. Classify(sd) = verdict
    BY InputsAssumption DEF LoopInv, VerdictIsClassify
  <2> QED BY <2>1, ClassifiedGrants
<1> QED BY <1>1, InitLoopInv, LoopInductive, PTL DEF LoopSpec

-----------------------------------------------------------------------------
(***************************************************************************)
(* The structural walk.                                                    *)
(***************************************************************************)
Required == {SYSTEM, Administrators, LocalService}
Working == {"dacl", "count", "convert", "ace"}

\* What has been found out about the descriptor so far.
Reached ==
    /\ walkPc \in {"count", "convert", "ace"} => persisted.intact /\ persisted.present
    /\ walkPc \in {"convert", "ace"} => persisted.aces # <<>>
    /\ walkPc \in Working => outcome = "none"

\* The deferred calls are the SIDs that are allocated, the last one first.
Deferred ==
    /\ Len(deferred) <= Len(ComparedSids)
    /\ walkPc \in Working => Len(deferred) = converted
    /\ walkPc = "done" => deferred = <<>>
    /\ \A k \in 1..Len(deferred) : deferred[k] = ComparedSids[Len(deferred) + 1 - k]
    /\ live = {ComparedSids[k] : k \in 1..Len(deferred)}
    /\ ~freedTwice

Passed(k) == k \in DOMAIN persisted.aces /\ k < next /\ persisted.aces[k].type = "allow"

\* What the conditions on one ACE say, without those on the ACEs before it.
MaskFits(ace) ==
    /\ ace.sid \notin ForbiddenSids
    /\ ace.sid \in {SYSTEM, Administrators} => "GA" \in ace.mask
    /\ ace.sid = LocalService => "GR" \in ace.mask /\ ace.mask \cap {"GW", "GA"} = {}

\* The ACEs passed: their masks fit, and found has the required trustees among
\* them, of which each came once.
Walked ==
    walkPc \in Working =>
        /\ \A k : Passed(k) => MaskFits(persisted.aces[k])
        /\ \A k : Passed(k) /\ persisted.aces[k].sid \in Required =>
                      persisted.aces[k].sid \in found
        /\ \A sid \in found : \E k : Passed(k) /\ persisted.aces[k].sid = sid
        /\ \A j, k : (/\ Passed(j) /\ Passed(k) /\ persisted.aces[j].sid \in Required
                      /\ persisted.aces[j].sid = persisted.aces[k].sid) => j = k

WalkInv == WalkTypeOK /\ Reached /\ Deferred /\ Walked /\ WalkDecides

LEMMA ComparedSidsFacts ==
    /\ Len(ComparedSids) = 9 /\ ComparedSids \in Seq(Sids)
    /\ \A j, k \in 1..9 : ComparedSids[j] = ComparedSids[k] => j = k
    /\ \A k \in 1..9 : ComparedSids[k] \in Sids
BY DEF ComparedSids, Sids, WellKnownSids, ForbiddenSids, SYSTEM, Administrators,
       LocalService

\* The ACEs of a descriptor.
LEMMA AcesOf ==
    ASSUME WalkTypeOK
    PROVE  /\ persisted.aces \in Seq(ACEs) /\ Len(persisted.aces) \in Nat
           /\ DOMAIN persisted.aces = 1..Len(persisted.aces)
           /\ next \in 1..(Len(persisted.aces) + 1)
BY DEF WalkTypeOK, Descriptors

LEMMA InitWalkInv == WalkInit => WalkInv
<1> SUFFICES ASSUME WalkInit PROVE WalkInv
  OBVIOUS
<1>1. WalkTypeOK
  <2>1. persisted \in Descriptors /\ Len(persisted.aces) \in Nat
    BY WalkAssumption DEF WalkInit, Descriptors
  <2>2. next \in 1..(Len(persisted.aces) + 1) /\ converted \in 0..Len(ComparedSids)
    BY <2>1, ComparedSidsFacts DEF WalkInit
  <2>3. deferred \in Seq(Sids)
    BY DEF WalkInit
  <2> QED BY <2>1, <2>2, <2>3 DEF WalkInit, WalkTypeOK
<1>2. Reached /\ WalkDecides
  BY DEF WalkInit, Reached, WalkDecides
<1>3. Deferred
  BY ComparedSidsFacts DEF WalkInit, Deferred
<1>4. Walked
  <2>1. \A k : ~Passed(k)
    BY <1>1, AcesOf DEF WalkInit, Passed
  <2> QED BY <2>1 DEF WalkInit, Walked
<1> QED BY <1>1, <1>2, <1>3, <1>4 DEF WalkInv

-----------------------------------------------------------------------------
(***************************************************************************)
(* Up to the conversion of the SIDs nothing is known of the ACEs.          *)
(***************************************************************************)
\* An error says nothing of the descriptor.
LEMMA FailInv ==
    ASSUME WalkInv, walkPc \in Working, Return("failed"),
           UNCHANGED <<persisted, next, converted, deferred, live, freedTwice, found>>
    PROVE  WalkInv'
BY DEF WalkInv, WalkTypeOK, Return, Reached, Working, Deferred, Walked, WalkDecides

LEMMA GetDaclInv == ASSUME WalkInv, GetDacl PROVE WalkInv'
<1>1. walkPc = "dacl"
      /\ UNCHANGED <<persisted, next, converted, deferred, live, freedTwice, found>>
  BY DEF GetDacl
<1>2. CASE persisted.intact /\ persisted.present /\ Continue("count")
  BY <1>1, <1>2
     DEF WalkInv, WalkTypeOK, Continue, Reached, Working, Deferred, Walked, Passed, WalkDecides
<1>3. CASE persisted.intact /\ ~persisted.present /\ Return("rejected")
  <2>1. ~VerifyDACL(persisted)
    BY <1>3 DEF VerifyDACL
  <2> QED BY <1>1, <1>3, <2>1
     DEF WalkInv, WalkTypeOK, Return, Reached, Working, Deferred, Walked, WalkDecides
<1> QED BY <1>1, <1>2, <1>3, FailInv DEF GetDacl, Working

LEMMA CountAcesInv == ASSUME WalkInv, CountAces PROVE WalkInv'
<1>1. walkPc = "count"
      /\ UNCHANGED <<persisted, next, converted, deferred, live, freedTwice, found>>
  BY DEF CountAces
<1>2. CASE persisted.aces # <<>> /\ Continue("convert")
  BY <1>1, <1>2
     DEF WalkInv, WalkTypeOK, Continue, Reached, Working, Deferred, Walked, Passed, WalkDecides
<1>3. CASE persisted.aces = <<>> /\ Return("rejected")
  <2>1. ~VerifyDACL(persisted)
    BY <1>3 DEF VerifyDACL
  <2> QED BY <1>1, <1>3, <2>1
     DEF WalkInv, WalkTypeOK, Return, Reached, Working, Deferred, Walked, WalkDecides
<1> QED BY <1>1, <1>2, <1>3, FailInv DEF CountAces, Working

LEMMA ConvertSidInv == ASSUME WalkInv, ConvertSid PROVE WalkInv'
<1>1. /\ walkPc = "convert" /\ UNCHANGED <<persisted, next, freedTwice, found>>
      /\ converted < 9 /\ converted \in Nat /\ Len(deferred) = converted
      /\ deferred \in Seq(Sids)
  BY ComparedSidsFacts DEF ConvertSid, WalkInv, WalkTypeOK, Deferred, Working
<1>2. CASE /\ ConvertAndDefer(ComparedSids[converted + 1])
           /\ converted' = converted + 1
           /\ UNCHANGED <<walkPc, outcome>>
  <2> DEFINE sid == ComparedSids[converted + 1]
  <2>1. sid \in Sids /\ live' = live \cup {sid} /\ deferred' = <<sid>> \o deferred
    BY <1>1, <1>2, ComparedSidsFacts DEF ConvertAndDefer
  <2>2. /\ deferred' \in Seq(Sids) /\ Len(deferred') = converted + 1
        /\ deferred'[1] = sid
        /\ \A k \in 2..(converted + 1) : deferred'[k] = deferred[k - 1]
    BY <1>1, <2>1
  <2>3. WalkTypeOK'
    BY <1>1, <1>2, <2>1, <2>2, ComparedSidsFacts DEF WalkInv, WalkTypeOK
  <2>4. \A k \in 1..Len(deferred') : deferred'[k] = ComparedSids[Len(deferred') + 1 - k]
    <3>1. \A k \in 1..converted : deferred[k] = ComparedSids[converted + 1 - k]
      BY <1>1 DEF WalkInv, Deferred
    <3> SUFFICES ASSUME NEW k \in 1..(converted + 1)
                 PROVE  deferred'[k] = ComparedSids[converted + 2 - k]
      BY <1>1, <2>2
    <3>2. CASE k = 1
      BY <1>1, <2>2, <3>2
    <3>3. CASE k # 1
      <4>1. k - 1 \in 1..converted /\ k \in 2..(converted + 1)
        BY <1>1, <3>3
      <4>2. deferred'[k] = deferred[k - 1] /\ deferred[k - 1] = ComparedSids[converted + 1 - (k - 1)]
        BY <2>2, <3>1, <4>1
      <4>3. converted + 1 - (k - 1) = converted + 2 - k
        BY <1>1
      <4> QED BY <4>2, <4>3
    <3> QED BY <3>2, <3>3
  <2>5. live' = {ComparedSids[k] : k \in 1..Len(deferred')}
    <3>1. 1..Len(deferred') = 1..Len(deferred) \cup {converted + 1}
      BY <1>1, <2>2
    <3> QED BY <2>1, <3>1 DEF WalkInv, Deferred
  <2>6. Deferred'
    BY <1>1, <1>2, <2>2, <2>4, <2>5, ComparedSidsFacts DEF WalkInv, Deferred, Working
  <2>7. Reached' /\ Walked' /\ WalkDecides'
    BY <1>1, <1>2 DEF WalkInv, Reached, Walked, Passed, WalkDecides, Working
  <2> QED BY <2>3, <2>6, <2>7 DEF WalkInv
<1>3. CASE Return("failed") /\ UNCHANGED <<converted, deferred, live>>
  BY <1>1, <1>3, FailInv DEF Working
<1> QED BY <1>2, <1>3 DEF ConvertSid

LEMMA AllConvertedInv == ASSUME WalkInv, AllConverted PROVE WalkInv'
BY DEF AllConverted, WalkInv, WalkTypeOK, Continue, Reached, Working, Deferred, Walked,
       Passed, WalkDecides

-----------------------------------------------------------------------------
(***************************************************************************)
(* The walk.                                                               *)
(***************************************************************************)
LEMMA VerifiesMask ==
    ASSUME VerifyDACL(persisted), NEW k \in DOMAIN persisted.aces,
           persisted.aces[k].type = "allow"
    PROVE  MaskFits(persisted.aces[k])
BY DEF VerifyDACL, MaskFits

\* A required trustee that comes twice is not granted once.
LEMMA VerifiesOnce ==
    ASSUME VerifyDACL(persisted),
           NEW j \in DOMAIN persisted.aces, NEW k \in DOMAIN persisted.aces,
           persisted.aces[j].type = "allow", persisted.aces[k].type = "allow",
           persisted.aces[j].sid = persisted.aces[k].sid,
           persisted.aces[j].sid \in Required
    PROVE  j = k
BY DEF VerifyDACL, GrantedOnce, Required

LEMMA WalkAceInv == ASSUME WalkInv, WalkAce PROVE WalkInv'
<1> DEFINE ace == persisted.aces[next]
<1>1. /\ walkPc = "ace" /\ UNCHANGED <<persisted, converted, deferred, live, freedTwice>>
      /\ next <= Len(persisted.aces)
  BY DEF WalkAce
<1>2. /\ next \in Nat /\ next >= 1 /\ next \in DOMAIN persisted.aces
      /\ DOMAIN persisted.aces = 1..Len(persisted.aces) /\ Len(persisted.aces) \in Nat
      /\ ace \in ACEs
  BY <1>1, AcesOf DEF WalkInv
<1>3. /\ found \subseteq Required
      /\ \A k : Passed(k) => MaskFits(persisted.aces[k])
      /\ \A k : Passed(k) /\ persisted.aces[k].sid \in Required =>
                    persisted.aces[k].sid \in found
      /\ \A sid \in found : \E k : Passed(k) /\ persisted.aces[k].sid = sid
      /\ \A j, k : (/\ Passed(j) /\ Passed(k) /\ persisted.aces[j].sid \in Required
                    /\ persisted.aces[j].sid = persisted.aces[k].sid) => j = k
  BY <1>1 DEF WalkInv, Walked, Working, WalkTypeOK, Required
<1>4. CASE /\ ace.type # "allow" \/ Acceptable(ace)
           /\ Remember(ace)
           /\ next' = next + 1
           /\ UNCHANGED <<walkPc, outcome>>
  <2>1. \A k : Passed(k)' <=> Passed(k) \/ (k = next /\ ace.type = "allow")
    BY <1>1, <1>2, <1>4 DEF Passed
  <2>2. found' = IF ace.type = "allow" THEN found \cup ({ace.sid} \cap Required) ELSE found
    BY <1>4 DEF Remember, Required
  <2>3. WalkTypeOK'
    BY <1>1, <1>2, <1>3, <1>4, <2>2 DEF WalkInv, WalkTypeOK, Required
  <2>4. CASE ace.type # "allow"
    <3>1. (\A k : Passed(k)' <=> Passed(k)) /\ found' = found
      BY <2>1, <2>2, <2>4
    <3>2. Walked'
      BY <1>1, <1>3, <3>1 DEF Walked
    <3> QED BY <1>1, <1>4, <2>3, <3>2 DEF WalkInv, Reached, Deferred, WalkDecides, Working
  <2>5. CASE ace.type = "allow"
    <3>1. Acceptable(ace) /\ MaskFits(ace) /\ ace.sid \notin found
      BY <1>4, <2>5 DEF Acceptable, MaskFits
    <3>2. (\A k : Passed(k)' => MaskFits(persisted.aces[k]))
      BY <1>3, <2>1, <3>1
    <3>3. \A k : Passed(k)' /\ persisted.aces[k].sid \in Required =>
                    persisted.aces[k].sid \in found'
      BY <1>3, <2>1, <2>2, <2>5
    <3>4. \A sid \in found' : \E k : Passed(k)' /\ persisted.aces[k].sid = sid
      BY <1>3, <2>1, <2>2, <2>5
    <3>5. \A j, k : (/\ Passed(j)' /\ Passed(k)' /\ persisted.aces[j].sid \in Required
                     /\ persisted.aces[j].sid = persisted.aces[k].sid) => j = k
      BY <1>3, <2>1, <3>1
    <3>6. Walked'
      BY <1>1, <3>2, <3>3, <3>4, <3>5 DEF Walked
    <3> QED BY <1>1, <1>4, <2>3, <3>6 DEF WalkInv, Reached, Deferred, WalkDecides, Working
  <2> QED BY <2>4, <2>5
<1>5. CASE /\ ace.type = "allow" /\ ~Acceptable(ace)
           /\ Return("rejected") /\ UNCHANGED <<next, found>>
  <2>1. ~VerifyDACL(persisted)
    <3>1. CASE ~MaskFits(ace)
      BY <1>2, <1>5, <3>1, VerifiesMask
    <3>2. CASE ace.sid \in found
      <4>1. PICK k : Passed(k) /\ persisted.aces[k].sid = ace.sid
        BY <1>3, <3>2
      <4>2. k \in DOMAIN persisted.aces /\ k # next /\ ace.sid \in Required
            /\ persisted.aces[k].type = "allow"
        BY <1>2, <1>3, <3>2, <4>1 DEF Passed
      <4> QED BY <1>2, <1>5, <4>1, <4>2, VerifiesOnce
    <3> QED BY <1>5, <3>1, <3>2 DEF Acceptable, MaskFits
  <2> QED BY <1>1, <1>5, <2>1
     DEF WalkInv, WalkTypeOK, Return, Reached, Working, Deferred, Walked, WalkDecides
<1>6. CASE Return("failed") /\ UNCHANGED <<next, found>>
  BY <1>1, <1>6, FailInv DEF Working
<1> QED BY <1>4, <1>5, <1>6 DEF WalkAce

LEMMA EndWalkInv == ASSUME WalkInv, EndWalk PROVE WalkInv'
<1>1. /\ walkPc = "ace" /\ next > Len(persisted.aces)
      /\ UNCHANGED <<persisted, next, converted, deferred, live, freedTwice, found>>
      /\ Return(IF FoundRequired THEN "verified" ELSE "rejected")
  BY DEF EndWalk
<1>2. \A k : Passed(k) <=> k \in DOMAIN persisted.aces /\ persisted.aces[k].type = "allow"
  BY <1>1, AcesOf DEF WalkInv, Passed
<1>3. /\ found \subseteq Required /\ Walked /\ walkPc \in Working
      /\ persisted.intact /\ persisted.present /\ persisted.aces # <<>>
  BY <1>1 DEF WalkInv, WalkTypeOK, Required, Reached, Working
<1>4. FoundRequired => VerifyDACL(persisted)
  <2> SUFFICES ASSUME found = Required PROVE VerifyDACL(persisted)
    BY DEF FoundRequired, Required
  <2>1. ASSUME NEW sid \in Required PROVE GrantedOnce(persisted, sid)
    <3>1. PICK k : Passed(k) /\ persisted.aces[k].sid = sid
      BY <1>3, <2>1 DEF Walked
    <3>2. \A j : Passed(j) /\ persisted.aces[j].sid = sid => j = k
      BY <1>3, <2>1, <3>1 DEF Walked
    <3> QED BY <1>2, <3>1, <3>2 DEF GrantedOnce
  <2>2. \A k \in DOMAIN persisted.aces :
           persisted.aces[k].type = "allow" => MaskFits(persisted.aces[k])
    BY <1>2, <1>3 DEF Walked
  <2> QED BY <1>3, <2>1, <2>2 DEF VerifyDACL, MaskFits, Required
<1>5. ~FoundRequired => ~VerifyDACL(persisted)
  <2> SUFFICES ASSUME ~FoundRequired PROVE ~VerifyDACL(persisted)
    OBVIOUS
  <2>1. PICK sid \in Required : sid \notin found
    BY <1>3 DEF FoundRequired, Required
  <2>2. ~GrantedOnce(persisted, sid)
    BY <1>2, <1>3, <2>1 DEF Walked, GrantedOnce
  <2> QED BY <2>1, <2>2 DEF VerifyDACL, Required
<1> QED BY <1>1, <1>4, <1>5
     DEF WalkInv, WalkTypeOK, Return, Reached, Working, Deferred, Walked, WalkDecides

-----------------------------------------------------------------------------
(***************************************************************************)
(* The deferred calls.                                                     *)
(***************************************************************************)
LEMMA FreeSidInv == ASSUME WalkInv, FreeSid PROVE WalkInv'
<1> DEFINE n == Len(deferred)
<1>1. /\ walkPc = "return" /\ UNCHANGED <<persisted, walkPc, next, converted, found, outcome>>
      /\ deferred # <<>> /\ deferred \in Seq(Sids)
      /\ freedTwice' = (freedTwice \/ Head(deferred) \notin live)
      /\ live' = live \ {Head(deferred)} /\ deferred' = Tail(deferred)
  BY DEF FreeSid, WalkInv, WalkTypeOK
<1>2. /\ n \in Nat /\ n >= 1 /\ n <= 9 /\ Head(deferred) = ComparedSids[n]
      /\ live = {ComparedSids[k] : k \in 1..n} /\ ~freedTwice
      /\ \A k \in 1..n : deferred[k] = ComparedSids[n + 1 - k]
  <2>1. n \in Nat /\ n >= 1 /\ Head(deferred) = deferred[1]
    BY <1>1
  <2>2. /\ n <= Len(ComparedSids) /\ ~freedTwice
        /\ live = {ComparedSids[k] : k \in 1..n}
        /\ \A k \in 1..n : deferred[k] = ComparedSids[n + 1 - k]
    BY DEF WalkInv, Deferred
  <2>3. deferred[1] = ComparedSids[n]
    BY <2>1, <2>2
  <2> QED BY <2>1, <2>2, <2>3, ComparedSidsFacts
<1>3. /\ deferred' \in Seq(Sids) /\ Len(deferred') = n - 1
      /\ \A k \in 1..(n - 1) : deferred'[k] = deferred[k + 1]
  BY <1>1, <1>2
<1>4. Head(deferred) \in live
  BY <1>2
<1>5. live' = {ComparedSids[k] : k \in 1..(n - 1)}
  <2>1. \A k \in 1..(n - 1) : ComparedSids[k] # ComparedSids[n]
    BY <1>2, ComparedSidsFacts
  <2>2. 1..n = 1..(n - 1) \cup {n}
    BY <1>2
  <2> QED BY <1>1, <1>2, <2>1, <2>2
<1>6. Deferred'
  <2>1. \A k \in 1..(n - 1) : deferred'[k] = ComparedSids[n - k]
    BY <1>2, <1>3
  <2>2. \A k \in 1..Len(deferred') :
           deferred'[k] = ComparedSids[Len(deferred') + 1 - k]
    BY <1>2, <1>3, <2>1
  <2>3. live' = {ComparedSids[k] : k \in 1..Len(deferred')}
    BY <1>3, <1>5
  <2>4. Len(deferred') <= Len(ComparedSids)
    BY <1>2, <1>3, ComparedSidsFacts
  <2> QED BY <1>1, <1>2, <1>4, <2>2, <2>3, <2>4 DEF Deferred, Working
<1>7. WalkTypeOK'
  BY <1>1, <1>3, <1>4, <1>2 DEF WalkInv, WalkTypeOK
<1> QED BY <1>1, <1>6, <1>7 DEF WalkInv, Reached, Walked, WalkDecides, Working

LEMMA ReturnedInv == ASSUME WalkInv, Returned PROVE WalkInv'
BY DEF Returned, WalkInv, WalkTypeOK, Reached, Deferred, Walked, WalkDecides, Working

LEMMA StutterInv == ASSUME WalkInv, UNCHANGED walkVars PROVE WalkInv'
BY DEF walkVars, WalkInv, WalkTypeOK, Reached, Deferred, Walked, Passed, WalkDecides

LEMMA WalkInductive == WalkSpec => []WalkInv
<1>1. WalkInv /\ [WalkNext]_walkVars => WalkInv'
  BY GetDaclInv, CountAcesInv, ConvertSidInv, AllConvertedInv, WalkAceInv, EndWalkInv,
     FreeSidInv, ReturnedInv, StutterInv DEF WalkNext
<1> QED BY <1>1, InitWalkInv, PTL DEF WalkSpec

-----------------------------------------------------------------------------
\* The index of verifyDACL stays within the DACL, whatever its length.
THEOREM WalkTypes == WalkSpec => []WalkTypeOK
<1>1. WalkInv => WalkTypeOK
  BY DEF WalkInv
<1> QED BY <1>1, WalkInductive, PTL

\* verifyDACL stops at the first ACE it does not accept.  Its answer is that of
\* VerifyDACL, a statement about the whole DACL in which the order of the ACEs
\* plays no part, for a DACL of any length.
THEOREM WalkIsVerifyDACL == WalkSpec => []WalkDecides
<1>1. WalkInv => WalkDecides
  BY DEF WalkInv
<1> QED BY <1>1, WalkInductive, PTL

\* Each SID that verifyDACL has converted is freed, and once, however it returns.
THEOREM SidsFreed == WalkSpec => []SidsAreFreed
<1>1. WalkInv => SidsAreFreed
  <2> SUFFICES ASSUME WalkInv, walkPc = "done" PROVE live = {}
    BY DEF WalkInv, Deferred, SidsAreFreed
  <2>1. Len(deferred) = 0 /\ 1..0 = {}
    BY DEF WalkInv, Deferred
  <2> QED BY <2>1 DEF WalkInv, Deferred
<1> QED BY <1>1, WalkInductive, PTL

-----------------------------------------------------------------------------
(***************************************************************************)
(* The three together.                                                     *)
(***************************************************************************)

LEMMA ComponentsRun ==
    PersistedSpec => ParserSpec /\ LoopSpec /\ WalkSpec
<1>1. PersistedInit => ParserInit /\ LoopInit /\ WalkInit
  BY DEF PersistedInit, ParserIdle, LoopIdle, WalkIdle
<1>2. [PersistedNext]_persistedVars =>
        [ParserNext]_parserVars /\ [LoopNext]_loopVars /\ [WalkNext]_walkVars
  BY DEF PersistedNext, persistedVars
<1> QED BY <1>1, <1>2, PTL DEF PersistedSpec, ParserSpec, LoopSpec, WalkSpec

\* The types, the tiling of the ACL by the parsed ACEs and what the loop knows
\* of its past: what every verdict above rests on.
THEOREM DescriptorsCorrect == PersistedSpec => []DescriptorsOK
<1>1. ParserTypeOK /\ AcesTileTheAcl /\ LoopTypeOK /\ LoopInvariant /\ WalkTypeOK
        => DescriptorsOK
  BY DEF DescriptorsOK
<1> QED
  BY <1>1, ComponentsRun, ParserTypes, ParsedAcesTile, LoopTypes, LoopKnowsItsPast,
     WalkTypes, PTL
=============================================================================
