-------------------------- MODULE DescriptorParser --------------------------
(***************************************************************************)
(* parseSelfRelativeDACL and parseSID on a buffer of any content: the      *)
(* bounds checks, in the order the code makes them, and every read between *)
(* them.  The value of each field is picked when it is read; no byte of    *)
(* the DACL is read as part of two fields.                                 *)
(***************************************************************************)
EXTENDS SecurityDescriptor

CONSTANTS
    Headers,       \* headers of the descriptor and of its ACL
    Candidates,    \* what an ACE of the buffer may look like
    NoAce,         \* no ACE has been read yet
    OffsetRange    \* 2^32: the values of a 32-bit offset

sdHeaderSize == 20
aclHeaderSize == 8
aceFixedSize == 8
sidMaxSubAuth == 15
AclRevisions == {2, 4}

HeaderFields ==
    [length : Nat, revision : Nat, selfRelative : BOOLEAN, present : BOOLEAN,
     protected : BOOLEAN, daclOffset : 0..(OffsetRange - 1),
     aclRevision : Nat, aclSize : Nat, aceCount : Nat]

\* "size", "sidRevision" and "subAuthorities" are fields of the buffer; "ace" is
\* what the remaining bytes say.
AceFields == [size : Nat, sidRevision : Nat, subAuthorities : Nat, ace : ACEs]

ASSUME ParserAssumption ==
    /\ OffsetRange \in Nat
    /\ Headers \subseteq HeaderFields
    /\ Candidates \subseteq AceFields

VARIABLES
    buffer,     \* the buffer's headers
    stage,      \* what is read next, or the outcome
    off,        \* where in the ACL the next ACE starts
    aces,       \* the ACEs parsed, each with where it starts
    reading,    \* the ACE being read
    reach       \* end of the part of the buffer that has been read

parserVars == <<buffer, stage, off, aces, reading, reach>>

Max2(a, b) == IF a >= b THEN a ELSE b

\* Bytes from the start of the DACL to n have been read.
ReadTo(n) == reach' = Max2(reach, buffer.daclOffset + n)

SidSize(c) == 8 + 4 * c.subAuthorities

ParserTypeOK ==
    /\ buffer \in HeaderFields
    /\ stage \in {"header", "acl", "ace", "sid", "accepted", "rejected"}
    /\ off \in Nat
    /\ aces \in Seq([at : Nat, fields : AceFields])
    /\ Len(aces) <= buffer.aceCount
    /\ reading \in AceFields \cup {NoAce}
    /\ reach \in Nat

ParserInit ==
    /\ buffer \in Headers
    /\ stage = "header"
    /\ off = aclHeaderSize
    /\ aces = <<>>
    /\ reading = NoAce
    /\ reach = 0

-----------------------------------------------------------------------------
HeaderAccepted ==
    /\ buffer.length >= sdHeaderSize
    /\ buffer.revision = 1
    /\ buffer.selfRelative /\ buffer.present /\ buffer.protected

\* Mutant: the sum is taken in 32 bits.
OffsetAcceptedIn32Bits ==
    /\ buffer.daclOffset >= sdHeaderSize
    /\ (buffer.daclOffset + aclHeaderSize) % OffsetRange <= buffer.length

\* The sum is taken in 64 bits.  An offset of zero is a NULL DACL.
OffsetAccepted ==
    /\ buffer.daclOffset >= sdHeaderSize
    /\ buffer.daclOffset + aclHeaderSize <= buffer.length

ReadHeader ==
    /\ stage = "header"
    /\ reach' = IF buffer.length < sdHeaderSize THEN 0 ELSE sdHeaderSize
    /\ stage' = IF HeaderAccepted /\ OffsetAccepted THEN "acl" ELSE "rejected"
    /\ UNCHANGED <<buffer, off, aces, reading>>

AclAccepted ==
    /\ buffer.aclRevision \in AclRevisions
    /\ buffer.aclSize >= aclHeaderSize
    /\ buffer.aclSize <= buffer.length - buffer.daclOffset

ReadAcl ==
    /\ stage = "acl"
    /\ ReadTo(6)
    /\ stage' = IF AclAccepted THEN "ace" ELSE "rejected"
    /\ UNCHANGED <<buffer, off, aces, reading>>

AceAccepted(c) ==
    /\ c.size >= aceFixedSize
    /\ c.size % 4 = 0
    /\ off + c.size <= buffer.aclSize
    /\ c.ace.type = "allow"

\* Mutant: one more ACE is read than the ACL counts.
MoreAcesToTheCount == Len(aces) <= buffer.aceCount

MoreAces == Len(aces) < buffer.aceCount

ReadAce ==
    /\ stage = "ace"
    /\ MoreAces
    /\ \/ /\ off + aceFixedSize > buffer.aclSize
          /\ stage' = "rejected"
          /\ UNCHANGED <<reading, reach>>
       \/ /\ off + aceFixedSize <= buffer.aclSize
          /\ ReadTo(off + aceFixedSize)
          /\ reading' \in Candidates
          /\ stage' = IF AceAccepted(reading') THEN "sid" ELSE "rejected"
    /\ UNCHANGED <<buffer, off, aces>>

\* What is left of the ACE for its SID.
SidSpace == reading.size - aceFixedSize

SidAccepted ==
    /\ reading.sidRevision = 1
    /\ reading.subAuthorities <= sidMaxSubAuth
    /\ SidSpace >= SidSize(reading)

\* parseSID refuses the SID.
RejectSid ==
    /\ stage = "sid"
    /\ ~(SidSpace >= 8 /\ SidAccepted)
    /\ stage' = "rejected"
    /\ IF SidSpace >= 8 THEN ReadTo(off + aceFixedSize + 2) ELSE UNCHANGED reach
    /\ UNCHANGED <<buffer, off, aces, reading>>

\* Mutant: a SID may leave a part of its ACE over.
FillsAtMost == aceFixedSize + SidSize(reading) <= reading.size

FillsAce == aceFixedSize + SidSize(reading) = reading.size

\* parseSID has returned; the ACE has to be as long as its SID says.
TakeAce ==
    /\ stage = "sid"
    /\ SidSpace >= 8 /\ SidAccepted
    /\ ReadTo(off + aceFixedSize + SidSize(reading))
    /\ \/ /\ FillsAce
          /\ aces' = Append(aces, [at |-> off, fields |-> reading])
          /\ off' = off + reading.size
          /\ stage' = "ace"
       \/ ~FillsAce /\ stage' = "rejected" /\ UNCHANGED <<aces, off>>
    /\ UNCHANGED <<buffer, reading>>

Finish ==
    /\ stage = "ace"
    /\ ~MoreAces
    /\ stage' = "accepted"
    /\ UNCHANGED <<buffer, off, aces, reading, reach>>

ParserNext ==
    ReadHeader \/ ReadAcl \/ ReadAce \/ RejectSid \/ TakeAce \/ Finish

ParserSpec == ParserInit /\ [][ParserNext]_parserVars

-----------------------------------------------------------------------------
Placed == HeaderAccepted /\ OffsetAccepted /\ AclAccepted

\* Whatever the fields say, nothing outside the buffer is read, and nothing
\* outside the ACL once its extent is known ("rejects any malformed or
\* out-of-bounds structure").
ReadsInBounds ==
    /\ reach <= buffer.length
    /\ Placed => reach <= buffer.daclOffset + buffer.aclSize

\* A well-formed ACE of a given place: an allow ACE that ends with its SID and
\* within the ACL.
WellFormed(at, c) ==
    /\ c.ace.type = "allow"
    /\ c.sidRevision = 1
    /\ c.subAuthorities <= 15
    /\ c.size = 16 + 4 * c.subAuthorities
    /\ at + c.size <= buffer.aclSize

\* The ACEs parsed follow each other without gap or overlap from the end of the
\* ACL header on, so that their number is bounded by the size of the ACL and
\* not by the count that the buffer claims.
AcesTileTheAcl ==
    /\ \A k \in DOMAIN aces :
          aces[k].at = IF k = 1 THEN 8 ELSE aces[k - 1].at + aces[k - 1].fields.size
    /\ \A k \in DOMAIN aces : aces[k].at + aces[k].fields.size <= buffer.aclSize
    /\ Placed => 8 + 16 * Len(aces) <= buffer.aclSize

\* The checks add up to what makes a buffer well formed, and no well-formed
\* buffer is refused.
VerdictIsExact ==
    /\ stage = "accepted" =>
          /\ Placed
          /\ Len(aces) = buffer.aceCount
          /\ \A k \in DOMAIN aces : WellFormed(aces[k].at, aces[k].fields)
    /\ stage = "rejected" =>
          \/ ~Placed
          \/ off + 8 > buffer.aclSize
          \/ ~WellFormed(off, reading)

-----------------------------------------------------------------------------
\* The descriptor handed to the classifier.
ParsedDescriptor == Protected([k \in DOMAIN aces |-> aces[k].fields.ace])

\* A descriptor is recognized "only if its DACL is byte-for-byte one of the
\* forms this package provisions": the ACL holds its ACEs and nothing else.
RecognizedIsExact ==
    (stage = "accepted" /\ Classify(ParsedDescriptor) # Unknown) => off = buffer.aclSize
=============================================================================
