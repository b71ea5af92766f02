-------------------------- MODULE SignatureEncoding -------------------------
(***************************************************************************)
(* The byte formats at the border to NCrypt: the signature that Sign turns *)
(* from IEEE P1363 into DER (p1363ToASN1, marshalECDSASig) and the public  *)
(* key it reads from an ECCPUBLICBLOB (parseECCPublicBlob).  A byte is a   *)
(* digit to the base Byte, so that small instances reach the long form of  *)
(* a DER length.                                                           *)
(***************************************************************************)
EXTENDS Numerals, SequencesExt

CONSTANTS
    Byte,            \* the values of a byte: 256
    Width,           \* bytes of a P-256 coordinate: 32
    SequenceTag, IntegerTag,
    Outputs,         \* what NCryptSignHash may return
    Blobs,           \* what NCryptExportKey may return
    Curve            \* points of the curve (external)

Bytes == DigitsTo(Byte)

\* From here on a first byte stands for a negative number, and a length takes
\* the long form.
High == Byte \div 2

\* "header" says that the eight bytes before the body are there.
BlobFields == [header : BOOLEAN, magic : BOOLEAN, cbKey : Bytes, body : Seq(Bytes)]

ASSUME EncodingAssumption ==
    /\ Byte \in Nat /\ Byte > 3 /\ Width \in Nat /\ Width > 0
    /\ 2 * Width + 6 < Byte
    /\ {SequenceTag, IntegerTag} \subseteq Bytes
    /\ Outputs \subseteq Seq(Bytes)
    /\ Blobs \subseteq BlobFields

Refused == <<>>

VARIABLES
    kind,        \* whether a signature or a public key is read
    input,       \* P1363 bytes, or a blob
    decided,
    result       \* DER bytes, or a point; Refused for an error

encodingVars == <<kind, input, decided, result>>

\* The number that big-endian bytes stand for.
Number(bytes) == NumberOf(Byte)[bytes]

\* A coordinate of a point is a number of Width bytes.
ASSUME CurveAssumption ==
    /\ Curve \subseteq Nat \X Nat
    /\ \A point \in Curve : \A i \in {1, 2} :
          \E bytes \in [1..Width -> Bytes] : point[i] = Number(bytes)

\* big.Int.Bytes: without leading zeros, and nothing for zero.
Trimmed(bytes) ==
    LET nonzero == {i \in DOMAIN bytes : bytes[i] # 0}
    IN  IF nonzero = {} THEN <<>>
        ELSE SubSeq(bytes, CHOOSE i \in nonzero : \A j \in nonzero : i <= j, Len(bytes))

\* A positive INTEGER does not start with the sign bit set.
IntegerBytes(bytes) ==
    LET t == Trimmed(bytes)
    IN  IF t # <<>> /\ t[1] >= High THEN <<0>> \o t ELSE t

Integer(bytes) ==
    <<IntegerTag, Len(IntegerBytes(bytes)) % Byte>> \o IntegerBytes(bytes)

\* Mutant: one length too many is written in the short form.
HeaderOffByOne(n) ==
    IF n <= High THEN <<SequenceTag, n % Byte>>
    ELSE <<SequenceTag, High + 1, n % Byte>>

\* Of the SEQUENCE; the long form has one length byte.
Header(n) ==
    IF n < High THEN <<SequenceTag, n % Byte>>
    ELSE <<SequenceTag, High + 1, n % Byte>>

marshalECDSASig(r, s) ==
    IF Trimmed(r) = <<>> \/ Trimmed(s) = <<>> THEN Refused
    ELSE Header(Len(Integer(r)) + Len(Integer(s))) \o Integer(r) \o Integer(s)

First(sig) == SubSeq(sig, 1, Width)
Second(sig) == SubSeq(sig, Width + 1, Len(sig))

p1363ToASN1(sig) ==
    IF Len(sig) # 2 * Width THEN Refused ELSE marshalECDSASig(First(sig), Second(sig))

BlobHeld(blob) == Len(blob.body) >= 2 * blob.cbKey

\* Mutant: the first coordinate is read twice.
FirstCoordinateTwice(blob) ==
    <<Number(SubSeq(blob.body, 1, Width)), Number(SubSeq(blob.body, 1, Width))>>

\* The body follows the eight bytes of magic and size.
Point(blob) ==
    <<Number(SubSeq(blob.body, 1, Width)),
      Number(SubSeq(blob.body, Width + 1, 2 * Width))>>

parseECCPublicBlob(blob) ==
    IF /\ blob.header /\ blob.magic
       /\ blob.cbKey = Width
       /\ BlobHeld(blob)
       /\ Point(blob) \in Curve
    THEN Point(blob) ELSE Refused

-----------------------------------------------------------------------------
EncodingTypeOK ==
    /\ kind = "signature" => input \in Outputs /\ result \in Seq(Bytes)
    /\ kind = "key" => input \in Blobs /\ result \in Curve \cup {Refused}
    /\ decided \in BOOLEAN

EncodingInit ==
    /\ \/ kind = "signature" /\ input \in Outputs
       \/ kind = "key" /\ input \in Blobs
    /\ decided = FALSE
    /\ result = Refused

ConvertSignature ==
    /\ kind = "signature"
    /\ ~decided
    /\ result' = p1363ToASN1(input)
    /\ decided' = TRUE
    /\ UNCHANGED <<kind, input>>

ReadPublicKey ==
    /\ kind = "key"
    /\ ~decided
    /\ result' = parseECCPublicBlob(input)
    /\ decided' = TRUE
    /\ UNCHANGED <<kind, input>>

EncodingNext == ConvertSignature \/ ReadPublicKey

EncodingSpec == EncodingInit /\ [][EncodingNext]_encodingVars

-----------------------------------------------------------------------------
(***************************************************************************)
(* What a strict DER reader takes: the INTEGER n at a position, minimal    *)
(* and not negative, and where it ends.                                    *)
(***************************************************************************)
EndOf(der, at) == at + 2 + der[at + 1]

DerInteger(der, at, n) ==
    /\ at + 2 <= Len(der)
    /\ der[at] = IntegerTag
    /\ der[at + 1] \in 1..(High - 1)
    /\ EndOf(der, at) <= Len(der) + 1
    /\ der[at + 2] < High
    /\ der[at + 2] = 0 /\ der[at + 1] > 1 => der[at + 3] >= High
    /\ Number(SubSeq(der, at + 2, EndOf(der, at) - 1)) = n

\* A SEQUENCE of two such INTEGERs and nothing after it, with its length in the
\* shortest form.
DerSignature(der, r, s) ==
    /\ Len(der) > 3
    /\ der[1] = SequenceTag
    /\ LET body == IF der[2] < High THEN 3 ELSE 4
       IN  /\ \/ der[2] < High /\ der[2] = Len(der) - 2
              \/ der[2] = High + 1 /\ der[3] >= High /\ der[3] = Len(der) - 3
           /\ DerInteger(der, body, r)
           /\ DerInteger(der, EndOf(der, body), s)
           /\ EndOf(der, EndOf(der, body)) = Len(der) + 1

\* Sign returns what a strict DER reader reads as the two numbers the KSP
\* returned, whichever leading zeros, sign bits and lengths they have, and an
\* error only for zero numbers and a wrong length.
SignaturesAreStrictDer ==
    (kind = "signature" /\ decided) =>
        LET r == Number(SubSeq(input, 1, Width))
            s == Number(SubSeq(input, Width + 1, Len(input)))
        IN  IF Len(input) # 2 * Width \/ r = 0 \/ s = 0 THEN result = Refused
            ELSE DerSignature(result, r, s)

\* Big-endian bytes of n, of the width of a coordinate.
Coordinate(n) == LastDigitsOf(Byte)[Width][n]

\* The public key is the point that the blob was written for, and every blob
\* of a point on the curve is read.
KeysAreRead ==
    (kind = "key" /\ decided) =>
        \A point \in Curve :
            result = point <=>
                /\ input.header /\ input.magic /\ input.cbKey = Width
                /\ IsPrefix(Coordinate(point[1]) \o Coordinate(point[2]), input.body)
=============================================================================
