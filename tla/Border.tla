------------------------------- MODULE Border -------------------------------
(***************************************************************************)
(* What the package converts at its border to Windows, each on inputs of   *)
(* its own: values read into buffers, signatures and public keys, and      *)
(* service names.                                                          *)
(***************************************************************************)
EXTENDS NativeReads, SignatureEncoding, ServiceSid

CONSTANTS IdleProtocol, IdleValue, IdleOutput

ASSUME IdleAssumption ==
    IdleProtocol \in Protocols /\ IdleValue \in Values /\ IdleOutput \in Outputs

VARIABLE subject

borderVars == <<subject, readVars, encodingVars, sidVars>>

-----------------------------------------------------------------------------
\* The two that are not run: a read that failed, a signature that is not yet
\* converted and a policy that was refused.
ReaderIdle ==
    /\ protocol = IdleProtocol /\ value = IdleValue
    /\ changes = 0 /\ pc = "done" /\ buffer = 0 /\ reported = 0
    /\ held = NothingRead /\ outcome = NothingRead

EncodingIdle ==
    kind = "signature" /\ input = IdleOutput /\ decided = FALSE /\ result = Refused

SidIdle ==
    /\ owner = <<>> /\ policy = ZeroPolicy /\ phase = "refused"
    /\ text = <<>> /\ persisted = <<>>

BorderInit ==
    \/ subject = "reader" /\ EncodingIdle /\ SidIdle /\ ReadInit
    \/ subject = "encoding" /\ ReaderIdle /\ SidIdle /\ EncodingInit
    \/ subject = "service" /\ ReaderIdle /\ EncodingIdle /\ SidInit

BorderNext ==
    /\ \/ subject = "reader" /\ ReadNext /\ UNCHANGED <<encodingVars, sidVars>>
       \/ subject = "encoding" /\ EncodingNext /\ UNCHANGED <<readVars, sidVars>>
       \/ subject = "service" /\ SidNext /\ UNCHANGED <<readVars, encodingVars>>
    /\ UNCHANGED subject

BorderSpec == BorderInit /\ [][BorderNext]_borderVars

FairBorderSpec == BorderSpec /\ WF_readVars(ReadStep)

\* The types, by which the buffer of moduleFileName stays below twice its
\* limit, a point is one of the curve and a policy is valid or zero; and a
\* module path is given up only if it is too long for the largest buffer.
BorderOK == ReadTypeOK /\ LongPathsAreRead /\ EncodingTypeOK /\ SidTypeOK
=============================================================================
