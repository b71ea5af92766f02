--------------------------- MODULE ClassifierLoop ---------------------------
(***************************************************************************)
(* The loop of classifyDescriptorSID, one step per ACE, on any descriptor. *)
(* SecurityDescriptor states what the classifier decides; this module      *)
(* states how it does so, and that the two agree.                          *)
(***************************************************************************)
EXTENDS SecurityDescriptor

CONSTANTS Inputs,        \* the descriptors classified
          Undecided      \* no verdict yet

ASSUME InputsAssumption ==
    Inputs \subseteq Descriptors /\ Undecided \notin Policies \cup {Unknown}

VARIABLES sd, i, seen, serviceSid, verdict

loopVars == <<sd, i, seen, serviceSid, verdict>>

LoopTypeOK ==
    /\ sd \in Descriptors
    /\ i \in 1..(Len(sd.aces) + 1)
    /\ seen \subseteq Sids
    /\ serviceSid \in ServiceSids \cup {NoSid}
    /\ verdict \in Policies \cup {Unknown, Undecided}

LoopInit ==
    /\ sd \in Inputs
    /\ i = 1
    /\ seen = {}
    /\ serviceSid = NoSid
    /\ verdict = IF Parsed(sd) THEN Undecided ELSE Unknown

\* Mutant: any mask that lets LOCAL SERVICE read is accepted.
AcceptedReaders(ace) ==
    \/ ace.sid \in {SYSTEM, Administrators} /\ ace.mask \in AdministrativeMasks
    \/ ace.sid = LocalService /\ "GR" \in ace.mask
    \/ ace.sid \in ServiceSids /\ serviceSid = NoSid /\ ace.mask \in ServiceMasks

\* The switch on the trustee of an ACE.
Accepted(ace) ==
    \/ ace.sid \in {SYSTEM, Administrators} /\ ace.mask \in AdministrativeMasks
    \/ ace.sid = LocalService /\ ace.mask \in LocalServiceMasks
    \/ ace.sid \in ServiceSids /\ serviceSid = NoSid /\ ace.mask \in ServiceMasks

Examinable == verdict = Undecided /\ i <= Len(sd.aces)

Passes(ace) == ace.flags = "none" /\ ace.sid \notin seen /\ Accepted(ace)

AcceptAce ==
    /\ Examinable
    /\ Passes(sd.aces[i])
    /\ seen' = seen \cup {sd.aces[i].sid}
    /\ serviceSid' = IF sd.aces[i].sid \in ServiceSids THEN sd.aces[i].sid
                     ELSE serviceSid
    /\ i' = i + 1
    /\ UNCHANGED <<sd, verdict>>

RejectAce ==
    /\ Examinable
    /\ ~Passes(sd.aces[i])
    /\ verdict' = Unknown
    /\ UNCHANGED <<sd, i, seen, serviceSid>>

\* Mutant: SYSTEM and Administrators are not asked for.
DecisionByCount ==
    IF LocalService \in seen /\ serviceSid # NoSid THEN Unknown
    ELSE IF Len(sd.aces) = 2 THEN PrivilegedOnly
    ELSE IF Len(sd.aces) = 3 /\ LocalService \in seen THEN ServiceSigner
    ELSE IF Len(sd.aces) = 3 /\ serviceSid # NoSid THEN ServicePolicy(serviceSid)
    ELSE Unknown

\* After the last ACE the number of ACEs tells the states apart.
Decision ==
    IF \/ ~({SYSTEM, Administrators} \subseteq seen)
       \/ LocalService \in seen /\ serviceSid # NoSid THEN Unknown
    ELSE IF Len(sd.aces) = 2 THEN PrivilegedOnly
    ELSE IF Len(sd.aces) = 3 /\ LocalService \in seen THEN ServiceSigner
    ELSE IF Len(sd.aces) = 3 /\ serviceSid # NoSid THEN ServicePolicy(serviceSid)
    ELSE Unknown

Decide ==
    /\ verdict = Undecided
    /\ i > Len(sd.aces)
    /\ verdict' = Decision
    /\ UNCHANGED <<sd, i, seen, serviceSid>>

LoopNext == AcceptAce \/ RejectAce \/ Decide

LoopSpec == LoopInit /\ [][LoopNext]_loopVars

-----------------------------------------------------------------------------
\* What the loop decides does not depend on the order of the ACEs and is what
\* Classify says (the checks inside the loop, the two after it and the switch
\* on the number of ACEs add up to an exact match).
VerdictIsClassify == verdict # Undecided => verdict = Classify(sd)

\* A recognized descriptor allows every token exactly what the requested form
\* of its policy allows: no accepted mask or trustee adds or takes anything
\* (the allow-listed KSP masks).
ExactGrants ==
    verdict \in Policies =>
        \A token \in SUBSET Sids :
            Granted(token, sd) = Granted(token, Requested(verdict))

\* What OpenWithPolicy accepts as service-signer, Open accepts too ("It is
\* stricter than Open", policy_windows.go).
StricterThanOpen == verdict = ServiceSigner => VerifyDACL(sd)

\* While the loop runs, the ACEs passed so far are distinct and recognized.
LoopInvariant ==
    verdict = Undecided =>
        /\ Parsed(sd)
        /\ seen = {sd.aces[k].sid : k \in 1..(i - 1)}
        /\ \A k \in 1..(i - 1) :
              sd.aces[k].flags = "none" /\ MaskRecognized(sd.aces[k])
        /\ \A j, k \in 1..(i - 1) : sd.aces[j].sid = sd.aces[k].sid => j = k
        /\ serviceSid # NoSid => serviceSid \in seen
        /\ seen \cap ServiceSids \subseteq {serviceSid}
=============================================================================
