------------------------- MODULE PersistedDescriptor -------------------------
(***************************************************************************)
(* The three things the package does with a persisted descriptor, each on  *)
(* inputs of its own: parsing the bytes, classifying the parsed ACEs, and  *)
(* the structural walk of the original API.                                *)
(***************************************************************************)
EXTENDS DescriptorParser, ClassifierLoop, DaclWalk

CONSTANTS Subjects,        \* which of the three are run
          IdleHeader, IdleDescriptor

VARIABLE subject

-----------------------------------------------------------------------------
\* The two that are not run stay at the start with an input that is fixed.
ParserIdle == buffer = IdleHeader /\ ParserInit
LoopIdle == sd = IdleDescriptor /\ LoopInit
WalkIdle == persisted = IdleDescriptor /\ WalkInit

PersistedInit ==
    /\ subject \in Subjects
    /\ \/ subject = "buffer" /\ LoopIdle /\ WalkIdle /\ ParserInit
       \/ subject = "classifier" /\ ParserIdle /\ WalkIdle /\ LoopInit
       \/ subject = "walk" /\ ParserIdle /\ LoopIdle /\ WalkInit

PersistedNext ==
    /\ \/ subject = "buffer" /\ ParserNext /\ UNCHANGED <<loopVars, walkVars>>
       \/ subject = "classifier" /\ LoopNext /\ UNCHANGED <<parserVars, walkVars>>
       \/ subject = "walk" /\ WalkNext /\ UNCHANGED <<parserVars, loopVars>>
    /\ UNCHANGED subject

persistedVars == <<subject, parserVars, loopVars, walkVars>>

PersistedSpec == PersistedInit /\ [][PersistedNext]_persistedVars

\* What the other properties rest on: the types, that the parsed ACEs follow
\* each other without gap or overlap, and what the classifier's loop knows of
\* the ACEs it has passed.
DescriptorsOK ==
    /\ ParserTypeOK /\ AcesTileTheAcl
    /\ LoopTypeOK /\ LoopInvariant
    /\ WalkTypeOK
=============================================================================
