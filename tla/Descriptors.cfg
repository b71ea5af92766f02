SPECIFICATION PersistedSpec
CONSTANTS
    serviceA = serviceA
    serviceB = serviceB
    ServiceSids <- MCServiceSids
    Undecided = Undecided
    NoAce = NoAce
    IdleHeader <- MCIdleHeader
    IdleDescriptor <- MCIdleDescriptor
    OffsetRange <- MCOffsetRange
    Headers <- MCHeaders
    Candidates <- MCCandidates
    Inputs <- MCInputs
    WalkInputs <- MCWalkInputs
    Subjects = {"buffer", "classifier", "walk"}
INVARIANTS
    DescriptorsOK
    ReadsInBounds
    VerdictIsExact
    VerdictIsClassify
    ExactGrants
    StricterThanOpen
    WalkDecides
    SidsAreFreed
CHECK_DEADLOCK FALSE
