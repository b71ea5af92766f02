SPECIFICATION PersistedSpec
CONSTANTS
    serviceA = serviceA
    serviceB = serviceB
    ServiceSids <- MCServiceSids
    Undecided = Undecided
    NoAce = NoAce
    IdleHeader <- MCIdleHeader
    IdleDescriptor <- MCIdleDescriptor
    OffsetRange <- MCOffsetRange
    Headers <- TrailingHeaders
    Candidates <- TrailingCandidates
    Inputs <- EmptyDacl
    WalkInputs <- EmptyDacl
    Subjects = {"buffer"}
INVARIANTS
    RecognizedIsExact
CHECK_DEADLOCK FALSE
