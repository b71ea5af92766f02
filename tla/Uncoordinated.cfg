SPECIFICATION FairSpec
CONSTANTS
    Calls = {c1, c2}
    Requests <- AllRequestsMC
    Preexisting <- AllExisting
    Forms <- UnfaithfulForms
    DefaultSD <- MCDefaultSD
    Faults = TRUE
    Exclusive <- NothingExclusive
    Tokens <- MCTokens
    ServiceSids <- MCServiceSids
    serviceA = serviceA
    serviceB = serviceB
    Origin = Origin
    NoKey = NoKey
    NoRequest = NoRequest
INVARIANTS
    CoreInv
    HandleDiscipline
    NeverDefaultDacl
PROPERTIES
    KeysSurviveFailedCalls
    MutationNeedsPrivilege
    CallsReturn
CHECK_DEADLOCK FALSE
