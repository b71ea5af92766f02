SPECIFICATION Spec
CONSTANTS
    Calls = {c1, c2}
    Requests <- AllRequestsMC
    Preexisting <- AllExisting
    Forms <- EitherForms
    DefaultSD <- MCDefaultSD
    Faults = TRUE
    Exclusive <- ChangesExclusive
    Tokens <- MCTokens
    ServiceSids <- MCServiceSids
    serviceA = serviceA
    serviceB = serviceB
    Origin = Origin
    NoKey = NoKey
    NoRequest = NoRequest
SYMMETRY CallSymmetry
INVARIANTS
    SignerKeepsPolicy
PROPERTIES
    TightenOnly
    ImplementsLifecycle
CHECK_DEADLOCK FALSE
