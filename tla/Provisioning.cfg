SPECIFICATION Spec
CONSTANTS
    Calls = {c1, c2, c3}
    Requests <- AllRequestsMC
    Preexisting <- AllExisting
    Forms <- FaithfulForms
    DefaultSD <- MCDefaultSD
    Faults = FALSE
    Exclusive <- ChangesExclusive
    Tokens <- MCTokens
    ServiceSids <- MCServiceSids
    serviceA = serviceA
    serviceB = serviceB
    Origin = Origin
    NoKey = NoKey
    NoRequest = NoRequest
SYMMETRY CallSymmetry
INVARIANTS
    ProvisioningSucceeds
CHECK_DEADLOCK FALSE
