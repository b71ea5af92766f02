SPECIFICATION Spec
CONSTANTS
    Calls = {c1, c2, c3}
    Requests <- AdminRequests
    Preexisting <- SignerKeyOnly
    Forms <- UnfaithfulForms
    DefaultSD <- MCDefaultSD
    Faults = TRUE
    Exclusive <- ChangesExclusive
    Tokens <- MCTokens
    ServiceSids <- MCServiceSids
    serviceA = serviceA
    serviceB = serviceB
    Origin = Origin
    NoKey = NoKey
    NoRequest = NoRequest
SYMMETRY CallSymmetry
PROPERTIES
    ConfirmedOnReturn
    OrphanReported
CHECK_DEADLOCK FALSE
