SPECIFICATION Spec
CONSTANTS
    Calls = {c1, c2}
    Requests <- ApplyOnly
    Preexisting <- SignerKeyOnly
    Forms <- FaithfulForms
    DefaultSD <- MCDefaultSD
    Faults = FALSE
    Exclusive <- DocumentedExclusive
    Tokens <- MCTokens
    ServiceSids <- MCServiceSids
    serviceA = serviceA
    serviceB = serviceB
    Origin = Origin
    NoKey = NoKey
    NoRequest = NoRequest
PROPERTIES
    TightenOnly
CHECK_DEADLOCK FALSE
