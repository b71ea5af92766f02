SPECIFICATION Spec
CONSTANTS
    Calls = {c1}
    Requests <- ApplyPolicyOnly
    Preexisting <- StrongKeys
    Forms <- FaithfulForms
    DefaultSD <- MCDefaultSD
    Faults = FALSE
    Exclusive <- ChangesExclusive
    Tokens <- MCTokens
    ServiceSids <- MCServiceSids
    serviceA = serviceA
    serviceB = serviceB
    Origin = Origin
    NoKey = NoKey
    NoRequest = NoRequest
PROPERTIES
    ApplyAsDocumented
CHECK_DEADLOCK FALSE
