SPECIFICATION Spec
CONSTANTS
    Calls = {c1}
    Requests <- MigrateOnly
    Preexisting <- SignerKeyOnly
    Forms <- FaithfulForms
    DefaultSD <- MCDefaultSD
    Faults = FALSE
    Exclusive <- ChangesExclusive
    Tokens <- MCTokensNetwork
    ServiceSids <- MCServiceSids
    serviceA = serviceA
    serviceB = serviceB
    Origin = Origin
    NoKey = NoKey
    NoRequest = NoRequest
PROPERTIES
    TightenOnly
CHECK_DEADLOCK FALSE
