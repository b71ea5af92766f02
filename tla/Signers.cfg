SPECIFICATION MCSpec
CONSTANTS
    Signers = {s1, s2}
    Goroutines = {g1, g2}
    Handles = {h1, h2, h3, h4}
    NoHandle = NoHandle
    NoSigner = NoSigner
    Operations = 3
    Disciplines <- MCDisciplines
    Shared = Shared
SYMMETRY MCSymmetry
INVARIANTS
    SignerTypeOK
    HandlesAreLive
    SignsWithOwnKey
    ClosedStaysClosed
    EndsReleased
CHECK_DEADLOCK FALSE
