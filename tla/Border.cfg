SPECIFICATION FairBorderSpec
CONSTANTS
    Protocols = {"descriptor", "fixed", "module", "directory"}
    Lengths = {1, 64, 259, 260, 261, 519, 520, 521, 32767, 32768, 33279, 33280, 40000}
    Contents = {"x", "y"}
    Changes = 2
    MaxPath = 260
    GrowthLimit = 32768
    NothingRead = NothingRead
    Byte <- MCByte
    Width <- MCWidth
    SequenceTag <- MCSequenceTag
    IntegerTag <- MCIntegerTag
    Outputs <- MCOutputs
    Blobs <- MCBlobs
    Curve <- MCCurve
    Names <- MCNames
    Supported <- MCSupported
    Upcase <- MCUpcase
    Letter <- MCLetter
    MaxNameLength <- MCMaxNameLength
    Base <- MCBase
    Limit <- MCLimit
    MaxDigits <- MCMaxDigits
    Count <- MCCount
    Digest <- MCDigest
    Texts <- MCTexts
    IdleProtocol = "fixed"
    IdleValue <- MCIdleValue
    IdleOutput <- MCIdleOutput
INVARIANTS
    BorderOK
    ReturnsOneValue
    StaysInBuffer
    SignaturesAreStrictDer
    KeysAreRead
    OpensForItsServiceOnly
    RecognizesServiceSids
PROPERTIES
    ReadEnds
CHECK_DEADLOCK FALSE
