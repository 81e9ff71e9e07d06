\* The list, the skip list, the dynamic strings, the conversions and
\* the sockets; their constants are in MCLibrary.
SPECIFICATION Spec

CONSTANTS
    Values = {1, 2}
    MaxLength = 4
    Powers = {0, 1, 2}
    MaxLevel = 3
    MaxNodes = 3
    Bits <- MCBits
    MaxPrealloc = 4
    PrintBuffer = 2
    Bytes = {"a", "b", "0"}
    NulByte = "0"
    MaxText = 5
    Width = 8
    QuotingBytes <- MCQuotingBytes
    Separators <- MCSeparators
    NumeralBytes = {"-", "0", "1", "2", "5", "7", "8", "x"}
    MaxConverted = 4
    Lengths <- MCLengths
    Descriptors = {3, 4}
    MaxAddresses = 2
    Count = 4

CHECK_DEADLOCK FALSE

INVARIANTS
    ListIntact
    SkipListIntact
    SdsIntact
    TextInverted
    NumbersRight
    SocketsRight
