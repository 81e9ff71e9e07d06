\* Two requests sent without waiting: the second is lost.
SPECIFICATION Spec

CONSTANTS
    Requests <- MCPiped
    Early <- MCPiped
    Malformed <- MCMalformed
    Values <- MCValues
    BufSize = 3
    InlineMax = 19
    MaxCount = 3
    MaxBulk = 2
    BigArg = 2
    LongBits = 16
    Room = 2
    MaxRequests = 2
    MaxReplies = 4

CHECK_DEADLOCK FALSE

INVARIANTS
    PipelineKept
