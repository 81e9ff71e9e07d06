\* Every request cut into reads at every place, two requests, the second
\* perhaps early, and replies that are longer than the buffer.
SPECIFICATION Spec

CONSTANTS
    Requests <- MCRequests
    Early <- MCEarly
    Malformed <- MCMalformed
    Values <- MCValues
    BufSize = 3
    InlineMax = 19
    MaxCount = 3
    MaxBulk = 2
    BigArg = 2
    LongBits = 16
    Room = 2
    MaxRequests = 2
    MaxReplies = 4

CHECK_DEADLOCK FALSE

INVARIANTS
    TypeOK
    ExecutedAsSent
    RepliesInOrder
    NothingLeftBehind

PROPERTIES
    RequestsAnswered
    ClosedReaped
