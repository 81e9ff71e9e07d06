\* Five timers and one deletion: the heap is no min heap any more.
SPECIFICATION Spec

CONSTANTS
    MsPerSec = 2
    UsPerMs = 2
    Delays = {1, 2, 3}
    MaxNodes = 5
    MaxTimers = 5
    MaxNow = 0

CHECK_DEADLOCK FALSE

INVARIANTS
    MinHeap
