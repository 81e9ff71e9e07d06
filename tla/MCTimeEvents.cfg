\* Four timers, delays below and above a second (four microseconds), a heap of three.
SPECIFICATION Spec

CONSTANTS
    MsPerSec = 2
    UsPerMs = 2
    Delays <- MCDelays
    MaxNodes = 3
    MaxTimers = 4
    MaxNow = 4

CHECK_DEADLOCK FALSE

INVARIANTS
    TypeOK
    NoTimerLost
    DueOrder

PROPERTIES
    SleepBounded
    RunEnds
