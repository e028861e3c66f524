\* Minutes of two seconds, a synchronisation due every three: two more fall
\* due in one wake, and its eight seconds cross four minutes.
SPECIFICATION Spec
CONSTANTS
    BootTime = 13
    YearLength = 10
    MinuteLength = 2
    SyncInterval = 3
    MaxDepth = 3
    MaxTime = 8
INVARIANTS
    TypeOK
    ReturnsWithClockSet
    EpochOnlyAcrossSync
PROPERTIES
    SyncsSpaced
\* a call that returned, or a reset, ends the wake
CHECK_DEADLOCK FALSE
