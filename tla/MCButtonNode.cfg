\* Turns below, at and above the interval; a counter that wraps around.
SPECIFICATION Spec
CONSTANTS
    Absent = Absent
    Requests <- MCRequests
    Stamps = {s1, s2}
    Laps = {1, 3, 5}
    BurstModeInterval = 3
    LongMax = 8
INVARIANTS
    TypeOK
    DurableHistory
PROPERTIES
    BlankIsSilent
    HeldButtonErases
    CatchesUp
    KeepsMeasuring
