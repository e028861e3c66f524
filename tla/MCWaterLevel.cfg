\* Both nodes; a clock that wraps around after ten counts.
SPECIFICATION Spec
CONSTANTS
    Distances <- MCDistances
    Interval = 3
    Word = 10
    Durations = {1, 2}
INVARIANTS
    TypeOK
    IntegratedNeverReleases
PROPERTIES
    SilentSensorMovesNothing
    SwitchesSpanTheBand
    StopsOnlyAtTheEnd
    FullTankReleases
