\* Settings, faults, provisioning and the app in full; one time stamp.
SPECIFICATION Spec
CONSTANTS
    Absent = Absent
    NoEmail = NoEmail
    DefaultEmail = DefaultEmail
    NumberText = NumberText
    On = On
    Off = Off
    Owner = Owner
    Emails = {NoEmail, DefaultEmail, NumberText, Owner}
    Levels <- MCLevels
    Intervals <- MCIntervals
    Stamps = {t1}
    CloudNotify <- OneNode
    SensorReadings <- InRange
    Requests <- MCRequests
INVARIANTS
    TypeOK
    WakesWithWhatItSlept
    CleanWakeSyncs
    WishLostOnlyWithExcuse
    RootPointsIntoHistory
PROPERTIES
    PushesOnlyFetched
    HistoryKept
    FlashFollowsStore
\* a device caught in the hotspot waits for ever once the environment is calm
CHECK_DEADLOCK FALSE
