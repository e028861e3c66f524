\* The reading interval in use after a failed read of it.
SPECIFICATION Spec
CONSTANTS
    Absent = Absent
    NoEmail = NoEmail
    DefaultEmail = DefaultEmail
    NumberText = NumberText
    On = On
    Off = Off
    Owner = Owner
    Emails = {NoEmail, DefaultEmail, NumberText, Owner}
    Levels <- MCLevels
    Intervals <- MCIntervals
    Stamps = {t1}
    CloudNotify <- OneNode
    SensorReadings <- MCReadings
    Requests <- InstallOnly
PROPERTIES
    IntervalComesFromCloud
\* a device caught in the hotspot waits for ever once the environment is calm
CHECK_DEADLOCK FALSE
