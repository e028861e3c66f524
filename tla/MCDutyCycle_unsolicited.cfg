\* Notification on a device newly installed.
SPECIFICATION Spec
CONSTANTS
    Absent = Absent
    NoEmail = NoEmail
    DefaultEmail = DefaultEmail
    NumberText = NumberText
    On = On
    Off = Off
    Owner = Owner
    Emails = {NoEmail, DefaultEmail, NumberText, Owner}
    Levels <- MCLevels
    Intervals <- MCIntervals
    Stamps = {t1}
    CloudNotify <- OneNode
    SensorReadings <- MCReadings
    Requests <- InstallOnly
INVARIANTS
    NoMailUnlessEnabled
\* a device caught in the hotspot waits for ever once the environment is calm
CHECK_DEADLOCK FALSE
