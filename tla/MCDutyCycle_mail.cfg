\* Notification settings that change, a complete object and a partial one, or none.
SPECIFICATION Spec
CONSTANTS
    Absent = Absent
    NoEmail = NoEmail
    DefaultEmail = DefaultEmail
    NumberText = NumberText
    On = On
    Off = Off
    Owner = Owner
    Emails = {NoEmail, DefaultEmail, NumberText, Owner}
    Levels <- MCLevels
    Intervals <- OneInterval
    Stamps = {t1}
    CloudNotify <- BothNodes
    SensorReadings <- MCReadings
    Requests <- InstallOnly
INVARIANTS
    MailFollowsCloud
\* a device caught in the hotspot waits for ever once the environment is calm
CHECK_DEADLOCK FALSE
