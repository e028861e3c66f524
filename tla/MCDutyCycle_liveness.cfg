\* Faults and writes that end at some time, and a fair processor.
SPECIFICATION FairSpec
CONSTANTS
    Absent = Absent
    NoEmail = NoEmail
    DefaultEmail = DefaultEmail
    NumberText = NumberText
    On = On
    Off = Off
    Owner = Owner
    Emails = {NoEmail, DefaultEmail, NumberText, Owner}
    Levels <- MCLevels
    Intervals <- MCIntervals
    Stamps = {t1}
    CloudNotify <- OneLimit
    SensorReadings <- InRange
    Requests <- InstallWithoutUid
PROPERTIES
    Settles
    KeepsMeasuring
\* a device caught in the hotspot waits for ever once the environment is calm
CHECK_DEADLOCK FALSE
