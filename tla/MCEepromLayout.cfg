\* Regions of one to four bytes, with texts shorter and longer than they are.
SPECIFICATION Spec
CONSTANTS
    Absent = Absent
    NoEmail = NoEmail
    DefaultEmail = DefaultEmail
    NumberText = NumberText
    On = On
    Off = Off
    Owner = Owner
    NoText = NoText
    Emails = {NoEmail, DefaultEmail, NumberText, Owner}
    Levels <- MCLevels
    Intervals <- MCIntervals
    Requests <- MCRequests
    Start <- MCStart
    Size <- MCSize
    UidSize = 10
    ClearEnd = 27
    EepromSize = 31
    Texts <- MCTexts
    Length <- MCLength
    LevelText <- MCLevelText
    EmailText <- MCEmailText
    IntervalText <- MCIntervalText
    SwitchText <- MCSwitchText
    MaxCuts = 1
    HomeSsid = "home"
    HomePass = "secret"
    Provisionings <- MCProvisionings
    CloudTexts <- MCCloudTexts
INVARIANTS
    TypeOK
    UnspoiledReadsBack
    CommitsHeal
    NothingOfPreviousOwner
PROPERTIES
    BytesFollowRecord
