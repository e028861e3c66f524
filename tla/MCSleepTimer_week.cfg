SPECIFICATION Spec
CONSTANTS
    Word = 4096
    Factor = 40
    Default = 100
    Longest = 1200
    MaxDigits = 4
    Texts <- MCTexts
INVARIANTS
    WeekFits
