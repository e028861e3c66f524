\* Two recipients, at most two odd answers.  A mail ends: no deadlock check.
SPECIFICATION Spec
CHECK_DEADLOCK FALSE
CONSTANTS
    Recipients = 2
    Refused = "refused"
    NoCode = "tail"
    MaxOdd = 2
INVARIANTS
    TypeOK
    SentMeansAccepted
    MessageIsAskedFor
    WaitsBounded
PROPERTIES
    PromptMeansSent
