CONSTANTS
    Texts <- MCTexts
    Unreadable = Unreadable
SPECIFICATION Spec
\* main ends; without one of its threads it waits for ever.
CHECK_DEADLOCK FALSE
INVARIANTS
    TypeOK
    SignalsAreNotLost
    TotalIsRight
PROPERTIES
    NoOverwrite
    BothReported
