CONSTANTS
    Texts <- MCTexts
    Unreadable = Unreadable
SPECIFICATION SpuriousSpec
CHECK_DEADLOCK FALSE
INVARIANTS
    FlagWasRaised
