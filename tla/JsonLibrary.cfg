SPECIFICATION Spec
CONSTANTS
    MaxItems = 5
    Strings <- MCStrings
    Lower <- MCLower
    Texts <- MCTexts
    LaterTexts <- MCLaterTexts
    NestingLimit = 2
    MaxCalls = 4
CHECK_DEADLOCK FALSE
INVARIANTS
    TypeOK
    NothingLeaks
    WellLinked
    ParsesTheGrammar
    PrintsWhatItParsed
    FindsTheFirst
