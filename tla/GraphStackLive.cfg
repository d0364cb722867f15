SPECIFICATION FairSpec
CONSTANTS
    a = a
    b = b
    main = main
    Lines = {a}
    Here = main
    Options = {"line", "stack", "tidy"}
    Line = "line"
    Tidy = {"tidy"}
    Plain <- PlainOption
    MaxKeys = 4
    MaxForeign = 1
    MaxFaults = 1
INVARIANTS
    SeamsExclusive
PROPERTIES
    AcceptMatchesSelection
    RecordsOnlyItsPreview
    KeysAreAnswered
    PreviewCatchesUp
CHECK_DEADLOCK FALSE
