CONSTANTS
    long = long
    LongMark = long
    FileTexts <- SomeTexts
    Strokes <- SomeStrokes
    MaxStrokes = 5
SPECIFICATION Spec
CHECK_DEADLOCK FALSE
INVARIANTS QueryType TokensAreCutAtOpenSpaces MissedOnlyForARun
