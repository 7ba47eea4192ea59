\* Sets that touch are merged in, too.
CONSTANTS
    Code <- ShortCode
    NewTexts <- ShortTexts
    MaxSteps = 2
    MaxMerges = 1
    TouchingSets = TRUE
SPECIFICATION ReplacementsSpec
INVARIANT MergeIsBothApplied
CHECK_DEADLOCK FALSE
