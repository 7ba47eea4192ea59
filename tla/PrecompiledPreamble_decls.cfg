CONSTANTS
    userDir = userDir
    systemDir = systemDir
    textA = textA
    textB = textB
    bare = bare
    hdr = hdr
    Absent = Absent
    Paths <- HeaderPaths
    MainTexts = {textA, textB, bare}
    Includes <- HeaderIncludes
    Candidates <- HeaderCandidates
    FirstCountdowns <- Countdowns
    MaxStamp = 0
SPECIFICATION PreambleSpec
INVARIANT TopLevelDeclsComplete
CHECK_DEADLOCK FALSE
