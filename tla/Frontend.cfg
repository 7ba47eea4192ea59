CONSTANTS
    Source <- QualifiedNames
    MaxTrials = 2
    MaxAhead = 1
    MaxCached = 3
    PutsBackInTrials = FALSE

    userDir = userDir
    systemDir = systemDir
    textA = textA
    textB = textB
    bare = bare
    hdr = hdr
    Absent = Absent
    Paths <- HeaderPaths
    MainTexts = {textA, textB, bare}
    Includes <- HeaderIncludes
    Candidates <- HeaderCandidates
    FirstCountdowns <- Countdowns
    MaxStamp = 1

    MaxLoadedOffset = 16
    LinearProbes = 2
    ASTFiles <- ShortASTFiles

    Code <- ShortCode
    NewTexts <- ShortTexts
    MaxSteps = 3
    MaxMerges = 1
    TouchingSets = FALSE
SPECIFICATION FrontendSpec
INVARIANTS
    TypeOK
    NoAssertFails
    NothingIsSkipped
    RelexesTheSame
    PreambleTypeOK
    RealizeFindsPreamble
    DiagnosticsComplete
    SourceTypeOK
    LocationsAreUnique
    LookupIsRight
    MergeIsBothApplied
    StaysOrderIndependent
PROPERTIES
    OrderDoesNotMatter
    KeepsStream
    PreambleIsCurrent
    AddRemovesItsRange
    RetriesOnSchedule
\* An editor may stop, and edits, offsets and additions run out.
CHECK_DEADLOCK FALSE
