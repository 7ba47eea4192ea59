CONSTANTS
    Source <- QualifiedNames
    MaxTrials = 1
    MaxAhead = 0
    MaxCached = 4
    PutsBackInTrials = TRUE
SPECIFICATION Spec
INVARIANT RelexesTheSame
