\* Room for two of the longer AST files, not for three.
CONSTANTS
    MaxLoadedOffset = 16
    LinearProbes = 2
    ASTFiles <- ShortASTFiles
SPECIFICATION SourceSpec
PROPERTY LoadedBasesDecrease
CHECK_DEADLOCK FALSE
