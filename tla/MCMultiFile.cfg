SPECIFICATION Spec
CONSTANTS
    Names <- FileNames
    Parts <- PathParts
    Repo = {"a.gguf", "d/b.gguf"}
    Matches <- Glob
    BadPatterns = {"["}
    Storage <- Kept
    Specs <- Selections
    Blocks = 1
    MaxParallel = 2
    MaxCalls = 2
    NoStatus = NoStatus
INVARIANTS
    MultiTypeOK
    ResultTruthful
    ReturnsAfterAll
    SelectionsAgree
PROPERTY
    EveryDownloadEnds
