SPECIFICATION Spec
CONSTANTS
    W = 12
    Docs <- Files
    MaxCount = 3
    MaxString = 8
    MaxArray = 3
    MaxDims = 2
    Values <- FileValues
    Encoded <- ValueBytes
    GoodValues <- WholeValues
INVARIANTS
    GgufTypeOK
    AcceptedFits
    WholeAccepted
PROPERTY
    ReaderEnds
