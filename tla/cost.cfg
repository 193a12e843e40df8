CONSTANTS
    Shapes <- MCShapes
    Collectives = {"all_reduce"}
    SizesB = {1024}
    Fabrics = {"f1", "f2", "f3", "f4"}
    Links <- MCLinks
    DefaultBw <- MCDefaultBw
    DefaultLat = 1000
    Resolution = 10
    NetworkEdits <- MCNetworkEdits
    MaxCalls = 4
    MaxEdits = 2
    None = None

SPECIFICATION Spec

INVARIANT AnswerIsForTheRequest
INVARIANT NoDimensionDropped
INVARIANT AnswerCoversTheGroup

