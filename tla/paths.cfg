CONSTANTS
    Node <- FiveNodes
    LinkChoice <- Onward
    Questions <- OneGpuPair
    MaxLinks = 5
    MaxDigest = 3
    None = None

SPECIFICATION Spec

INVARIANT EqualCostIsAllShortest
INVARIANT RoutesAreEqualCost
PROPERTY SearchEnds
