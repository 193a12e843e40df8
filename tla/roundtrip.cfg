CONSTANTS
    ScaleUp <- Fast
    ScaleOut <- Slow
    NicGbps = 400
    EgressLat = 2000
    None = None
    Plans <- MCPlans
    MaxEdits = 2
    NewComponents <- MCComponents
    NewDomains <- MCDomains
    NewEdges <- MCEdges

SPECIFICATION Spec

INVARIANT BuiltFabricsRoundTrip
INVARIANT AcceptedDocumentsParse
INVARIANT NothingVanishes
INVARIANT SecondReadAgrees
INVARIANT RoutesFollowDomains
INVARIANT ShapeTellsTheLinks
INVARIANT LeafSpineFabric
INVARIANT SingleTierIsNodeScale
