CONSTANTS
    ScaleUp <- Fast
    ScaleOut <- Slow
    NicGbps = 400
    EgressLat = 2000
    None = None
    Plans <- EditedPlans
    MaxEdits = 2
    NewComponents <- MCComponents
    NewDomains <- MCDomains
    NewEdges <- MCEdges

SPECIFICATION Spec

INVARIANT EveryEdgeIsALink
