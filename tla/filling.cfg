CONSTANTS
    Flow = {f1, f2, f3}
    Link = {l1, l2, l3}
    Inf = Inf
    NoRates = NoRates
    Capacities <- MCCapacities

SPECIFICATION Spec

INVARIANT TypeOK
INVARIANT LevelBelowShares
INVARIANT NoFlowAboveItsLinks
INVARIANT BottleneckIsTight
PROPERTY RatesOnlyRise
PROPERTY ReturnsFairRates
PROPERTY Returns
