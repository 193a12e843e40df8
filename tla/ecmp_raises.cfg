CONSTANTS
    f1 = 1
    f2 = 2
    f3 = 3
    f4 = 4
    l1 = l1
    l2 = l2
    l3 = l3
    Inf = Inf
    None = None
    Flow = {1, 2, 3}
    Link = {l1, l2}
    Route <- ParkingLot
    Capacity <- LinkCapacity
    FairRate <- ParkingLotRate
    Sizes <- OneSize
    Inexact = {}
    MaxTime = 0
    Modes = {"per_flow_ecmp"}
    SubmitTimes <- EarlyTimes
    LimitNs = 1000

SPECIFICATION RunSpec

INVARIANT EcmpGivesResults
