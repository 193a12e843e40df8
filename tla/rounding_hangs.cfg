CONSTANTS
    f1 = 1
    f2 = 2
    f3 = 3
    f4 = 4
    l1 = l1
    l2 = l2
    l3 = l3
    Inf = Inf
    None = None
    Flow = {1, 2, 3}
    Link = {l1, l2}
    Route <- ParkingLot
    Capacity <- LinkCapacity
    FairRate <- ParkingLotRate
    Sizes <- OneSize
    Inexact = {1}
    MaxTime = 0
    Modes = {"single_path"}
    SubmitTimes <- EarlyTimes
    LimitNs = 1000

SPECIFICATION RunSpec

PROPERTY RunReturns
