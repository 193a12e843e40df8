CONSTANTS
    f1 = f1
    f2 = f2
    f3 = f3
    f4 = f4
    l1 = l1
    l2 = l2
    l3 = l3
    Inf = Inf
    None = None
    Flow = {f1, f2, f3}
    Link = {l1, l2}
    Route <- ParkingLot
    Capacity <- LinkCapacity
    FairRate <- ParkingLotRate
    Sizes <- MCSizes
    Inexact = {}
    MaxTime = 6

SPECIFICATION HostSpec

INVARIANT OneLiveEvent
PROPERTY EveryFlowCompletes
