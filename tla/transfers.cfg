CONSTANTS
    f1 = 1
    f2 = 2
    f3 = 3
    f4 = 4
    l1 = l1
    l2 = l2
    l3 = l3
    Inf = Inf
    None = None
    Flow = {1, 2, 3, 4}
    Link = {l1, l2, l3}
    Route <- WithStarved
    Capacity <- FailedCapacity
    FairRate <- WithStarvedRate
    Sizes <- MCSizes
    Inexact = {}
    MaxTime = 0
    Modes = {"single_path", "per_flow_ecmp"}
    SubmitTimes <- MCSubmitTimes
    LimitNs = 1000

SPECIFICATION RunSpec

INVARIANT NothingDropped
INVARIANT NeverFasterThanAlone
INVARIANT OnlyStarvedAreMissing
PROPERTY NoCompletionPassed
PROPERTY RunReturns
