CONSTANTS
    f1 = f1
    f2 = f2
    f3 = f3
    f4 = f4
    l1 = l1
    l2 = l2
    l3 = l3
    Inf = Inf
    None = None
    Flow = {f1, f2, f3, f4}
    Link = {l1, l2}
    Route <- WithSelf
    Capacity <- LinkCapacity
    FairRate <- WithSelfRate
    Sizes <- ShortSizes
    Inexact = {f3}
    MaxTime = 4

SPECIFICATION Spec

INVARIANT TypeOK
INVARIANT AllocationIsCurrent
INVARIANT FlowBudget
PROPERTY AdvanceLeavesNothingDue
PROPERTY RevisionGuardsPrediction
PROPERTY AdvanceReturns
