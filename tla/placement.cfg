CONSTANTS
    Gpu <- SixGpus
    Calls <- MCCalls
    Stranger = Stranger
    None = None

SPECIFICATION Spec

INVARIANT TypeOK
INVARIANT PlacedIsInjective
INVARIANT RefusalIsJustified
INVARIANT SpreadIsEven
INVARIANT GroupsPartitionRanks
INVARIANT PackedKeepsAlignedTpGroups
