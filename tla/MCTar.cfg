SPECIFICATION Spec
CONSTANTS
    Disks <- MCDisks
    Targets <- MCTargets
    Order <- MCOrder
    Weight <- MCWeight
    Block = 2
    SizeModulus = 8
    TimeModulus = 128
    NameField = 3
    PrefixField = 3
    SizeAt = 3
    LinkField = 2
    PathMax = 5
    MaxOpen = 3
    Now = 99
    MaxRestores = 2
    MaxFaults = 1
INVARIANTS
    ArchiveInStep
    RoundTrip
    KeepsExisting
    EveryPartitionArchived
CHECK_DEADLOCK FALSE
