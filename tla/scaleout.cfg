SPECIFICATION FromOneSpec
CONSTANTS
    n1 = n1
    n2 = n2
    n3 = n3
    k1 = k1
    Node = {n1, n2, n3}
    Master = {n1, n2, n3}
    Seed = n1
    ShardPrimary <- MCShardPrimary
    Slot = {1, 2, 3, 4, 5, 6}
    Key = {k1}
    SlotOf <- MCSlotOf
    None = None
    MaxWrites = 1
    BatchSize = 1
    RepairCap = 1
    StartEpoch = 3
    MaxFails = 1
\* a settled scale-out has nothing left to do
CHECK_DEADLOCK FALSE
INVARIANT ScaleTypeOK
PROPERTY ScaleOutSettles
PROPERTY OpenSlotsRepaired
PROPERTY NeverOverAssigns
