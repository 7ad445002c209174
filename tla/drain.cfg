SPECIFICATION FairDrainSpec
CONSTANTS
    n1 = n1
    n2 = n2
    n3 = n3
    k1 = k1
    k2 = k2
    Node = {n1, n2, n3}
    Master = {n1, n2}
    Seed = n3
    From = n1
    To = n2
    Slot = {1, 2}
    Key = {k1, k2}
    SlotOf <- MCSlotOf
    None = None
    MaxWrites = 1
    BatchSize = 1
    RepairCap = 1
    StartEpoch = 3
    MaxFails = 2
\* the drain ends with the deletion of the shard
CHECK_DEADLOCK FALSE
INVARIANT DrainTypeOK
INVARIANT HandshakeKeepsWrites
INVARIANT SlotsOutliveShard
PROPERTY ImplementsHandover
PROPERTY DrainCompletes
