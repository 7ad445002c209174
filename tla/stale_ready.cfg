SPECIFICATION FormedSpec
CONSTANTS
    TotalSlots = 6
    Sizes = {1, 3}
    ReplicaChoices = {0, 1}
    BatchSlots = 2
    EditKinds = {{"shards"}}
    MayDelete = FALSE
    MaxEdits = 2
    MaxCrashes = 0
    MaxOutages = 0
INVARIANT ReadyReflectsSpec
