SPECIFICATION FormedSpec
CONSTANTS
    TotalSlots = 6
    Sizes = {3}
    ReplicaChoices = {0, 1}
    BatchSlots = 2
    EditKinds = {{"replicas"}}
    MayDelete = FALSE
    MaxEdits = 2
    MaxCrashes = 0
    MaxOutages = 1
PROPERTY OwnersKept
