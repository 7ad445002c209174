SPECIFICATION FreshSpec
CONSTANTS
    TotalSlots = 6
    Sizes = {3}
    ReplicaChoices = {0, 1}
    BatchSlots = 2
    EditKinds = {}
    MayDelete = FALSE
    MaxEdits = 0
    MaxCrashes = 1
    MaxOutages = 0
PROPERTY Converges
