SPECIFICATION LivesSpec
CONSTANTS
    TotalSlots = 7
    Sizes = {1, 3}
    ReplicaChoices = {0, 1}
    BatchSlots = 2
    EditKinds = {{"shards"}, {"replicas"}}
    MayDelete = TRUE
    MaxEdits = 2
    MaxCrashes = 1
    MaxOutages = 2
\* nothing is left to do once the resource is gone
CHECK_DEADLOCK FALSE
INVARIANT TypeOK
INVARIANT ReadyIsTruthful
INVARIANT VolumesReclaimed
PROPERTY FormsEvenly
PROPERTY DrainedBeforeDeleted
PROPERTY OwnersKept
PROPERTY ConvergedIsFixed
PROPERTY Converges
PROPERTY Removed
