SPECIFICATION FairSpec
CONSTANTS
    NumShards = 2
    NumPods = 2
    Choices <- MCChoices
    First <- Cache
    MaxEdits = 2
    MaxFaults = 1
INVARIANT RolloutTypeOK
INVARIANT HashTells
INVARIANT DefaultsAgree
PROPERTY ConfigReachesPods
