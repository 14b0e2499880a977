SPECIFICATION FairSpec
CONSTANTS
    NumURIs = 3
    MaxRetries = 2
    MaxVersion = 3
    MaxOutages = 3
    TagOf <- MixedTag
    NoTag = 0
    NoKeys = NoKeys
CHECK_DEADLOCK FALSE
INVARIANTS
    TypeOK
    TagMatchesKeys
    OfflineIsLastOutcome
PROPERTIES
    UnchangedIsCurrent
    OneServerIsEnough
    UpdateReturns
