SPECIFICATION FairSpec
CONSTANTS
    MaxUpdate = 2
    KindOf <- TaskKinds
    Blockers = {1}
    MaxCrashes = 0
PROPERTIES OutcomesOfOthersDelivered
