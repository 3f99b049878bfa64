SPECIFICATION FairSpec
CONSTANTS
    MaxUpdate = 2
    KindOf <- TaskKinds
    Blockers = {}
    MaxCrashes = 1
PROPERTIES MessagesAnswered OutcomesDelivered
