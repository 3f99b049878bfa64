SPECIFICATION Spec
CONSTANTS
    MaxUpdate = 5
    KindOf <- AllKinds
    Blockers = {1}
    MaxCrashes = 1
INVARIANTS TypeOK HandledInOrder AckedOnlyDelivered
    PassedOnlyAnswered AnswersAreTrue
