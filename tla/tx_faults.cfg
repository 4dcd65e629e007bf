SPECIFICATION FairSpec
CONSTANTS
    u1 = u1
    u2 = u2
    ghost = ghost
    Users <- AnyUsers
    Registered <- KnownUsers
    Requests = {r1, r2}
    Bodies <- MixedBodies
    Faults <- AllFailures
INVARIANTS ConversationsWhole ReplyTruth
PROPERTIES ImplementsStore StoredIsNoError AnsweredOrLost
