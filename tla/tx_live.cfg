SPECIFICATION FairSpec
CONSTANTS
    u1 = u1
    u2 = u2
    ghost = ghost
    Users <- AnyUsers
    Registered <- KnownUsers
    Requests = {r1, r2, r3}
    Bodies <- PairBodies
    Faults = {}
INVARIANTS OnePrivatePerPair ConflictHasWinner
PROPERTIES PairServed StoredIsAnnounced
