SPECIFICATION Spec
CONSTANTS
    Ids <- FourIds
    Private <- TwoPrivate
    MaxLimit = 2
    MaxTime = 2
    Null = Null
INVARIANTS
    PagesInOrder
    NothingSkipped
    MoreIsThere
