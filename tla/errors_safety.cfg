SPECIFICATION Spec
CHECK_DEADLOCK FALSE
CONSTANTS
    Texts <- TwoTexts
    Internal <- InternalText
    None = None
INVARIANTS
    TypeOK
    StatusKept
    ConflictNamed
    NothingInternal
