SPECIFICATION Spec
CHECK_DEADLOCK FALSE
CONSTANTS
    Texts <- TwoTexts
    Internal <- InternalText
    None = None
INVARIANT
    SendMessageErrorShape
