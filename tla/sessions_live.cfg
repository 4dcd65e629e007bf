SPECIFICATION FairSpec
CONSTANTS
    Ids = {a1}
    Names = {"ann", "bob"}
    Emails = {"x"}
    Passwords = {"short", "long1", "long2"}
    Fold <- McFold
    Cut <- McCut
    Logins = {l1}
    Calls = {k1}
    Lifetime = 1
    Uses <- McUses
    MaxTime = 2
    None = None
    Faults = {"rpc"}
PROPERTY Answered
