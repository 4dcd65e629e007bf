SPECIFICATION Spec
CONSTANTS
    Ids = {a1, a2}
    Names = {"ann", "Ann", "bob"}
    Emails = {"x", "y"}
    Passwords = {"short", "long1"}
    Fold <- McFold
    Cut <- McCut
    Logins = {l1, l2}
    Calls = {k1}
    Lifetime = 1
    Uses <- McFewUses
    MaxTime = 1
    None = None
    Faults = {"rpc", "drop"}
ACTION_CONSTRAINT McStep
SYMMETRY Symmetry
INVARIANTS ReadYourRegistration OneIdentity ActsForOwner ExpiredOpensNothing RefusedForCause
