SPECIFICATION McSpec
CONSTANTS
    r1 = r1
    r2 = r2
    r3 = r3
    r4 = r4
    None = None
    Requests <- McRequests
    Names <- McNames
    Emails <- McEmails
    Passwords <- McPasswords
    Fold <- McFold
    Cut <- McCut
    Bodies <- McBodies
    Faults <- AllFailures
    MaxFailures = 1
ACTION_CONSTRAINT McFirst
INVARIANTS OneAccountPerKey ReplyTruth 
PROPERTIES ImplementsAccounts KeyServed
