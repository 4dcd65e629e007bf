SPECIFICATION Spec
CONSTANTS
    Users = {u1}
    Registered = {u1}
    Ids = {c1}
    Sockets = {s1}
    Faults = {}
SYMMETRY Symmetry
CHECK_DEADLOCK FALSE
INVARIANT InItsRooms
