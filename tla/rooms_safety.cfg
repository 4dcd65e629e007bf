SPECIFICATION Spec
CONSTANTS
    Users = {u1, u2}
    Registered = {u1, u2}
    Ids = {c1, c2}
    Sockets = {s1, s2, s3}
    Faults <- AllFailures
SYMMETRY Symmetry
CHECK_DEADLOCK FALSE
INVARIANTS RoomsSound RoomCoverage NotifiedInRoom
