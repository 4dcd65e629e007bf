SPECIFICATION OrderSpec
CONSTANTS
    Users = {u1, u2}
    Registered = {u1, u2}
    Ids = {c1}
    Sockets = {s1}
    Faults <- AllFailures
    Messages = {m1, m2}
    Http = Http
    MessageFaults <- AllMessageFailures
SYMMETRY Symmetry
CHECK_DEADLOCK FALSE
INVARIANTS AnswerOwed DeliverySound SingleBroadcast AnswerTruth
PROPERTY NothingMissedInRoom AcknowledgedFirst
