SPECIFICATION FairMessagesSpec
CONSTANTS
    Users = {u1}
    Registered = {u1}
    Ids = {c1, c2}
    Sockets = {s1}
    Faults = {"fetch", "join", "handshake", "crash"}
    Messages = {m1}
    Http = Http
    MessageFaults = {"persist", "drop"}
CHECK_DEADLOCK FALSE
PROPERTIES NotificationArrives SocketSendAnswered HttpSendBroadcast
