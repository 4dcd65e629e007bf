---------------------------- MODULE MCChatRooms ----------------------------
\* Values for TLC of the constants of ChatRooms that a .cfg cannot write.
EXTENDS ChatRooms, TLC

AllFailures == Failures
Symmetry == Permutations(Sockets) \cup Permutations(Ids) \cup Permutations(Registered)
============================================================================
