-------------------------- MODULE MCConversationTx --------------------------
\* Values for TLC of the constants of ConversationTx that a .cfg cannot write.
EXTENDS ConversationTx, TLC

CONSTANTS u1, u2, ghost

KnownUsers == {u1, u2}
AnyUsers == KnownUsers \cup {ghost}

\* Every kind of body: private and group, valid, self-chat (arity 1), three
\* ids, an unknown id, and the creator named again among the participants.
MixedBodies ==
    [type : {"private", "group"}, userId : KnownUsers,
     participantIds : {{u2}, {u1, u2}, {u1, ghost}, {u1, u2, ghost}}]

\* Both users ask for the private conversation of the pair, in either order.
PairBodies ==
    [type : {"private"}, userId : {u1}, participantIds : {{u2}, {u1, u2}}] \cup
    [type : {"private"}, userId : {u2}, participantIds : {{u1}}]

AllFailures == Failures
============================================================================
