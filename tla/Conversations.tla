--------------------------- MODULE Conversations ---------------------------
(***************************************************************************)
(* What the chat service promises about conversations, seen from outside:  *)
(* a conversation comes into being whole, with all its participants, two   *)
(* users share at most one private conversation, and only a conversation   *)
(* that exists is announced, once.  ConversationTx shows that              *)
(* createConversation, a MongoDB transaction followed by a RabbitMQ emit,  *)
(* implements this module; ChatRooms builds the gateway on top of it.      *)
(***************************************************************************)
CONSTANTS Users,       \* user ids a request may name
          Registered,  \* those the users service knows
          Ids          \* the ObjectIds conversations get

ASSUME RegisteredAssumption == Registered \subseteq Users

VARIABLES members,    \* members[c]: the users who participate in c, {} if c is not stored
          private,    \* the stored conversations of type 'private'
          announced   \* those whose chat.conversation.created event was emitted

storeVars == <<members, private, announced>>

StoreTypeOK == /\ members \in [Ids -> SUBSET Registered]
               /\ private \subseteq Ids
               /\ announced \subseteq Ids

StoreInit == /\ members = [c \in Ids |-> {}]
             /\ private = {}
             /\ announced = {}

----------------------------------------------------------------------------
IsPair(M) == \E u, v \in M : u # v /\ M = {u, v}

\* The partial unique index on idempotencyKey, the sorted pair of user ids.
PairFree(M) == \A c \in private : members[c] # M

\* conversation, participants and the event are written from one array of
\* distinct user ids, all known to the users service.
Create(c, M, isPrivate) ==
    /\ members[c] = {}
    /\ M # {}
    /\ isPrivate => IsPair(M) /\ PairFree(M)
    /\ members' = [members EXCEPT ![c] = M]
    /\ private' = IF isPrivate THEN private \cup {c} ELSE private
    /\ UNCHANGED announced

Announce(c) ==
    /\ members[c] # {}
    /\ c \notin announced
    /\ announced' = announced \cup {c}
    /\ UNCHANGED <<members, private>>

StoreNext == \E c \in Ids :
    \/ \E M \in SUBSET Registered, isPrivate \in BOOLEAN : Create(c, M, isPrivate)
    \/ Announce(c)

StoreSpec == StoreInit /\ [][StoreNext]_storeVars
============================================================================
