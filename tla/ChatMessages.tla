---------------------------- MODULE ChatMessages ----------------------------
(***************************************************************************)
(* Sending a message, on top of the rooms of ChatRooms.  A client sends    *)
(* over its socket (the gateway makes an RPC with publishEvent: false and  *)
(* emits to the conversation's room itself) or over HTTP (the chat service *)
(* emits chat.message.send, and the gateway emits to the room when it      *)
(* consumes it).  Either way the chat service first proves membership,     *)
(* then stores the message.                                                *)
(*                                                                         *)
(* Contents are left out: validation pipes answer a malformed payload      *)
(* before anything modelled here happens.                                  *)
(***************************************************************************)
EXTENDS ChatRooms, Naturals

CONSTANTS Messages,       \* one element per attempt to send
          Http,           \* stands for the HTTP route where a socket could stand
          MessageFaults   \* what may go wrong, a subset of MessageFailures

MessageFailures == {"persist", "publish", "drop"}

ASSUME HttpAssumption == Http \notin Sockets
ASSUME KindsAssumption == Messages \cap Ids = {}
ASSUME MessageFaultsAssumption == MessageFaults \subseteq MessageFailures

VARIABLES
    draft,       \* draft[m]: route, author and raw conversationId of m
    stage,       \* stage[m]: where the handling of m stands
    awaiting,    \* messages whose RPC the gateway still waits for
    persisted,   \* message documents
    casts,       \* casts[m]: how often m was emitted to its room
    inbox,       \* inbox[s]: messages s got as newMessage
    acked,       \* messages whose sender was told of success
    failed       \* messages whose sender was told of an error

messageVars == <<draft, stage, awaiting, persisted, casts, inbox, acked, failed>>
answers == <<acked, failed>>
allVars == <<vars, messageVars>>

\* A conversationId on the wire is a string: the digits of an ObjectId, written
\* as toString() writes them or not (IsMongoId takes upper case, and the HTTP
\* parameter is not validated).  new Types.ObjectId reads either; sockets were
\* joined to the room named by toString().
RawIds == [id : Ids, spelling : {"toString", "other"}]
ToObjectId(raw) == raw.id
ToHexString(c) == [id |-> c, spelling |-> "toString"]

Drafts == [route : Sockets \cup {Http}, author : Registered, conversationId : RawIds]

Target(m) == ToObjectId(draft[m].conversationId)

Stages == {"unsent", "requested", "admitted", "stored", "refused", "replied", "settled", "lost"}

MessagesTypeOK ==
    /\ RoomsTypeOK
    /\ draft \in [Messages -> Drafts]
    /\ stage \in [Messages -> Stages]
    /\ awaiting \subseteq Messages
    /\ persisted \subseteq Messages
    /\ casts \in [Messages -> Nat]
    /\ inbox \in [Sockets -> SUBSET Messages]
    /\ acked \subseteq Messages
    /\ failed \subseteq Messages
    /\ events \in Seq(Ids \cup Messages)

\* Who will send what, and from where, is chosen once; a socket sends as the
\* user of its token.
MessagesInit ==
    /\ Init
    /\ draft \in [Messages -> Drafts]
    /\ \A m \in Messages : draft[m].route # Http => draft[m].author = user[draft[m].route]
    /\ stage = [m \in Messages |-> "unsent"]
    /\ awaiting = {}
    /\ persisted = {}
    /\ casts = [m \in Messages |-> 0]
    /\ inbox = [s \in Sockets |-> {}]
    /\ acked = {}
    /\ failed = {}

ViaSocket(m) == draft[m].route # Http

SenderGone(m) == ViaSocket(m) /\ ~Connected(draft[m].route)

Advance(m, from, to) == stage[m] = from /\ stage' = [stage EXCEPT ![m] = to]

----------------------------------------------------------------------------
\* The gateway forwards a message.

\* A plausible slip: an optimistic emit, before the message is stored.
MutEmitFirst(m) ==
    /\ Advance(m, "unsent", "requested")
    /\ ViaSocket(m)
    /\ Connected(draft[m].route)
    /\ awaiting' = awaiting \cup {m}
    /\ casts' = [casts EXCEPT ![m] = @ + 1]
    /\ UNCHANGED <<vars, draft, persisted, inbox, answers>>

SendOverSocket(m) ==
    /\ Advance(m, "unsent", "requested")
    /\ ViaSocket(m)
    /\ Connected(draft[m].route)
    /\ awaiting' = awaiting \cup {m}
    /\ UNCHANGED <<vars, draft, persisted, casts, inbox, answers>>

SendOverHttp(m) ==
    /\ Advance(m, "unsent", "requested")
    /\ ~ViaSocket(m)
    /\ awaiting' = awaiting \cup {m}
    /\ UNCHANGED <<vars, draft, persisted, casts, inbox, answers>>

----------------------------------------------------------------------------
\* ChatService.sendMessage: membership, create, emit.

\* A plausible slip: the conversation found, its participant array not looked at.
MutExists(m) == members[Target(m)] # {}
IsParticipant(m) == draft[m].author \in members[Target(m)]

\* No such conversation (404), or the author is not in it (403).
Refuse(m) ==
    /\ Advance(m, "requested", "refused")
    /\ ~IsParticipant(m)
    /\ UNCHANGED <<vars, draft, awaiting, persisted, casts, inbox, answers>>

Admit(m) ==
    /\ Advance(m, "requested", "admitted")
    /\ IsParticipant(m)
    /\ UNCHANGED <<vars, draft, awaiting, persisted, casts, inbox, answers>>

Persist(m) ==
    /\ Advance(m, "admitted", "stored")
    /\ persisted' = persisted \cup {m}
    /\ UNCHANGED <<vars, draft, awaiting, casts, inbox, answers>>

\* The insert fails, or it succeeds and its answer is lost.
PersistFails(m) ==
    /\ "persist" \in MessageFaults
    /\ Advance(m, "admitted", "refused")
    /\ persisted' \in {persisted, persisted \cup {m}}
    /\ UNCHANGED <<vars, draft, awaiting, casts, inbox, answers>>

\* Two plausible slips: the option ignored, or tested as === true.
MutIgnoreOption(m) == TRUE
MutOptIn(m) == FALSE
Publishes(m) == ~ViaSocket(m)

PublishMessage(m) ==
    /\ Advance(m, "stored", "replied")
    /\ Publishes(m)
    /\ events' = Append(events, m)
    /\ UNCHANGED <<storeVars, user, phase, rooms, joining, todo, fetched, told, overlooked>>
    /\ UNCHANGED <<draft, awaiting, persisted, casts, inbox, answers>>

\* With publishEvent: false nothing is emitted; a failed emit is only logged.
SkipPublish(m) ==
    /\ Advance(m, "stored", "replied")
    /\ ~Publishes(m) \/ "publish" \in MessageFaults
    /\ UNCHANGED <<vars, draft, awaiting, persisted, casts, inbox, answers>>

\* The service dies with the call, which was delivered with noAck.
Drop(m) ==
    /\ "drop" \in MessageFaults
    /\ stage[m] \in {"requested", "admitted", "stored"}
    /\ stage' = [stage EXCEPT ![m] = "lost"]
    /\ UNCHANGED <<vars, draft, awaiting, persisted, casts, inbox, answers>>

----------------------------------------------------------------------------
\* Back in the gateway.

\* getConversationRoom: the room is named by the raw string, as it was sent.
RoomNamed(raw) ==
    {s \in Sockets : \E c \in Ids : ToHexString(c) = raw /\ s \in ConversationRoom(c)}

\* A plausible slip: client.to(room) instead of server.to(room), which leaves
\* the sender out.
MutExceptSender(m) ==
    /\ casts' = [casts EXCEPT ![m] = @ + 1]
    /\ inbox' = [s \in Sockets |->
                   IF s \in RoomNamed(draft[m].conversationId) \ {draft[m].route}
                   THEN inbox[s] \cup {m} ELSE inbox[s]]

\* emitMessageSent
Broadcast(m) ==
    /\ casts' = [casts EXCEPT ![m] = @ + 1]
    /\ inbox' = [s \in Sockets |->
                   IF s \in RoomNamed(draft[m].conversationId)
                   THEN inbox[s] \cup {m} ELSE inbox[s]]

\* Emit to the room, then acknowledge, without an await in between; a sender
\* that left is not there to hear it.
AnswerSocket(m) ==
    /\ Advance(m, "replied", "settled")
    /\ ViaSocket(m)
    /\ m \in awaiting
    /\ awaiting' = awaiting \ {m}
    /\ Broadcast(m)
    /\ acked' = IF SenderGone(m) THEN acked ELSE acked \cup {m}
    /\ UNCHANGED <<vars, draft, persisted, failed>>

AnswerHttp(m) ==
    /\ Advance(m, "replied", "settled")
    /\ ~ViaSocket(m)
    /\ m \in awaiting
    /\ awaiting' = awaiting \ {m}
    /\ acked' = acked \cup {m}
    /\ UNCHANGED <<vars, draft, persisted, casts, inbox, failed>>

\* A plausible slip: no filter on the handler.
MutNoFilter(m) ==
    /\ Advance(m, "refused", "settled")
    /\ m \in awaiting
    /\ awaiting' = awaiting \ {m}
    /\ UNCHANGED <<vars, draft, persisted, casts, inbox, answers>>

\* WsExceptionFilter emits sendMessageError; over HTTP the interceptor throws.
AnswerError(m) ==
    /\ Advance(m, "refused", "settled")
    /\ m \in awaiting
    /\ awaiting' = awaiting \ {m}
    /\ failed' = IF SenderGone(m) THEN failed ELSE failed \cup {m}
    /\ UNCHANGED <<vars, draft, persisted, casts, inbox, acked>>

\* A plausible slip: an await before the emit, so that the handlers of several
\* events overtake each other.
MutOvertaken(m) ==
    /\ \E i \in DOMAIN events :
         /\ events[i] = m
         /\ events' = SubSeq(events, 1, i - 1) \o SubSeq(events, i + 1, Len(events))
    /\ Broadcast(m)
    /\ UNCHANGED <<storeVars, user, phase, rooms, joining, todo, fetched, told, overlooked>>
    /\ UNCHANGED <<draft, stage, awaiting, persisted, answers>>

HandleMessageSent(m) ==
    /\ events # <<>>
    /\ Head(events) = m
    /\ events' = Tail(events)
    /\ Broadcast(m)
    /\ UNCHANGED <<storeVars, user, phase, rooms, joining, todo, fetched, told, overlooked>>
    /\ UNCHANGED <<draft, stage, awaiting, persisted, answers>>

\* With the gateway go the RPCs it waited for; what is answered now is dropped.
GatewayCrash ==
    /\ Crash
    /\ awaiting' = {}
    /\ UNCHANGED <<draft, stage, persisted, casts, inbox, answers>>

----------------------------------------------------------------------------
Rooms == \/ \E c \in Ids : ChatService(c) \/ HandleCreated(c)
         \/ \E s \in Sockets : Handshake(s) \/ Reject(s) \/ Disconnect(s)

Serve(m) ==
    \/ Refuse(m) \/ Admit(m) \/ Persist(m) \/ PersistFails(m)
    \/ PublishMessage(m) \/ SkipPublish(m)
    \/ AnswerSocket(m) \/ AnswerHttp(m) \/ AnswerError(m)

MessagesNext ==
    \/ Rooms /\ UNCHANGED messageVars
    \/ \E m \in Messages : \/ SendOverSocket(m) \/ SendOverHttp(m)
                           \/ Serve(m) \/ Drop(m) \/ HandleMessageSent(m)
    \/ GatewayCrash

MessagesSpec == MessagesInit /\ [][MessagesNext]_allVars

FairMessagesSpec ==
    /\ MessagesSpec
    /\ \A c \in Ids : WF_allVars(HandleCreated(c) /\ UNCHANGED messageVars)
    /\ \A m \in Messages : WF_allVars(Serve(m)) /\ WF_allVars(HandleMessageSent(m))

----------------------------------------------------------------------------
\* Safety

\* Only a participant's message is stored, only stored messages are delivered,
\* and only to participants, in whatever order handshakes, joins and sends came.
DeliverySound ==
    /\ \A m \in persisted : draft[m].author \in members[Target(m)]
    /\ \A s \in Sockets : \A m \in inbox[s] :
         m \in persisted /\ user[s] \in members[Target(m)]

\* No client sees a message twice: the two routes never both emit it, though
\* both end in the same emit and share one chat service.
SingleBroadcast == \A m \in Messages : casts[m] <= 1

\* A sender told of success has its message stored, and emitted too if it sent
\* over a socket; a sender told of an error has it emitted to nobody.
AnswerTruth ==
    /\ acked \cap failed = {}
    /\ \A m \in acked : /\ m \in persisted
                        /\ ViaSocket(m) => casts[m] = 1
    /\ \A m \in failed : casts[m] = 0

\* Stages of a message whose answer the chat service has not lost.
Underway == {"requested", "admitted", "stored", "refused", "replied"}

\* Who sent over a socket and is still there was answered, or is owed an answer
\* the gateway waits for: no step of the handling, and no crash, lets a call
\* slip, though the RPC has no timeout and its caller may leave at any time.
AnswerOwed ==
    \A m \in Messages :
        stage[m] # "unsent" /\ ViaSocket(m) =>
            \/ m \in acked \cup failed
            \/ m \in awaiting /\ stage[m] \in Underway
            \/ stage[m] = "lost"
            \/ SenderGone(m)

\* A participant that was told of a conversation, and is in its room, misses no
\* message sent to the id it was told from then on.  In another spelling of that
\* id a message is stored and acknowledged all the same and reaches nobody.
NothingMissedInRoom ==
    [][\A m \in Messages : casts'[m] > casts[m] =>
         \A s \in Sockets : \A c \in told[s] :
            /\ Connected(s)
            /\ <<s, c>> \notin overlooked
            /\ draft[m].conversationId = ToHexString(c)
            => m \in inbox'[s]]_allVars

----------------------------------------------------------------------------
\* Liveness, under FairMessagesSpec

\* Every message sent over a socket is answered unless its sender leaves or the
\* chat service dies with it: the RPC has no timeout, but each of its outcomes
\* is answered.
SocketSendAnswered ==
    \A m \in Messages :
        stage[m] = "requested" /\ ViaSocket(m)
        ~> m \in acked \cup failed \/ SenderGone(m) \/ stage[m] = "lost"

\* A message sent over HTTP reaches its room although the gateway that answers
\* the caller emits it from another queue, unless it is refused or lost, or all
\* sockets leave, as they do when the gateway dies with the event.
HttpSendBroadcast ==
    \A m \in Messages :
        stage[m] = "requested" /\ ~ViaSocket(m)
        ~> \/ casts[m] = 1
           \/ stage[m] \in {"refused", "lost"}
           \/ \A s \in Sockets : ~Connected(s)
============================================================================
