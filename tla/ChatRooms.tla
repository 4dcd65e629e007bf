----------------------------- MODULE ChatRooms -----------------------------
(***************************************************************************)
(* The Socket.IO side of the API gateway: the handshake that authenticates *)
(* a socket and reads its conversations from the chat service, the rooms a *)
(* socket joins when it connects, and the handler of the                   *)
(* chat.conversation.created event, which finds the sockets already        *)
(* connected and joins them to the new conversation's room.                *)
(*                                                                         *)
(* The chat service is module Conversations.  Between it and the gateway   *)
(* are the events queue, FIFO, and the RPC that answers a handshake, which *)
(* are not ordered with each other.  RabbitMQ delivers events with noAck   *)
(* and without a prefetch limit: handlers of different events interleave   *)
(* at their awaits, and a delivered event is gone if the gateway dies.     *)
(***************************************************************************)
EXTENDS Conversations, Naturals, Sequences

CONSTANTS Sockets,   \* connection attempts; a client that reconnects is a new socket
          Faults     \* what may go wrong, a subset of Failures

Failures == {"handshake", "fetch", "join", "crash"}

ASSUME FaultsAssumption == Faults \subseteq Failures

VARIABLES
    user,       \* user[s]: the subject of the token s presents
    phase,      \* phase[s]: where s stands between handshake and disconnection
    rooms,      \* rooms[s]: socket.data.conversationIds until s connects, then
                \*           the conversation rooms s is in
    events,     \* api_gateway_events_queue
    joining,    \* conversations whose created event a handler is working on
    todo,       \* todo[c]: participants that handler has not looked up yet
    fetched,    \* fetched[c]: sockets of one participant it has still to join
    told,       \* told[s]: conversations s got conversation.created for
    overlooked  \* (history) pairs <<s, c>> the handler of c could not join

roomVars == <<user, phase, rooms, events, joining, todo, fetched, told, overlooked>>
vars == <<storeVars, roomVars>>

----------------------------------------------------------------------------
Phases == {"new", "listing", "listed", "connected", "closed"}

\* The types of all but the queue, which ChatMessages shares.
RoomsTypeOK ==
    /\ StoreTypeOK
    /\ user \in [Sockets -> Registered]
    /\ phase \in [Sockets -> Phases]
    /\ rooms \in [Sockets -> SUBSET Ids]
    /\ joining \subseteq Ids
    /\ todo \in [Ids -> SUBSET Registered]
    /\ fetched \in [Ids -> SUBSET Sockets]
    /\ told \in [Sockets -> SUBSET Ids]
    /\ overlooked \subseteq Sockets \X Ids

TypeOK == RoomsTypeOK /\ events \in Seq(Ids)

Init ==
    /\ StoreInit
    /\ user \in [Sockets -> Registered]
    /\ phase = [s \in Sockets |-> "new"]
    /\ rooms = [s \in Sockets |-> {}]
    /\ events = <<>>
    /\ joining = {}
    /\ todo = [c \in Ids |-> {}]
    /\ fetched = [c \in Ids |-> {}]
    /\ told = [s \in Sockets |-> {}]
    /\ overlooked = {}

Connected(s) == phase[s] = "connected"

\* A plausible slip: emit or fetchSockets on the server instead of a room.
MutEverySocket(x) == {s \in Sockets : Connected(s)}

\* Sockets in room user:<u>, and in room conversation:<c>.
UserRoom(u) == {s \in Sockets : Connected(s) /\ user[s] = u}
ConversationRoom(c) == {s \in Sockets : Connected(s) /\ c \in rooms[s]}

Conversations(u) == {c \in Ids : u \in members[c]}

----------------------------------------------------------------------------
\* The chat service: createConversation commits, then emits its event.

CreateConversation(c, M, isPrivate) ==
    /\ Create(c, M, isPrivate)
    /\ UNCHANGED roomVars

AnnounceConversation(c) ==
    /\ Announce(c)
    /\ events' = Append(events, c)
    /\ UNCHANGED <<user, phase, rooms, joining, todo, fetched, told, overlooked>>

----------------------------------------------------------------------------
\* WebSocketAuthMiddleware.authenticate, then handleConnection.

\* No token, validateToken refuses it, or the payload has no subject.
Reject(s) ==
    /\ phase[s] = "new"
    /\ phase' = [phase EXCEPT ![s] = "closed"]
    /\ UNCHANGED <<storeVars, user, rooms, events, joining, todo, fetched, told, overlooked>>

Authenticate(s) ==
    /\ phase[s] = "new"
    /\ phase' = [phase EXCEPT ![s] = "listing"]
    /\ UNCHANGED <<storeVars, user, rooms, events, joining, todo, fetched, told, overlooked>>

\* myConversationIds runs in the chat service; its answer is on its way.
ListConversations(s) ==
    /\ phase[s] = "listing"
    /\ phase' = [phase EXCEPT ![s] = "listed"]
    /\ rooms' = [rooms EXCEPT ![s] = Conversations(user[s])]
    /\ UNCHANGED <<storeVars, user, events, joining, todo, fetched, told, overlooked>>

ListFails(s) ==
    /\ "handshake" \in Faults
    /\ phase[s] \in {"listing", "listed"}
    /\ phase' = [phase EXCEPT ![s] = "closed"]
    /\ rooms' = [rooms EXCEPT ![s] = {}]
    /\ UNCHANGED <<storeVars, user, events, joining, todo, fetched, told, overlooked>>

\* The answer arrives: next(), and handleConnection joins the user room and
\* the listed rooms in one call, with no await before it.
Connect(s) ==
    /\ phase[s] = "listed"
    /\ phase' = [phase EXCEPT ![s] = "connected"]
    /\ UNCHANGED <<storeVars, user, rooms, events, joining, todo, fetched, told, overlooked>>

\* The client leaves, during the handshake or after; Socket.IO empties its rooms.
Disconnect(s) ==
    /\ phase[s] \in {"listing", "listed", "connected"}
    /\ phase' = [phase EXCEPT ![s] = "closed"]
    /\ rooms' = [rooms EXCEPT ![s] = {}]
    /\ UNCHANGED <<storeVars, user, events, joining, todo, fetched, told, overlooked>>

----------------------------------------------------------------------------
\* ChatEventsController.handleConversationCreated and the loops of
\* joinParticipantsToConversation.  todo is a set: the handler's order is that
\* of the request's participantIds, which may be any.

\* Sockets of u past their query and not yet in the user room hold a list that
\* may lack c, and fetchSockets does not see them.
Stale(u, c) == {s \in Sockets : phase[s] = "listed" /\ user[s] = u /\ c \notin rooms[s]}

StartJoin(c) ==
    /\ events # <<>>
    /\ c = Head(events)
    /\ events' = Tail(events)
    /\ joining' = joining \cup {c}
    /\ todo' = [todo EXCEPT ![c] = members[c]]
    /\ UNCHANGED <<storeVars, user, phase, rooms, fetched, told, overlooked>>

FetchSockets(c, u) ==
    /\ u \in todo[c]
    /\ fetched[c] = {}
    /\ todo' = [todo EXCEPT ![c] = @ \ {u}]
    /\ fetched' = [fetched EXCEPT ![c] = UserRoom(u)]
    /\ overlooked' = overlooked \cup (Stale(u, c) \X {c})
    /\ UNCHANGED <<storeVars, user, phase, rooms, events, joining, told>>

\* Two plausible slips: break for continue, or no try around the fetch.
MutBreak(c, u) ==
    /\ "fetch" \in Faults
    /\ u \in todo[c]
    /\ fetched[c] = {}
    /\ todo' = [todo EXCEPT ![c] = {}]
    /\ overlooked' = overlooked \cup ((Stale(u, c) \cup UserRoom(u)) \X {c})
    /\ UNCHANGED <<storeVars, user, phase, rooms, events, joining, fetched, told>>

MutUncaught(c, u) ==
    /\ "fetch" \in Faults
    /\ u \in todo[c]
    /\ fetched[c] = {}
    /\ todo' = [todo EXCEPT ![c] = {}]
    /\ joining' = joining \ {c}
    /\ UNCHANGED <<storeVars, user, phase, rooms, events, fetched, told, overlooked>>

\* Logged; the loop continues with the next participant.
FetchFails(c, u) ==
    /\ "fetch" \in Faults
    /\ u \in todo[c]
    /\ fetched[c] = {}
    /\ todo' = [todo EXCEPT ![c] = @ \ {u}]
    /\ overlooked' = overlooked \cup ((Stale(u, c) \cup UserRoom(u)) \X {c})
    /\ UNCHANGED <<storeVars, user, phase, rooms, events, joining, fetched, told>>

\* A socket that left since it was fetched is no longer there to join.
JoinSocket(c, s) ==
    /\ s \in fetched[c]
    /\ fetched' = [fetched EXCEPT ![c] = @ \ {s}]
    /\ rooms' = IF Connected(s) THEN [rooms EXCEPT ![s] = @ \cup {c}] ELSE rooms
    /\ UNCHANGED <<storeVars, user, phase, events, joining, todo, told, overlooked>>

\* Logged; the loop continues with the next socket.
JoinFails(c, s) ==
    /\ "join" \in Faults
    /\ s \in fetched[c]
    /\ fetched' = [fetched EXCEPT ![c] = @ \ {s}]
    /\ overlooked' = overlooked \cup {<<s, c>>}
    /\ UNCHANGED <<storeVars, user, phase, rooms, events, joining, todo, told>>

\* A plausible slip: the joins not awaited.
MutNotAwaited(c) == TRUE

\* The loops are over: conversation.created goes to every participant's room.
JoinsOver(c) == todo[c] = {} /\ fetched[c] = {}

NotifyParticipants(c) ==
    /\ c \in joining
    /\ JoinsOver(c)
    /\ joining' = joining \ {c}
    /\ told' = [s \in Sockets |->
                  IF Connected(s) /\ user[s] \in members[c] THEN told[s] \cup {c} ELSE told[s]]
    /\ UNCHANGED <<storeVars, user, phase, rooms, events, todo, fetched, overlooked>>

----------------------------------------------------------------------------
\* The gateway process dies and restarts: its sockets and handlers are gone,
\* and so are the events the broker had already pushed to it, a prefix of the
\* queue; the rest waits.
Crash ==
    /\ "crash" \in Faults
    /\ \E pushed \in 0..Len(events) : events' = SubSeq(events, pushed + 1, Len(events))
    /\ phase' = [s \in Sockets |-> IF phase[s] = "new" THEN "new" ELSE "closed"]
    /\ rooms' = [s \in Sockets |-> {}]
    /\ joining' = {}
    /\ todo' = [c \in Ids |-> {}]
    /\ fetched' = [c \in Ids |-> {}]
    /\ UNCHANGED <<storeVars, user, told, overlooked>>

----------------------------------------------------------------------------
ChatService(c) ==
    \/ \E M \in SUBSET Registered, isPrivate \in BOOLEAN : CreateConversation(c, M, isPrivate)
    \/ AnnounceConversation(c)

Handshake(s) == Authenticate(s) \/ ListConversations(s) \/ ListFails(s) \/ Connect(s)

HandleCreated(c) ==
    \/ StartJoin(c)
    \/ \E u \in Registered : FetchSockets(c, u) \/ FetchFails(c, u)
    \/ \E s \in Sockets : JoinSocket(c, s) \/ JoinFails(c, s)
    \/ NotifyParticipants(c)

Next ==
    \/ \E c \in Ids : ChatService(c) \/ HandleCreated(c)
    \/ \E s \in Sockets : Handshake(s) \/ Reject(s) \/ Disconnect(s)
    \/ Crash

Spec == Init /\ [][Next]_vars

\* The gateway serves its handlers, handshakes that got past the token go on,
\* and the broker delivers.  Clients and the creation of conversations are free.
FairSpec ==
    /\ Spec
    /\ \A c \in Ids : WF_vars(HandleCreated(c))
    /\ \A s \in Sockets : WF_vars(ListConversations(s) \/ ListFails(s) \/ Connect(s))

----------------------------------------------------------------------------
\* Safety

\* The event of c is still to be handled as far as s is concerned.
InQueue(c) == \E i \in DOMAIN events : events[i] = c
Pending(s, c) == InQueue(c) \/ user[s] \in todo[c] \/ s \in fetched[c]

\* A socket is only ever in rooms of conversations its user participates in,
\* whichever of the handshake and the event handler put it there.
RoomsSound ==
    \A s \in Sockets : /\ rooms[s] \subseteq Conversations(user[s])
                       /\ rooms[s] # {} => phase[s] \in {"listed", "connected"}

\* A participant's socket that is outside a conversation's room either has an
\* announcement still to come for it, or is one of those its handler is known
\* to have overlooked: the handshake's list and the event's joins leave no
\* other gap, through crashes and failed joins.
RoomCoverage ==
    \A s \in Sockets, c \in Ids :
        phase[s] \in {"listed", "connected"} /\ user[s] \in members[c] /\ c \notin rooms[s]
        => c \notin announced \/ Pending(s, c) \/ <<s, c>> \in overlooked

\* A client is told of a conversation only after its socket was joined to the
\* room: emitConversationCreated awaits the joins before it emits.
NotifiedInRoom ==
    \A s \in Sockets, c \in Ids :
        Connected(s) /\ c \in told[s] => c \in rooms[s] \/ <<s, c>> \in overlooked

\* README.md: a socket joins its existing conversation rooms, and the
\* conversation-created event joins those already connected.  So once the
\* event of c is handled and nothing failed, no participant's socket is
\* outside the room.
InItsRooms ==
    \A s \in Sockets, c \in announced :
        Connected(s) /\ user[s] \in members[c] /\ ~InQueue(c) /\ c \notin joining
        => c \in rooms[s]

----------------------------------------------------------------------------
\* Liveness, under FairSpec

\* A connected participant is notified of a conversation whose event is in the
\* queue or being handled, unless it leaves: no failed fetch or join, and no
\* other handler, keeps a handler from reaching its emit.
NotificationArrives ==
    \A s \in Sockets, c \in Ids :
        (InQueue(c) \/ c \in joining) /\ Connected(s) /\ user[s] \in members[c]
        ~> c \in told[s] \/ ~Connected(s)
============================================================================
