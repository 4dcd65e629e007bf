------------------------- MODULE ChatMessagesProofs -------------------------
(***************************************************************************)
(* Proofs about ChatMessages, for any messages, conversations, sockets and *)
(* failures.  The rooms keep the invariant of ChatRoomsProofs, whose step  *)
(* lemmas allow messages in the queue; on top of it, where a message       *)
(* stands says whether it may be queued, emitted and acknowledged.         *)
(***************************************************************************)
EXTENDS ChatMessages, ChatRoomsProofs

\* A raw id stands for the ObjectId it is read as.
USE DEF Target, ToObjectId

RoomsInv == QueueInv /\ HandlerInv /\ ToldInv /\ RoomsSound /\ RoomCoverage /\ NotifiedInRoom

MessageInv(m) ==
    /\ stage[m] \in {"admitted", "stored", "replied"} \/ m \in persisted => IsParticipant(m)
    /\ stage[m] \in {"stored", "replied"} => m \in persisted
    /\ InQueue(m) => /\ stage[m] \in {"replied", "settled"}
                     /\ m \in persisted /\ casts[m] = 0 /\ ~ViaSocket(m)
    /\ casts[m] <= 1
    /\ casts[m] # 0 => /\ m \in persisted
                       /\ stage[m] \in {"replied", "settled"}
                       /\ ViaSocket(m) => stage[m] = "settled"
    /\ m \in acked => /\ m \in persisted /\ stage[m] = "settled"
                      /\ ViaSocket(m) => casts[m] = 1
    /\ m \in failed => /\ stage[m] = "settled" /\ m \notin acked
                       /\ casts[m] = 0 /\ ~InQueue(m)

InboxInv ==
    \A s \in Sockets : \A m \in inbox[s] :
        m \in persisted /\ user[s] \in members[Target(m)]

AllMessages == \A m \in Messages : MessageInv(m)

MInv == MessagesTypeOK /\ RoomsInv /\ AllMessages /\ InboxInv

Kinds == Ids \cup Messages

----------------------------------------------------------------------------
\* The rooms do not mind messages in the queue.

\* What changes of the rooms when a message is sent, at most, is the queue.
RestOfRooms == <<storeVars, user, phase, rooms, joining, todo, fetched, told, overlooked>>

\* The invariant of the rooms looks at the queue through its conversations.
LEMMA RoomsFixed ==
    ASSUME MessagesTypeOK, RoomsInv, UNCHANGED RestOfRooms, Distinct(events)',
           \A c \in Ids : InQueue(c)' <=> InQueue(c)
    PROVE  RoomsInv'
<1> USE DEF RestOfRooms, storeVars
<1>1. QueueInv'
  BY DEF RoomsInv, QueueInv, MessagesTypeOK, RoomsTypeOK
<1>2. HandlerInv'
  BY DEF RoomsInv, HandlerInv, JoinsOver
<1>3. ToldInv'
  BY DEF RoomsInv, ToldInv
<1>4. RoomsSound'
  BY DEF RoomsInv, RoomsSound, Conversations
<1>5. RoomCoverage'
  BY DEF RoomsInv, RoomCoverage, Pending
<1>6. NotifiedInRoom'
  BY DEF RoomsInv, NotifiedInRoom, Connected
<1> QED
  BY <1>1, <1>2, <1>3, <1>4, <1>5, <1>6 DEF RoomsInv

\* A step of the rooms keeps their invariant with messages in the queue.
LEMMA RoomsKept ==
    ASSUME MessagesTypeOK, RoomsInv, Next
    PROVE  RoomsTypeOK' /\ events' \in Seq(Kinds) /\ RoomsInv'
<1>1. Typed(Kinds) /\ Ids \subseteq Kinds
  BY DEF MessagesTypeOK, Typed, Kinds
<1> QED
  BY <1>1, TypeStep, QueueStep, HandlerStep, ToldStep, SoundStep, CoverageStep, NotifiedStep
  DEF RoomsInv, Typed

\* A step of the rooms queues no message, moves no socket to another user, and
\* takes no participant from a conversation.
LEMMA RoomsFootprint ==
    ASSUME MessagesTypeOK, RoomsInv, Next
    PROVE  /\ \A m \in Messages : InQueue(m)' => InQueue(m)
           /\ user' = user
           /\ \A c \in Ids : members[c] \subseteq members'[c]
<1>1. Typed(Kinds) /\ Ids \subseteq Kinds /\ Messages \subseteq Kinds /\ QueueInv
  BY DEF MessagesTypeOK, Typed, Kinds, RoomsInv
<1>2. user' = user
  BY DEF Next, ChatService, CreateConversation, roomVars, AnnounceConversation, HandleCreated,
     StartJoin, FetchSockets, FetchFails, JoinSocket, JoinFails, NotifyParticipants, Handshake,
     Authenticate, ListConversations, ListFails, Connect, Reject, Disconnect, Crash
<1>3. \A c \in Ids : members[c] \subseteq members'[c]
  <2>1. ASSUME NEW c \in Ids, NEW M, NEW p, CreateConversation(c, M, p)
        PROVE  \A d \in Ids : members[d] \subseteq members'[d]
    BY <2>1, <1>1 DEF CreateConversation, Create, Typed, RoomsTypeOK, StoreTypeOK
  <2>2. ASSUME UNCHANGED members PROVE \A d \in Ids : members[d] \subseteq members'[d]
    BY <2>2
  <2> QED
    BY <2>1, <2>2
    DEF Next, ChatService, AnnounceConversation, Announce, HandleCreated, storeVars,
     StartJoin, FetchSockets, FetchFails, JoinSocket, JoinFails, NotifyParticipants, Handshake,
     Authenticate, ListConversations, ListFails, Connect, Reject, Disconnect, Crash
<1>4. ASSUME NEW c \in Ids, AnnounceConversation(c)
      PROVE  \A m \in Messages : InQueue(m)' => InQueue(m)
  <2>1. events' = Append(events, c) /\ c \in Kinds /\ ~Holds(events, c)
    BY <1>1, <1>4 DEF AnnounceConversation, Announce, QueueInv, InQueue, Holds
  <2>2. \A d \in Kinds : Holds(events', d) <=> Holds(events, d) \/ d = c
    BY <1>1, <2>1, Appended DEF Typed, QueueInv
  <2> QED
    BY <1>1, <2>2, KindsAssumption DEF InQueue, Holds
<1>5. ASSUME NEW c \in Ids, StartJoin(c)
      PROVE  \A m \in Messages : InQueue(m)' => InQueue(m)
  <2>1. events' = Tail(events) /\ events # <<>>
    BY <1>5 DEF StartJoin
  <2>2. \A d \in Kinds : Holds(events', d) => Holds(events, d)
    BY <1>1, <2>1, Popped DEF Typed, QueueInv
  <2> QED
    BY <1>1, <2>2 DEF InQueue, Holds
<1>6. ASSUME Crash PROVE \A m \in Messages : InQueue(m)' => InQueue(m)
  <2>1. PICK k \in 0..Len(events) : events' = SubSeq(events, k + 1, Len(events))
    BY <1>6 DEF Crash
  <2>2. \A d \in Kinds : Holds(events', d) => Holds(events, d)
    BY <1>1, <2>1, Dropped DEF Typed, QueueInv
  <2> QED
    BY <1>1, <2>2 DEF InQueue, Holds
<1>7. ASSUME UNCHANGED events PROVE \A m \in Messages : InQueue(m)' => InQueue(m)
  BY <1>7 DEF InQueue
<1>8. \A m \in Messages : InQueue(m)' => InQueue(m)
  BY <1>4, <1>5, <1>6, <1>7
  DEF Next, ChatService, CreateConversation, roomVars, HandleCreated, FetchSockets, FetchFails,
     JoinSocket, JoinFails, NotifyParticipants, Handshake, Authenticate, ListConversations,
     ListFails, Connect, Reject, Disconnect
<1> QED
  BY <1>2, <1>3, <1>8

----------------------------------------------------------------------------
\* What a step of one message does to the queue.

\* A published message joins the queue; it was not in it.
LEMMA Published ==
    ASSUME MessagesTypeOK, RoomsInv, AllMessages, NEW m \in Messages, PublishMessage(m)
    PROVE  /\ RoomsTypeOK' /\ events' \in Seq(Kinds) /\ RoomsInv'
           /\ \A n \in Messages : InQueue(n)' => InQueue(n) \/ n = m
           /\ \A c \in Ids : InQueue(c)' <=> InQueue(c)
<1>1. events' = Append(events, m) /\ UNCHANGED RestOfRooms
  BY DEF PublishMessage, RestOfRooms
<1>2. events \in Seq(Kinds) /\ m \in Kinds /\ Distinct(events) /\ ~Holds(events, m)
  BY DEF MessagesTypeOK, Kinds, RoomsInv, QueueInv, AllMessages, MessageInv, PublishMessage,
         Advance, InQueue, Holds
<1>3. /\ events' \in Seq(Kinds) /\ Distinct(events')
      /\ \A d \in Kinds : Holds(events', d) <=> Holds(events, d) \/ d = m
  BY <1>1, <1>2, Appended
<1>4. \A c \in Ids : InQueue(c)' <=> InQueue(c)
  BY <1>3, KindsAssumption DEF InQueue, Holds, Kinds
<1>5. RoomsInv'
  BY <1>1, <1>3, <1>4, RoomsFixed DEF Distinct
<1>6. RoomsTypeOK'
  BY <1>1 DEF RestOfRooms, MessagesTypeOK, RoomsTypeOK, StoreTypeOK, storeVars
<1> QED
  BY <1>3, <1>4, <1>5, <1>6 DEF InQueue, Holds, Kinds

\* A consumed message leaves the queue, and was in it once.
LEMMA Consumed ==
    ASSUME MessagesTypeOK, RoomsInv, NEW m \in Messages, HandleMessageSent(m)
    PROVE  /\ RoomsTypeOK' /\ events' \in Seq(Kinds) /\ RoomsInv'
           /\ InQueue(m)
           /\ \A n \in Messages : InQueue(n)' => InQueue(n) /\ n # m
           /\ \A c \in Ids : InQueue(c)' <=> InQueue(c)
<1>1. events' = Tail(events) /\ events # <<>> /\ Head(events) = m /\ UNCHANGED RestOfRooms
  BY DEF HandleMessageSent, RestOfRooms
<1>2. events \in Seq(Kinds) /\ Distinct(events)
  BY DEF MessagesTypeOK, Kinds, RoomsInv, QueueInv
<1>3. /\ events' \in Seq(Kinds) /\ Distinct(events') /\ Holds(events, m)
      /\ \A d \in Kinds : Holds(events', d) <=> Holds(events, d) /\ d # m
  BY <1>1, <1>2, Popped
<1>4. \A c \in Ids : InQueue(c)' <=> InQueue(c)
  BY <1>3, KindsAssumption DEF InQueue, Holds, Kinds
<1>5. RoomsInv'
  BY <1>1, <1>3, <1>4, RoomsFixed DEF Distinct
<1>6. RoomsTypeOK'
  BY <1>1 DEF RestOfRooms, MessagesTypeOK, RoomsTypeOK, StoreTypeOK, storeVars
<1> QED
  BY <1>3, <1>4, <1>5, <1>6 DEF InQueue, Holds, Kinds

\* A step that leaves the rooms and their queue alone.
LEMMA RoomsIdle ==
    ASSUME MessagesTypeOK, RoomsInv, UNCHANGED vars
    PROVE  /\ RoomsTypeOK' /\ events' \in Seq(Kinds) /\ RoomsInv'
           /\ \A n : InQueue(n)' <=> InQueue(n)
<1>1. UNCHANGED RestOfRooms /\ UNCHANGED events
  BY DEF vars, roomVars, RestOfRooms
<1>2. Distinct(events)' /\ \A n : InQueue(n)' <=> InQueue(n)
  BY <1>1 DEF RoomsInv, QueueInv, Distinct, InQueue
<1>3. RoomsTypeOK' /\ events' \in Seq(Kinds)
  BY <1>1 DEF RestOfRooms, MessagesTypeOK, RoomsTypeOK, StoreTypeOK, storeVars, Kinds
<1> QED
  BY <1>1, <1>2, <1>3, RoomsFixed

----------------------------------------------------------------------------
\* A step of one message, cut into what it changes: the stage, then the queue
\* of events.
Idle(m) == \/ SendOverSocket(m) \/ SendOverHttp(m)
           \/ Refuse(m) \/ Admit(m) \/ Persist(m) \/ PersistFails(m) \/ SkipPublish(m)
           \/ AnswerSocket(m) \/ AnswerHttp(m) \/ AnswerError(m) \/ Drop(m)

\* Every such step leaves the rooms alone.
LEMMA IdleRooms ==
    ASSUME NEW m \in Messages, Idle(m)
    PROVE  UNCHANGED vars
BY DEF Idle, SendOverSocket, SendOverHttp, Refuse, Admit, Persist, PersistFails, SkipPublish,
       AnswerSocket, AnswerHttp, AnswerError, Drop

\* The next-state relation in these terms.
LEMMA Steps ==
    ASSUME MessagesNext
    PROVE  \/ Next /\ UNCHANGED messageVars
           \/ \E m \in Messages : Idle(m) \/ PublishMessage(m) \/ HandleMessageSent(m)
           \/ GatewayCrash
BY DEF MessagesNext, Rooms, Next, Serve, Idle

\* The rooms keep their types and their invariant in every step.
LEMMA RoomsStep ==
    ASSUME MessagesTypeOK, RoomsInv, AllMessages, [MessagesNext]_allVars
    PROVE  RoomsTypeOK' /\ events' \in Seq(Kinds) /\ RoomsInv'
<1>1. CASE Next
  BY <1>1, RoomsKept
<1>2. CASE UNCHANGED vars
  BY <1>2, RoomsIdle
<1>3. ASSUME NEW m \in Messages, PublishMessage(m) \/ HandleMessageSent(m)
      PROVE  RoomsTypeOK' /\ events' \in Seq(Kinds) /\ RoomsInv'
  BY <1>3, Published, Consumed
<1>4. GatewayCrash => Next
  BY DEF GatewayCrash, Next
<1> QED
  BY <1>1, <1>2, <1>3, <1>4, Steps, IdleRooms DEF allVars

\* The types of what messages add to the rooms.
OwnTypes ==
    /\ draft \in [Messages -> Drafts]
    /\ stage \in [Messages -> Stages]
    /\ awaiting \subseteq Messages /\ persisted \subseteq Messages
    /\ casts \in [Messages -> Nat]
    /\ inbox \in [Sockets -> SUBSET Messages]
    /\ acked \subseteq Messages /\ failed \subseteq Messages

\* Every step keeps them.
LEMMA OwnTypesStep ==
    ASSUME MessagesTypeOK, [MessagesNext]_allVars
    PROVE  OwnTypes'
<1>1. OwnTypes
  BY DEF MessagesTypeOK, OwnTypes
<1>2. ASSUME NEW m \in Messages, SendOverSocket(m) PROVE OwnTypes'
  BY <1>1, <1>2 DEF SendOverSocket, OwnTypes, Advance, Stages, answers
<1>3. ASSUME NEW m \in Messages, SendOverHttp(m) PROVE OwnTypes'
  BY <1>1, <1>3 DEF SendOverHttp, OwnTypes, Advance, Stages, answers
<1>4. ASSUME NEW m \in Messages, Refuse(m) PROVE OwnTypes'
  BY <1>1, <1>4 DEF Refuse, OwnTypes, Advance, Stages, answers
<1>5. ASSUME NEW m \in Messages, Admit(m) PROVE OwnTypes'
  BY <1>1, <1>5 DEF Admit, OwnTypes, Advance, Stages, answers
<1>6. ASSUME NEW m \in Messages, Persist(m) PROVE OwnTypes'
  BY <1>1, <1>6 DEF Persist, OwnTypes, Advance, Stages, answers
<1>7. ASSUME NEW m \in Messages, PersistFails(m) PROVE OwnTypes'
  BY <1>1, <1>7 DEF PersistFails, OwnTypes, Advance, Stages, answers
<1>8. ASSUME NEW m \in Messages, SkipPublish(m) PROVE OwnTypes'
  BY <1>1, <1>8 DEF SkipPublish, OwnTypes, Advance, Stages, answers
<1>9. ASSUME NEW m \in Messages, AnswerSocket(m) PROVE OwnTypes'
  BY <1>1, <1>9 DEF AnswerSocket, OwnTypes, Advance, Stages, Broadcast, answers
<1>10. ASSUME NEW m \in Messages, AnswerHttp(m) PROVE OwnTypes'
  BY <1>1, <1>10 DEF AnswerHttp, OwnTypes, Advance, Stages, answers
<1>11. ASSUME NEW m \in Messages, AnswerError(m) PROVE OwnTypes'
  BY <1>1, <1>11 DEF AnswerError, OwnTypes, Advance, Stages, answers
<1>12. ASSUME NEW m \in Messages, Drop(m) PROVE OwnTypes'
  BY <1>1, <1>12 DEF Drop, OwnTypes, Advance, Stages, answers
<1>13. ASSUME NEW m \in Messages, PublishMessage(m) PROVE OwnTypes'
  BY <1>1, <1>13 DEF PublishMessage, OwnTypes, Advance, Stages, answers
<1>14. ASSUME NEW m \in Messages, HandleMessageSent(m) PROVE OwnTypes'
  BY <1>1, <1>14 DEF HandleMessageSent, OwnTypes, Broadcast, answers
<1>15. CASE UNCHANGED messageVars
  BY <1>1, <1>15 DEF messageVars, OwnTypes
<1>16. CASE GatewayCrash
  BY <1>1, <1>16 DEF GatewayCrash, OwnTypes, answers
<1> QED
  BY <1>2, <1>3, <1>4, <1>5, <1>6, <1>7, <1>8, <1>9, <1>10, <1>11, <1>12, <1>13, <1>14, <1>15,
      <1>16,
      Steps DEF Idle, allVars

----------------------------------------------------------------------------
\* A message the step is not about: only the queue may have moved.
LEMMA Untouched ==
    ASSUME MessagesTypeOK, NEW n \in Messages, MessageInv(n),
           UNCHANGED draft, stage'[n] = stage[n], casts'[n] = casts[n],
           n \in persisted' <=> n \in persisted,
           n \in acked' <=> n \in acked, n \in failed' <=> n \in failed,
           InQueue(n)' => InQueue(n),
           \A c \in Ids : members[c] \subseteq members'[c]
    PROVE  MessageInv(n)'
<1>1. Target(n) \in Ids
  BY DEF MessagesTypeOK, Drafts, RawIds
<1> QED
  BY <1>1 DEF MessageInv, IsParticipant, ViaSocket

\* Every step keeps a message's place in line with its queue and its answers.
LEMMA MessagesStep ==
    ASSUME MessagesTypeOK, RoomsInv, AllMessages, [MessagesNext]_allVars
    PROVE  AllMessages'
<1> DEFINE Grows == \A c \in Ids : members[c] \subseteq members'[c]
<1>1. ASSUME UNCHANGED <<draft, stage, persisted, casts, acked, failed>>, Grows,
             \A n \in Messages : InQueue(n)' => InQueue(n)
      PROVE  AllMessages'
  BY <1>1, Untouched DEF AllMessages
<1>2. CASE Next /\ UNCHANGED messageVars
  BY <1>1, <1>2, RoomsFootprint DEF messageVars
<1>3. CASE GatewayCrash
  <2>1. Next
    BY <1>3 DEF GatewayCrash, Next
  <2> QED
    BY <1>1, <1>3, <2>1, RoomsFootprint DEF GatewayCrash, answers
<1>4. CASE UNCHANGED allVars
  BY <1>1, <1>4 DEF allVars, messageVars, vars, roomVars, storeVars, InQueue
<1>5. ASSUME NEW m \in Messages, Idle(m) PROVE AllMessages'
  <2>1. /\ UNCHANGED <<members, user, draft>>
        /\ \A n \in Messages : InQueue(n)' <=> InQueue(n)
    BY <1>5, IdleRooms, RoomsIdle
    DEF vars, roomVars, storeVars, Idle, SendOverSocket, SendOverHttp, Refuse, Admit, Persist,
        PersistFails, SkipPublish, AnswerSocket, AnswerHttp, AnswerError, Drop
  <2>2. MessageInv(m)
    BY DEF AllMessages
  <2>3. CASE SendOverSocket(m)
    <3>1. MessageInv(m)'
      BY <2>1, <2>2, <2>3 DEF SendOverSocket, MessageInv, MessagesTypeOK, Advance, ViaSocket,
      IsParticipant, answers
    <3>2. ASSUME NEW n \in Messages, n # m PROVE MessageInv(n)'
      BY <2>1, <2>3, <3>2, Untouched DEF AllMessages, SendOverSocket, MessagesTypeOK, Advance,
      answers
    <3> QED
      BY <3>1, <3>2 DEF AllMessages
  <2>4. CASE SendOverHttp(m)
    <3>1. MessageInv(m)'
      BY <2>1, <2>2, <2>4 DEF SendOverHttp, MessageInv, MessagesTypeOK, Advance, ViaSocket,
      IsParticipant, answers
    <3>2. ASSUME NEW n \in Messages, n # m PROVE MessageInv(n)'
      BY <2>1, <2>4, <3>2, Untouched DEF AllMessages, SendOverHttp, MessagesTypeOK, Advance,
      answers
    <3> QED
      BY <3>1, <3>2 DEF AllMessages
  <2>5. CASE Refuse(m)
    <3>1. MessageInv(m)'
      BY <2>1, <2>2, <2>5 DEF Refuse, MessageInv, MessagesTypeOK, Advance, ViaSocket,
      IsParticipant, answers
    <3>2. ASSUME NEW n \in Messages, n # m PROVE MessageInv(n)'
      BY <2>1, <2>5, <3>2, Untouched DEF AllMessages, Refuse, MessagesTypeOK, Advance, answers
    <3> QED
      BY <3>1, <3>2 DEF AllMessages
  <2>6. CASE Admit(m)
    <3>1. MessageInv(m)'
      BY <2>1, <2>2, <2>6 DEF Admit, MessageInv, MessagesTypeOK, Advance, ViaSocket,
      IsParticipant, answers
    <3>2. ASSUME NEW n \in Messages, n # m PROVE MessageInv(n)'
      BY <2>1, <2>6, <3>2, Untouched DEF AllMessages, Admit, MessagesTypeOK, Advance, answers
    <3> QED
      BY <3>1, <3>2 DEF AllMessages
  <2>7. CASE Persist(m)
    <3>1. MessageInv(m)'
      BY <2>1, <2>2, <2>7 DEF Persist, MessageInv, MessagesTypeOK, Advance, ViaSocket,
      IsParticipant, answers
    <3>2. ASSUME NEW n \in Messages, n # m PROVE MessageInv(n)'
      BY <2>1, <2>7, <3>2, Untouched DEF AllMessages, Persist, MessagesTypeOK, Advance, answers
    <3> QED
      BY <3>1, <3>2 DEF AllMessages
  <2>8. CASE PersistFails(m)
    <3>1. MessageInv(m)'
      BY <2>1, <2>2, <2>8 DEF PersistFails, MessageInv, MessagesTypeOK, Advance, ViaSocket,
      IsParticipant, answers
    <3>2. ASSUME NEW n \in Messages, n # m PROVE MessageInv(n)'
      BY <2>1, <2>8, <3>2, Untouched DEF AllMessages, PersistFails, MessagesTypeOK, Advance,
      answers
    <3> QED
      BY <3>1, <3>2 DEF AllMessages
  <2>9. CASE SkipPublish(m)
    <3>1. MessageInv(m)'
      BY <2>1, <2>2, <2>9 DEF SkipPublish, MessageInv, MessagesTypeOK, Advance, ViaSocket,
      IsParticipant, answers, Publishes
    <3>2. ASSUME NEW n \in Messages, n # m PROVE MessageInv(n)'
      BY <2>1, <2>9, <3>2, Untouched DEF AllMessages, SkipPublish, MessagesTypeOK, Advance,
      answers
    <3> QED
      BY <3>1, <3>2 DEF AllMessages
  <2>10. CASE AnswerSocket(m)
    <3>1. MessageInv(m)'
      BY <2>1, <2>2, <2>10 DEF AnswerSocket, MessageInv, MessagesTypeOK, Advance, ViaSocket,
      IsParticipant, answers, Broadcast
    <3>2. ASSUME NEW n \in Messages, n # m PROVE MessageInv(n)'
      BY <2>1, <2>10, <3>2, Untouched DEF AllMessages, AnswerSocket, MessagesTypeOK, Advance,
      answers, Broadcast
    <3> QED
      BY <3>1, <3>2 DEF AllMessages
  <2>11. CASE AnswerHttp(m)
    <3>1. MessageInv(m)'
      BY <2>1, <2>2, <2>11 DEF AnswerHttp, MessageInv, MessagesTypeOK, Advance, ViaSocket,
      IsParticipant, answers
    <3>2. ASSUME NEW n \in Messages, n # m PROVE MessageInv(n)'
      BY <2>1, <2>11, <3>2, Untouched DEF AllMessages, AnswerHttp, MessagesTypeOK, Advance,
      answers
    <3> QED
      BY <3>1, <3>2 DEF AllMessages
  <2>12. CASE AnswerError(m)
    <3>1. MessageInv(m)'
      BY <2>1, <2>2, <2>12 DEF AnswerError, MessageInv, MessagesTypeOK, Advance, ViaSocket,
      IsParticipant, answers
    <3>2. ASSUME NEW n \in Messages, n # m PROVE MessageInv(n)'
      BY <2>1, <2>12, <3>2, Untouched DEF AllMessages, AnswerError, MessagesTypeOK, Advance,
      answers
    <3> QED
      BY <3>1, <3>2 DEF AllMessages
  <2>13. CASE Drop(m)
    <3>1. MessageInv(m)'
      BY <2>1, <2>2, <2>13 DEF Drop, MessageInv, MessagesTypeOK, Advance, ViaSocket,
      IsParticipant, answers
    <3>2. ASSUME NEW n \in Messages, n # m PROVE MessageInv(n)'
      BY <2>1, <2>13, <3>2, Untouched DEF AllMessages, Drop, MessagesTypeOK, Advance, answers
    <3> QED
      BY <3>1, <3>2 DEF AllMessages
  <2> QED
    BY <1>5, <2>3, <2>4, <2>5, <2>6, <2>7, <2>8, <2>9, <2>10, <2>11, <2>12, <2>13 DEF Idle
<1>6. ASSUME NEW m \in Messages, PublishMessage(m) PROVE AllMessages'
  <2>1. /\ UNCHANGED <<members, user, draft>>
        /\ \A n \in Messages : InQueue(n)' => InQueue(n) \/ n = m
    BY <1>6, Published DEF PublishMessage, storeVars
  <2>2. MessageInv(m)
    BY DEF AllMessages
  <2>3. MessageInv(m)'
    BY <1>6, <2>1, <2>2 DEF PublishMessage, MessageInv, MessagesTypeOK, ViaSocket, IsParticipant,
      answers, Advance, Publishes
  <2>4. ASSUME NEW n \in Messages, n # m PROVE MessageInv(n)'
    BY <1>6, <2>1, <2>4, Untouched DEF AllMessages, PublishMessage, MessagesTypeOK, answers,
      Advance
  <2> QED
    BY <2>3, <2>4 DEF AllMessages
<1>7. ASSUME NEW m \in Messages, HandleMessageSent(m) PROVE AllMessages'
  <2>1. /\ UNCHANGED <<members, user, draft>>
        /\ \A n \in Messages : InQueue(n)' => InQueue(n) /\ n # m
        /\ InQueue(m)
    BY <1>7, Consumed DEF HandleMessageSent, storeVars
  <2>2. MessageInv(m)
    BY DEF AllMessages
  <2>3. MessageInv(m)'
    BY <1>7, <2>1, <2>2 DEF HandleMessageSent, MessageInv, MessagesTypeOK, ViaSocket,
      IsParticipant, answers, Broadcast
  <2>4. ASSUME NEW n \in Messages, n # m PROVE MessageInv(n)'
    BY <1>7, <2>1, <2>4, Untouched DEF AllMessages, HandleMessageSent, MessagesTypeOK, answers,
      Broadcast
  <2> QED
    BY <2>3, <2>4 DEF AllMessages
<1> QED
  BY <1>2, <1>3, <1>4, <1>5, <1>6, <1>7, Steps

----------------------------------------------------------------------------
\* Only two steps emit, and both emit to the room as it is at that moment.
LEMMA Emits ==
    ASSUME MessagesTypeOK, RoomsInv, AllMessages, [MessagesNext]_allVars
    PROVE  \/ UNCHANGED <<casts, inbox>>
           \/ \E m \in Messages :
                /\ Broadcast(m) /\ m \in persisted /\ m \in persisted'
                /\ UNCHANGED <<members, user, draft>>
<1>1. CASE UNCHANGED allVars
  BY <1>1 DEF allVars, messageVars
<1>2. ASSUME NEW m \in Messages, AnswerSocket(m)
      PROVE  Broadcast(m) /\ m \in persisted /\ m \in persisted' /\ UNCHANGED <<members, user, draft>>
  BY <1>2 DEF AnswerSocket, Advance, AllMessages, MessageInv, vars, roomVars, storeVars
<1>3. ASSUME NEW m \in Messages, HandleMessageSent(m)
      PROVE  Broadcast(m) /\ m \in persisted /\ m \in persisted' /\ UNCHANGED <<members, user, draft>>
  BY <1>3, Consumed DEF HandleMessageSent, AllMessages, MessageInv, storeVars
<1>4. CASE MessagesNext
  BY <1>2, <1>3, <1>4
  DEF MessagesNext, Serve, messageVars, SendOverSocket, SendOverHttp, Refuse, Admit, Persist,
      PersistFails, PublishMessage, SkipPublish, AnswerHttp, AnswerError, Drop, GatewayCrash
<1> QED
  BY <1>1, <1>4

\* Messages stay stored and participants stay participants.
LEMMA Grows ==
    ASSUME MessagesTypeOK, RoomsInv, [MessagesNext]_allVars
    PROVE  /\ persisted \subseteq persisted'
           /\ UNCHANGED <<user, draft>>
           /\ \A c \in Ids : members[c] \subseteq members'[c]
<1>1. CASE Next /\ (UNCHANGED messageVars \/ GatewayCrash)
  BY <1>1, RoomsFootprint DEF messageVars, GatewayCrash
<1>2. ASSUME NEW m \in Messages, Idle(m)
      PROVE  persisted \subseteq persisted' /\ UNCHANGED <<user, draft, members>>
  BY <1>2, IdleRooms
  DEF vars, roomVars, storeVars, Idle, SendOverSocket, SendOverHttp, Refuse, Admit, Persist,
      PersistFails, SkipPublish, AnswerSocket, AnswerHttp, AnswerError, Drop
<1>3. ASSUME NEW m \in Messages, PublishMessage(m) \/ HandleMessageSent(m)
      PROVE  persisted \subseteq persisted' /\ UNCHANGED <<user, draft, members>>
  BY <1>3 DEF PublishMessage, HandleMessageSent, storeVars
<1>4. CASE UNCHANGED allVars
  BY <1>4 DEF allVars, messageVars, vars, roomVars, storeVars
<1>5. GatewayCrash => Next
  BY DEF GatewayCrash, Next
<1> QED
  BY <1>1, <1>2, <1>3, <1>4, <1>5, Steps

\* Sockets are only in rooms named by toString().
LEMMA RoomOf ==
    ASSUME NEW raw, NEW s \in RoomNamed(raw)
    PROVE  raw.id \in Ids /\ raw = ToHexString(raw.id) /\ s \in ConversationRoom(raw.id)
<1>1. PICK c \in Ids : ToHexString(c) = raw /\ s \in ConversationRoom(c)
  BY DEF RoomNamed
<1>2. raw.id = c
  BY <1>1 DEF ToHexString
<1> QED
  BY <1>1, <1>2

\* Every step delivers stored messages to participants only.
LEMMA InboxStep ==
    ASSUME MInv, [MessagesNext]_allVars
    PROVE  InboxInv'
<1> USE DEF MInv
<1>1. \A m \in Messages : Target(m) \in Ids
  BY DEF MessagesTypeOK, Drafts, RawIds
<1>2. ASSUME NEW s \in Sockets, NEW m \in inbox[s]
      PROVE  m \in Messages /\ m \in persisted' /\ user'[s] \in members'[Target(m)']
  BY <1>1, Grows DEF InboxInv, MessagesTypeOK
<1>3. CASE UNCHANGED <<casts, inbox>>
  BY <1>2, <1>3 DEF InboxInv
<1>4. ASSUME NEW m \in Messages, Broadcast(m), m \in persisted',
             UNCHANGED <<members, user, draft>>
      PROVE  InboxInv'
  <2>1. \A s \in RoomNamed(draft[m].conversationId) : user[s] \in members[Target(m)]
    BY RoomOf DEF ConversationRoom, RoomsInv, RoomsSound, Conversations
  <2> QED
    BY <1>2, <1>4, <2>1 DEF Broadcast, InboxInv
<1> QED
  BY <1>3, <1>4, Emits

----------------------------------------------------------------------------
\* Everything MInv says holds when the system starts.
LEMMA MessagesStart ==
    ASSUME MessagesInit
    PROVE  MInv
<1>1. Init /\ events = <<>> /\ events \in Seq(Kinds)
  BY DEF MessagesInit, Init
<1>2. IInv
  BY <1>1, Start
<1>3. MessagesTypeOK
  BY <1>1, <1>2 DEF IInv, TypeOK, MessagesInit, MessagesTypeOK, Stages, Kinds
<1>4. AllMessages
  BY <1>1 DEF AllMessages, MessageInv, MessagesInit, InQueue
<1> QED
  BY <1>2, <1>3, <1>4 DEF MInv, IInv, RoomsInv, InboxInv, MessagesInit

\* The invariant of the composition: what is said of a message follows from
\* its stage and the queue, and of its readers from the rooms.
THEOREM MessagesInvariant == MessagesSpec => []MInv
<1>1. MessagesInit => MInv
  BY MessagesStart
<1>2. MInv /\ [MessagesNext]_allVars => MInv'
  <2> SUFFICES ASSUME MInv, [MessagesNext]_allVars PROVE MInv'
    OBVIOUS
  <2>1. MessagesTypeOK'
    BY RoomsStep, OwnTypesStep DEF MInv, OwnTypes, MessagesTypeOK, Kinds
  <2> QED
    BY <2>1, RoomsStep, MessagesStep, InboxStep DEF MInv
<1> QED
  BY <1>1, <1>2, PTL DEF MessagesSpec

\* Every state of the composition is of its type.
THEOREM MessagesTypeCorrect == MessagesSpec => []MessagesTypeOK
BY MessagesInvariant, PTL DEF MInv

\* Only a participant's message is stored, and only participants are given it,
\* for any interleaving of handshakes, joins, crashes and sends.
THEOREM DeliveryIsSound == MessagesSpec => []DeliverySound
<1>1. MInv => DeliverySound
  BY DEF MInv, DeliverySound, AllMessages, MessageInv, IsParticipant, InboxInv, MessagesTypeOK
<1> QED
  BY <1>1, MessagesInvariant, PTL

\* No message is emitted twice, by one route or by both.
THEOREM NoDuplicates == MessagesSpec => []SingleBroadcast
<1>1. MInv => SingleBroadcast
  BY DEF MInv, SingleBroadcast, AllMessages, MessageInv
<1> QED
  BY <1>1, MessagesInvariant, PTL

\* What a sender is told is what happened to its message.
THEOREM TruthfulAnswers == MessagesSpec => []AnswerTruth
<1>1. MInv => AnswerTruth
  BY DEF MInv, AnswerTruth, AllMessages, MessageInv, MessagesTypeOK
<1> QED
  BY <1>1, MessagesInvariant, PTL

\* A participant told of a conversation and in its room gets every message
\* emitted to the id it was told: being told implies having been joined to the
\* room of that name.
THEOREM NothingMissed == MessagesSpec => NothingMissedInRoom
<1> DEFINE Delivered ==
      \A m \in Messages : casts'[m] > casts[m] =>
         \A s \in Sockets : \A c \in told[s] :
            /\ Connected(s)
            /\ <<s, c>> \notin overlooked
            /\ draft[m].conversationId = ToHexString(c)
            => m \in inbox'[s]
<1>1. MInv /\ [MessagesNext]_allVars => Delivered
  <2> SUFFICES ASSUME MInv, [MessagesNext]_allVars,
                      NEW m \in Messages, casts'[m] > casts[m],
                      NEW s \in Sockets, NEW c \in told[s], Connected(s),
                      <<s, c>> \notin overlooked,
                      draft[m].conversationId = ToHexString(c)
               PROVE  m \in inbox'[s]
    OBVIOUS
  <2>1. casts \in [Messages -> Nat] /\ c \in Ids
    BY DEF MInv, MessagesTypeOK, RoomsTypeOK
  <2>2. Broadcast(m)
    <3>1. PICK n \in Messages : Broadcast(n)
      BY <2>1, Emits DEF MInv
    <3>2. n = m
      BY <2>1, <3>1 DEF Broadcast
    <3> QED
      BY <3>1, <3>2
  <2>3. s \in RoomNamed(draft[m].conversationId)
    BY <2>1 DEF MInv, RoomsInv, NotifiedInRoom, ConversationRoom, RoomNamed
  <2> QED
    BY <2>2, <2>3 DEF Broadcast
<1> QED
  BY <1>1, MessagesInvariant, PTL DEF MessagesSpec, NothingMissedInRoom

\* Whatever a client is told of it, a message sent in another spelling of its
\* conversation's id is in nobody's inbox: no socket is in the room it names.
THEOREM SpellingNamesRoom ==
    MessagesSpec => []\A m \in Messages, s \in Sockets :
                        m \in inbox[s] => draft[m].conversationId = ToHexString(Target(m))
<1> DEFINE Spelled == \A m \in Messages, s \in Sockets :
                        m \in inbox[s] => draft[m].conversationId = ToHexString(Target(m))
<1>1. MessagesInit => Spelled
  BY DEF MessagesInit
<1>2. MInv /\ Spelled /\ [MessagesNext]_allVars => Spelled'
  <2> SUFFICES ASSUME MInv, Spelled, [MessagesNext]_allVars,
                      NEW m \in Messages, NEW s \in Sockets, m \in inbox'[s]
               PROVE  draft[m].conversationId = ToHexString(Target(m)) /\ UNCHANGED draft
    BY DEF ToHexString
  <2>1. UNCHANGED draft
    BY Grows DEF MInv
  <2>2. CASE m \in inbox[s]
    BY <2>1, <2>2
  <2>3. CASE m \notin inbox[s]
    <3>1. PICK n \in Messages : Broadcast(n)
      BY <2>3, Emits DEF MInv
    <3>2. n = m /\ s \in RoomNamed(draft[m].conversationId)
      BY <2>3, <3>1 DEF Broadcast, MInv, MessagesTypeOK
    <3> QED
      BY <2>1, <3>2, RoomOf
  <2> QED
    BY <2>2, <2>3, <2>1
<1> QED
  BY <1>1, <1>2, MessagesInvariant, PTL DEF MessagesSpec

----------------------------------------------------------------------------
\* What becomes of every message that was sent.

\* Its sender is answered or owed an answer, or gone; and once the chat service
\* is done with a message that came over HTTP, its event is queued or it was
\* emitted, unless emitting failed or the gateway died.
OwedInv(m) ==
    stage[m] # "unsent" =>
        /\ ViaSocket(m) => phase[draft[m].route] \in {"connected", "closed"}
        /\ \/ m \in acked \cup failed
           \/ m \in awaiting /\ stage[m] \in Underway
           \/ stage[m] = "lost"
           \/ IF ViaSocket(m) THEN SenderGone(m) ELSE "crash" \in Faults
        /\ ~ViaSocket(m) /\ stage[m] \in {"replied", "settled"} =>
             \/ m \in failed
             \/ InQueue(m) \/ casts[m] = 1
             \/ "publish" \in MessageFaults \/ "crash" \in Faults

AllOwed == \A m \in Messages : OwedInv(m)

\* What HttpSendBroadcast says of a message, without fairness: while the gateway
\* lives, its sender is answered or owed an answer, and once acknowledged it
\* was emitted or is queued for it, unless its event was never emitted.
HttpAccounted ==
    "crash" \notin Faults =>
        \A m \in Messages :
            stage[m] # "unsent" /\ ~ViaSocket(m) =>
                /\ \/ m \in acked \cup failed
                   \/ m \in awaiting /\ stage[m] \in Underway
                   \/ stage[m] = "lost"
                /\ m \in acked =>
                     InQueue(m) \/ casts[m] = 1 \/ "publish" \in MessageFaults


\* A socket that connected stays connected or is closed for good, and a crash
\* closes it.
LEMMA PhasesForward ==
    ASSUME MessagesTypeOK, [MessagesNext]_allVars, NEW s \in Sockets
    PROVE  /\ phase[s] \in {"connected", "closed"} => phase'[s] \in {"connected", "closed"}
           /\ phase[s] = "closed" => phase'[s] = "closed"
           /\ GatewayCrash /\ phase[s] \in {"connected", "closed"} => phase'[s] = "closed"
<1>1. phase \in [Sockets -> Phases]
  BY DEF MessagesTypeOK, RoomsTypeOK
<1>2. GatewayCrash => phase' = [t \in Sockets |-> IF phase[t] = "new" THEN "new" ELSE "closed"]
  BY DEF GatewayCrash, Crash
<1>3. Next => \/ UNCHANGED phase
              \/ GatewayCrash
              \/ phase' = [t \in Sockets |-> IF phase[t] = "new" THEN "new" ELSE "closed"]
              \/ \E t \in Sockets : Handshake(t) \/ Reject(t) \/ Disconnect(t)
  BY DEF Next, ChatService, CreateConversation, roomVars, AnnounceConversation, HandleCreated,
     StartJoin, FetchSockets, FetchFails, JoinSocket, JoinFails, NotifyParticipants, Crash
<1>4. ASSUME NEW t \in Sockets, Handshake(t) \/ Reject(t) \/ Disconnect(t)
      PROVE  /\ phase[s] \in {"connected", "closed"} => phase'[s] \in {"connected", "closed"}
             /\ phase[s] = "closed" => phase'[s] = "closed"
  BY <1>1, <1>4 DEF Handshake, Authenticate, ListConversations, ListFails, Connect, Reject,
     Disconnect
<1>5. ASSUME NEW m \in Messages, PublishMessage(m) \/ HandleMessageSent(m)
      PROVE  UNCHANGED phase
  BY <1>5 DEF PublishMessage, HandleMessageSent
<1>6. UNCHANGED vars => UNCHANGED phase
  BY DEF vars, roomVars
<1> QED
  BY <1>1, <1>2, <1>3, <1>4, <1>5, <1>6, Steps, IdleRooms DEF allVars

\* A queued message stays queued until it is emitted, while the gateway lives.
LEMMA QueueKeeps ==
    ASSUME MessagesTypeOK, RoomsInv, AllMessages, [MessagesNext]_allVars,
           "crash" \notin Faults, NEW m \in Messages, InQueue(m)
    PROVE  InQueue(m)' \/ HandleMessageSent(m)
<1>1. /\ events \in Seq(Kinds) /\ Distinct(events) /\ Ids \subseteq Kinds /\ m \in Kinds
      /\ m \notin Ids
  BY KindsAssumption DEF MessagesTypeOK, RoomsInv, QueueInv, Kinds
<1>2. ASSUME UNCHANGED events PROVE InQueue(m)'
  BY <1>2 DEF InQueue
<1>3. ASSUME NEW c \in Ids, AnnounceConversation(c) PROVE InQueue(m)'
  <2>1. events' = Append(events, c) /\ c \in Kinds /\ ~Holds(events, c)
    BY <1>1, <1>3 DEF AnnounceConversation, Announce, RoomsInv, QueueInv, InQueue, Holds
  <2>2. Holds(events', m) <=> Holds(events, m) \/ m = c
    BY <1>1, <2>1, Appended
  <2> QED
    BY <2>2 DEF InQueue, Holds
<1>4. ASSUME NEW c \in Ids, StartJoin(c) PROVE InQueue(m)'
  <2>1. events' = Tail(events) /\ events # <<>> /\ Head(events) = c
    BY <1>4 DEF StartJoin
  <2>2. Holds(events', m) <=> Holds(events, m) /\ m # c
    BY <1>1, <2>1, Popped
  <2> QED
    BY <1>1, <2>2 DEF InQueue, Holds
<1>5. ASSUME NEW n \in Messages, PublishMessage(n) PROVE InQueue(m)'
  <2>1. events' = Append(events, n) /\ n \in Kinds /\ ~Holds(events, n)
    BY <1>5 DEF PublishMessage, Advance, AllMessages, MessageInv, InQueue, Holds, Kinds
  <2>2. Holds(events', m) <=> Holds(events, m) \/ m = n
    BY <1>1, <2>1, Appended
  <2> QED
    BY <2>2 DEF InQueue, Holds
<1>6. ASSUME NEW n \in Messages, n # m, HandleMessageSent(n) PROVE InQueue(m)'
  <2>1. events' = Tail(events) /\ events # <<>> /\ Head(events) = n
    BY <1>6 DEF HandleMessageSent
  <2>2. Holds(events', m) <=> Holds(events, m) /\ m # n
    BY <1>1, <2>1, Popped
  <2> QED
    BY <1>6, <2>2 DEF InQueue, Holds
<1>7. Next => \/ UNCHANGED events
              \/ \E c \in Ids : AnnounceConversation(c) \/ StartJoin(c)
  BY DEF Next, ChatService, CreateConversation, roomVars, HandleCreated, FetchSockets, FetchFails,
     JoinSocket, JoinFails, NotifyParticipants, Handshake, Authenticate, ListConversations,
     ListFails, Connect, Reject, Disconnect, Crash
<1>8. ~GatewayCrash
  BY DEF GatewayCrash, Crash
<1>9. UNCHANGED vars => UNCHANGED events
  BY DEF vars, roomVars
<1> QED
  BY <1>2, <1>3, <1>4, <1>5, <1>6, <1>7, <1>8, <1>9, Steps, IdleRooms DEF allVars

\* What is queued or emitted stays queued or emitted, while the gateway lives.
LEMMA EmissionKeeps ==
    ASSUME MInv, [MessagesNext]_allVars, NEW m \in Messages, InQueue(m) \/ casts[m] = 1
    PROVE  InQueue(m)' \/ casts'[m] = 1 \/ "crash" \in Faults
<1>1. /\ casts \in [Messages -> Nat] /\ casts[m] <= 1
      /\ AllMessages' /\ OwnTypes'
  BY MessagesStep, OwnTypesStep DEF MInv, MessagesTypeOK, AllMessages, MessageInv
<1>2. casts' \in [Messages -> Nat] /\ casts'[m] <= 1
  BY <1>1 DEF AllMessages, MessageInv, OwnTypes
<1>3. CASE casts[m] = 1
  <2>1. casts'[m] >= casts[m]
    BY <1>1, <1>2, Emits DEF MInv, Broadcast
  <2> QED
    BY <1>2, <1>3, <2>1
<1>4. CASE HandleMessageSent(m)
  <2>1. casts'[m] = casts[m] + 1
    BY <1>1, <1>4 DEF HandleMessageSent, Broadcast
  <2> QED
    BY <1>1, <1>2, <2>1
<1> QED
  BY <1>3, <1>4, QueueKeeps DEF MInv

\* Every step leaves every message accounted for.
LEMMA OwedStep ==
    ASSUME MInv, AllOwed, [MessagesNext]_allVars
    PROVE  AllOwed'
<1> SUFFICES ASSUME NEW m \in Messages PROVE OwedInv(m)'
  BY DEF AllOwed
<1>1. OwedInv(m) /\ MessageInv(m)
  BY DEF AllOwed, MInv, AllMessages
<1>2. /\ draft' = draft
      /\ ViaSocket(m) => draft[m].route \in Sockets
      /\ ViaSocket(m)' <=> ViaSocket(m)
  BY Grows DEF MInv, MessagesTypeOK, Drafts, ViaSocket
<1>3. ViaSocket(m) /\ phase[draft[m].route] \in {"connected", "closed"}
        => /\ phase'[draft[m].route] \in {"connected", "closed"}
           /\ SenderGone(m) \/ GatewayCrash => SenderGone(m)'
  BY <1>2, PhasesForward DEF MInv, SenderGone, Connected
<1>4. ASSUME stage'[m] = stage[m], acked \subseteq acked', failed \subseteq failed',
             m \in awaiting => m \in awaiting'
      PROVE  OwedInv(m)'
  BY <1>1, <1>2, <1>3, <1>4, EmissionKeeps DEF OwedInv
<1>5. CASE GatewayCrash
  <2>1. "crash" \in Faults /\ UNCHANGED <<stage, acked, failed>>
    BY <1>5 DEF GatewayCrash, Crash, answers
  <2> QED
    BY <1>1, <1>2, <1>3, <1>5, <2>1 DEF OwedInv
<1>6. CASE UNCHANGED messageVars
  BY <1>4, <1>6 DEF messageVars
<1>7. ASSUME NEW n \in Messages, n # m, Idle(n) \/ PublishMessage(n) PROVE OwedInv(m)'
  BY <1>4, <1>7 DEF Idle, SendOverSocket, SendOverHttp, Refuse, Admit, Persist, PersistFails,
     PublishMessage, SkipPublish, AnswerSocket, AnswerHttp, AnswerError, Drop, Advance, answers,
     MInv, MessagesTypeOK
<1>8. ASSUME NEW n \in Messages, HandleMessageSent(n) PROVE OwedInv(m)'
  BY <1>4, <1>8 DEF HandleMessageSent, answers
<1> USE DEF OwedInv, Advance, answers, Underway, MInv, MessagesTypeOK
<1>9. CASE SendOverSocket(m) \/ SendOverHttp(m)
  BY <1>2, <1>9 DEF SendOverSocket, SendOverHttp, Connected, vars, roomVars
<1>10. CASE Refuse(m) \/ Admit(m) \/ Persist(m) \/ PersistFails(m) \/ Drop(m)
  BY <1>1, <1>2, <1>3, <1>10 DEF Refuse, Admit, Persist, PersistFails, Drop
<1>11. CASE PublishMessage(m)
  <2>1. InQueue(m)'
    <3>1. events' = Append(events, m) /\ events \in Seq(Kinds) /\ m \in Kinds
      BY <1>11 DEF PublishMessage, Kinds
    <3>2. Distinct(events) /\ ~Holds(events, m)
      BY <1>1, <1>11 DEF PublishMessage, MessageInv, InQueue, Holds, RoomsInv, QueueInv
    <3>3. Holds(Append(events, m), m)
      BY <3>1, <3>2, Appended
    <3> QED
      BY <3>1, <3>3 DEF InQueue, Holds
  <2> QED
    BY <1>1, <1>2, <1>3, <1>11, <2>1 DEF PublishMessage
<1>12. CASE SkipPublish(m)
  BY <1>1, <1>2, <1>3, <1>12 DEF SkipPublish, Publishes
<1>13. CASE AnswerSocket(m)
  BY <1>1, <1>2, <1>3, <1>13 DEF AnswerSocket, SenderGone, Connected, vars, roomVars
<1>14. CASE AnswerHttp(m)
  BY <1>1, <1>2, <1>3, <1>14, EmissionKeeps DEF AnswerHttp
<1>15. CASE AnswerError(m)
  BY <1>1, <1>2, <1>3, <1>15 DEF AnswerError, SenderGone, Connected, vars, roomVars
<1> QED
  BY <1>5, <1>6, <1>7, <1>8, <1>9, <1>10, <1>11, <1>12, <1>13, <1>14, <1>15, Steps
  DEF Idle, allVars

\* Every message is accounted for.
THEOREM EveryMessageOwed == MessagesSpec => []AllOwed
<1>1. MessagesInit => AllOwed
  BY DEF MessagesInit, AllOwed, OwedInv
<1>2. MInv /\ AllOwed /\ [MessagesNext]_allVars => AllOwed'
  BY OwedStep
<1> QED
  BY <1>1, <1>2, MessagesInvariant, PTL DEF MessagesSpec

\* No call over a socket slips: what SocketSendAnswered needs besides fairness.
THEOREM SendersAreOwed == MessagesSpec => []AnswerOwed
<1>1. AllOwed => AnswerOwed
  BY DEF AllOwed, OwedInv, AnswerOwed
<1> QED
  BY <1>1, EveryMessageOwed, PTL

\* No message acknowledged over HTTP gets lost on the way to its room while the
\* gateway lives: what HttpSendBroadcast needs besides fairness.
THEOREM HttpIsOnItsWay == MessagesSpec => []HttpAccounted
<1>1. MInv /\ AllOwed => HttpAccounted
  BY DEF MInv, AllMessages, MessageInv, AllOwed, OwedInv, HttpAccounted
<1> QED
  BY <1>1, MessagesInvariant, EveryMessageOwed, PTL

----------------------------------------------------------------------------
\* Messages over the rooms: what was proved of the rooms alone still holds.

\* Messages share the broker's queue and the sockets with the rooms, and break
\* none of their invariants.
THEOREM RoomsKeepTheirPromises == MessagesSpec => [](RoomsSound /\ RoomCoverage /\ NotifiedInRoom)
<1>1. MInv => RoomsSound /\ RoomCoverage /\ NotifiedInRoom
  BY DEF MInv, RoomsInv
<1> QED
  BY <1>1, MessagesInvariant, PTL

\* A step is one of the rooms, or leaves them and their conversations alone.
LEMMA RoomsOrRest ==
    ASSUME MInv, [MessagesNext]_allVars
    PROVE  \/ Next
           \/ UNCHANGED RestOfRooms /\ \A c \in Ids : InQueue(c)' <=> InQueue(c)
<1>1. CASE UNCHANGED vars
  BY <1>1, RoomsIdle DEF MInv, RestOfRooms, vars, roomVars
<1>2. ASSUME NEW m \in Messages, PublishMessage(m) \/ HandleMessageSent(m)
      PROVE  UNCHANGED RestOfRooms /\ \A c \in Ids : InQueue(c)' <=> InQueue(c)
  <2>1. UNCHANGED RestOfRooms
    BY <1>2 DEF PublishMessage, HandleMessageSent, RestOfRooms
  <2>2. \A c \in Ids : InQueue(c)' <=> InQueue(c)
    BY <1>2, Published, Consumed DEF MInv
  <2> QED
    BY <2>1, <2>2
<1>3. GatewayCrash => Next
  BY DEF GatewayCrash, Next
<1> QED
  BY <1>1, <1>2, <1>3, Steps, IdleRooms DEF allVars

\* What the step lemmas of the rooms ask of the queue.
LEMMA QueueTyped == MInv => Typed(Kinds) /\ Ids \subseteq Kinds /\ QueueInv /\ HandlerInv
BY DEF MInv, MessagesTypeOK, RoomsInv, Typed, Kinds

\* A socket left out of a room stays out until it closes, and no message sent
\* repairs it either: its user misses what is broadcast there.
THEOREM GapOutlastsMessages ==
    MessagesSpec =>
        [][\A s \in Sockets, c \in Ids :
             LeftOut(s, c) => LeftOut(s, c)' \/ phase'[s] = "closed"]_allVars
<1> DEFINE Remains ==
      \A s \in Sockets, c \in Ids : LeftOut(s, c) => LeftOut(s, c)' \/ phase'[s] = "closed"
<1>1. MInv /\ [MessagesNext]_allVars => Remains
  <2>1. ASSUME MInv, Next PROVE Remains
    BY <2>1, QueueTyped, LeftOutStep
  <2>2. ASSUME UNCHANGED RestOfRooms, \A c \in Ids : InQueue(c)' <=> InQueue(c) PROVE Remains
    BY <2>2 DEF LeftOut, RestOfRooms, storeVars
  <2> QED
    BY <2>1, <2>2, RoomsOrRest
<1> QED
  BY <1>1, MessagesInvariant, PTL DEF MessagesSpec

\* However many messages are ahead of it in the queue, the event of a
\* conversation is not lost to the participants that await it.
THEOREM EventsOutlastMessages ==
    MessagesSpec =>
        [][\A s \in Sockets, c \in Ids :
             Awaits(s, c) => Awaits(s, c)' \/ c \in told'[s] \/ ~Connected(s)']_allVars
<1> DEFINE Kept ==
      \A s \in Sockets, c \in Ids :
         Awaits(s, c) => Awaits(s, c)' \/ c \in told'[s] \/ ~Connected(s)'
<1>1. MInv /\ [MessagesNext]_allVars => Kept
  <2>1. ASSUME MInv, Next PROVE Kept
    BY <2>1, QueueTyped, AwaitStep
  <2>2. ASSUME UNCHANGED RestOfRooms, \A c \in Ids : InQueue(c)' <=> InQueue(c) PROVE Kept
    BY <2>2 DEF Awaits, Connected, RestOfRooms, storeVars
  <2> QED
    BY <2>1, <2>2, RoomsOrRest
<1> QED
  BY <1>1, MessagesInvariant, PTL DEF MessagesSpec

\* Who may send and receive is decided by the store createConversation was
\* shown to implement: a message never changes it.
THEOREM MessagesUseStore == MessagesSpec => StoreSpec
<1>1. MessagesInit => StoreInit
  BY DEF MessagesInit, Init
<1>2. [MessagesNext]_allVars => [StoreNext]_storeVars
  <2>1. ASSUME NEW m \in Messages, PublishMessage(m) \/ HandleMessageSent(m)
        PROVE  UNCHANGED storeVars
    BY <2>1 DEF PublishMessage, HandleMessageSent, storeVars
  <2>2. GatewayCrash => Next
    BY DEF GatewayCrash, Next
  <2> QED
    BY <2>1, <2>2, StoreFootprint, Steps, IdleRooms DEF allVars, vars
<1> QED
  BY <1>1, <1>2, PTL DEF MessagesSpec, StoreSpec
=============================================================================
