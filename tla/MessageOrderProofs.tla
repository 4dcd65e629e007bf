------------------------- MODULE MessageOrderProofs -------------------------
(***************************************************************************)
(* The proof of AcknowledgedFirst, for any messages, conversations,        *)
(* sockets and failures.  It rests on the invariant of ChatMessagesProofs  *)
(* and on one about the queue: a message known to the sender of another is *)
(* ahead of it there, and gone once the other was emitted.                 *)
(***************************************************************************)
EXTENDS MessageOrder, ChatMessagesProofs

Ahead(q, a, b) == \A i, j \in 1..Len(q) : q[i] = a /\ q[j] = b => i < j

OrderOk(m, n) ==
    /\ m \in acked /\ Sent(n) /\ m # n
    /\ casts[n] # 0 /\ ~ViaSocket(n) => ~InQueue(m)
    /\ Ahead(events, m, n)

OrderInv ==
    /\ known \in [Messages -> SUBSET Messages]
    /\ \A n \in Messages : \A m \in known[n] : OrderOk(m, n)

----------------------------------------------------------------------------
\* Taking elements from the front of a queue keeps the order of the others.
LEMMA AheadSuffix ==
    ASSUME NEW S, NEW q \in Seq(S), NEW k \in 0..Len(q), NEW a, NEW b, Ahead(q, a, b)
    PROVE  Ahead(SubSeq(q, k + 1, Len(q)), a, b)
<1> DEFINE p == SubSeq(q, k + 1, Len(q))
<1>1. Len(p) = Len(q) - k /\ \A i \in 1..Len(p) : p[i] = q[i + k] /\ i + k \in 1..Len(q)
  OBVIOUS
<1> QED
  BY <1>1 DEF Ahead

\* So does putting anything but the first of the two at the end.
LEMMA AheadAppend ==
    ASSUME NEW S, NEW q \in Seq(S), NEW x \in S, NEW a, NEW b, x # a, Ahead(q, a, b)
    PROVE  Ahead(Append(q, x), a, b)
<1> DEFINE p == Append(q, x)
<1>1. /\ Len(p) = Len(q) + 1 /\ p[Len(q) + 1] = x
      /\ \A i \in 1..Len(q) : p[i] = q[i]
  OBVIOUS
<1>2. ASSUME NEW i \in 1..Len(p), NEW j \in 1..Len(p), p[i] = a, p[j] = b
      PROVE  i < j
  <2>1. i \in 1..Len(q) /\ q[i] = a
    BY <1>1, <1>2
  <2>2. CASE j = Len(q) + 1
    BY <2>1, <2>2
  <2>3. CASE j \in 1..Len(q)
    BY <1>1, <1>2, <2>1, <2>3 DEF Ahead
  <2> QED
    BY <1>1, <2>2, <2>3
<1> QED
  BY <1>2 DEF Ahead

\* What a step does to the queue.
LEMMA QueueMoves ==
    ASSUME MessagesTypeOK, [MessagesNext]_allVars
    PROVE  \/ UNCHANGED events
           \/ \E k \in 0..Len(events) : events' = SubSeq(events, k + 1, Len(events))
           \/ \E c \in Ids : events' = Append(events, c)
           \/ \E m \in Messages : PublishMessage(m)
<1>1. ASSUME events # <<>>, events' = Tail(events)
      PROVE  \E k \in 0..Len(events) : events' = SubSeq(events, k + 1, Len(events))
  <2>1. 1 \in 0..Len(events) /\ Tail(events) = SubSeq(events, 1 + 1, Len(events))
    BY <1>1 DEF MessagesTypeOK
  <2> QED
    BY <1>1, <2>1
<1>2. CASE Next
  BY <1>1, <1>2
  DEF Next, ChatService, CreateConversation, AnnounceConversation, HandleCreated, roomVars,
      StartJoin, FetchSockets, FetchFails, JoinSocket, JoinFails, NotifyParticipants, Handshake,
      Authenticate, ListConversations, ListFails, Connect, Reject, Disconnect, Crash
<1>3. ASSUME NEW m \in Messages, HandleMessageSent(m)
      PROVE  \E k \in 0..Len(events) : events' = SubSeq(events, k + 1, Len(events))
  BY <1>1, <1>3 DEF HandleMessageSent
<1>4. CASE UNCHANGED vars
  BY <1>4 DEF vars, roomVars
<1>5. GatewayCrash => Next
  BY DEF GatewayCrash, Next
<1> QED
  BY <1>2, <1>3, <1>4, <1>5, Steps, IdleRooms DEF allVars

\* What was acknowledged or sent stays so.
LEMMA AnswersStay ==
    ASSUME MessagesTypeOK, [MessagesNext]_allVars
    PROVE  acked \subseteq acked' /\ \A n \in Messages : Sent(n) => Sent(n)'
<1>1. ASSUME NEW m \in Messages, Idle(m) \/ PublishMessage(m) \/ HandleMessageSent(m)
      PROVE  acked \subseteq acked' /\ \A n \in Messages : Sent(n) => Sent(n)'
  BY <1>1
  DEF Idle, PublishMessage, HandleMessageSent, SendOverSocket, SendOverHttp, Refuse, Admit, Persist,
      PersistFails, SkipPublish, AnswerSocket, AnswerHttp, AnswerError, Drop, Advance, answers,
      Sent, MessagesTypeOK
<1>2. CASE UNCHANGED <<stage, acked>>
  BY <1>2 DEF Sent
<1> QED
  BY <1>1, <1>2, Steps DEF allVars, messageVars, GatewayCrash, answers

\* Sending moves neither the queue nor what was emitted.
LEMMA SendingIsIdle ==
    ASSUME MessagesTypeOK, [MessagesNext]_allVars, NEW n \in Messages, ~Sent(n), Sent(n)'
    PROVE  UNCHANGED <<events, casts>>
<1>1. ASSUME NEW m \in Messages, Idle(m)
      PROVE  UNCHANGED <<events, casts>>
  <2>1. SendOverSocket(m) \/ SendOverHttp(m)
    BY <1>1
    DEF Idle, Refuse, Admit, Persist, PersistFails, SkipPublish, AnswerSocket, AnswerHttp,
        AnswerError, Drop, Advance, Sent, MessagesTypeOK
  <2> QED
    BY <1>1, <2>1, IdleRooms DEF SendOverSocket, SendOverHttp, vars, roomVars
<1>2. ASSUME NEW m \in Messages, PublishMessage(m) \/ HandleMessageSent(m) PROVE FALSE
  BY <1>2 DEF PublishMessage, HandleMessageSent, Advance, Sent, MessagesTypeOK
<1>3. ~UNCHANGED stage
  BY DEF Sent
<1> QED
  BY <1>1, <1>2, <1>3, Steps DEF allVars, messageVars, GatewayCrash

\* A message over HTTP is emitted when it is taken from the queue; one that
\* was acknowledged is emitted in no other way, and not queued again.
LEMMA EmittedFromQueue ==
    ASSUME MInv, [MessagesNext]_allVars, NEW m \in Messages
    PROVE  /\ casts'[m] # casts[m] /\ (m \in acked \/ ~ViaSocket(m)) => HandleMessageSent(m)
           /\ m \in acked => ~PublishMessage(m) /\ (InQueue(m)' => InQueue(m))
<1> USE DEF MInv
<1>1. m \in acked => stage[m] = "settled"
  BY DEF AllMessages, MessageInv
<1>2. m \in acked => ~PublishMessage(m)
  BY <1>1 DEF PublishMessage, Advance
<1>3. ASSUME NEW n \in Messages, Idle(n), casts'[m] # casts[m]
      PROVE  ViaSocket(m) /\ m \notin acked
  <2>1. AnswerSocket(n)
    BY <1>3
    DEF Idle, SendOverSocket, SendOverHttp, Refuse, Admit, Persist, PersistFails, SkipPublish,
        AnswerHttp, AnswerError, Drop
  <2>2. n = m
    BY <1>3, <2>1 DEF AnswerSocket, Broadcast, MessagesTypeOK
  <2> QED
    BY <1>1, <2>1, <2>2 DEF AnswerSocket, Advance
<1>4. ASSUME NEW n \in Messages, HandleMessageSent(n), casts'[m] # casts[m] PROVE n = m
  BY <1>4 DEF HandleMessageSent, Broadcast, MessagesTypeOK
<1>5. casts'[m] # casts[m] /\ (m \in acked \/ ~ViaSocket(m)) => HandleMessageSent(m)
  BY <1>3, <1>4, Steps DEF PublishMessage, GatewayCrash, allVars, messageVars
<1>6. ASSUME m \in acked, InQueue(m)' PROVE InQueue(m)
  <2>1. CASE Next
    BY <1>6, <2>1, RoomsFootprint
  <2>2. CASE UNCHANGED vars
    BY <1>6, <2>2, RoomsIdle
  <2>3. ASSUME NEW n \in Messages, PublishMessage(n) \/ HandleMessageSent(n) PROVE InQueue(m)
    BY <1>2, <1>6, <2>3, Published, Consumed
  <2>4. GatewayCrash => Next
    BY DEF GatewayCrash, Next
  <2> QED
    BY <2>1, <2>2, <2>3, <2>4, Steps, IdleRooms DEF allVars
<1> QED
  BY <1>2, <1>5, <1>6

----------------------------------------------------------------------------
\* A pair that is in order stays in order.
LEMMA PairStep ==
    ASSUME MInv, [MessagesNext]_allVars, NEW m \in Messages, NEW n \in Messages, OrderOk(m, n)
    PROVE  OrderOk(m, n)'
<1> USE DEF MInv
<1>1. m \in acked /\ m \in acked' /\ Sent(n)' /\ m # n /\ ViaSocket(n)' = ViaSocket(n)
  BY AnswersStay, Grows DEF OrderOk, ViaSocket
<1>2. Ahead(events, m, n)'
  <2>1. events \in Seq(Kinds) /\ Ahead(events, m, n)
    BY DEF MessagesTypeOK, Kinds, OrderOk
  <2>2. ASSUME NEW k \in 0..Len(events), events' = SubSeq(events, k + 1, Len(events))
        PROVE  Ahead(events', m, n)
    BY <2>1, <2>2, AheadSuffix
  <2>3. ASSUME NEW x \in Kinds, x # m, events' = Append(events, x) PROVE Ahead(events', m, n)
    BY <2>1, <2>3, AheadAppend
  <2>4. ASSUME NEW x \in Messages, PublishMessage(x) PROVE Ahead(events', m, n)
    BY <1>1, <2>3, <2>4, EmittedFromQueue DEF PublishMessage, Kinds
  <2>5. ASSUME NEW c \in Ids, events' = Append(events, c) PROVE Ahead(events', m, n)
    BY <2>3, <2>5, KindsAssumption DEF Kinds
  <2> QED
    BY <2>1, <2>2, <2>4, <2>5, QueueMoves DEF Ahead
<1>3. ASSUME casts'[n] # 0, ~ViaSocket(n) PROVE ~InQueue(m)'
  <2>1. InQueue(m)' => InQueue(m)
    BY <1>1, EmittedFromQueue
  <2>2. CASE casts[n] # 0
    BY <1>3, <2>1, <2>2 DEF OrderOk
  <2>3. CASE casts[n] = 0
    <3>1. events # <<>> /\ Head(events) = n
      BY <1>3, <2>3, EmittedFromQueue DEF HandleMessageSent
    <3>2. 1 \in 1..Len(events) /\ events[1] = n
      BY <3>1 DEF MessagesTypeOK
    <3>3. ASSUME NEW i \in DOMAIN events, events[i] = m PROVE FALSE
      <4>1. i \in 1..Len(events) /\ i >= 1
        BY <3>3 DEF MessagesTypeOK
      <4>2. i < 1
        BY <3>2, <3>3, <4>1 DEF OrderOk, Ahead
      <4> QED
        BY <4>1, <4>2
    <3> QED
      BY <2>1, <3>3 DEF InQueue
  <2> QED
    BY <2>2, <2>3
<1> QED
  BY <1>1, <1>2, <1>3 DEF OrderOk

\* A message just sent is behind everything acknowledged until then.
LEMMA PairStart ==
    ASSUME MInv, [MessagesNext]_allVars, NEW m \in acked, NEW n \in Messages, ~Sent(n), Sent(n)'
    PROVE  OrderOk(m, n)'
<1> USE DEF MInv
<1>1. stage[n] = "unsent" /\ m \in Messages
  BY DEF Sent, MessagesTypeOK
<1>2. casts[n] = 0 /\ ~InQueue(n) /\ m # n
  BY <1>1 DEF AllMessages, MessageInv
<1>3. casts'[n] = 0 /\ events' = events /\ m \in acked'
  BY <1>2, SendingIsIdle, AnswersStay
<1>4. Ahead(events, m, n)
  BY <1>2 DEF Ahead, InQueue, MessagesTypeOK
<1> QED
  BY <1>2, <1>3, <1>4 DEF OrderOk, Ahead

\* Every step keeps what is known in order.
LEMMA OrderStep ==
    ASSUME MInv, OrderInv, [OrderNext]_orderVars
    PROVE  OrderInv'
<1>1. CASE OrderNext
  <2>1. [MessagesNext]_allVars /\ acked \subseteq Messages
    BY <1>1 DEF OrderNext, MInv, MessagesTypeOK
  <2>2. known' \in [Messages -> SUBSET Messages]
    BY <1>1, <2>1 DEF OrderNext, OrderInv
  <2>3. ASSUME NEW n \in Messages, NEW m \in known'[n] PROVE OrderOk(m, n)'
    <3>1. CASE ~Sent(n) /\ Sent(n)'
      BY <1>1, <2>1, <2>3, <3>1, PairStart DEF OrderNext
    <3>2. CASE ~(~Sent(n) /\ Sent(n)')
      <4>1. m \in known[n] /\ m \in Messages
        BY <1>1, <2>2, <2>3, <3>2 DEF OrderNext
      <4> QED
        BY <2>1, <2>3, <4>1, PairStep DEF OrderInv
    <3> QED
      BY <3>1, <3>2
  <2> QED
    BY <2>2, <2>3 DEF OrderInv
<1>2. CASE UNCHANGED orderVars
  BY <1>2
  DEF orderVars, allVars, vars, roomVars, messageVars, OrderInv, OrderOk, Sent, ViaSocket, InQueue,
      Ahead
<1> QED
  BY <1>1, <1>2

\* No message is emitted behind one that was sent after it was acknowledged,
\* except that a socket's may pass one that came over HTTP: the queue is in
\* the order of the acknowledgements, and sockets do without the queue.
THEOREM InOrder == OrderSpec => AcknowledgedFirst
<1> DEFINE First ==
      \A m, n \in Messages :
         casts'[m] > casts[m] /\ m \in known[n] =>
             /\ casts[n] = 0 \/ ViaSocket(n)
             /\ ~ViaSocket(m)
<1>1. OrderSpec => MessagesSpec
  <2>1. OrderInit => MessagesInit
    BY DEF OrderInit
  <2>2. [OrderNext]_orderVars => [MessagesNext]_allVars
    BY DEF OrderNext, orderVars
  <2> QED
    BY <2>1, <2>2, PTL DEF OrderSpec, MessagesSpec
<1>2. OrderInit => OrderInv
  BY DEF OrderInit, OrderInv
<1>3. MInv /\ OrderInv /\ [OrderNext]_orderVars => OrderInv'
  BY OrderStep
<1>4. MInv /\ OrderInv /\ [OrderNext]_orderVars => [First]_orderVars
  <2> SUFFICES ASSUME MInv, OrderInv, OrderNext,
                      NEW m \in Messages, NEW n \in Messages,
                      casts'[m] > casts[m], m \in known[n]
               PROVE  (casts[n] = 0 \/ ViaSocket(n)) /\ ~ViaSocket(m)
    OBVIOUS
  <2>1. [MessagesNext]_allVars /\ OrderOk(m, n) /\ m \in acked
    BY DEF OrderNext, OrderInv, OrderOk
  <2>2. casts'[m] # casts[m]
    BY DEF MInv, MessagesTypeOK
  <2>3. HandleMessageSent(m)
    BY <2>1, <2>2, EmittedFromQueue
  <2>4. InQueue(m)
    BY <2>3, Consumed DEF MInv
  <2> QED
    BY <2>1, <2>4 DEF OrderOk, MInv, AllMessages, MessageInv
<1> QED
  BY <1>1, <1>2, <1>3, <1>4, MessagesInvariant, PTL DEF OrderSpec, AcknowledgedFirst
=============================================================================
