-------------------------- MODULE ChatRoomsProofs --------------------------
(***************************************************************************)
(* Proofs about ChatRooms, for any number of users, conversations and      *)
(* sockets and any failures.  RoomCoverage is inductive once it is known   *)
(* that the event of a conversation exists once: in the queue, in the      *)
(* hands of its handler, or in the past.                                   *)
(***************************************************************************)
EXTENDS ChatRooms, SequenceTheorems, TLAPS

\* Each conversation is queued at most once, after its announcement and
\* before its handler starts; whoever was told of it, was by that handler.
Distinct(q) == \A i, j \in 1..Len(q) : q[i] = q[j] => i = j

QueueInv ==
    /\ Distinct(events)
    /\ \A c \in Ids : InQueue(c) => c \in announced /\ c \notin joining
    /\ joining \subseteq announced
    /\ \A s \in Sockets : \A c \in told[s] : c \in announced /\ ~InQueue(c) /\ c \notin joining
    /\ \A c \in announced : members[c] # {}

\* A handler works through participants and their sockets, and only while it
\* runs.
HandlerInv ==
    \A c \in Ids :
        /\ c \notin joining => JoinsOver(c)
        /\ todo[c] \subseteq members[c]
        /\ \A s \in fetched[c] : user[s] \in members[c] /\ phase[s] \in {"connected", "closed"}

ToldInv ==
    \A s \in Sockets : told[s] # {} => phase[s] \in {"connected", "closed"}

IInv == /\ TypeOK /\ QueueInv /\ HandlerInv /\ ToldInv
        /\ RoomsSound /\ RoomCoverage /\ NotifiedInRoom

\* The step lemmas hold whatever else shares the queue with conversations;
\* ChatMessagesProofs uses them with messages in it.
Typed(S) == RoomsTypeOK /\ events \in Seq(S)

----------------------------------------------------------------------------
\* The three things that happen to the queue, as seen through what it holds.
Holds(q, c) == \E i \in DOMAIN q : q[i] = c

\* An event joins the end of the queue.
LEMMA Appended ==
    ASSUME NEW S, NEW q \in Seq(S), NEW c \in S, Distinct(q), ~Holds(q, c)
    PROVE  /\ Append(q, c) \in Seq(S)
           /\ Distinct(Append(q, c))
           /\ \A d \in S : Holds(Append(q, c), d) <=> Holds(q, d) \/ d = c
<1> DEFINE r == Append(q, c)
<1>1. /\ r \in Seq(S)
      /\ Len(r) = Len(q) + 1
      /\ \A i \in 1..Len(q) : r[i] = q[i]
      /\ r[Len(q) + 1] = c
  BY AppendProperties
<1>2. Len(q) \in Nat /\ DOMAIN q = 1..Len(q) /\ DOMAIN r = 1..Len(r)
  BY <1>1
<1> HIDE DEF r
<1>3. Distinct(r)
  BY <1>1, <1>2 DEF Distinct, Holds
<1>4. \A d \in S : Holds(r, d) <=> Holds(q, d) \/ d = c
  BY <1>1, <1>2 DEF Holds
<1> QED
  BY <1>1, <1>3, <1>4 DEF r

\* The first event leaves the queue, and is not in it a second time.
LEMMA Popped ==
    ASSUME NEW S, NEW q \in Seq(S), q # <<>>, Distinct(q)
    PROVE  /\ Tail(q) \in Seq(S)
           /\ Head(q) \in S /\ Holds(q, Head(q))
           /\ Distinct(Tail(q))
           /\ \A d \in S : Holds(Tail(q), d) <=> Holds(q, d) /\ d # Head(q)
<1> DEFINE r == Tail(q)
<1>1. /\ r \in Seq(S)
      /\ Len(r) = Len(q) - 1
      /\ \A i \in 1..Len(r) : r[i] = q[i + 1]
      /\ Head(q) \in S
  BY HeadTailProperties
<1>2. /\ Len(q) \in Nat \ {0} /\ DOMAIN q = 1..Len(q) /\ DOMAIN r = 1..Len(r)
      /\ Head(q) = q[1]
  BY <1>1, EmptySeq
<1> HIDE DEF r
<1>3. Distinct(r)
  BY <1>1, <1>2 DEF Distinct
<1>4. ASSUME NEW d \in S PROVE Holds(r, d) <=> Holds(q, d) /\ d # Head(q)
  <2>1. Holds(r, d) => Holds(q, d) /\ d # Head(q)
    BY <1>1, <1>2 DEF Holds, Distinct
  <2>2. ASSUME NEW i \in 1..Len(q), q[i] = d, d # Head(q) PROVE Holds(r, d)
    <3>1. i - 1 \in 1..Len(r) /\ r[i - 1] = d
      BY <1>1, <1>2, <2>2
    <3> QED
      BY <1>2, <3>1 DEF Holds
  <2> QED
    BY <1>2, <2>1, <2>2 DEF Holds
<1> QED
  BY <1>1, <1>2, <1>3, <1>4 DEF r, Holds

\* A crash takes a prefix of the queue with it.
LEMMA Dropped ==
    ASSUME NEW S, NEW q \in Seq(S), NEW k \in 0..Len(q), Distinct(q)
    PROVE  /\ SubSeq(q, k + 1, Len(q)) \in Seq(S)
           /\ Distinct(SubSeq(q, k + 1, Len(q)))
           /\ \A d \in S : Holds(SubSeq(q, k + 1, Len(q)), d) => Holds(q, d)
<1> DEFINE r == SubSeq(q, k + 1, Len(q))
<1>1. Len(q) \in Nat /\ DOMAIN q = 1..Len(q) /\ \A i \in 1..Len(q) : q[i] \in S
  OBVIOUS
<1>2. /\ r \in Seq(S)
      /\ Len(r) = Len(q) - k
      /\ \A i \in 1..(Len(q) - k) : r[i] = q[k + i]
  <2>1. k + 1 \in Int /\ Len(q) \in Int /\ \A i \in (k + 1)..Len(q) : q[i] \in S
    BY <1>1
  <2>2. /\ r \in Seq(S)
        /\ Len(r) = IF k + 1 <= Len(q) THEN Len(q) - (k + 1) + 1 ELSE 0
        /\ \A i \in 1..(Len(q) - (k + 1) + 1) : r[i] = q[(k + 1) + i - 1]
    BY <2>1, SubSeqProperties
  <2> HIDE DEF r
  <2>3. Len(r) = Len(q) - k
    <3>1. \A n \in Nat : \A i \in 0..n :
            (IF i + 1 <= n THEN n - (i + 1) + 1 ELSE 0) = n - i
      OBVIOUS
    <3>2. Len(q) \in Nat
      BY <1>1
    <3> QED
      BY <2>2, <3>1, <3>2
  <2>4. Len(q) - (k + 1) + 1 = Len(q) - k /\ \A i \in Int : (k + 1) + i - 1 = k + i
    BY <1>1
  <2>5. ASSUME NEW i \in 1..(Len(q) - k) PROVE r[i] = q[k + i]
    <3>1. i \in 1..(Len(q) - (k + 1) + 1) /\ (k + 1) + i - 1 = k + i
      BY <1>1, <2>4
    <3> QED
      BY <2>2, <3>1
  <2> QED
    BY <2>2, <2>3, <2>5
<1>3. DOMAIN r = 1..Len(r)
  BY <1>2
<1> HIDE DEF r
<1>4. Distinct(r)
  BY <1>1, <1>2, <1>3 DEF Distinct
<1>5. \A d \in S : Holds(r, d) => Holds(q, d)
  BY <1>1, <1>2, <1>3 DEF Holds
<1> QED
  BY <1>2, <1>4, <1>5 DEF r

\* How each step moves the queue, in terms of InQueue.
LEMMA QueueFixed ==
    ASSUME UNCHANGED events
    PROVE  /\ \A d \in Ids : InQueue(d)' <=> InQueue(d)
           /\ Distinct(events)' <=> Distinct(events)
BY DEF InQueue, Distinct

\* An announcement adds its conversation to the queue.
LEMMA QueueAnnounce ==
    ASSUME NEW S, Ids \subseteq S, Typed(S), QueueInv, NEW c \in Ids, AnnounceConversation(c)
    PROVE  /\ events' \in Seq(S)
           /\ Distinct(events)'
           /\ \A d \in Ids : InQueue(d)' <=> InQueue(d) \/ d = c
BY Appended DEF AnnounceConversation, Announce, Typed, RoomsTypeOK, QueueInv, InQueue, Holds

\* Starting a handler takes its conversation from the queue.
LEMMA QueueStart ==
    ASSUME NEW S, Ids \subseteq S, Typed(S), QueueInv, NEW c \in Ids, StartJoin(c)
    PROVE  /\ events' \in Seq(S)
           /\ Distinct(events)'
           /\ InQueue(c)
           /\ \A d \in Ids : InQueue(d)' <=> InQueue(d) /\ d # c
BY Popped DEF StartJoin, Typed, RoomsTypeOK, QueueInv, InQueue, Holds

\* A crash adds nothing to the queue.
LEMMA QueueCrash ==
    ASSUME NEW S, Ids \subseteq S, Typed(S), QueueInv, Crash
    PROVE  /\ events' \in Seq(S)
           /\ Distinct(events)'
           /\ \A d \in Ids : InQueue(d)' => InQueue(d)
<1>1. PICK k \in 0..Len(events) : events' = SubSeq(events, k + 1, Len(events))
  BY DEF Crash
<1> QED
  BY <1>1, Dropped DEF Typed, RoomsTypeOK, QueueInv, InQueue, Holds

----------------------------------------------------------------------------
\* Each part of the invariant is preserved by every action.

\* Every action keeps the types.
LEMMA TypeStep ==
    ASSUME NEW S, Ids \subseteq S, Typed(S), QueueInv, Next
    PROVE  Typed(S)'
<1>1. ASSUME NEW c \in Ids, NEW M \in SUBSET Registered, NEW p \in BOOLEAN, CreateConversation(c, M, p)
      PROVE  Typed(S)'
  BY <1>1, QueueFixed
     DEF Typed, RoomsTypeOK, StoreTypeOK, Phases, CreateConversation, Create, roomVars
<1>2. ASSUME NEW c \in Ids, AnnounceConversation(c) PROVE Typed(S)'
  BY <1>2, QueueAnnounce DEF Typed, RoomsTypeOK, StoreTypeOK, Phases, AnnounceConversation, Announce
<1>3. ASSUME NEW s \in Sockets, Reject(s) PROVE Typed(S)'
  BY <1>3, QueueFixed DEF Typed, RoomsTypeOK, StoreTypeOK, Phases, Reject, storeVars
<1>4. ASSUME NEW s \in Sockets, Authenticate(s) PROVE Typed(S)'
  BY <1>4, QueueFixed DEF Typed, RoomsTypeOK, StoreTypeOK, Phases, Authenticate, storeVars
<1>5. ASSUME NEW s \in Sockets, ListConversations(s) PROVE Typed(S)'
  BY <1>5, QueueFixed
     DEF Typed, RoomsTypeOK, StoreTypeOK, Phases, ListConversations, Conversations, storeVars
<1>6. ASSUME NEW s \in Sockets, ListFails(s) PROVE Typed(S)'
  BY <1>6, QueueFixed DEF Typed, RoomsTypeOK, StoreTypeOK, Phases, ListFails, storeVars
<1>7. ASSUME NEW s \in Sockets, Connect(s) PROVE Typed(S)'
  BY <1>7, QueueFixed DEF Typed, RoomsTypeOK, StoreTypeOK, Phases, Connect, storeVars
<1>8. ASSUME NEW s \in Sockets, Disconnect(s) PROVE Typed(S)'
  BY <1>8, QueueFixed DEF Typed, RoomsTypeOK, StoreTypeOK, Phases, Disconnect, storeVars
<1>9. ASSUME NEW c \in Ids, StartJoin(c) PROVE Typed(S)'
  BY <1>9, QueueStart DEF Typed, RoomsTypeOK, StoreTypeOK, Phases, StartJoin, storeVars
<1>10. ASSUME NEW c \in Ids, NEW u \in Registered, FetchSockets(c, u) PROVE Typed(S)'
  BY <1>10, QueueFixed
     DEF Typed, RoomsTypeOK, StoreTypeOK, Phases, FetchSockets, UserRoom, Stale, Connected,
         storeVars
<1>11. ASSUME NEW c \in Ids, NEW u \in Registered, FetchFails(c, u) PROVE Typed(S)'
  BY <1>11, QueueFixed
     DEF Typed, RoomsTypeOK, StoreTypeOK, Phases, FetchFails, UserRoom, Stale, Connected,
         storeVars
<1>12. ASSUME NEW c \in Ids, NEW s \in Sockets, JoinSocket(c, s) PROVE Typed(S)'
  BY <1>12, QueueFixed DEF Typed, RoomsTypeOK, StoreTypeOK, Phases, JoinSocket, Connected, storeVars
<1>13. ASSUME NEW c \in Ids, NEW s \in Sockets, JoinFails(c, s) PROVE Typed(S)'
  BY <1>13, QueueFixed DEF Typed, RoomsTypeOK, StoreTypeOK, Phases, JoinFails, storeVars
<1>14. ASSUME NEW c \in Ids, NotifyParticipants(c) PROVE Typed(S)'
  BY <1>14, QueueFixed
     DEF Typed, RoomsTypeOK, StoreTypeOK, Phases, NotifyParticipants, Connected, JoinsOver,
         storeVars
<1>15. CASE Crash
  BY <1>15, QueueCrash DEF Typed, RoomsTypeOK, StoreTypeOK, Phases, Crash, storeVars
<1> QED
  BY <1>1, <1>2, <1>3, <1>4, <1>5, <1>6, <1>7, <1>8, <1>9, <1>10, <1>11,
     <1>12, <1>13, <1>14, <1>15 DEF Next, ChatService, Handshake,
     HandleCreated

\* Every action keeps the queue free of duplicates, and of conversations
\* that are not announced or are being handled.
LEMMA QueueStep ==
    ASSUME NEW S, Ids \subseteq S, Typed(S), QueueInv, HandlerInv, Next
    PROVE  QueueInv'
<1>1. ASSUME NEW c \in Ids, NEW M \in SUBSET Registered, NEW p \in BOOLEAN, CreateConversation(c, M, p)
      PROVE  QueueInv'
  BY <1>1, QueueFixed
     DEF Typed, RoomsTypeOK, StoreTypeOK, QueueInv, CreateConversation, Create, roomVars
<1>2. ASSUME NEW c \in Ids, AnnounceConversation(c) PROVE QueueInv'
  BY <1>2, QueueAnnounce DEF Typed, RoomsTypeOK, StoreTypeOK, QueueInv, AnnounceConversation, Announce
<1>3. ASSUME NEW s \in Sockets, Reject(s) PROVE QueueInv'
  BY <1>3, QueueFixed DEF Typed, RoomsTypeOK, StoreTypeOK, QueueInv, Reject, storeVars
<1>4. ASSUME NEW s \in Sockets, Authenticate(s) PROVE QueueInv'
  BY <1>4, QueueFixed DEF Typed, RoomsTypeOK, StoreTypeOK, QueueInv, Authenticate, storeVars
<1>5. ASSUME NEW s \in Sockets, ListConversations(s) PROVE QueueInv'
  BY <1>5, QueueFixed
     DEF Typed, RoomsTypeOK, StoreTypeOK, QueueInv, ListConversations, Conversations, storeVars
<1>6. ASSUME NEW s \in Sockets, ListFails(s) PROVE QueueInv'
  BY <1>6, QueueFixed DEF Typed, RoomsTypeOK, StoreTypeOK, QueueInv, ListFails, storeVars
<1>7. ASSUME NEW s \in Sockets, Connect(s) PROVE QueueInv'
  BY <1>7, QueueFixed DEF Typed, RoomsTypeOK, StoreTypeOK, QueueInv, Connect, storeVars
<1>8. ASSUME NEW s \in Sockets, Disconnect(s) PROVE QueueInv'
  BY <1>8, QueueFixed DEF Typed, RoomsTypeOK, StoreTypeOK, QueueInv, Disconnect, storeVars
<1>9. ASSUME NEW c \in Ids, StartJoin(c) PROVE QueueInv'
  BY <1>9, QueueStart DEF Typed, RoomsTypeOK, StoreTypeOK, QueueInv, StartJoin, storeVars
<1>10. ASSUME NEW c \in Ids, NEW u \in Registered, FetchSockets(c, u) PROVE QueueInv'
  BY <1>10, QueueFixed
     DEF Typed, RoomsTypeOK, StoreTypeOK, QueueInv, FetchSockets, UserRoom, Stale, Connected,
         storeVars
<1>11. ASSUME NEW c \in Ids, NEW u \in Registered, FetchFails(c, u) PROVE QueueInv'
  BY <1>11, QueueFixed
     DEF Typed, RoomsTypeOK, StoreTypeOK, QueueInv, FetchFails, UserRoom, Stale, Connected,
         storeVars
<1>12. ASSUME NEW c \in Ids, NEW s \in Sockets, JoinSocket(c, s) PROVE QueueInv'
  BY <1>12, QueueFixed DEF Typed, RoomsTypeOK, StoreTypeOK, QueueInv, JoinSocket, Connected, storeVars
<1>13. ASSUME NEW c \in Ids, NEW s \in Sockets, JoinFails(c, s) PROVE QueueInv'
  BY <1>13, QueueFixed DEF Typed, RoomsTypeOK, StoreTypeOK, QueueInv, JoinFails, storeVars
<1>14. ASSUME NEW c \in Ids, NotifyParticipants(c) PROVE QueueInv'
  BY <1>14, QueueFixed
     DEF Typed, RoomsTypeOK, StoreTypeOK, QueueInv, NotifyParticipants, Connected, JoinsOver,
         storeVars
<1>15. CASE Crash
  BY <1>15, QueueCrash DEF Typed, RoomsTypeOK, StoreTypeOK, QueueInv, Crash, storeVars
<1> QED
  BY <1>1, <1>2, <1>3, <1>4, <1>5, <1>6, <1>7, <1>8, <1>9, <1>10, <1>11,
     <1>12, <1>13, <1>14, <1>15 DEF Next, ChatService, Handshake,
     HandleCreated

\* Every action keeps the handlers to participants and their sockets.
LEMMA HandlerStep ==
    ASSUME NEW S, Ids \subseteq S, Typed(S), QueueInv, HandlerInv, Next
    PROVE  HandlerInv'
<1>1. ASSUME NEW c \in Ids, NEW M \in SUBSET Registered, NEW p \in BOOLEAN, CreateConversation(c, M, p)
      PROVE  HandlerInv'
  BY <1>1, QueueFixed
     DEF Typed, RoomsTypeOK, StoreTypeOK, HandlerInv, JoinsOver, Phases, CreateConversation,
         Create, roomVars
<1>2. ASSUME NEW c \in Ids, AnnounceConversation(c) PROVE HandlerInv'
  BY <1>2, QueueAnnounce
     DEF Typed, RoomsTypeOK, StoreTypeOK, HandlerInv, JoinsOver, Phases, AnnounceConversation,
         Announce
<1>3. ASSUME NEW s \in Sockets, Reject(s) PROVE HandlerInv'
  BY <1>3, QueueFixed
     DEF Typed, RoomsTypeOK, StoreTypeOK, HandlerInv, JoinsOver, Phases, Reject, storeVars
<1>4. ASSUME NEW s \in Sockets, Authenticate(s) PROVE HandlerInv'
  BY <1>4, QueueFixed
     DEF Typed, RoomsTypeOK, StoreTypeOK, HandlerInv, JoinsOver, Phases, Authenticate, storeVars
<1>5. ASSUME NEW s \in Sockets, ListConversations(s) PROVE HandlerInv'
  BY <1>5, QueueFixed
     DEF Typed, RoomsTypeOK, StoreTypeOK, HandlerInv, JoinsOver, Phases, ListConversations,
         Conversations, storeVars
<1>6. ASSUME NEW s \in Sockets, ListFails(s) PROVE HandlerInv'
  BY <1>6, QueueFixed
     DEF Typed, RoomsTypeOK, StoreTypeOK, HandlerInv, JoinsOver, Phases, ListFails, storeVars
<1>7. ASSUME NEW s \in Sockets, Connect(s) PROVE HandlerInv'
  BY <1>7, QueueFixed
     DEF Typed, RoomsTypeOK, StoreTypeOK, HandlerInv, JoinsOver, Phases, Connect, storeVars
<1>8. ASSUME NEW s \in Sockets, Disconnect(s) PROVE HandlerInv'
  BY <1>8, QueueFixed
     DEF Typed, RoomsTypeOK, StoreTypeOK, HandlerInv, JoinsOver, Phases, Disconnect, storeVars
<1>9. ASSUME NEW c \in Ids, StartJoin(c) PROVE HandlerInv'
  BY <1>9, QueueStart
     DEF Typed, RoomsTypeOK, StoreTypeOK, HandlerInv, JoinsOver, Phases, StartJoin, storeVars
<1>10. ASSUME NEW c \in Ids, NEW u \in Registered, FetchSockets(c, u) PROVE HandlerInv'
  BY <1>10, QueueFixed
     DEF Typed, RoomsTypeOK, StoreTypeOK, HandlerInv, JoinsOver, Phases, FetchSockets, UserRoom,
         Stale, Connected, storeVars
<1>11. ASSUME NEW c \in Ids, NEW u \in Registered, FetchFails(c, u) PROVE HandlerInv'
  BY <1>11, QueueFixed
     DEF Typed, RoomsTypeOK, StoreTypeOK, HandlerInv, JoinsOver, Phases, FetchFails, UserRoom,
         Stale, Connected, storeVars
<1>12. ASSUME NEW c \in Ids, NEW s \in Sockets, JoinSocket(c, s) PROVE HandlerInv'
  BY <1>12, QueueFixed
     DEF Typed, RoomsTypeOK, StoreTypeOK, HandlerInv, JoinsOver, Phases, JoinSocket, Connected,
         storeVars
<1>13. ASSUME NEW c \in Ids, NEW s \in Sockets, JoinFails(c, s) PROVE HandlerInv'
  BY <1>13, QueueFixed
     DEF Typed, RoomsTypeOK, StoreTypeOK, HandlerInv, JoinsOver, Phases, JoinFails, storeVars
<1>14. ASSUME NEW c \in Ids, NotifyParticipants(c) PROVE HandlerInv'
  BY <1>14, QueueFixed
     DEF Typed, RoomsTypeOK, StoreTypeOK, HandlerInv, JoinsOver, Phases, NotifyParticipants,
         Connected, storeVars
<1>15. CASE Crash
  BY <1>15, QueueCrash
     DEF Typed, RoomsTypeOK, StoreTypeOK, HandlerInv, JoinsOver, Phases, Crash, storeVars
<1> QED
  BY <1>1, <1>2, <1>3, <1>4, <1>5, <1>6, <1>7, <1>8, <1>9, <1>10, <1>11,
     <1>12, <1>13, <1>14, <1>15 DEF Next, ChatService, Handshake,
     HandleCreated

\* Every action tells connected sockets only.
LEMMA ToldStep ==
    ASSUME NEW S, Ids \subseteq S, Typed(S), ToldInv, HandlerInv, QueueInv, Next
    PROVE  ToldInv'
<1>1. ASSUME NEW c \in Ids, NEW M \in SUBSET Registered, NEW p \in BOOLEAN, CreateConversation(c, M, p)
      PROVE  ToldInv'
  BY <1>1, QueueFixed
     DEF Typed, RoomsTypeOK, StoreTypeOK, ToldInv, Phases, CreateConversation, Create, roomVars
<1>2. ASSUME NEW c \in Ids, AnnounceConversation(c) PROVE ToldInv'
  BY <1>2, QueueAnnounce
     DEF Typed, RoomsTypeOK, StoreTypeOK, ToldInv, Phases, AnnounceConversation, Announce
<1>3. ASSUME NEW s \in Sockets, Reject(s) PROVE ToldInv'
  BY <1>3, QueueFixed DEF Typed, RoomsTypeOK, StoreTypeOK, ToldInv, Phases, Reject, storeVars
<1>4. ASSUME NEW s \in Sockets, Authenticate(s) PROVE ToldInv'
  BY <1>4, QueueFixed DEF Typed, RoomsTypeOK, StoreTypeOK, ToldInv, Phases, Authenticate, storeVars
<1>5. ASSUME NEW s \in Sockets, ListConversations(s) PROVE ToldInv'
  BY <1>5, QueueFixed
     DEF Typed, RoomsTypeOK, StoreTypeOK, ToldInv, Phases, ListConversations, Conversations,
         storeVars
<1>6. ASSUME NEW s \in Sockets, ListFails(s) PROVE ToldInv'
  BY <1>6, QueueFixed DEF Typed, RoomsTypeOK, StoreTypeOK, ToldInv, Phases, ListFails, storeVars
<1>7. ASSUME NEW s \in Sockets, Connect(s) PROVE ToldInv'
  BY <1>7, QueueFixed DEF Typed, RoomsTypeOK, StoreTypeOK, ToldInv, Phases, Connect, storeVars
<1>8. ASSUME NEW s \in Sockets, Disconnect(s) PROVE ToldInv'
  BY <1>8, QueueFixed DEF Typed, RoomsTypeOK, StoreTypeOK, ToldInv, Phases, Disconnect, storeVars
<1>9. ASSUME NEW c \in Ids, StartJoin(c) PROVE ToldInv'
  BY <1>9, QueueStart DEF Typed, RoomsTypeOK, StoreTypeOK, ToldInv, Phases, StartJoin, storeVars
<1>10. ASSUME NEW c \in Ids, NEW u \in Registered, FetchSockets(c, u) PROVE ToldInv'
  BY <1>10, QueueFixed
     DEF Typed, RoomsTypeOK, StoreTypeOK, ToldInv, Phases, FetchSockets, UserRoom, Stale,
         Connected, storeVars
<1>11. ASSUME NEW c \in Ids, NEW u \in Registered, FetchFails(c, u) PROVE ToldInv'
  BY <1>11, QueueFixed
     DEF Typed, RoomsTypeOK, StoreTypeOK, ToldInv, Phases, FetchFails, UserRoom, Stale, Connected,
         storeVars
<1>12. ASSUME NEW c \in Ids, NEW s \in Sockets, JoinSocket(c, s) PROVE ToldInv'
  BY <1>12, QueueFixed
     DEF Typed, RoomsTypeOK, StoreTypeOK, ToldInv, Phases, JoinSocket, Connected, storeVars
<1>13. ASSUME NEW c \in Ids, NEW s \in Sockets, JoinFails(c, s) PROVE ToldInv'
  BY <1>13, QueueFixed DEF Typed, RoomsTypeOK, StoreTypeOK, ToldInv, Phases, JoinFails, storeVars
<1>14. ASSUME NEW c \in Ids, NotifyParticipants(c) PROVE ToldInv'
  BY <1>14, QueueFixed
     DEF Typed, RoomsTypeOK, StoreTypeOK, ToldInv, Phases, NotifyParticipants, Connected,
         JoinsOver, storeVars
<1>15. CASE Crash
  BY <1>15, QueueCrash DEF Typed, RoomsTypeOK, StoreTypeOK, ToldInv, Phases, Crash, storeVars
<1> QED
  BY <1>1, <1>2, <1>3, <1>4, <1>5, <1>6, <1>7, <1>8, <1>9, <1>10, <1>11,
     <1>12, <1>13, <1>14, <1>15 DEF Next, ChatService, Handshake,
     HandleCreated

\* Every action keeps sockets out of rooms of other users' conversations.
LEMMA SoundStep ==
    ASSUME NEW S, Ids \subseteq S, Typed(S), QueueInv, HandlerInv, RoomsSound, Next
    PROVE  RoomsSound'
<1>1. ASSUME NEW c \in Ids, NEW M \in SUBSET Registered, NEW p \in BOOLEAN, CreateConversation(c, M, p)
      PROVE  RoomsSound'
  BY <1>1, QueueFixed
     DEF Typed, RoomsTypeOK, StoreTypeOK, HandlerInv, RoomsSound, Conversations,
         CreateConversation, Create, roomVars
<1>2. ASSUME NEW c \in Ids, AnnounceConversation(c) PROVE RoomsSound'
  BY <1>2, QueueAnnounce
     DEF Typed, RoomsTypeOK, StoreTypeOK, HandlerInv, RoomsSound, Conversations,
         AnnounceConversation, Announce
<1>3. ASSUME NEW s \in Sockets, Reject(s) PROVE RoomsSound'
  BY <1>3, QueueFixed
     DEF Typed, RoomsTypeOK, StoreTypeOK, HandlerInv, RoomsSound, Conversations, Reject, storeVars
<1>4. ASSUME NEW s \in Sockets, Authenticate(s) PROVE RoomsSound'
  BY <1>4, QueueFixed
     DEF Typed, RoomsTypeOK, StoreTypeOK, HandlerInv, RoomsSound, Conversations, Authenticate,
         storeVars
<1>5. ASSUME NEW s \in Sockets, ListConversations(s) PROVE RoomsSound'
  BY <1>5, QueueFixed
     DEF Typed, RoomsTypeOK, StoreTypeOK, HandlerInv, RoomsSound, Conversations,
         ListConversations, storeVars
<1>6. ASSUME NEW s \in Sockets, ListFails(s) PROVE RoomsSound'
  BY <1>6, QueueFixed
     DEF Typed, RoomsTypeOK, StoreTypeOK, HandlerInv, RoomsSound, Conversations, ListFails,
         storeVars
<1>7. ASSUME NEW s \in Sockets, Connect(s) PROVE RoomsSound'
  BY <1>7, QueueFixed
     DEF Typed, RoomsTypeOK, StoreTypeOK, HandlerInv, RoomsSound, Conversations, Connect,
         storeVars
<1>8. ASSUME NEW s \in Sockets, Disconnect(s) PROVE RoomsSound'
  BY <1>8, QueueFixed
     DEF Typed, RoomsTypeOK, StoreTypeOK, HandlerInv, RoomsSound, Conversations, Disconnect,
         storeVars
<1>9. ASSUME NEW c \in Ids, StartJoin(c) PROVE RoomsSound'
  BY <1>9, QueueStart
     DEF Typed, RoomsTypeOK, StoreTypeOK, HandlerInv, RoomsSound, Conversations, StartJoin,
         storeVars
<1>10. ASSUME NEW c \in Ids, NEW u \in Registered, FetchSockets(c, u) PROVE RoomsSound'
  BY <1>10, QueueFixed
     DEF Typed, RoomsTypeOK, StoreTypeOK, HandlerInv, RoomsSound, Conversations, FetchSockets,
         UserRoom, Stale, Connected, storeVars
<1>11. ASSUME NEW c \in Ids, NEW u \in Registered, FetchFails(c, u) PROVE RoomsSound'
  BY <1>11, QueueFixed
     DEF Typed, RoomsTypeOK, StoreTypeOK, HandlerInv, RoomsSound, Conversations, FetchFails,
         UserRoom, Stale, Connected, storeVars
<1>12. ASSUME NEW c \in Ids, NEW s \in Sockets, JoinSocket(c, s) PROVE RoomsSound'
  BY <1>12, QueueFixed
     DEF Typed, RoomsTypeOK, StoreTypeOK, HandlerInv, RoomsSound, Conversations, JoinSocket,
         Connected, storeVars
<1>13. ASSUME NEW c \in Ids, NEW s \in Sockets, JoinFails(c, s) PROVE RoomsSound'
  BY <1>13, QueueFixed
     DEF Typed, RoomsTypeOK, StoreTypeOK, HandlerInv, RoomsSound, Conversations, JoinFails,
         storeVars
<1>14. ASSUME NEW c \in Ids, NotifyParticipants(c) PROVE RoomsSound'
  BY <1>14, QueueFixed
     DEF Typed, RoomsTypeOK, StoreTypeOK, HandlerInv, RoomsSound, Conversations,
         NotifyParticipants, Connected, JoinsOver, storeVars
<1>15. CASE Crash
  BY <1>15, QueueCrash
     DEF Typed, RoomsTypeOK, StoreTypeOK, HandlerInv, RoomsSound, Conversations, Crash, storeVars
<1> QED
  BY <1>1, <1>2, <1>3, <1>4, <1>5, <1>6, <1>7, <1>8, <1>9, <1>10, <1>11,
     <1>12, <1>13, <1>14, <1>15 DEF Next, ChatService, Handshake,
     HandleCreated

\* Every action leaves a missing socket pending, or counted as overlooked.
LEMMA CoverageStep ==
    ASSUME NEW S, Ids \subseteq S, Typed(S), QueueInv, HandlerInv, RoomCoverage, Next
    PROVE  RoomCoverage'
<1>1. ASSUME NEW c \in Ids, NEW M \in SUBSET Registered, NEW p \in BOOLEAN, CreateConversation(c, M, p)
      PROVE  RoomCoverage'
  BY <1>1, QueueFixed
     DEF Typed, RoomsTypeOK, StoreTypeOK, QueueInv, HandlerInv, RoomCoverage, Pending,
         CreateConversation, Create, roomVars
<1>2. ASSUME NEW c \in Ids, AnnounceConversation(c) PROVE RoomCoverage'
  BY <1>2, QueueAnnounce
     DEF Typed, RoomsTypeOK, StoreTypeOK, QueueInv, HandlerInv, RoomCoverage, Pending,
         AnnounceConversation, Announce
<1>3. ASSUME NEW s \in Sockets, Reject(s) PROVE RoomCoverage'
  BY <1>3, QueueFixed
     DEF Typed, RoomsTypeOK, StoreTypeOK, QueueInv, HandlerInv, RoomCoverage, Pending, Reject,
         storeVars
<1>4. ASSUME NEW s \in Sockets, Authenticate(s) PROVE RoomCoverage'
  BY <1>4, QueueFixed
     DEF Typed, RoomsTypeOK, StoreTypeOK, QueueInv, HandlerInv, RoomCoverage, Pending,
         Authenticate, storeVars
<1>5. ASSUME NEW s \in Sockets, ListConversations(s) PROVE RoomCoverage'
  BY <1>5, QueueFixed
     DEF Typed, RoomsTypeOK, StoreTypeOK, QueueInv, HandlerInv, RoomCoverage, Pending,
         ListConversations, Conversations, storeVars
<1>6. ASSUME NEW s \in Sockets, ListFails(s) PROVE RoomCoverage'
  BY <1>6, QueueFixed
     DEF Typed, RoomsTypeOK, StoreTypeOK, QueueInv, HandlerInv, RoomCoverage, Pending, ListFails,
         storeVars
<1>7. ASSUME NEW s \in Sockets, Connect(s) PROVE RoomCoverage'
  BY <1>7, QueueFixed
     DEF Typed, RoomsTypeOK, StoreTypeOK, QueueInv, HandlerInv, RoomCoverage, Pending, Connect,
         storeVars
<1>8. ASSUME NEW s \in Sockets, Disconnect(s) PROVE RoomCoverage'
  BY <1>8, QueueFixed
     DEF Typed, RoomsTypeOK, StoreTypeOK, QueueInv, HandlerInv, RoomCoverage, Pending, Disconnect,
         storeVars
<1>9. ASSUME NEW c \in Ids, StartJoin(c) PROVE RoomCoverage'
  BY <1>9, QueueStart
     DEF Typed, RoomsTypeOK, StoreTypeOK, QueueInv, HandlerInv, RoomCoverage, Pending, StartJoin,
         storeVars
<1>10. ASSUME NEW c \in Ids, NEW u \in Registered, FetchSockets(c, u)
      PROVE  RoomCoverage'
  BY <1>10, QueueFixed
     DEF Typed, RoomsTypeOK, StoreTypeOK, QueueInv, HandlerInv, RoomCoverage, Pending,
         FetchSockets, UserRoom, Stale, Connected, storeVars
<1>11. ASSUME NEW c \in Ids, NEW u \in Registered, FetchFails(c, u) PROVE RoomCoverage'
  BY <1>11, QueueFixed
     DEF Typed, RoomsTypeOK, StoreTypeOK, QueueInv, HandlerInv, RoomCoverage, Pending, FetchFails,
         UserRoom, Stale, Connected, storeVars
<1>12. ASSUME NEW c \in Ids, NEW s \in Sockets, JoinSocket(c, s) PROVE RoomCoverage'
  BY <1>12, QueueFixed
     DEF Typed, RoomsTypeOK, StoreTypeOK, QueueInv, HandlerInv, RoomCoverage, Pending, JoinSocket,
         Connected, storeVars
<1>13. ASSUME NEW c \in Ids, NEW s \in Sockets, JoinFails(c, s) PROVE RoomCoverage'
  BY <1>13, QueueFixed
     DEF Typed, RoomsTypeOK, StoreTypeOK, QueueInv, HandlerInv, RoomCoverage, Pending, JoinFails,
         storeVars
<1>14. ASSUME NEW c \in Ids, NotifyParticipants(c) PROVE RoomCoverage'
  BY <1>14, QueueFixed
     DEF Typed, RoomsTypeOK, StoreTypeOK, QueueInv, HandlerInv, RoomCoverage, Pending,
         NotifyParticipants, Connected, JoinsOver, storeVars
<1>15. CASE Crash
  BY <1>15, QueueCrash
     DEF Typed, RoomsTypeOK, StoreTypeOK, QueueInv, HandlerInv, RoomCoverage, Pending, Crash,
         storeVars
<1> QED
  BY <1>1, <1>2, <1>3, <1>4, <1>5, <1>6, <1>7, <1>8, <1>9, <1>10, <1>11,
     <1>12, <1>13, <1>14, <1>15 DEF Next, ChatService, Handshake,
     HandleCreated

\* Every action tells a socket only of rooms it is in or will never join.
LEMMA NotifiedStep ==
    ASSUME NEW S, Ids \subseteq S, Typed(S), QueueInv, HandlerInv, ToldInv, RoomCoverage, NotifiedInRoom, Next
    PROVE  NotifiedInRoom'
<1>1. ASSUME NEW c \in Ids, NEW M \in SUBSET Registered, NEW p \in BOOLEAN, CreateConversation(c, M, p)
      PROVE  NotifiedInRoom'
  BY <1>1, QueueFixed
     DEF Typed, RoomsTypeOK, StoreTypeOK, QueueInv, ToldInv, NotifiedInRoom, Connected,
         CreateConversation, Create, roomVars
<1>2. ASSUME NEW c \in Ids, AnnounceConversation(c) PROVE NotifiedInRoom'
  BY <1>2, QueueAnnounce
     DEF Typed, RoomsTypeOK, StoreTypeOK, QueueInv, ToldInv, NotifiedInRoom, Connected,
         AnnounceConversation, Announce
<1>3. ASSUME NEW s \in Sockets, Reject(s) PROVE NotifiedInRoom'
  BY <1>3, QueueFixed
     DEF Typed, RoomsTypeOK, StoreTypeOK, QueueInv, ToldInv, NotifiedInRoom, Connected, Reject,
         storeVars
<1>4. ASSUME NEW s \in Sockets, Authenticate(s) PROVE NotifiedInRoom'
  BY <1>4, QueueFixed
     DEF Typed, RoomsTypeOK, StoreTypeOK, QueueInv, ToldInv, NotifiedInRoom, Connected,
         Authenticate, storeVars
<1>5. ASSUME NEW s \in Sockets, ListConversations(s) PROVE NotifiedInRoom'
  BY <1>5, QueueFixed
     DEF Typed, RoomsTypeOK, StoreTypeOK, QueueInv, ToldInv, NotifiedInRoom, Connected,
         ListConversations, Conversations, storeVars
<1>6. ASSUME NEW s \in Sockets, ListFails(s) PROVE NotifiedInRoom'
  BY <1>6, QueueFixed
     DEF Typed, RoomsTypeOK, StoreTypeOK, QueueInv, ToldInv, NotifiedInRoom, Connected, ListFails,
         storeVars
<1>7. ASSUME NEW s \in Sockets, Connect(s) PROVE NotifiedInRoom'
  BY <1>7, QueueFixed
     DEF Typed, RoomsTypeOK, StoreTypeOK, QueueInv, ToldInv, NotifiedInRoom, Connected, Connect,
         storeVars
<1>8. ASSUME NEW s \in Sockets, Disconnect(s) PROVE NotifiedInRoom'
  BY <1>8, QueueFixed
     DEF Typed, RoomsTypeOK, StoreTypeOK, QueueInv, ToldInv, NotifiedInRoom, Connected,
         Disconnect, storeVars
<1>9. ASSUME NEW c \in Ids, StartJoin(c) PROVE NotifiedInRoom'
  BY <1>9, QueueStart
     DEF Typed, RoomsTypeOK, StoreTypeOK, QueueInv, ToldInv, NotifiedInRoom, Connected, StartJoin,
         storeVars
<1>10. ASSUME NEW c \in Ids, NEW u \in Registered, FetchSockets(c, u)
      PROVE  NotifiedInRoom'
  BY <1>10, QueueFixed
     DEF Typed, RoomsTypeOK, StoreTypeOK, QueueInv, ToldInv, NotifiedInRoom, Connected,
         FetchSockets, UserRoom, Stale, storeVars
<1>11. ASSUME NEW c \in Ids, NEW u \in Registered, FetchFails(c, u)
      PROVE  NotifiedInRoom'
  BY <1>11, QueueFixed
     DEF Typed, RoomsTypeOK, StoreTypeOK, QueueInv, ToldInv, NotifiedInRoom, Connected,
         FetchFails, UserRoom, Stale, storeVars
<1>12. ASSUME NEW c \in Ids, NEW s \in Sockets, JoinSocket(c, s) PROVE NotifiedInRoom'
  BY <1>12, QueueFixed
     DEF Typed, RoomsTypeOK, StoreTypeOK, QueueInv, ToldInv, NotifiedInRoom, Connected,
         JoinSocket, storeVars
<1>13. ASSUME NEW c \in Ids, NEW s \in Sockets, JoinFails(c, s) PROVE NotifiedInRoom'
  BY <1>13, QueueFixed
     DEF Typed, RoomsTypeOK, StoreTypeOK, QueueInv, ToldInv, NotifiedInRoom, Connected, JoinFails,
         storeVars
<1>14. ASSUME NEW c \in Ids, NotifyParticipants(c) PROVE NotifiedInRoom'
  <2>1. \A s \in Sockets : Connected(s) /\ user[s] \in members[c]
                           => c \in rooms[s] \/ <<s, c>> \in overlooked
    <3>1. c \in announced /\ ~InQueue(c) /\ todo[c] = {} /\ fetched[c] = {}
      BY <1>14 DEF QueueInv, NotifyParticipants, JoinsOver
    <3> QED
      BY <3>1 DEF RoomCoverage, Pending, Connected
  <2> QED
    BY <1>14, <2>1 DEF Typed, RoomsTypeOK, NotifyParticipants, NotifiedInRoom, Connected
<1>15. CASE Crash
  BY <1>15, QueueCrash
     DEF Typed, RoomsTypeOK, StoreTypeOK, QueueInv, ToldInv, NotifiedInRoom, Connected, Crash,
         storeVars
<1> QED
  BY <1>1, <1>2, <1>3, <1>4, <1>5, <1>6, <1>7, <1>8, <1>9, <1>10, <1>11,
     <1>12, <1>13, <1>14, <1>15 DEF Next, ChatService, Handshake,
     HandleCreated

\* It holds at the start, when nothing is connected, queued or announced.
LEMMA Start == Init => IInv
BY DEF Init, StoreInit, IInv, TypeOK, StoreTypeOK, Phases, QueueInv, Distinct, InQueue,
       RoomsTypeOK, HandlerInv, JoinsOver, ToldInv, RoomsSound, RoomCoverage, NotifiedInRoom,
       Connected

\* The invariant is inductive: the reachable states satisfy all its parts.
THEOREM Invariant == Spec => []IInv
<1>1. Init => IInv
  BY Start
<1>2. IInv /\ [Next]_vars => IInv'
  <2>1. CASE Next
    BY <2>1, TypeStep, QueueStep, HandlerStep, ToldStep, SoundStep, CoverageStep, NotifiedStep
       DEF IInv, TypeOK, Typed
  <2>2. ASSUME IInv, UNCHANGED vars PROVE IInv'
    BY <2>2, QueueFixed
       DEF vars, storeVars, roomVars, IInv, TypeOK, RoomsTypeOK, StoreTypeOK, QueueInv,
           HandlerInv, JoinsOver,
           ToldInv, RoomsSound, Conversations, RoomCoverage, Pending, NotifiedInRoom, Connected
  <2> QED
    BY <2>1, <2>2
<1> QED
  BY <1>1, <1>2, PTL DEF Spec

\* Type correctness.
THEOREM TypeCorrect == Spec => []TypeOK
BY Invariant, PTL DEF IInv

\* Neither the handshake's list nor an event's joins put a socket into a room
\* its user does not belong to.
THEOREM OnlyParticipants == Spec => []RoomsSound
BY Invariant, PTL DEF IInv

\* The handshake race and failed calls are the only ways to miss a room.
THEOREM NoOtherGap == Spec => []RoomCoverage
BY Invariant, PTL DEF IInv

\* A client is told of a conversation once its socket is in the room, or never
\* will be.
THEOREM JoinedBeforeTold == Spec => []NotifiedInRoom
BY Invariant, PTL DEF IInv

----------------------------------------------------------------------------
\* How a participant's socket comes to be outside a room, and for how long.

\* README.md's promise as the code keeps it: once the event of a conversation
\* is handled, a connected participant is in the room unless it was overlooked.
InItsRoomsOrOverlooked ==
    \A s \in Sockets, c \in announced :
        Connected(s) /\ user[s] \in members[c] /\ ~InQueue(c) /\ c \notin joining
        => c \in rooms[s] \/ <<s, c>> \in overlooked

\* While fetches and joins succeed, a socket is overlooked only between its list
\* of conversations, which lacks this one, and its entry into the user room.
OverlookedInWindow ==
    [][\A s \in Sockets, c \in Ids :
         <<s, c>> \in overlooked' \ overlooked =>
             \/ phase[s] = "listed" /\ c \notin rooms[s]
             \/ Faults \cap {"fetch", "join"} # {}]_vars

\* s is outside the room of c and no handler is to look for it any more.
LeftOut(s, c) ==
    /\ phase[s] \in {"listed", "connected"}
    /\ c \notin rooms[s]
    /\ c \in announced /\ ~InQueue(c) /\ c \notin joining

\* A socket left out of a room stays out until it closes: nothing repairs the
\* gap of the handshake later.
NoLateRepair ==
    [][\A s \in Sockets, c \in Ids : LeftOut(s, c) => LeftOut(s, c)' \/ phase'[s] = "closed"]_vars

\* No step brings a socket that was left out back in.
LEMMA LeftOutStep ==
    ASSUME NEW S, Ids \subseteq S, Typed(S), QueueInv, HandlerInv, Next,
           NEW s \in Sockets, NEW c \in Ids, LeftOut(s, c)
    PROVE  LeftOut(s, c)' \/ phase'[s] = "closed"
<1> USE DEF LeftOut, Typed, RoomsTypeOK
<1>1. ASSUME NEW d \in Ids, NEW M, NEW p, CreateConversation(d, M, p)
      PROVE  LeftOut(s, c)'
  BY <1>1, QueueFixed DEF CreateConversation, Create, roomVars
<1>2. ASSUME NEW d \in Ids, AnnounceConversation(d) PROVE LeftOut(s, c)'
  BY <1>2, QueueAnnounce DEF AnnounceConversation, Announce
<1>3. ASSUME NEW t \in Sockets, Handshake(t) \/ Reject(t) \/ Disconnect(t)
      PROVE  LeftOut(s, c)' \/ phase'[s] = "closed"
  BY <1>3, QueueFixed
  DEF Handshake, Authenticate, ListConversations, ListFails, Connect, Reject, Disconnect, storeVars
<1>4. ASSUME NEW d \in Ids, StartJoin(d) PROVE LeftOut(s, c)'
  BY <1>4, QueueStart DEF StartJoin, storeVars
<1>5. ASSUME NEW d \in Ids, NEW u \in Registered, FetchSockets(d, u) \/ FetchFails(d, u)
      PROVE  LeftOut(s, c)'
  BY <1>5, QueueFixed DEF FetchSockets, FetchFails, storeVars
<1>6. ASSUME NEW d \in Ids, NEW t \in Sockets, JoinSocket(d, t) \/ JoinFails(d, t)
      PROVE  LeftOut(s, c)'
  <2>1. d # c
    BY <1>6 DEF JoinSocket, JoinFails, HandlerInv, JoinsOver
  <2> QED
    BY <1>6, <2>1, QueueFixed DEF JoinSocket, JoinFails, storeVars
<1>7. ASSUME NEW d \in Ids, NotifyParticipants(d) PROVE LeftOut(s, c)'
  BY <1>7, QueueFixed DEF NotifyParticipants, storeVars
<1>8. CASE Crash
  BY <1>8 DEF Crash
<1> QED
  BY <1>1, <1>2, <1>3, <1>4, <1>5, <1>6, <1>7, <1>8
  DEF Next, ChatService, HandleCreated

\* With the event handled, only the overlooked are outside.
THEOREM InRoomsOrOverlooked == Spec => []InItsRoomsOrOverlooked
<1>1. IInv => InItsRoomsOrOverlooked
  BY DEF IInv, TypeOK, RoomsTypeOK, StoreTypeOK, HandlerInv, JoinsOver, RoomCoverage, Pending,
     Connected, InItsRoomsOrOverlooked
<1> QED
  BY <1>1, Invariant, PTL

\* The window in which a socket can be overlooked, for any number of sockets and
\* conversations.
THEOREM OnlyInWindow == Spec => OverlookedInWindow
<1> DEFINE InWindow ==
      \A s \in Sockets, c \in Ids :
         <<s, c>> \in overlooked' \ overlooked =>
             \/ phase[s] = "listed" /\ c \notin rooms[s]
             \/ Faults \cap {"fetch", "join"} # {}
<1>1. [Next]_vars => InWindow
  <2>1. ASSUME NEW d \in Ids, NEW u \in Registered, FetchSockets(d, u) PROVE InWindow
    BY <2>1 DEF FetchSockets, Stale
  <2>2. ASSUME NEW d \in Ids, NEW u \in Registered, FetchFails(d, u) PROVE InWindow
    BY <2>2 DEF FetchFails
  <2>3. ASSUME NEW d \in Ids, NEW t \in Sockets, JoinFails(d, t) PROVE InWindow
    BY <2>3 DEF JoinFails
  <2>4. CASE UNCHANGED overlooked
    BY <2>4
  <2> QED
    BY <2>1, <2>2, <2>3, <2>4
    DEF Next, vars, ChatService, CreateConversation, roomVars, AnnounceConversation, HandleCreated,
       StartJoin, JoinSocket, NotifyParticipants, Handshake, Authenticate, ListConversations,
       ListFails, Connect, Reject, Disconnect, Crash
<1> QED
  BY <1>1, PTL DEF Spec, OverlookedInWindow

\* A gap lasts as long as its socket.
THEOREM NeverRepaired == Spec => NoLateRepair
<1> DEFINE Stays ==
      \A s \in Sockets, c \in Ids : LeftOut(s, c) => LeftOut(s, c)' \/ phase'[s] = "closed"
<1>1. IInv /\ [Next]_vars => Stays
  <2>1. ASSUME IInv, Next PROVE Stays
    BY <2>1, LeftOutStep DEF IInv, TypeOK, Typed
  <2>2. ASSUME UNCHANGED vars PROVE Stays
    BY <2>2, QueueFixed DEF vars, storeVars, roomVars, LeftOut
  <2> QED
    BY <2>1, <2>2
<1> QED
  BY <1>1, Invariant, PTL DEF Spec, NoLateRepair

----------------------------------------------------------------------------
\* What NotificationArrives needs besides fairness.

\* The socket of a participant awaits the event of c.
Awaits(s, c) ==
    /\ InQueue(c) \/ c \in joining
    /\ Connected(s) /\ user[s] \in members[c]

\* No step of the gateway, of chat or of a failure takes an event from a
\* participant that awaits it but by telling it, or with its socket.
NotForgotten ==
    [][\A s \in Sockets, c \in Ids :
         Awaits(s, c) => Awaits(s, c)' \/ c \in told'[s] \/ ~Connected(s)']_vars

\* A pending event stays pending until the participants there are told.
LEMMA AwaitStep ==
    ASSUME NEW S, Ids \subseteq S, Typed(S), QueueInv, HandlerInv, Next,
           NEW s \in Sockets, NEW c \in Ids, Awaits(s, c)
    PROVE  Awaits(s, c)' \/ c \in told'[s] \/ ~Connected(s)'
<1> USE DEF Awaits, Typed, RoomsTypeOK, Connected
<1>1. ASSUME NEW d \in Ids, NEW M, NEW p, CreateConversation(d, M, p)
      PROVE  Awaits(s, c)'
  BY <1>1, QueueFixed DEF CreateConversation, Create, roomVars, StoreTypeOK
<1>2. ASSUME NEW d \in Ids, AnnounceConversation(d) PROVE Awaits(s, c)'
  BY <1>2, QueueAnnounce DEF AnnounceConversation, Announce
<1>3. ASSUME NEW t \in Sockets, Handshake(t) \/ Reject(t) \/ Disconnect(t)
      PROVE  Awaits(s, c)' \/ ~Connected(s)'
  BY <1>3, QueueFixed
  DEF Handshake, Authenticate, ListConversations, ListFails, Connect, Reject, Disconnect, storeVars
<1>4. ASSUME NEW d \in Ids, StartJoin(d) PROVE Awaits(s, c)'
  BY <1>4, QueueStart DEF StartJoin, storeVars
<1>5. ASSUME NEW d \in Ids, NEW u \in Registered, FetchSockets(d, u) \/ FetchFails(d, u)
      PROVE  Awaits(s, c)'
  BY <1>5, QueueFixed DEF FetchSockets, FetchFails, storeVars
<1>6. ASSUME NEW d \in Ids, NEW t \in Sockets, JoinSocket(d, t) \/ JoinFails(d, t)
      PROVE  Awaits(s, c)'
  BY <1>6, QueueFixed DEF JoinSocket, JoinFails, storeVars
<1>7. ASSUME NEW d \in Ids, NotifyParticipants(d) PROVE Awaits(s, c)' \/ c \in told'[s]
  BY <1>7, QueueFixed DEF NotifyParticipants, storeVars
<1>8. CASE Crash
  BY <1>8 DEF Crash
<1> QED
  BY <1>1, <1>2, <1>3, <1>4, <1>5, <1>6, <1>7, <1>8
  DEF Next, ChatService, HandleCreated

\* Whoever awaits an event keeps awaiting it until told.
THEOREM NobodyForgotten == Spec => NotForgotten
<1> DEFINE Kept ==
      \A s \in Sockets, c \in Ids :
         Awaits(s, c) => Awaits(s, c)' \/ c \in told'[s] \/ ~Connected(s)'
<1>1. IInv /\ [Next]_vars => Kept
  <2>1. ASSUME IInv, Next PROVE Kept
    BY <2>1, AwaitStep DEF IInv, TypeOK, Typed
  <2>2. ASSUME UNCHANGED vars PROVE Kept
    BY <2>2, QueueFixed DEF vars, storeVars, roomVars, Awaits, Connected
  <2> QED
    BY <2>1, <2>2
<1> QED
  BY <1>1, Invariant, PTL DEF Spec, NotForgotten

----------------------------------------------------------------------------
\* The rooms leave the store its own: what they read of it is module
\* Conversations, with all it promises.

\* Two users have one private conversation, only stored conversations are
\* announced.
StorePromise ==
    /\ StoreTypeOK
    /\ \A c \in private : IsPair(members[c])
    /\ \A c, d \in private : members[c] = members[d] => c = d
    /\ \A c \in announced : members[c] # {}

\* Who participates in a conversation is settled when it is created.
MembersFixed == [][\A c \in Ids : members[c] # {} => members'[c] = members[c]]_storeVars

\* The store keeps its promise, whoever uses it.
THEOREM StoreKeepsPromise == StoreSpec => []StorePromise
<1>1. StoreInit => StorePromise
  BY DEF StoreInit, StorePromise, StoreTypeOK
<1>2. StorePromise /\ [StoreNext]_storeVars => StorePromise'
  <2> SUFFICES ASSUME StorePromise, [StoreNext]_storeVars PROVE StorePromise'
    OBVIOUS
  <2> USE DEF StorePromise, StoreTypeOK
  <2>1. ASSUME NEW c \in Ids, NEW M \in SUBSET Registered, NEW p \in BOOLEAN, Create(c, M, p)
        PROVE  StorePromise'
    <3>1. /\ c \notin private
          /\ members'[c] = M
          /\ \A d \in Ids \ {c} : members'[d] = members[d]
      BY <2>1 DEF Create, IsPair
    <3> QED
      BY <2>1, <3>1 DEF Create, PairFree, IsPair
  <2>2. ASSUME NEW c \in Ids, Announce(c) PROVE StorePromise'
    BY <2>2 DEF Announce
  <2>3. CASE UNCHANGED storeVars
    BY <2>3 DEF storeVars
  <2> QED
    BY <2>1, <2>2, <2>3 DEF StoreNext
<1> QED
  BY <1>1, <1>2, PTL DEF StoreSpec

\* Nobody is added to a conversation, or taken from it, later.
THEOREM MembersAreFixed == StoreSpec => MembersFixed
<1>1. StorePromise /\ [StoreNext]_storeVars
        => \A c \in Ids : members[c] # {} => members'[c] = members[c]
  BY DEF StorePromise, StoreTypeOK, StoreNext, Create, Announce, storeVars
<1> QED
  BY <1>1, StoreKeepsPromise, PTL DEF StoreSpec, MembersFixed

\* A step of the rooms is a step of the store or leaves it alone.
LEMMA StoreFootprint ==
    ASSUME [Next]_vars
    PROVE  [StoreNext]_storeVars
BY DEF Next, vars, StoreNext, ChatService, CreateConversation, AnnounceConversation,
   HandleCreated, StartJoin, FetchSockets, FetchFails, JoinSocket, JoinFails, NotifyParticipants,
   Handshake, Authenticate, ListConversations, ListFails, Connect, Reject, Disconnect, Crash

\* The rooms run on the store createConversation was shown to implement.
THEOREM RoomsUseStore == Spec => StoreSpec
<1>1. Init => StoreInit
  BY DEF Init
<1>2. [Next]_vars => [StoreNext]_storeVars
  BY StoreFootprint
<1> QED
  BY <1>1, <1>2, PTL DEF Spec, StoreSpec

============================================================================
