# Formal models of the chat microservices

TLA+ models of the NestJS chat backend in `src/`: how conversations are created,
how sockets come to be in their rooms, how messages are stored, delivered and
ordered, how a list is paged through, how accounts are registered, for whom a
token acts, and what becomes of errors. TLC checks them on
small instances; TLAPS proves every invariant they check, and more, for every
value of the constants.

## 1. The system

Four processes talk through RabbitMQ. The API gateway is the only one clients
see; it serves HTTP and Socket.IO. The others consume one queue each.

| Part | Code | State | Operations |
| --- | --- | --- | --- |
| Chat service: conversations | `apps/chat/src/chat.service.ts`, `utils/mongoTransaction.util.ts`, `schemas/` | MongoDB collections `conversations`, `participants`; a unique partial index on `idempotencyKey` | `chat.createConversation`, `chat.myConversationIds`, `chat.myConversations` |
| Chat service: messages | `chat.service.ts`, `schemas/message.schema.ts` | collection `messages` | `chat.sendMessage` |
| Chat events | `chatEvents.publisher.ts`, `chatEvents.controller.ts` | `api_gateway_events_queue` | `conversationCreated`, `messageSent` and their handlers |
| Gateway: Socket.IO | `chat/chat.gateway.ts`, `common/middlewares/webSocketAuth.middleware.ts`, `common/utils/userRoom.util.ts` | sockets, `socket.data`, rooms `user:<id>` and `conversation:<id>` | handshake, `handleConnection`, `handleDisconnect`, `sendMessage`, `emitConversationCreated`, `emitMessageSent` |
| Gateway: HTTP | `chat/chat.controller.ts`, `auth/auth.controller.ts`, `auth.guard.ts`, `guest.guard.ts`, `roles.guard.ts` | `request.user` while a request lasts | one RPC per route, after an RPC to validate the token |
| Errors | `libs/common/.../rpcException.filter.ts`, `rpc.interceptor.ts`, `ws-exception.filter.ts` | none | one translation per hop |
| Users service | `apps/users/src` | MySQL table `users`, unique `username` and `email` | `createOne`, `findOneBy`, `findBy`, `findByIds` |
| Auth service | `apps/auth/src` | the key pair; nothing is kept of a token | `register`, `login`, `validateToken` |

How they interact:

- RPC: the gateway calls auth and chat, chat and auth call users. A call is a
    message and a reply; there is no timeout and no retry in this code. Queues are
  consumed with Nest's default `noAck`, so a message delivered to a process that
  dies is gone, and whoever awaits its reply waits for ever.
- Events: after its commit, chat emits `chat.conversation.created`; after storing
  a message that came over HTTP, `chat.message.send`. A failed emit is logged and
  forgotten. The gateway handles events concurrently: each handler is an async
  function that interleaves with the others at its awaits.
- Shared state: the rooms are written by the handshake (from a list it read from
  chat) and by the event handler (for sockets it finds in the user's room). The
  two paths are not ordered with each other.

What is hard here, and what makes each part correct:

| Part | Hard | Correct when |
| --- | --- | --- |
| `createConversation` | concurrent requests of one pair; a failure at any await of the transaction; a commit whose outcome is unknown; a crash | a pair has one private conversation; a conversation is stored whole or not; the caller is told the truth, and is told of no error that came after the commit |
| rooms | a handshake racing an announcement; joins interleaving with disconnects and other handlers; failing joins; gateway restart | sockets are in rooms of their own conversations, in all of them, and are told of a conversation after joining |
| messages | two routes sharing one service; storing, emitting and acknowledging are separate; the store goes by the ObjectId, the room by the raw string; crashes | participants only, at most once, acknowledged only if stored and emitted |
| listing | ties of `updatedAt`; conversations committed during a walk, behind the cursor too; lost pages | nothing repeated, nothing skipped, `hasMore` true |
| registration | nothing looks for an existing account first; three indexes, gone through one after the other in a transaction that makes others wait; a body that carries an id is an update of what it read before; lost commits; three processes that may die | a name and an email belong to one account at any time; nobody is refused on account of a registration that failed; the caller is told the truth |
| login | reads what another service wrote and may write again; names and passwords are compared more coarsely than they are typed | whoever was told of its account gets in; a name is one account; both until the account is saved over |
| guards, handshake | tokens in several places; the clock goes on during the RPCs; failing RPCs; a token outlived by its socket | a call acts for the owner of a token it came with; an expired token opens nothing; a good one is not refused without cause |
| errors | several hops, each catching what the previous made | status and message survive, internals do not |

`PROJECT.json` lists every hazard at its line with the properties aimed at it.

## 2. The modules

```
Conversations            abstract store: Create, Announce
   ^ refined by             ^ extended by
ConversationTx           ChatRooms  <-- extended by --  ChatMessages <- MessageOrder
   ^                        ^                              ^
ConversationTxProofs     ChatRoomsProofs  <-----------  ChatMessagesProofs
                                                           ^
                                                        MessageOrderProofs

Accounts                 abstract table: Create, Overwrite, Welcome
   ^ refined by             ^ extended by
Registration             Sessions
   ^                        ^
RegistrationProofs       SessionsProofs

Pagination <- PaginationProofs          RpcErrors <- RpcErrorsProofs
MC*: constants for TLC
```

`Conversations` is the hinge. `ConversationTx` shows that the code's transaction
followed by its emit implements it, so `ChatRooms` and `ChatMessages` use the two
abstract steps instead of the transaction's twenty. `Accounts` is the same for
users: `Registration` implements it, `Sessions` stands on it.

**ConversationTx** — one element of `Requests` per call, standing also for the
ObjectId of the document it would insert (mongoose assigns it before the insert).
Each await of `createConversation` and `withTransaction` ends an action:

| Code | Actions |
| --- | --- |
| arity check (`chat.service.ts:56`) | `RejectArity`, else `AskUsers` |
| `findUsersByIds` and the check after it (65-72) | `AcceptUsers`, `RejectUnknownUsers`, `LookupFails`; `LookupLost` |
| `startSession`, `startTransaction` | `StartSession`, `SessionFails` |
| `conversationModel.create` (82) | `InsertConversation`, `DuplicateKey`, `WriteConflict`, `InsertFails` |
| `insertMany` (104) | `InsertParticipants`, `InsertManyFails` |
| `commitTransaction` | `Commit`, `CommitUnknown`, `CommitFails` |
| `catch`: `inTransaction`, `abortTransaction` | `Abort`, `SkipAbort` |
| `finally`: `endSession` | `EndSession` |
| `conversationCreated` | `Publish`, `PublishFails` |
| return or throw to the RPC layer | `Reply` |

`session` is the driver's view and `txn` the server's, because they disagree: the
driver is out of the transaction once `commitTransaction` was called, whatever
came of it, and `inTransaction()` asks the driver. MongoDB is external: the unique
index sees committed keys (a duplicate, answered 409) and keys of open transactions (a WriteConflict, answered 500), and the server ends transactions
left open (`Expire`). `LookupLost` is the end of the users service while chat lives:
the await at `chat.service.ts:350` has no timeout, and the handler stays where it is
(`stranded`).

**ChatRooms** — one element of `Sockets` per connection attempt. `phase` follows
the handshake: `listing` from the validated token to the execution of
`myConversationIds` in chat, `listed` from there to `handleConnection`, and the
list it carries is what `rooms` holds meanwhile. `StartJoin`, `FetchSockets`,
`JoinSocket` and `NotifyParticipants`, with `FetchFails` and `JoinFails`, are the
loops of `joinParticipantsToConversation` cut at their awaits; `joining`, `todo`
and `fetched` are the handler's locals. `overlooked` is a history variable: the
pairs a handler could not join, because a call failed or because the socket was
between its list and its user room.

**ChatMessages** — extends ChatRooms with the messages on their two routes. The
event queue now holds both kinds of events. A message carries a raw id, which
`new Types.ObjectId` reads in more than one spelling (`Target`), while the room it is
emitted to is named by the string itself (`RoomNamed`); sockets joined under what
`toString()` writes. In another spelling a message is stored and acknowledged, and
nobody is in the room it goes to (`SpellingNamesRoom`).

**MessageOrder** — adds one history variable to ChatMessages: what had been
acknowledged when a message was sent. Nothing in the code numbers messages, so
the only order a client can hope for is that a message sent after another was
acknowledged is emitted after it. `AcknowledgedFirst` says exactly how far that
goes: a message acknowledged over HTTP may still be in the queue, and one sent
later over a socket does not pass through the queue.

**Registration** — one element of `Requests` per `POST /auth/register`, standing
also for the uuid TypeORM generates. The body is validated without a whitelist
(`auth.controller.ts:29`) and spread into the entity (`users.service.ts:14-17`), so it
may carry an id. `userRepo.save` then selects the row of that id; if there is one it
updates the columns that differ from what it read, else it inserts. Either is one
transaction of one statement:

| Code | Actions |
| --- | --- |
| `AuthGuard`, `GuestGard` (a bearer token is refused, valid or not) | `RefuseSignedIn`, else `Forward` |
| `createOne` is delivered and hashes (`users.service.ts:14`) | `Receive` |
| `save` selects by the id, if there is one (19) | `BeginSave`, which sets `loaded` |
| the INSERT or UPDATE passes the primary key, `username`, `email`, and for an UPDATE the old entry of each column before the new one | `ClaimKey` for each; `DuplicateKey`, `Deadlock`, `StatementFails` |
| COMMIT | `Commit`, `CommitUnknown` |
| TypeORM's rollback, and a broken connection | `Rollback`, `ConnectionFails` |
| the three filters and the answer | `Reply` |
| a process dies | `UsersCrash`, `CallersCrash` |

`Forward` stands for the hops from the gateway over auth to the users queue; a
process that dies on the way is `CallersCrash`, after which a call may still be
served though nobody waits. It asks one thing of clients: an id that a body carries
is one the client made up or one of a committed row, since nobody can know the uuid
of an INSERT that is still to come. MySQL is external. Where MongoDB refuses a key
that an open transaction holds, InnoDB waits for that transaction, so `ClaimKey` and
`DuplicateKey` are both disabled meanwhile; two UPDATEs that exchange values wait for
each other, and `Deadlock` is InnoDB ending one of them. The RPC from auth to users
is `waiting`: a reply nobody waits for is dropped. `Fold` is what the columns'
collation compares of a name and `Cut` what bcrypt reads of a password, its first 72
bytes.

**Sessions** — one element of `Logins` per `POST /auth/login`, one of `Calls` per
HTTP call or handshake. A login is `SendLogin`, `Find` or `FindNobody`
(`findOneBy`), `Compare` or `RefusePassword`, `Sign`; `seen` is the row the lookup
answered with, from which the rest of the login goes on whatever is saved meanwhile.
A token is identified with the login that issued it. A call is `Arrive` (which extracts the token),
`Validate` or `RefuseToken` (the RPC to auth), then `Pass` for the HTTP routes, or
`Connect` (after `myConversationIds`) and `SocketSend` for sockets; RPCs fail in
`FindFails`, `GuardFails`, `HandshakeFails` and are lost in `LoseLogin` and
`LoseCall`. `Tick` may come between any two steps. Both roles are admitted by every
route, so what RolesGuard decides is whether there is a user. `GuestAnswer` notes
one difference between routes: `POST /chat/conversations` has no RolesGuard, so a
call without a token reaches `user.sub` of undefined and is answered 500, not 401.

**Pagination** — one user's walk. Stamps are chosen freely when a conversation
becomes visible, since `updatedAt` is taken before the transaction commits.
`FindPage` is the aggregation, `Answer` the response after the peers were looked
up, `PeersFail` the loss of the page when that lookup throws.

**RpcErrors** — a thrown value climbs from where it was thrown to the client:
`Filter` at each service, `AnswerHttp` or `EmitSendMessageError` at the gateway,
`GuardCatches` for the guard that replaces what it catches. Errors are classed by
what the filters test; texts are those the code writes, or `Internal`.

## 3. What TLC checks

| Run | Instance | Properties | Shows |
| --- | --- | --- | --- |
| `tx_faults` | 2 requests, 16 bodies each, 2 known users and an unknown one, all faults | `ConversationsWhole`, `ReplyTruth`, `ImplementsStore`, `StoredIsNoError`, `AnsweredOrLost` | no fault or interleaving leaves half a conversation, tells a caller something false, or fails a request after its commit; past the users lookup every caller is answered; the service is the abstract store |
| `tx_live` | 3 requests for pairs, in both directions, no faults | `OnePrivatePerPair`, `ConflictHasWinner`, `PairServed`, `StoredIsAnnounced` | write conflicts are not retried, but somebody wins each of them: the pair gets its conversation, and one only; it is announced |
| `rooms_safety` | 2 users, 2 conversations, 3 sockets, all faults | `RoomsSound`, `RoomCoverage`, `NotifiedInRoom` | the only reasons for a participant's socket to be outside a room are the ones listed |
| `rooms_race` | 1 user, 1 conversation, 1 socket, no faults | `InItsRooms` (violated) | the handshake race, section 6 |
| `messages_safety` | 2 users, 1 conversation, its id in 2 spellings, 1 socket, 2 messages, all faults | `AnswerOwed`, `DeliverySound`, `SingleBroadcast`, `AnswerTruth`, `NothingMissedInRoom`, `AcknowledgedFirst` | delivery to participants only, once, truthfully acknowledged and no sender forgotten, in the order clients may rely on |
| `messages_live` | 1 user, 2 conversations, 1 socket, 1 message, failing and lost calls, crashes | `NotificationArrives`, `SocketSendAnswered`, `HttpSendBroadcast` | handlers reach their emits through failures; answers and broadcasts arrive unless whoever waits for them is gone |
| `pagination` | 4 conversations, 2 instants, pages of 1 or 2 | `PagesInOrder`, `NothingSkipped`, `MoreIsThere` | a walk is sorted, complete and has no dead ends |
| `registration` | 4 requests in four scenarios: a chain of INSERTs, two UPDATEs of one account, a rename racing a registration of the old name, two accounts that exchange names; every failure, one request per behaviour meeting an error | `OneAccountPerKey`, `ReplyTruth`, `WaitsEnd`, `ImplementsAccounts`, `KeyServed` | keys are unique through waits, updates, rollbacks and crashes; only UPDATEs wait in a circle, which is broken; nobody's failure becomes another's; the service is the abstract table |
| `sessions_safety` | 2 accounts, one of them saved over once, 3 names of which 2 are one, 2 passwords, 2 logins, 1 call with a token in one place or two, all faults | `ReadYourRegistration`, `OneIdentity`, `ActsForOwner`, `ExpiredOpensNothing`, `RefusedForCause` | logins see registrations; what passes the guards acts for the owner of a live token |
| `sessions_live` | 1 account, 3 passwords of which 2 are one, 1 login, 1 call, failing RPCs | `Answered` | every login, call and handshake ends, whichever RPC fails |
| `errors_safety` | every route, 2 texts | `TypeOK`, `StatusKept`, `ConflictNamed`, `NothingInternal` | errors keep their meaning over the hops |
| `errors_ws_shape` | as above | `SendMessageErrorShape` (violated) | section 6 |

Bounds. Two requests are the least that race and three the least where a third
arrives between a rollback and a commit; every conflict of the transaction is
between two keys. Two conversations let two handlers interleave and three sockets
put two of one user in different phases. Two messages and two routes give every
order of two sends; the liveness run has two conversations and a message, so that
events of both kinds wait behind one another. Two instants and four conversations
give ties longer than a page. Three registrations are the least that make a
chain, where one waits for a key held by another that waits for a later one of a
third, and two UPDATEs the least that make a circle; what each request of a scenario
of `MCRegistration` carries is fixed, since requests differ in their bodies only.
A request the guards refuse at once touches nothing, so it goes first (the action
constraint `McFirst`, which disables no fair action).
`MaxFailures` bounds how many requests of a behaviour meet an error of the database;
crashes are not bounded.
In `sessions_safety` the clock moves once (`MaxTime`), with a lifetime of one: tokens
issued before the tick expire at it. To keep the run small its action constraint
`McStep` leaves out what no property can tell apart: logins share nothing but the
accounts, so they come one after the other while registrations go on between any two
of their steps; a call reads nothing but its tokens, so it comes after the logins and
the registrations, with every token issued, and each state it can be in beside what
they leave is still reached; an account keeps its email when it is saved over, since
no login asks for one. Real bounds are that one account is saved over, once, that the
spelling of a name goes with one password, and that nobody types the third name. Calls
without a token and logins with one, the other routes, and logins that overlap with
the call and the clock are in `sessions_live`, whose specification nothing cuts down.
The proofs of section 4 remove these bounds where they apply.

Deadlock is checked in the transaction, registration and session runs, where
`Finished` is the only stuttering end, and in the `pagination` run, where a client
can always start again. It is off for rooms, messages and errors: connection
attempts, messages and conversations run out there, and a system with nothing to
do rests.

Fairness. The fair specifications ask weak fairness of what a running process
does by itself: the handlers (Node's event loop resumes every continuation whose
promise is settled; MongoDB, MySQL and RabbitMQ answer or the driver throws, which
are both steps of the handler), delivery by the broker, and MongoDB's reaper.
Nothing is asked of clients, of the clock, of faults or of the creation of
conversations. A registration that waits in InnoDB is not enabled while it waits,
so weak fairness alone promises it nothing: `KeyServed` needs whoever holds the
key to let go. A lost call leaves its caller waiting for ever, since RPCs have no
timeout: `tx_faults`, `registration` and `messages_live` count a request that died
with its process as lost, `tx_faults` one whose lookup died with the users service as
stranded, and `sessions_live` leaves lost RPCs out. A property with such an escape
does not say that the escape is harmless: the client of a lost call hangs
(`chat.gateway.ts:92`, `chat.service.ts:350`), and a conversation whose process dies
between commit and emit is never announced (`chat.service.ts:124`). Likewise
`ExpiredOpensNothing` is about tokens expired on arrival; what expires later goes on
being used, by a socket for as long as it is connected (`ws-jwt.guard.ts:10`). A crash of the
gateway takes its sockets and the events delivered to it, so `messages_live`
promises a broadcast only while somebody is connected; it leaves out failed emits
of the chat service, which lose the event for good.

## 4. What TLAPS proves

For any sets of users, requests, bodies, sockets, conversations, messages, logins,
calls and faults, any collation and any token lifetime:

| Theorem | Module | States |
| --- | --- | --- |
| `TypeCorrect`, `UniquePair`, `NeverHalf`, `HonestReply`, `RivalsCannotAllLose` | ConversationTxProofs | `TypeOK`, `OnePrivatePerPair`, `ConversationsWhole`, `ReplyTruth`, `ConflictHasWinner` always hold |
| `SuccessOnceStored` | ConversationTxProofs | `Spec => StoredIsNoError` |
| `Refinement` | ConversationTxProofs | `Spec => ImplementsStore` |
| `LocksHaveCauses`, `SilenceHasCauses`, `AnsweredPairIsServed`, `ErrorsLeaveNothing` | ConversationTxProofs | what a held key, an unannounced conversation and an error can mean |
| `TypeCorrect`, `OnlyParticipants`, `NoOtherGap`, `JoinedBeforeTold` | ChatRoomsProofs | `TypeOK`, `RoomsSound`, `RoomCoverage`, `NotifiedInRoom` always hold |
| `InRoomsOrOverlooked`, `OnlyInWindow`, `NeverRepaired` | ChatRoomsProofs | when a socket gets left out of a room, and that it stays out |
| `NobodyForgotten` | ChatRoomsProofs | no step takes an event from a participant that awaits it |
| `StoreKeepsPromise`, `MembersAreFixed`, `RoomsUseStore` | ChatRoomsProofs | what `Conversations` promises, and `Spec => StoreSpec` |
| `MessagesTypeCorrect`, `DeliveryIsSound`, `NoDuplicates`, `TruthfulAnswers`, `SendersAreOwed` | ChatMessagesProofs | `MessagesTypeOK`, `DeliverySound`, `SingleBroadcast`, `AnswerTruth`, `AnswerOwed` always hold |
| `NothingMissed`, `SpellingNamesRoom` | ChatMessagesProofs | `MessagesSpec => NothingMissedInRoom`; what is sent to the id in another spelling is in nobody's inbox |
| `HttpIsOnItsWay` | ChatMessagesProofs | where a message accepted over HTTP may be |
| `RoomsKeepTheirPromises`, `GapOutlastsMessages`, `EventsOutlastMessages`, `MessagesUseStore` | ChatMessagesProofs | the results about rooms and store, with messages |
| `InOrder` | MessageOrderProofs | `OrderSpec => AcknowledgedFirst` |
| `TypeCorrect`, `Complete`, `Sorted`, `NoDeadEnd` | PaginationProofs | `TypeOK`, `NothingSkipped`, `PagesInOrder`, `MoreIsThere` always hold |
| `PageSizes`, `NoEmptyPages`, `WalksAdvance` | PaginationProofs | a page with a cursor has exactly `limit` conversations, something new among them |
| `TypeCorrect`, `UniqueAccounts`, `HonestReply`, `WaitsAreShort` | RegistrationProofs | `TypeOK`, `OneAccountPerKey`, `ReplyTruth`, `WaitsEnd` always hold |
| `InsertsNeverDeadlock` | RegistrationProofs | a circle of waits has an UPDATE in it |
| `SettledForCause` | RegistrationProofs | what a registration that is over can have come to |
| `Refinement` | RegistrationProofs | `Spec => ImplementsAccounts` |
| `TypeCorrect`, `LoginAfterRegistration`, `NameIsIdentity`, `RightActor`, `NoLateEntry`, `NoIdleRefusal` | SessionsProofs | `TypeOK`, `ReadYourRegistration`, `OneIdentity`, `ActsForOwner`, `ExpiredOpensNothing`, `RefusedForCause` always hold |
| `NobodyIsForgotten`, `OnlyAgeRefuses`, `NothingRedirectsTokens` | SessionsProofs | who owes an answer; what refuses a good token; that tokens never change |
| `AccountsKeepPromise`, `SessionsUseAccounts` | SessionsProofs | what `Accounts` promises, and `Spec => AccountsSpec` |
| `TypeCorrect`, `StatusIsKept`, `ConflictIsNamed`, `NothingLeaks` | RpcErrorsProofs | `TypeOK`, `StatusKept`, `ConflictNamed`, `NothingInternal` always hold |
| `ServiceErrorsLackMessage`, `GuardHidesCause` | RpcErrorsProofs | finding 2 to the letter; what AuthGuard makes of a failure |

*ConversationTx.* `OnePrivatePerPair` is not inductive: it says nothing of the
transactions still open. `KeyInv` does: of the requests with one key at most one
holds it in an open or committed transaction, which the insert preserves because
it requires the key to be neither taken nor held. `TxnInv` ties the position of a
handler to its transaction (an aborted one may still be believed open by its
handler), `ErrorInv` ties what is thrown to what is stored, and `DocsInv` says
that the participants are exactly the documents of committed conversations. The
refinement maps a commit, acknowledged or not, to `Create`, an emit to `Announce`
and everything else to a stutter; `PairFree` at a commit is `KeyInv`. `CauseInv`
goes beyond it: every key held, every silence and every refusal by WriteConflict
has its cause. A refusal does because the rival held its key when it happened, and
while transactions do not fail a rival that holds its key past its insert commits
(`Wins`, which `WinsStay` shows to be final).

*ChatRooms.* `RoomCoverage` needs to know that the event of a conversation exists
once: not yet emitted, in the queue, with its handler, or handled (`QueueInv`),
and what a handler still has in hand (`HandlerInv`). The step that matters is
`NotifyParticipants`: with nothing left to do, every connected participant is
joined or overlooked. `OnlyInWindow` and `NeverRepaired` then bound the gap of
section 6 from both sides: nothing else opens it, and nothing but a reconnection
closes it, since the one event of a conversation is behind it (`QueueInv`).

*ChatMessages.* The steps of the rooms are those of ChatRooms with messages in the
queue, so the step lemmas of ChatRoomsProofs ask only that the queue hold
conversations and perhaps more (`Typed`), and are used again. On top,
`MessageInv` says what the stage of a message means: a queued one is stored, came
over HTTP and was not emitted; an emitted one is not queued; one answered with an
error is neither. `DeliverySound` and `NothingMissedInRoom` then come from the
rooms: `RoomsSound` says who is in the room a message is emitted to, and
`NotifiedInRoom` that everyone told of the conversation is. `OwedInv` says of every
message that was sent who still owes its sender an answer; the steps to watch are a
crash, which takes the waiting calls of the gateway and their sockets together, and
the queue, which loses an event only to its handler or a crash (`QueueKeeps`).

*MessageOrder.* `OrderOk` relates a message to one whose sender knew it: ahead of it
in the queue, and out of the queue once the other, over HTTP, was emitted. It
starts with `PairStart` (what is acknowledged over HTTP was published before, what
is sent now comes after) and is kept because the queue only loses at its front and
only grows at its end.

*Registration.* Uniqueness is not inductive either. An entry of an index that
somebody holds is nobody else's, held or stored but for the row its holder updates;
a commit requires all the entries of what it writes, so what it writes clashes with
no other row. The stage of a request carries its answer: what is about to be thrown
as a duplicate saved nothing and has, and keeps, a saved rival. A commit,
acknowledged or not, is `Create` or `Overwrite` according to whether the row is
there, an answer to a caller that waits is `Welcome`, the rest stutters. `WaitsEnd`
rests on the order of the indexes: whoever holds an entry has passed the indexes
before it, so a wait for a transaction that waits itself is at an earlier index than
that one's, or at the same if that one is an UPDATE between two values.
`InsertsNeverDeadlock` follows: without such an UPDATE, positions grow along a
circle.

*Sessions.* Accounts stay, and keep their rows but for being saved over (`Kept`). So
what a login read is still what is stored, or was saved over (`ReadInv`), whatever
else is registered between the lookup, the comparison and the use of the token; a
call past the guards acts for the token the gateway extracted, which is one of those
presented (`CallInv`). `ReadYourRegistration` uses the uniqueness of `Accounts` at the
moment of the lookup: it can find no other row under a known name than the one the
caller was told of (`KnownIsRead`), which stays said although that row may be renamed
later. `ExpiredOpensNothing` needs `arrival <= now`. The same invariant gives
`NothingRedirectsTokens`; `NobodyForgotten` is inductive by itself.

*RpcErrors.* The value on its way is a function of the error thrown at its origin:
the filters are idempotent on what a filter made (`Idempotent`), so the chain's
length does not matter, and a guard replaces what it catches by one value. What
the client gets is then a case split over origins, in which the two places where
the promises end (`MessageFromGatewayOnly`, `GuardMasks`) are cases of their own.

*Pagination.* `First` takes a prefix of a strict total order (`Prefix`), and takes
everything if it finds fewer than it may (`Exhausted`, which takes the least
element left out; it exists because strict inclusion of finite sets is well
founded). So whatever lies before the cursor was seen and what lies after it was
not, and storing a conversation moves no other. `Exhausted` and its converse
`AtMost` give the size of a page; with `Sorted`, a page that is not empty brings
something new.

*Composition.* `ConversationTxProofs` shows that the transaction implements
`Conversations`, `RoomsUseStore` and `MessagesUseStore` that rooms and messages
change it only as it allows, and `StoreKeepsPromise` what it then promises. The
same three links for accounts are `Refinement` in RegistrationProofs,
`SessionsUseAccounts` and `AccountsKeepPromise`.

Assumptions on constants are the named `ASSUME`s of the modules and nothing else.

Only model-checked: the liveness properties `AnsweredOrLost`, `PairServed`, `StoredIsAnnounced`, `KeyServed`, `NotificationArrives`,
`SocketSendAnswered`, `HttpSendBroadcast` and `Answered`, since fairness and ENABLED
are outside the prover. For each of them but the first a theorem states the safety it
contains: in every reachable state what is promised is there, is on its way with
somebody who will act, or was lost to a named fault. They are, in this order,
`AnsweredPairIsServed`, `SilenceHasCauses`, `SettledForCause`, `NobodyForgotten`,
`SendersAreOwed`, `HttpIsOnItsWay` and `NobodyIsForgotten`. What
TLC alone adds is that who can act does.

Not proved either: that `ChatMessages` without its messages is `ChatRooms` step by
step. The mapping takes the messages out of the queue, a filter over a sequence, and
facts about filters need induction over sequences. `RoomsKeepTheirPromises` and
`MessagesUseStore` prove the consequences directly. That a walk takes no more pages
than there are conversations follows from `WalksAdvance` by counting, which is
again an induction; the theorem is about the single step.

## 5. What is not modelled

- Contents: titles, descriptions, message bodies, `replyTo`, what a list item
  shows. Validation pipes answer malformed payloads before any modelled state is
  touched.
- Signatures, keys and hashes as such: a token is what a login issued, a digest is
  what bcrypt reads of the password.
- The difference between the roles, which every route admits: a role is stored as it
  was sent and carried in the token, and read by nothing that tells the two apart. One
  that is neither is refused by MySQL, which is `StatementFails`. `user.findBy`, which
  nothing calls.
- Of the fields a client may send to `createOne` beyond its DTO, the id is modelled,
  the rest (display name, avatar, dates) decides nothing. An id in another spelling
  than the stored one is left out: TypeORM does not recognise the row, and its INSERT
  is a duplicate on the primary key.
- That a transaction MongoDB was left with comes to an end: this is its reaper's
  doing, and nothing in the code's.
- More than one process per service. The gateway uses Socket.IO's in-memory
  adapter, so one gateway process is what the code supports.
- Wiring, configuration and containers.

## 6. Where code and documentation disagree

1. `rooms_race`: README.md:290 and :412 say that a socket joins its existing
   conversations and that the conversation-created event joins those already
   connected. A conversation that commits after the handshake read the list
   (`webSocketAuth.middleware.ts:61`) and whose event is handled before
   `handleConnection` puts the socket into its user room (`chat.gateway.ts:72`) is
   joined by neither: the socket receives none of its messages until it
   reconnects. `RoomCoverage`, which is proved, says that this is the only such
   gap apart from failed calls.
2. `errors_ws_shape`: README.md:327-332 gives `sendMessageError` a `message`. An
   error of the chat service arrives as `{ error: { errorMessage, statusCode } }`
   and `ws-exception.filter.ts:31` spreads the inner object, so the client gets
   `errorMessage` and `statusCode` and no `message`.

## 7. Plan

Done, in this order: the store and the transaction that implements it, the rooms,
the messages, the listing, the errors; then accounts and the registration that
implements them, logins, tokens and guards, the order of messages, and the proofs
of messages, their order and errors; then the causes behind every promise of
progress, the gap of the rooms, and the composition over both abstract modules.

Possible next: sockets and tokens in one module, so that the rooms of ChatRooms are
those of the actors of Sessions.
