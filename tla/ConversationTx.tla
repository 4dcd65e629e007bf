--------------------------- MODULE ConversationTx ---------------------------
(***************************************************************************)
(* ChatService.createConversation, one request at a time per client and    *)
(* many at once in the service: look the users up over RabbitMQ, insert    *)
(* the conversation and its participants in one MongoDB transaction        *)
(* (withTransaction), announce the result, reply.  Every await of the code *)
(* ends an action here, so requests interleave wherever they do there.     *)
(*                                                                         *)
(* A request stands for the conversation it would create: mongoose gives   *)
(* that document its ObjectId before the insert, so no two requests share  *)
(* one.  Strings are abstracted: title and description are left out, and   *)
(* the idempotencyKey is the set of ids whose sorted join it is.           *)
(***************************************************************************)
CONSTANTS Users,       \* ids a request may name, known to the users service or not
          Registered,  \* the ids findByIds finds
          Requests,    \* one element per chat.createConversation call
          Bodies,      \* the arguments a call may carry
          Faults       \* what may go wrong, a subset of Failures

Failures == {"lookup", "users", "session", "insert", "commit", "abort",
             "expire", "publish", "crash"}

ConversationTypes == {"private", "group", "channel"}

\* participantIds is @ArrayNotEmpty; userId is the subject of a verified token.
CallArguments == [type : ConversationTypes,
                  userId : Registered,
                  participantIds : SUBSET Users \ {{}}]

ASSUME RegisteredAssumption == Registered \subseteq Users
ASSUME BodiesAssumption == Bodies \subseteq CallArguments
ASSUME FaultsAssumption == Faults \subseteq Failures

VARIABLES
    args,           \* args[r]: the payload of request r
    pc,             \* pc[r]: the await the handler of r stands at
    error,          \* error[r]: what the handler of r is about to throw
    reply,          \* reply[r]: what the caller of r was answered
    session,        \* session[r]: the driver's view of r's ClientSession
    txn,            \* txn[r]: the server's view of r's transaction
    staged,         \* staged[r]: participant documents written in that transaction
    conversations,  \* the committed conversation documents
    participants,   \* the committed participant documents
    published       \* conversations whose created event reached RabbitMQ

vars == <<args, pc, error, reply, session, txn, staged,
          conversations, participants, published>>
db == <<conversations, participants>>

----------------------------------------------------------------------------
\* The arguments of a request and what the code derives from them.

ParticipantIds(r) == {args[r].userId} \cup args[r].participantIds

IsPrivate(r) == args[r].type = "private"

\* participantIds.length !== 2, on distinct ids.
IsPair(M) == \E u, v \in M : u # v /\ M = {u, v}
WrongArity(r) == IsPrivate(r) /\ ~IsPair(ParticipantIds(r))

AllFound(r) == ParticipantIds(r) \subseteq Registered

Valid(r) == ~WrongArity(r) /\ AllFound(r)

\* A plausible slip: the ids joined without sorting them first.
MutUnsortedKey(r) == <<args[r].userId, ParticipantIds(r)>>
IdempotencyKey(r) == ParticipantIds(r)

SameKey(q, r) == /\ IsPrivate(q) /\ IsPrivate(r)
                 /\ IdempotencyKey(q) = IdempotencyKey(r)

ParticipantDocs(r) ==
    {[conversationId |-> r, userId |-> u,
      role |-> IF u = args[r].userId THEN "OWNER" ELSE "MEMBER"] :
        u \in ParticipantIds(r)}

InFlight(r) == pc[r] \notin {"queued", "done", "lost"}

\* No action of the handler is left: it threw or returned, the process it ran
\* in is gone, or it waits for an answer nobody will send.
Over(r) == pc[r] \in {"done", "lost", "stranded"}

----------------------------------------------------------------------------
Labels == {"queued", "lookup", "stranded", "session", "insert", "members", "commit",
           "abort", "end", "publish", "reply", "done", "lost"}

TypeOK ==
    /\ args \in [Requests -> CallArguments]
    /\ pc \in [Requests -> Labels]
    /\ error \in [Requests -> {"none", "conflict", "error"}]
    /\ reply \in [Requests -> {"none", "created", "conflict", "error"}]
    /\ session \in [Requests -> {"none", "active", "idle", "ended"}]
    /\ txn \in [Requests -> {"none", "open", "committed", "aborted"}]
    /\ staged \in [Requests -> SUBSET [conversationId : Requests, userId : Users,
                                       role : {"OWNER", "MEMBER"}]]
    /\ conversations \subseteq Requests
    /\ participants \subseteq [conversationId : Requests, userId : Users,
                               role : {"OWNER", "MEMBER"}]
    /\ published \subseteq Requests

Init ==
    /\ args \in [Requests -> Bodies]
    /\ pc = [r \in Requests |-> "queued"]
    /\ error = [r \in Requests |-> "none"]
    /\ reply = [r \in Requests |-> "none"]
    /\ session = [r \in Requests |-> "none"]
    /\ txn = [r \in Requests |-> "none"]
    /\ staged = [r \in Requests |-> {}]
    /\ conversations = {}
    /\ participants = {}
    /\ published = {}

Goto(r, from, to) == pc[r] = from /\ pc' = [pc EXCEPT ![r] = to]

\* A plausible slip: a catch that does not throw again.
MutSwallow(r, e) == UNCHANGED error
Throw(r, e) == error' = [error EXCEPT ![r] = e]

----------------------------------------------------------------------------
\* Before the transaction: arity, then one RPC to the users service, awaited
\* without a timeout.

RejectArity(r) ==
    /\ Goto(r, "queued", "reply")
    /\ WrongArity(r)
    /\ Throw(r, "conflict")
    /\ UNCHANGED <<args, reply, session, txn, staged, db, published>>

AskUsers(r) ==
    /\ Goto(r, "queued", "lookup")
    /\ ~WrongArity(r)
    /\ UNCHANGED <<args, error, reply, session, txn, staged, db, published>>

RejectUnknownUsers(r) ==
    /\ Goto(r, "lookup", "reply")
    /\ ~AllFound(r)
    /\ Throw(r, "conflict")
    /\ UNCHANGED <<args, reply, session, txn, staged, db, published>>

AcceptUsers(r) ==
    /\ Goto(r, "lookup", "session")
    /\ AllFound(r)
    /\ UNCHANGED <<args, error, reply, session, txn, staged, db, published>>

\* The RPC or its query fails, and the caller is answered 500.
LookupFails(r) ==
    /\ Goto(r, "lookup", "reply")
    /\ "lookup" \in Faults
    /\ Throw(r, "error")
    /\ UNCHANGED <<args, reply, session, txn, staged, db, published>>

\* The users service dies with the call: it was delivered with noAck, so it is
\* not delivered again, and firstValueFrom waits for good in a live handler.
LookupLost(r) ==
    /\ Goto(r, "lookup", "stranded")
    /\ "users" \in Faults
    /\ UNCHANGED <<args, error, reply, session, txn, staged, db, published>>

\* startSession, then startTransaction, which only marks the driver's session.
StartSession(r) ==
    /\ Goto(r, "session", "insert")
    /\ session' = [session EXCEPT ![r] = "active"]
    /\ UNCHANGED <<args, error, reply, txn, staged, db, published>>

SessionFails(r) ==
    /\ Goto(r, "session", "reply")
    /\ "session" \in Faults
    /\ Throw(r, "error")
    /\ UNCHANGED <<args, reply, session, txn, staged, db, published>>

----------------------------------------------------------------------------
\* Inside the transaction.  The first write opens it on the server, where the
\* unique index meets committed keys (E11000, answered 409 by the filter) and
\* keys of transactions still open (WriteConflict, answered 500, not retried).

KeyTaken(r) == \E q \in conversations : SameKey(q, r)

\* A plausible slip: every creation in progress for the pair is in the way.
MutAnyInProgress(r) ==
    \E q \in Requests \ {r} : /\ pc[q] \in {"session", "insert", "members", "commit", "abort"}
                             /\ SameKey(q, r)
KeyHeld(r) == \E q \in Requests \ {r} : txn[q] = "open" /\ SameKey(q, r)

InsertConversation(r) ==
    /\ Goto(r, "insert", "members")
    /\ ~KeyTaken(r)
    /\ ~KeyHeld(r)
    /\ txn' = [txn EXCEPT ![r] = "open"]
    /\ UNCHANGED <<args, error, reply, session, staged, db, published>>

DuplicateKey(r) ==
    /\ Goto(r, "insert", "abort")
    /\ KeyTaken(r)
    /\ txn' = [txn EXCEPT ![r] = "aborted"]
    /\ Throw(r, "conflict")
    /\ UNCHANGED <<args, reply, session, staged, db, published>>

WriteConflict(r) ==
    /\ Goto(r, "insert", "abort")
    /\ KeyHeld(r)
    /\ txn' = [txn EXCEPT ![r] = "aborted"]
    /\ Throw(r, "error")
    /\ UNCHANGED <<args, reply, session, staged, db, published>>

\* The command is lost, or the server executes it and its answer is lost.
InsertFails(r) ==
    /\ Goto(r, "insert", "abort")
    /\ "insert" \in Faults
    /\ Throw(r, "error")
    /\ \/ UNCHANGED txn
       \/ ~KeyTaken(r) /\ ~KeyHeld(r) /\ txn' = [txn EXCEPT ![r] = "open"]
    /\ UNCHANGED <<args, reply, session, staged, db, published>>

\* A plausible slip: insertMany without { session }, outside the transaction.
MutInsertOutside(r) ==
    /\ Goto(r, "members", "commit")
    /\ participants' = participants \cup ParticipantDocs(r)
    /\ UNCHANGED <<args, error, reply, session, txn, staged, conversations, published>>

InsertParticipants(r) ==
    /\ Goto(r, "members", "commit")
    /\ txn[r] = "open"
    /\ staged' = [staged EXCEPT ![r] = ParticipantDocs(r)]
    /\ UNCHANGED <<args, error, reply, session, txn, db, published>>

\* A network error, or the server no longer knows the transaction.
InsertManyFails(r) ==
    /\ Goto(r, "members", "abort")
    /\ "insert" \in Faults \/ txn[r] # "open"
    /\ Throw(r, "error")
    /\ UNCHANGED <<args, reply, session, txn, staged, db, published>>

\* commitTransaction leaves the driver's session out of the transaction
\* whatever the outcome.
Persisted(r) ==
    /\ txn' = [txn EXCEPT ![r] = "committed"]
    /\ conversations' = conversations \cup {r}
    /\ participants' = participants \cup staged[r]

Commit(r) ==
    /\ Goto(r, "commit", "end")
    /\ txn[r] = "open"
    /\ session' = [session EXCEPT ![r] = "idle"]
    /\ Persisted(r)
    /\ UNCHANGED <<args, error, reply, staged, published>>

\* The commit took effect, its answer did not arrive.
CommitUnknown(r) ==
    /\ Goto(r, "commit", "abort")
    /\ "commit" \in Faults
    /\ txn[r] = "open"
    /\ session' = [session EXCEPT ![r] = "idle"]
    /\ Throw(r, "error")
    /\ Persisted(r)
    /\ UNCHANGED <<args, reply, staged, published>>

\* A plausible slip: the loop of MongoDB's manual, repeating the commit after any
\* error and not only after UnknownTransactionCommitResult.
MutRetryCommit(r) ==
    /\ Goto(r, "commit", "commit")
    /\ "commit" \in Faults \/ txn[r] # "open"
    /\ UNCHANGED <<args, error, reply, session, txn, staged, db, published>>

\* The commit did not take effect: the transaction is gone, or stays open.
CommitFails(r) ==
    /\ Goto(r, "commit", "abort")
    /\ "commit" \in Faults \/ txn[r] # "open"
    /\ session' = [session EXCEPT ![r] = "idle"]
    /\ Throw(r, "error")
    /\ UNCHANGED <<args, reply, txn, staged, db, published>>

\* catch: abort if the driver still holds a transaction.  The driver ignores
\* an abort command that fails.
Abort(r) ==
    /\ Goto(r, "abort", "end")
    /\ session[r] = "active"
    /\ session' = [session EXCEPT ![r] = "idle"]
    /\ \/ txn' = [txn EXCEPT ![r] = IF @ = "open" THEN "aborted" ELSE @]
       \/ "abort" \in Faults /\ UNCHANGED txn
    /\ UNCHANGED <<args, error, reply, staged, db, published>>

SkipAbort(r) ==
    /\ Goto(r, "abort", "end")
    /\ session[r] # "active"
    /\ UNCHANGED <<args, error, reply, session, txn, staged, db, published>>

\* Two plausible slips: the event emitted in the finally, or not at all.
MutEmitInFinally(r) ==
    /\ Goto(r, "end", "publish")
    /\ session' = [session EXCEPT ![r] = "ended"]
    /\ UNCHANGED <<args, error, reply, txn, staged, db, published>>

MutNoEmit(r) ==
    /\ Goto(r, "end", "reply")
    /\ session' = [session EXCEPT ![r] = "ended"]
    /\ UNCHANGED <<args, error, reply, txn, staged, db, published>>

\* finally; what follows depends on whether the block returned or threw.
EndSession(r) ==
    /\ Goto(r, "end", IF error[r] = "none" THEN "publish" ELSE "reply")
    /\ session' = [session EXCEPT ![r] = "ended"]
    /\ UNCHANGED <<args, error, reply, txn, staged, db, published>>

----------------------------------------------------------------------------
\* After the transaction.

Publish(r) ==
    /\ Goto(r, "publish", "reply")
    /\ published' = published \cup {r}
    /\ UNCHANGED <<args, error, reply, session, txn, staged, db>>

\* A plausible slip: the publisher does not catch, so that the failed emit of a
\* stored conversation is an error of the request.
MutEmitThrows(r) ==
    /\ Goto(r, "publish", "reply")
    /\ "publish" \in Faults
    /\ Throw(r, "error")
    /\ UNCHANGED <<args, reply, session, txn, staged, db, published>>

\* The publisher logs the failure and swallows it.
PublishFails(r) ==
    /\ Goto(r, "publish", "reply")
    /\ "publish" \in Faults
    /\ UNCHANGED <<args, error, reply, session, txn, staged, db, published>>

Reply(r) ==
    /\ Goto(r, "reply", "done")
    /\ reply' = [reply EXCEPT ![r] = IF error[r] = "none" THEN "created" ELSE error[r]]
    /\ UNCHANGED <<args, error, session, txn, staged, db, published>>

----------------------------------------------------------------------------
\* Actions of the environment.

\* The service stops.  Messages are delivered with noAck, so the requests it
\* was handling are gone; their transactions stay open on the server.
Crash ==
    /\ "crash" \in Faults
    /\ \E r \in Requests : InFlight(r)
    /\ pc' = [r \in Requests |-> IF InFlight(r) THEN "lost" ELSE pc[r]]
    /\ session' = [r \in Requests |-> IF InFlight(r) THEN "none" ELSE session[r]]
    /\ UNCHANGED <<args, error, reply, txn, staged, db, published>>

\* The server's transactionLifetimeLimitSeconds: it ends a transaction nobody
\* will end, and with fault "expire" also one whose handler is merely slow.
Expire(r) ==
    /\ txn[r] = "open"
    /\ pc[r] \in {"end", "reply", "done", "lost"} \/ "expire" \in Faults
    /\ txn' = [txn EXCEPT ![r] = "aborted"]
    /\ UNCHANGED <<args, pc, error, reply, session, staged, db, published>>

Finished ==
    /\ \A r \in Requests : Over(r) /\ txn[r] # "open"
    /\ UNCHANGED vars

Handle(r) ==
    \/ RejectArity(r) \/ AskUsers(r)
    \/ RejectUnknownUsers(r) \/ AcceptUsers(r) \/ LookupFails(r)
    \/ StartSession(r) \/ SessionFails(r)
    \/ InsertConversation(r) \/ DuplicateKey(r) \/ WriteConflict(r) \/ InsertFails(r)
    \/ InsertParticipants(r) \/ InsertManyFails(r)
    \/ Commit(r) \/ CommitUnknown(r) \/ CommitFails(r)
    \/ Abort(r) \/ SkipAbort(r) \/ EndSession(r)
    \/ Publish(r) \/ PublishFails(r) \/ Reply(r)

Next == \/ \E r \in Requests : Handle(r) \/ LookupLost(r) \/ Expire(r)
        \/ Crash
        \/ Finished

Spec == Init /\ [][Next]_vars

\* The event loop serves every handler and the server reaps every transaction
\* left behind; nobody is obliged to fail.
FairSpec == /\ Spec
            /\ \A r \in Requests : WF_vars(Handle(r)) /\ WF_vars(Expire(r))

----------------------------------------------------------------------------
\* Safety

\* Two users never have two private conversations, however their requests
\* interleave: the unique index under the transaction is what prevents it,
\* the code checks nothing beforehand.
OnePrivatePerPair ==
    \A q, r \in conversations :
        IsPrivate(q) /\ IsPrivate(r) /\ ParticipantIds(q) = ParticipantIds(r) => q = r

\* Committed participants are those of committed conversations, and each
\* conversation has one document for each of its users, its creator the only
\* owner: no failure between the two inserts leaves half a conversation.
ConversationsWhole ==
    /\ \A d \in participants : d.conversationId \in conversations
    /\ \A r \in conversations :
         LET docs == {d \in participants : d.conversationId = r}
         IN  /\ \A u \in ParticipantIds(r) : \E d \in docs : d.userId = u
             /\ \A d \in docs : /\ d.userId \in ParticipantIds(r) \cap Registered
                                /\ d.role = "OWNER" <=> d.userId = args[r].userId

\* A caller told "created" has a stored conversation, and one told "conflict"
\* has none, because its arguments are wrong or another conversation of the
\* pair is already there to be found.
ReplyTruth ==
    \A r \in Requests :
        /\ reply[r] = "created" => r \in conversations
        /\ reply[r] = "conflict" =>
             /\ r \notin conversations
             /\ Valid(r) => \E q \in conversations : SameKey(q, r)

\* Nothing that happens after a conversation was stored makes its request fail:
\* not the end of the session, not a failed emit.  A caller told of an error
\* may so repeat its request and get no second group, unless the answer to the
\* commit itself was lost.
StoredIsNoError == [][\A r \in conversations : error'[r] = error[r]]_vars

\* No insert and no commit fails or is cut short; and who has its key for good.
NoTxnFails == Faults \cap {"insert", "commit", "expire", "crash"} = {}

Wins(q) == \/ txn[q] = "committed"
           \/ txn[q] = "open" /\ pc[q] \in {"members", "commit"}

\* A WriteConflict is not retried, and need not be: while transactions do not
\* fail, whoever is refused has a rival for its key that is stored or about to
\* be, however many requests of the pair refuse each other.
ConflictHasWinner ==
    NoTxnFails =>
        \A r \in Requests :
            txn[r] = "aborted" => \E q \in Requests : SameKey(q, r) /\ Wins(q)

\* Seen through its collections and its events, the service is the store of
\* module Conversations: creation is atomic and announcing follows it.
StoredMembers == [r \in Requests |->
                    {d.userId : d \in {p \in participants : p.conversationId = r}}]
StoredPrivate == {r \in conversations : IsPrivate(r)}

Store == INSTANCE Conversations WITH
    Ids <- Requests,
    members <- StoredMembers,
    private <- StoredPrivate,
    announced <- published

ImplementsStore == Store!StoreSpec

----------------------------------------------------------------------------
\* Liveness, under FairSpec

\* Every request that got past the users lookup is answered, whatever fails in
\* the transaction, unless the service dies with it.  At the lookup it has no
\* such claim: its call may be lost with the users service, and the caller then
\* gets neither an answer nor an error, holding nothing in the store.
AnsweredOrLost ==
    \A r \in Requests :
        <>(\/ reply[r] # "none"
           \/ pc[r] = "lost"
           \/ pc[r] = "stranded" /\ session[r] = "none" /\ txn[r] = "none")

\* Without failures a pair that asks for a private conversation gets one, even
\* though a WriteConflict is thrown at the caller instead of being retried.
PairServed ==
    \A r \in Requests :
        IsPrivate(r) /\ Valid(r) => <>(\E q \in conversations : SameKey(q, r))

\* Without failures every stored conversation is announced.
StoredIsAnnounced ==
    \A r \in Requests : r \in conversations ~> r \in published
============================================================================
