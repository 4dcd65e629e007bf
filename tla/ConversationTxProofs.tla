----------------------- MODULE ConversationTxProofs -----------------------
(***************************************************************************)
(* Proofs about ConversationTx, for any users, requests, bodies and        *)
(* faults.  The properties rest on an invariant of five parts: where a     *)
(* handler stands says what its transaction may be, what it staged, what   *)
(* it is about to throw, and who else may hold its key.                    *)
(***************************************************************************)
EXTENDS ConversationTx, TLAPS

\* The transaction is opened by the insert and settled by commit or abort.
TxnInv ==
    \A r \in Requests :
        /\ pc[r] \in {"queued", "lookup", "stranded", "session", "insert"} => txn[r] = "none"
        /\ pc[r] \in {"members", "commit"} => txn[r] \in {"open", "aborted"}
        /\ r \in conversations <=> txn[r] = "committed"
        /\ txn[r] # "none" \/ pc[r] \in {"session", "insert", "members", "commit"} => Valid(r)
        /\ pc[r] = "lookup" => ~WrongArity(r)
        /\ pc[r] = "commit" => staged[r] = ParticipantDocs(r)

\* A handler on the error path carries an error, one past its commit does not.
ErrorInv ==
    \A r \in Requests :
        /\ pc[r] \in {"queued", "lookup", "stranded", "session", "insert", "members",
                     "commit", "publish"}
             => error[r] = "none"
        /\ pc[r] = "abort" => error[r] # "none"
        /\ pc[r] \in {"end", "publish", "reply", "done"} /\ error[r] = "none"
             => r \in conversations
        /\ error[r] = "conflict" =>
             /\ txn[r] \in {"none", "aborted"}
             /\ Valid(r) => KeyTaken(r)
        /\ reply[r] # "none" =>
             /\ pc[r] = "done"
             /\ reply[r] = IF error[r] = "none" THEN "created" ELSE error[r]

\* The participants are exactly the documents of the committed conversations.
DocsInv ==
    /\ \A d \in participants : /\ d.conversationId \in conversations
                               /\ d \in ParticipantDocs(d.conversationId)
    /\ \A r \in conversations : ParticipantDocs(r) \subseteq participants

\* Of the requests for one pair at most one has a transaction that is open or
\* committed: what the unique index enforces at the insert.
HoldsKey(r) == txn[r] \in {"open", "committed"}

KeyInv ==
    \A q, r \in Requests : HoldsKey(q) /\ HoldsKey(r) /\ SameKey(q, r) => q = r

AnnouncedInv == published \subseteq conversations

IInv == TypeOK /\ TxnInv /\ ErrorInv /\ DocsInv /\ KeyInv /\ AnnouncedInv

----------------------------------------------------------------------------
\* What the code derives from the arguments does not change.
LEMMA ArgsFixed ==
    ASSUME UNCHANGED args
    PROVE  \A r \in Requests : /\ Valid(r)' <=> Valid(r)
                               /\ WrongArity(r)' <=> WrongArity(r)
                               /\ ParticipantDocs(r)' = ParticipantDocs(r)
                               /\ \A q \in Requests : SameKey(q, r)' <=> SameKey(q, r)
BY DEF Valid, WrongArity, IsPair, AllFound, ParticipantDocs, SameKey, IsPrivate,
       IdempotencyKey, ParticipantIds

\* Participant documents of known users have the type of the collection.
LEMMA DocsTyped ==
    ASSUME TypeOK, NEW r \in Requests
    PROVE  ParticipantDocs(r) \subseteq
             [conversationId : Requests, userId : Users, role : {"OWNER", "MEMBER"}]
BY RegisteredAssumption DEF TypeOK, CallArguments, ParticipantDocs, ParticipantIds

\* A conversation's documents: one for each of its users, the creator owner.
LEMMA DocsOf ==
    ASSUME NEW r \in Requests
    PROVE  /\ \A d \in ParticipantDocs(r) : d.conversationId = r
           /\ {d.userId : d \in ParticipantDocs(r)} = ParticipantIds(r)
<1>1. ASSUME NEW u \in ParticipantIds(r)
      PROVE  \E d \in ParticipantDocs(r) : d.userId = u
  <2> DEFINE e == [conversationId |-> r, userId |-> u,
                   role |-> IF u = args[r].userId THEN "OWNER" ELSE "MEMBER"]
  <2>1. e \in ParticipantDocs(r)
    BY DEF ParticipantDocs
  <2>2. e.userId = u
    OBVIOUS
  <2> QED
    BY <2>1, <2>2
<1>2. \A d \in ParticipantDocs(r) : d.userId \in ParticipantIds(r)
  BY DEF ParticipantDocs
<1>3. \A d \in ParticipantDocs(r) : d.conversationId = r
  BY DEF ParticipantDocs
<1> QED
  BY <1>1, <1>2, <1>3

\* Exactly the creator's document says OWNER.
LEMMA RolesOf ==
    ASSUME NEW r \in Requests, NEW d \in ParticipantDocs(r)
    PROVE  d.role = "OWNER" <=> d.userId = args[r].userId
BY DEF ParticipantDocs

\* Committed keys only accumulate.
LEMMA TakenStays ==
    ASSUME UNCHANGED args, conversations \subseteq conversations',
           conversations' \subseteq Requests, NEW r \in Requests, KeyTaken(r)
    PROVE  KeyTaken(r)'
BY ArgsFixed DEF KeyTaken

----------------------------------------------------------------------------
\* Each part of the invariant is preserved by every action.

\* Every action keeps the types.
LEMMA TypeStep ==
    ASSUME TypeOK, Next
    PROVE  TypeOK'
<1>1. ASSUME NEW r \in Requests, RejectArity(r) PROVE TypeOK'
  BY <1>1 DEF TypeOK, Labels, RejectArity, Goto, Throw, db
<1>2. ASSUME NEW r \in Requests, AskUsers(r) PROVE TypeOK'
  BY <1>2 DEF TypeOK, Labels, AskUsers, Goto, db
<1>3. ASSUME NEW r \in Requests, RejectUnknownUsers(r) PROVE TypeOK'
  BY <1>3 DEF TypeOK, Labels, RejectUnknownUsers, Goto, Throw, db
<1>4. ASSUME NEW r \in Requests, AcceptUsers(r) PROVE TypeOK'
  BY <1>4 DEF TypeOK, Labels, AcceptUsers, Goto, db
<1>5. ASSUME NEW r \in Requests, LookupFails(r) PROVE TypeOK'
  BY <1>5 DEF TypeOK, Labels, LookupFails, Goto, Throw, db
<1>6. ASSUME NEW r \in Requests, StartSession(r) PROVE TypeOK'
  BY <1>6 DEF TypeOK, Labels, StartSession, Goto, db
<1>7. ASSUME NEW r \in Requests, SessionFails(r) PROVE TypeOK'
  BY <1>7 DEF TypeOK, Labels, SessionFails, Goto, Throw, db
<1>8. ASSUME NEW r \in Requests, InsertConversation(r) PROVE TypeOK'
  BY <1>8 DEF TypeOK, Labels, InsertConversation, Goto, db
<1>9. ASSUME NEW r \in Requests, DuplicateKey(r) PROVE TypeOK'
  BY <1>9 DEF TypeOK, Labels, DuplicateKey, Goto, Throw, db
<1>10. ASSUME NEW r \in Requests, WriteConflict(r) PROVE TypeOK'
  BY <1>10 DEF TypeOK, Labels, WriteConflict, Goto, Throw, db
<1>11. ASSUME NEW r \in Requests, InsertFails(r) PROVE TypeOK'
  BY <1>11 DEF TypeOK, Labels, InsertFails, Goto, Throw, db
<1>12. ASSUME NEW r \in Requests, InsertParticipants(r) PROVE TypeOK'
  BY <1>12, DocsTyped DEF TypeOK, Labels, InsertParticipants, Goto, db
<1>13. ASSUME NEW r \in Requests, InsertManyFails(r) PROVE TypeOK'
  BY <1>13 DEF TypeOK, Labels, InsertManyFails, Goto, Throw, db
<1>14. ASSUME NEW r \in Requests, Commit(r) PROVE TypeOK'
  BY <1>14 DEF TypeOK, Labels, Commit, Goto, Persisted
<1>15. ASSUME NEW r \in Requests, CommitUnknown(r) PROVE TypeOK'
  BY <1>15 DEF TypeOK, Labels, CommitUnknown, Goto, Throw, Persisted
<1>16. ASSUME NEW r \in Requests, CommitFails(r) PROVE TypeOK'
  BY <1>16 DEF TypeOK, Labels, CommitFails, Goto, Throw, db
<1>17. ASSUME NEW r \in Requests, Abort(r) PROVE TypeOK'
  BY <1>17 DEF TypeOK, Labels, Abort, Goto, db
<1>18. ASSUME NEW r \in Requests, SkipAbort(r) PROVE TypeOK'
  BY <1>18 DEF TypeOK, Labels, SkipAbort, Goto, db
<1>19. ASSUME NEW r \in Requests, EndSession(r) PROVE TypeOK'
  BY <1>19 DEF TypeOK, Labels, EndSession, Goto, db
<1>20. ASSUME NEW r \in Requests, Publish(r) PROVE TypeOK'
  BY <1>20 DEF TypeOK, Labels, Publish, Goto, db
<1>21. ASSUME NEW r \in Requests, PublishFails(r) PROVE TypeOK'
  BY <1>21 DEF TypeOK, Labels, PublishFails, Goto, db
<1>22. ASSUME NEW r \in Requests, Reply(r) PROVE TypeOK'
  BY <1>22 DEF TypeOK, Labels, Reply, Goto, db
<1>23. ASSUME NEW r \in Requests, Expire(r) PROVE TypeOK'
  BY <1>23 DEF TypeOK, Labels, Expire, db
<1>24. CASE Crash
  BY <1>24 DEF TypeOK, Labels, Crash, InFlight, db
<1>25. CASE Finished
  BY <1>25 DEF TypeOK, Labels, Finished, vars
<1>26. ASSUME NEW r \in Requests, LookupLost(r) PROVE TypeOK'
  BY <1>26 DEF TypeOK, Labels, LookupLost, Goto, db
<1> QED
  BY <1>1, <1>2, <1>3, <1>4, <1>5, <1>6, <1>7, <1>8, <1>9, <1>10, <1>11,
     <1>12, <1>13, <1>14, <1>15, <1>16, <1>17, <1>18, <1>19, <1>20, <1>21,
     <1>22, <1>23, <1>24, <1>25, <1>26
     DEF Next, Handle

\* Every action keeps a handler and its transaction in step.
LEMMA TxnStep ==
    ASSUME TypeOK, TxnInv, Next
    PROVE  TxnInv'
<1>1. ASSUME NEW r \in Requests, RejectArity(r) PROVE TxnInv'
  BY <1>1, ArgsFixed DEF TypeOK, TxnInv, RejectArity, Goto, Throw, db
<1>2. ASSUME NEW r \in Requests, AskUsers(r) PROVE TxnInv'
  BY <1>2, ArgsFixed DEF TypeOK, TxnInv, AskUsers, Goto, db
<1>3. ASSUME NEW r \in Requests, RejectUnknownUsers(r) PROVE TxnInv'
  BY <1>3, ArgsFixed DEF TypeOK, TxnInv, RejectUnknownUsers, Goto, Throw, db
<1>4. ASSUME NEW r \in Requests, AcceptUsers(r) PROVE TxnInv'
  BY <1>4, ArgsFixed DEF TypeOK, TxnInv, Valid, AcceptUsers, Goto, db
<1>5. ASSUME NEW r \in Requests, LookupFails(r) PROVE TxnInv'
  BY <1>5, ArgsFixed DEF TypeOK, TxnInv, LookupFails, Goto, Throw, db
<1>6. ASSUME NEW r \in Requests, StartSession(r) PROVE TxnInv'
  BY <1>6, ArgsFixed DEF TypeOK, TxnInv, StartSession, Goto, db
<1>7. ASSUME NEW r \in Requests, SessionFails(r) PROVE TxnInv'
  BY <1>7, ArgsFixed DEF TypeOK, TxnInv, SessionFails, Goto, Throw, db
<1>8. ASSUME NEW r \in Requests, InsertConversation(r) PROVE TxnInv'
  BY <1>8, ArgsFixed DEF TypeOK, TxnInv, InsertConversation, Goto, db
<1>9. ASSUME NEW r \in Requests, DuplicateKey(r) PROVE TxnInv'
  BY <1>9, ArgsFixed DEF TypeOK, TxnInv, DuplicateKey, Goto, Throw, db
<1>10. ASSUME NEW r \in Requests, WriteConflict(r) PROVE TxnInv'
  BY <1>10, ArgsFixed DEF TypeOK, TxnInv, WriteConflict, Goto, Throw, db
<1>11. ASSUME NEW r \in Requests, InsertFails(r) PROVE TxnInv'
  BY <1>11, ArgsFixed DEF TypeOK, TxnInv, InsertFails, Goto, Throw, db
<1>12. ASSUME NEW r \in Requests, InsertParticipants(r) PROVE TxnInv'
  BY <1>12, ArgsFixed DEF TypeOK, TxnInv, InsertParticipants, Goto, db
<1>13. ASSUME NEW r \in Requests, InsertManyFails(r) PROVE TxnInv'
  BY <1>13, ArgsFixed DEF TypeOK, TxnInv, InsertManyFails, Goto, Throw, db
<1>14. ASSUME NEW r \in Requests, Commit(r) PROVE TxnInv'
  BY <1>14, ArgsFixed DEF TypeOK, TxnInv, Commit, Goto, Persisted
<1>15. ASSUME NEW r \in Requests, CommitUnknown(r) PROVE TxnInv'
  BY <1>15, ArgsFixed DEF TypeOK, TxnInv, CommitUnknown, Goto, Throw, Persisted
<1>16. ASSUME NEW r \in Requests, CommitFails(r) PROVE TxnInv'
  BY <1>16, ArgsFixed DEF TypeOK, TxnInv, CommitFails, Goto, Throw, db
<1>17. ASSUME NEW r \in Requests, Abort(r) PROVE TxnInv'
  BY <1>17, ArgsFixed DEF TypeOK, TxnInv, Abort, Goto, db
<1>18. ASSUME NEW r \in Requests, SkipAbort(r) PROVE TxnInv'
  BY <1>18, ArgsFixed DEF TypeOK, TxnInv, SkipAbort, Goto, db
<1>19. ASSUME NEW r \in Requests, EndSession(r) PROVE TxnInv'
  BY <1>19, ArgsFixed DEF TypeOK, TxnInv, EndSession, Goto, db
<1>20. ASSUME NEW r \in Requests, Publish(r) PROVE TxnInv'
  BY <1>20, ArgsFixed DEF TypeOK, TxnInv, Publish, Goto, db
<1>21. ASSUME NEW r \in Requests, PublishFails(r) PROVE TxnInv'
  BY <1>21, ArgsFixed DEF TypeOK, TxnInv, PublishFails, Goto, db
<1>22. ASSUME NEW r \in Requests, Reply(r) PROVE TxnInv'
  BY <1>22, ArgsFixed DEF TypeOK, TxnInv, Reply, Goto, db
<1>23. ASSUME NEW r \in Requests, Expire(r) PROVE TxnInv'
  BY <1>23, ArgsFixed DEF TypeOK, TxnInv, Expire, db
<1>24. CASE Crash
  BY <1>24, ArgsFixed DEF TypeOK, TxnInv, Crash, InFlight, db
<1>25. CASE Finished
  BY <1>25, ArgsFixed DEF TypeOK, TxnInv, Finished, vars
<1>26. ASSUME NEW r \in Requests, LookupLost(r) PROVE TxnInv'
  BY <1>26, ArgsFixed DEF TypeOK, TxnInv, LookupLost, Goto, db
<1> QED
  BY <1>1, <1>2, <1>3, <1>4, <1>5, <1>6, <1>7, <1>8, <1>9, <1>10, <1>11,
     <1>12, <1>13, <1>14, <1>15, <1>16, <1>17, <1>18, <1>19, <1>20, <1>21,
     <1>22, <1>23, <1>24, <1>25, <1>26
     DEF Next, Handle

\* Every action keeps what is thrown and answered in step with the store.
LEMMA ErrorStep ==
    ASSUME TypeOK, TxnInv, ErrorInv, Next
    PROVE  ErrorInv'
<1>1. ASSUME NEW r \in Requests, RejectArity(r) PROVE ErrorInv'
  BY <1>1, ArgsFixed, TakenStays
     DEF TypeOK, TxnInv, ErrorInv, Valid, RejectArity, Goto, Throw, db
<1>2. ASSUME NEW r \in Requests, AskUsers(r) PROVE ErrorInv'
  BY <1>2, ArgsFixed, TakenStays DEF TypeOK, TxnInv, ErrorInv, AskUsers, Goto, db
<1>3. ASSUME NEW r \in Requests, RejectUnknownUsers(r) PROVE ErrorInv'
  BY <1>3, ArgsFixed, TakenStays
     DEF TypeOK, TxnInv, ErrorInv, Valid, RejectUnknownUsers, Goto, Throw, db
<1>4. ASSUME NEW r \in Requests, AcceptUsers(r) PROVE ErrorInv'
  BY <1>4, ArgsFixed, TakenStays DEF TypeOK, TxnInv, ErrorInv, AcceptUsers, Goto, db
<1>5. ASSUME NEW r \in Requests, LookupFails(r) PROVE ErrorInv'
  BY <1>5, ArgsFixed, TakenStays
     DEF TypeOK, TxnInv, ErrorInv, LookupFails, Goto, Throw, db
<1>6. ASSUME NEW r \in Requests, StartSession(r) PROVE ErrorInv'
  BY <1>6, ArgsFixed, TakenStays DEF TypeOK, TxnInv, ErrorInv, StartSession, Goto, db
<1>7. ASSUME NEW r \in Requests, SessionFails(r) PROVE ErrorInv'
  BY <1>7, ArgsFixed, TakenStays
     DEF TypeOK, TxnInv, ErrorInv, SessionFails, Goto, Throw, db
<1>8. ASSUME NEW r \in Requests, InsertConversation(r) PROVE ErrorInv'
  BY <1>8, ArgsFixed, TakenStays
     DEF TypeOK, TxnInv, ErrorInv, InsertConversation, Goto, db
<1>9. ASSUME NEW r \in Requests, DuplicateKey(r) PROVE ErrorInv'
  BY <1>9, ArgsFixed, TakenStays
     DEF TypeOK, TxnInv, ErrorInv, DuplicateKey, Goto, Throw, db
<1>10. ASSUME NEW r \in Requests, WriteConflict(r) PROVE ErrorInv'
  BY <1>10, ArgsFixed, TakenStays
     DEF TypeOK, TxnInv, ErrorInv, WriteConflict, Goto, Throw, db
<1>11. ASSUME NEW r \in Requests, InsertFails(r) PROVE ErrorInv'
  BY <1>11, ArgsFixed, TakenStays
     DEF TypeOK, TxnInv, ErrorInv, InsertFails, Goto, Throw, db
<1>12. ASSUME NEW r \in Requests, InsertParticipants(r) PROVE ErrorInv'
  BY <1>12, ArgsFixed, TakenStays
     DEF TypeOK, TxnInv, ErrorInv, InsertParticipants, Goto, db
<1>13. ASSUME NEW r \in Requests, InsertManyFails(r) PROVE ErrorInv'
  BY <1>13, ArgsFixed, TakenStays
     DEF TypeOK, TxnInv, ErrorInv, InsertManyFails, Goto, Throw, db
<1>14. ASSUME NEW r \in Requests, Commit(r) PROVE ErrorInv'
  BY <1>14, ArgsFixed, TakenStays DEF TypeOK, TxnInv, ErrorInv, Commit, Goto, Persisted
<1>15. ASSUME NEW r \in Requests, CommitUnknown(r) PROVE ErrorInv'
  BY <1>15, ArgsFixed, TakenStays
     DEF TypeOK, TxnInv, ErrorInv, CommitUnknown, Goto, Throw, Persisted
<1>16. ASSUME NEW r \in Requests, CommitFails(r) PROVE ErrorInv'
  BY <1>16, ArgsFixed, TakenStays
     DEF TypeOK, TxnInv, ErrorInv, CommitFails, Goto, Throw, db
<1>17. ASSUME NEW r \in Requests, Abort(r) PROVE ErrorInv'
  BY <1>17, ArgsFixed, TakenStays DEF TypeOK, TxnInv, ErrorInv, Abort, Goto, db
<1>18. ASSUME NEW r \in Requests, SkipAbort(r) PROVE ErrorInv'
  BY <1>18, ArgsFixed, TakenStays DEF TypeOK, TxnInv, ErrorInv, SkipAbort, Goto, db
<1>19. ASSUME NEW r \in Requests, EndSession(r) PROVE ErrorInv'
  BY <1>19, ArgsFixed, TakenStays DEF TypeOK, TxnInv, ErrorInv, EndSession, Goto, db
<1>20. ASSUME NEW r \in Requests, Publish(r) PROVE ErrorInv'
  BY <1>20, ArgsFixed, TakenStays DEF TypeOK, TxnInv, ErrorInv, Publish, Goto, db
<1>21. ASSUME NEW r \in Requests, PublishFails(r) PROVE ErrorInv'
  BY <1>21, ArgsFixed, TakenStays DEF TypeOK, TxnInv, ErrorInv, PublishFails, Goto, db
<1>22. ASSUME NEW r \in Requests, Reply(r) PROVE ErrorInv'
  BY <1>22, ArgsFixed, TakenStays DEF TypeOK, TxnInv, ErrorInv, Reply, Goto, db
<1>23. ASSUME NEW r \in Requests, Expire(r) PROVE ErrorInv'
  BY <1>23, ArgsFixed, TakenStays DEF TypeOK, TxnInv, ErrorInv, Expire, db
<1>24. CASE Crash
  BY <1>24, ArgsFixed, TakenStays DEF TypeOK, TxnInv, ErrorInv, Crash, InFlight, db
<1>25. CASE Finished
  BY <1>25, ArgsFixed, TakenStays DEF TypeOK, TxnInv, ErrorInv, Finished, vars
<1>26. ASSUME NEW r \in Requests, LookupLost(r) PROVE ErrorInv'
  BY <1>26, ArgsFixed, TakenStays DEF TypeOK, TxnInv, ErrorInv, LookupLost, Goto, db
<1> QED
  BY <1>1, <1>2, <1>3, <1>4, <1>5, <1>6, <1>7, <1>8, <1>9, <1>10, <1>11,
     <1>12, <1>13, <1>14, <1>15, <1>16, <1>17, <1>18, <1>19, <1>20, <1>21,
     <1>22, <1>23, <1>24, <1>25, <1>26
     DEF Next, Handle

\* What one step can do to the stored documents, the transactions that hold
\* keys and the announcements.
CommitStep(r) == pc[r] = "commit" /\ txn[r] = "open" /\ Persisted(r)

\* Only a commit writes the collections.
LEMMA StoreFootprint ==
    ASSUME Next
    PROVE  /\ UNCHANGED args
           /\ \/ UNCHANGED <<db, published>>
              \/ UNCHANGED published /\ \E r \in Requests : CommitStep(r)
              \/ \E r \in Requests : Publish(r)
BY DEF CommitStep,
      Next, Handle, RejectArity, AskUsers, RejectUnknownUsers,
      AcceptUsers, LookupFails, StartSession, SessionFails,
      InsertConversation, DuplicateKey, WriteConflict, InsertFails,
      InsertParticipants, InsertManyFails, Commit, CommitUnknown,
      CommitFails, Abort, SkipAbort, EndSession, Publish,
      PublishFails, Reply, LookupLost, Expire, Crash, Finished, vars, db, Goto

\* Only the insert of a free key opens a transaction.
LEMMA KeyFootprint ==
    ASSUME TypeOK, Next
    PROVE  \/ \A q \in Requests : HoldsKey(q)' => HoldsKey(q)
           \/ \E r \in Requests : /\ ~KeyTaken(r) /\ ~KeyHeld(r)
                                 /\ txn' = [txn EXCEPT ![r] = "open"]
BY DEF HoldsKey, TypeOK, Persisted,
      Next, Handle, RejectArity, AskUsers, RejectUnknownUsers,
      AcceptUsers, LookupFails, StartSession, SessionFails,
      InsertConversation, DuplicateKey, WriteConflict, InsertFails,
      InsertParticipants, InsertManyFails, Commit, CommitUnknown,
      CommitFails, Abort, SkipAbort, EndSession, Publish,
      PublishFails, Reply, LookupLost, Expire, Crash, Finished, vars, db, Goto

\* Every action keeps participants and conversations together.
LEMMA DocsStep ==
    ASSUME TypeOK, TxnInv, DocsInv, Next
    PROVE  DocsInv'
<1>1. CASE UNCHANGED <<args, db>>
  BY <1>1, ArgsFixed DEF DocsInv, db, TypeOK
<1>2. ASSUME NEW r \in Requests, CommitStep(r), UNCHANGED args
      PROVE  DocsInv'
  <2>1. /\ conversations' = conversations \cup {r}
        /\ participants' = participants \cup ParticipantDocs(r)
    BY <1>2 DEF CommitStep, Persisted, TxnInv
  <2>2. \A d \in ParticipantDocs(r) : d.conversationId = r
    BY DEF ParticipantDocs
  <2> QED
    BY <1>2, <2>1, <2>2, ArgsFixed DEF DocsInv, TypeOK
<1> QED
  BY <1>1, <1>2, StoreFootprint DEF Publish, db

\* Every action keeps at most one holder of a pair's key.
LEMMA KeyStep ==
    ASSUME TypeOK, TxnInv, KeyInv, Next
    PROVE  KeyInv'
<1>1. UNCHANGED args
  BY StoreFootprint
<1>2. CASE \A q \in Requests : HoldsKey(q)' => HoldsKey(q)
  BY <1>1, <1>2, ArgsFixed DEF KeyInv, HoldsKey
<1>3. ASSUME NEW r \in Requests, ~KeyTaken(r), ~KeyHeld(r),
             txn' = [txn EXCEPT ![r] = "open"]
      PROVE  KeyInv'
  <2>1. \A q \in Requests \ {r} : HoldsKey(q) => ~SameKey(q, r) /\ ~SameKey(r, q)
    BY <1>3 DEF HoldsKey, KeyTaken, KeyHeld, TxnInv, SameKey
  <2> QED
    BY <1>1, <1>3, <2>1, ArgsFixed DEF KeyInv, HoldsKey, TypeOK
<1> QED
  BY <1>2, <1>3, KeyFootprint

\* Every action announces stored conversations only.
LEMMA AnnouncedStep ==
    ASSUME TypeOK, ErrorInv, AnnouncedInv, Next
    PROVE  AnnouncedInv'
<1>1. ASSUME NEW r \in Requests, Publish(r) PROVE AnnouncedInv'
  BY <1>1 DEF Publish, Goto, ErrorInv, AnnouncedInv, db
<1> QED
  BY <1>1, StoreFootprint DEF AnnouncedInv, db, CommitStep, Persisted

----------------------------------------------------------------------------
\* The invariant is inductive: the reachable states satisfy all its parts.
THEOREM Invariant == Spec => []IInv
<1>1. Init => IInv
  BY BodiesAssumption
     DEF Init, IInv, TypeOK, Labels, TxnInv, ErrorInv, DocsInv, KeyInv, HoldsKey, AnnouncedInv
<1>2. IInv /\ [Next]_vars => IInv'
  <2>1. CASE Next
    BY <2>1, TypeStep, TxnStep, ErrorStep, DocsStep, KeyStep, AnnouncedStep DEF IInv
  <2>2. ASSUME IInv, UNCHANGED vars PROVE IInv'
    BY <2>2, ArgsFixed
       DEF vars, IInv, TypeOK, TxnInv, ErrorInv, DocsInv, KeyInv, HoldsKey, AnnouncedInv, KeyTaken
  <2> QED
    BY <2>1, <2>2
<1> QED
  BY <1>1, <1>2, PTL DEF Spec


\* Type correctness: no step leaves the model's domains.
THEOREM TypeCorrect == Spec => []TypeOK
BY Invariant, PTL DEF IInv

\* However many clients ask at once, a pair of users has one private
\* conversation: KeyInv, read on the committed transactions.
THEOREM UniquePair == Spec => []OnePrivatePerPair
<1>1. IInv => OnePrivatePerPair
  <2> SUFFICES ASSUME IInv, NEW q \in conversations, NEW r \in conversations,
                      IsPrivate(q), IsPrivate(r), ParticipantIds(q) = ParticipantIds(r)
               PROVE  q = r
    BY DEF OnePrivatePerPair
  <2>1. q \in Requests /\ r \in Requests /\ txn[q] = "committed" /\ txn[r] = "committed"
    BY DEF IInv, TypeOK, TxnInv
  <2>2. SameKey(q, r)
    BY DEF SameKey, IdempotencyKey
  <2> QED
    BY <2>1, <2>2 DEF IInv, KeyInv, HoldsKey
<1> QED
  BY <1>1, Invariant, PTL

\* No failure between the two inserts leaves half a conversation.
THEOREM NeverHalf == Spec => []ConversationsWhole
<1>1. IInv => ConversationsWhole
  <2> SUFFICES ASSUME IInv PROVE ConversationsWhole
    OBVIOUS
  <2>1. \A d \in participants : d.conversationId \in conversations
    BY DEF IInv, DocsInv
  <2>2. ASSUME NEW r \in conversations, NEW u \in ParticipantIds(r)
        PROVE  \E d \in {p \in participants : p.conversationId = r} : d.userId = u
    <3>1. PICK d \in ParticipantDocs(r) : d.conversationId = r /\ d.userId = u
      BY <2>2, DocsOf DEF IInv, TypeOK
    <3>2. d \in participants
      BY <3>1 DEF IInv, DocsInv
    <3> QED
      BY <3>1, <3>2
  <2>3. ASSUME NEW r \in conversations,
               NEW d \in {p \in participants : p.conversationId = r}
        PROVE  /\ d.userId \in ParticipantIds(r) \cap Registered
               /\ d.role = "OWNER" <=> d.userId = args[r].userId
    <3>1. d \in ParticipantDocs(r)
      BY <2>3 DEF IInv, DocsInv
    <3>2. r \in Requests /\ Valid(r)
      BY <2>3 DEF IInv, TypeOK, TxnInv
    <3> QED
      BY <3>1, <3>2, DocsOf, RolesOf DEF Valid, AllFound
  <2> QED
    BY <2>1, <2>2, <2>3 DEF ConversationsWhole
<1> QED
  BY <1>1, Invariant, PTL

\* What a caller is told is so.
THEOREM HonestReply == Spec => []ReplyTruth
<1>1. IInv => ReplyTruth
  BY DEF IInv, TypeOK, TxnInv, ErrorInv, ReplyTruth, KeyTaken
<1> QED
  BY <1>1, Invariant, PTL

----------------------------------------------------------------------------
\* What it takes to go wrong.

\* Which open transactions a handler will not end, and by which faults.
LockInv ==
    \A r \in Requests :
        /\ pc[r] \in {"insert", "members", "commit"} => session[r] = "active"
        /\ pc[r] = "lost" => "crash" \in Faults
        /\ txn[r] = "open" /\ pc[r] = "abort" =>
             \/ "insert" \in Faults /\ session[r] = "active"
             \/ "commit" \in Faults
        /\ txn[r] = "open" /\ pc[r] \notin {"members", "commit", "abort", "lost"} =>
             {"insert", "abort"} \subseteq Faults \/ "commit" \in Faults

\* A stored conversation without its event is about to be announced, or was
\* left so by a fault.
SilenceInv ==
    /\ \A r \in conversations \ published :
         \/ pc[r] \in {"end", "publish"} /\ error[r] = "none"
         \/ pc[r] \in {"abort", "end", "reply", "done"} /\ error[r] = "error" /\ "commit" \in Faults
         \/ pc[r] \in {"reply", "done"} /\ error[r] = "none" /\ "publish" \in Faults
         \/ pc[r] = "lost" /\ "crash" \in Faults
    /\ \A r \in published : pc[r] \in {"reply", "done", "lost"} /\ error[r] = "none"

\* While transactions do not fail, one is open exactly as long as its handler
\* works on it, and only a rival or a failed call before it refuses a request.
WinnerInv ==
    NoTxnFails =>
        \A r \in Requests :
            /\ txn[r] = "open" <=> pc[r] \in {"members", "commit"}
            /\ txn[r] = "aborted" => \E q \in Requests : SameKey(q, r) /\ Wins(q)
            /\ error[r] = "error" /\ txn[r] # "aborted" =>
                 txn[r] = "none" /\ Faults \cap {"lookup", "session"} # {}

CauseInv == LockInv /\ SilenceInv /\ WinnerInv

\* A transaction that holds its key is at its inserts, its commit or its abort,
\* or only the server will end it: the service died, or a commit failed, or
\* both an insert and the abort after it.
LockHasCause ==
    \A r \in Requests :
        txn[r] = "open" =>
            \/ pc[r] \in {"members", "commit", "abort"}
            \/ /\ pc[r] \in {"end", "reply", "done"}
               /\ {"insert", "abort"} \subseteq Faults \/ "commit" \in Faults
            \/ pc[r] = "lost" /\ "crash" \in Faults

\* A stored conversation that nobody will announce is one whose commit, emit
\* or service failed.
SilenceHasCause ==
    \A r \in conversations \ published :
        \/ pc[r] \in {"end", "publish"} /\ error[r] = "none"
        \/ Faults \cap {"commit", "publish", "crash"} # {}

\* A caller told of an error has nothing stored, unless it is the answer to the
\* commit that was lost.
ErrorLeavesNothing ==
    \A r \in conversations : reply[r] = "error" => "commit" \in Faults

\* While transactions do not fail, a valid request for a pair that was answered
\* leaves the pair with a conversation, stored or about to be, unless its own
\* lookup or session failed.
PairSettled ==
    NoTxnFails =>
        \A r \in Requests :
            pc[r] = "done" /\ IsPrivate(r) /\ Valid(r) =>
                \/ \E q \in Requests : SameKey(q, r) /\ Wins(q)
                \/ error[r] = "error" /\ Faults \cap {"lookup", "session"} # {}

\* Every action leaves a transaction to its handler, or to a fault.
LEMMA LockStep ==
    ASSUME TypeOK, LockInv, [Next]_vars
    PROVE  LockInv'
<1> USE DEF TypeOK, LockInv, Goto, Persisted
<1>1. ASSUME NEW r \in Requests, \/ RejectArity(r) \/ AskUsers(r) \/ RejectUnknownUsers(r)
                              \/ AcceptUsers(r) \/ LookupFails(r) \/ LookupLost(r)
      PROVE  LockInv'
  BY <1>1 DEF RejectArity, AskUsers, RejectUnknownUsers, AcceptUsers, LookupFails,
     LookupLost, Throw
<1>2. ASSUME NEW r \in Requests, StartSession(r) \/ SessionFails(r)
      PROVE  LockInv'
  BY <1>2 DEF StartSession, SessionFails, Throw
<1>3. ASSUME NEW r \in Requests, InsertConversation(r) \/ DuplicateKey(r) \/ WriteConflict(r)
      PROVE  LockInv'
  BY <1>3 DEF InsertConversation, DuplicateKey, WriteConflict, Throw
<1>4. ASSUME NEW r \in Requests, InsertFails(r)
      PROVE  LockInv'
  BY <1>4 DEF InsertFails, Throw
<1>5. ASSUME NEW r \in Requests, InsertParticipants(r) \/ InsertManyFails(r)
      PROVE  LockInv'
  BY <1>5 DEF InsertParticipants, InsertManyFails, Throw
<1>6. ASSUME NEW r \in Requests, Commit(r) \/ CommitUnknown(r)
      PROVE  LockInv'
  BY <1>6 DEF Commit, CommitUnknown, Throw
<1>7. ASSUME NEW r \in Requests, CommitFails(r)
      PROVE  LockInv'
  BY <1>7 DEF CommitFails, Throw
<1>8. ASSUME NEW r \in Requests, Abort(r)
      PROVE  LockInv'
  BY <1>8 DEF Abort
<1>9. ASSUME NEW r \in Requests, SkipAbort(r) \/ EndSession(r)
      PROVE  LockInv'
  BY <1>9 DEF SkipAbort, EndSession
<1>10. ASSUME NEW r \in Requests, Publish(r) \/ PublishFails(r) \/ Reply(r)
      PROVE  LockInv'
  BY <1>10 DEF Publish, PublishFails, Reply
<1>11. ASSUME NEW r \in Requests, Expire(r)
      PROVE  LockInv'
  BY <1>11 DEF Expire
<1>12. CASE Crash
  BY <1>12 DEF Crash, InFlight
<1>13. CASE UNCHANGED vars
  BY <1>13 DEF vars
<1> QED
  BY <1>1, <1>2, <1>3, <1>4, <1>5, <1>6, <1>7, <1>8, <1>9, <1>10, <1>11, <1>12, <1>13
  DEF Next, Handle, Finished

\* Every action leaves a stored conversation about to be announced, or names
\* the fault.
LEMMA SilenceStep ==
    ASSUME TypeOK, TxnInv, ErrorInv, LockInv, SilenceInv, [Next]_vars
    PROVE  SilenceInv'
<1> USE DEF TypeOK, TxnInv, LockInv, SilenceInv, Goto, Persisted, db
<1>1. ASSUME NEW r \in Requests, \/ RejectArity(r) \/ AskUsers(r) \/ RejectUnknownUsers(r)
                              \/ AcceptUsers(r) \/ LookupFails(r) \/ LookupLost(r)
      PROVE  SilenceInv'
  BY <1>1 DEF RejectArity, AskUsers, RejectUnknownUsers, AcceptUsers, LookupFails,
     LookupLost, Throw
<1>2. ASSUME NEW r \in Requests, StartSession(r) \/ SessionFails(r)
      PROVE  SilenceInv'
  BY <1>2 DEF StartSession, SessionFails, Throw
<1>3. ASSUME NEW r \in Requests, InsertConversation(r) \/ DuplicateKey(r) \/ WriteConflict(r)
      PROVE  SilenceInv'
  BY <1>3 DEF InsertConversation, DuplicateKey, WriteConflict, Throw
<1>4. ASSUME NEW r \in Requests, InsertFails(r)
      PROVE  SilenceInv'
  BY <1>4 DEF InsertFails, Throw
<1>5. ASSUME NEW r \in Requests, InsertParticipants(r) \/ InsertManyFails(r)
      PROVE  SilenceInv'
  BY <1>5 DEF InsertParticipants, InsertManyFails, Throw
<1>6. ASSUME NEW r \in Requests, Commit(r) \/ CommitUnknown(r)
      PROVE  SilenceInv'
  BY <1>6 DEF Commit, CommitUnknown, Throw, ErrorInv
<1>7. ASSUME NEW r \in Requests, CommitFails(r)
      PROVE  SilenceInv'
  BY <1>7 DEF CommitFails, Throw
<1>8. ASSUME NEW r \in Requests, Abort(r)
      PROVE  SilenceInv'
  BY <1>8 DEF Abort
<1>9. ASSUME NEW r \in Requests, SkipAbort(r) \/ EndSession(r)
      PROVE  SilenceInv'
  BY <1>9 DEF SkipAbort, EndSession
<1>10. ASSUME NEW r \in Requests, Publish(r) \/ PublishFails(r) \/ Reply(r)
      PROVE  SilenceInv'
  BY <1>10 DEF Publish, PublishFails, Reply, ErrorInv
<1>11. ASSUME NEW r \in Requests, Expire(r)
      PROVE  SilenceInv'
  BY <1>11 DEF Expire
<1>12. CASE Crash
  BY <1>12 DEF Crash, InFlight
<1>13. CASE UNCHANGED vars
  BY <1>13 DEF vars
<1> QED
  BY <1>1, <1>2, <1>3, <1>4, <1>5, <1>6, <1>7, <1>8, <1>9, <1>10, <1>11, <1>12, <1>13
  DEF Next, Handle, Finished

\* While transactions do not fail, who wins goes on to win.
LEMMA WinsStay ==
    ASSUME TypeOK, TxnInv, NoTxnFails, WinnerInv, [Next]_vars, NEW q \in Requests, Wins(q)
    PROVE  Wins(q)'
<1> USE DEF TypeOK, TxnInv, NoTxnFails, WinnerInv, Wins, Goto, Persisted
<1>1. CASE \E r \in Requests : Handle(r)
  BY <1>1 DEF Handle, RejectArity, AskUsers, RejectUnknownUsers, AcceptUsers, LookupFails,
      StartSession, SessionFails, InsertConversation, DuplicateKey, WriteConflict, InsertFails,
      InsertParticipants, InsertManyFails, Commit, CommitUnknown, CommitFails, Abort, SkipAbort,
      EndSession, Publish, PublishFails, Reply
<1>2. CASE \E r \in Requests : LookupLost(r) \/ Expire(r)
  BY <1>2 DEF LookupLost, Expire
<1>3. CASE UNCHANGED vars
  BY <1>3 DEF vars
<1> QED
  BY <1>1, <1>2, <1>3 DEF Next, Finished, Crash

\* Only an insert aborts, and only in favour of a rival.
LEMMA AbortHasRival ==
    ASSUME TypeOK, TxnInv, NoTxnFails, WinnerInv, [Next]_vars,
           NEW r \in Requests, txn[r] # "aborted", txn'[r] = "aborted"
    PROVE  DuplicateKey(r) \/ WriteConflict(r)
<1> USE DEF TypeOK, TxnInv, NoTxnFails, WinnerInv, Goto, Persisted
<1>1. ASSUME NEW q \in Requests, Handle(q)
      PROVE  DuplicateKey(r) \/ WriteConflict(r)
  BY <1>1 DEF Handle, RejectArity, AskUsers, RejectUnknownUsers, AcceptUsers, LookupFails,
      StartSession, SessionFails, InsertConversation, DuplicateKey, WriteConflict, InsertFails,
      InsertParticipants, InsertManyFails, Commit, CommitUnknown, CommitFails, Abort, SkipAbort,
      EndSession, Publish, PublishFails, Reply
<1>2. ~\E q \in Requests : Expire(q)
  BY DEF Expire
<1> QED
  BY <1>1, <1>2 DEF Next, LookupLost, Finished, Crash, vars

\* Every action keeps the order of winners and losers.
LEMMA WinnerStep ==
    ASSUME TypeOK, TypeOK', TxnInv, ErrorInv, WinnerInv, [Next]_vars
    PROVE  WinnerInv'
<1> SUFFICES ASSUME NoTxnFails
             PROVE  \A r \in Requests :
                      /\ txn'[r] = "open" <=> pc'[r] \in {"members", "commit"}
                      /\ txn'[r] = "aborted" => \E q \in Requests : SameKey(q, r)' /\ Wins(q)'
                      /\ error'[r] = "error" /\ txn'[r] # "aborted" =>
                           txn'[r] = "none" /\ Faults \cap {"lookup", "session"} # {}
  BY DEF WinnerInv, NoTxnFails
<1>1. UNCHANGED args
  BY StoreFootprint DEF vars
<1>2. ASSUME NEW r \in Requests, txn'[r] = "aborted"
      PROVE  \E q \in Requests : SameKey(q, r)' /\ Wins(q)'
  <2>1. \E q \in Requests : SameKey(q, r) /\ Wins(q)
    <3>1. CASE txn[r] = "aborted"
      BY <3>1 DEF WinnerInv
    <3>2. CASE DuplicateKey(r)
      BY <3>2 DEF DuplicateKey, KeyTaken, Wins, TxnInv, TypeOK
    <3>3. CASE WriteConflict(r)
      BY <3>3 DEF WriteConflict, KeyHeld, Wins, WinnerInv
    <3> QED
      BY <1>2, <3>1, <3>2, <3>3, AbortHasRival
  <2> QED
    BY <1>1, <2>1, WinsStay, ArgsFixed
<1>3. ASSUME NEW r \in Requests
      PROVE  /\ txn'[r] = "open" <=> pc'[r] \in {"members", "commit"}
             /\ error'[r] = "error" /\ txn'[r] # "aborted" =>
                  txn'[r] = "none" /\ Faults \cap {"lookup", "session"} # {}
  <2> USE DEF TypeOK, TxnInv, NoTxnFails, WinnerInv, Goto, Persisted, Throw
  <2>1. ASSUME NEW q \in Requests, Handle(q)
        PROVE  txn'[r] = "open" <=> pc'[r] \in {"members", "commit"}
    BY <2>1 DEF Handle, RejectArity, AskUsers, RejectUnknownUsers, AcceptUsers, LookupFails,
      StartSession, SessionFails, InsertConversation, DuplicateKey, WriteConflict, InsertFails,
      InsertParticipants, InsertManyFails, Commit, CommitUnknown, CommitFails, Abort, SkipAbort,
      EndSession, Publish, PublishFails, Reply
  <2>2. ASSUME NEW q \in Requests, Handle(q), error'[r] = "error", txn'[r] # "aborted"
        PROVE  txn'[r] = "none" /\ Faults \cap {"lookup", "session"} # {}
    BY <2>2 DEF Handle, RejectArity, AskUsers, RejectUnknownUsers, AcceptUsers, LookupFails,
      StartSession, SessionFails, InsertConversation, DuplicateKey, WriteConflict, InsertFails,
      InsertParticipants, InsertManyFails, Commit, CommitUnknown, CommitFails, Abort, SkipAbort,
      EndSession, Publish, PublishFails, Reply, ErrorInv
  <2>3. ~\E q \in Requests : Expire(q)
    BY DEF Expire
  <2>4. ASSUME NEW q \in Requests, LookupLost(q)
        PROVE  /\ txn'[r] = "open" <=> pc'[r] \in {"members", "commit"}
               /\ error'[r] = "error" /\ txn'[r] # "aborted" =>
                    txn'[r] = "none" /\ Faults \cap {"lookup", "session"} # {}
    BY <2>4 DEF LookupLost
  <2> QED
    BY <2>1, <2>2, <2>3, <2>4 DEF Next, Finished, Crash, vars
<1> QED
  BY <1>2, <1>3

\* The causes hold throughout: IInv keeps them company.
THEOREM CausesHold == Spec => []CauseInv
<1>1. Init => CauseInv
  BY DEF Init, CauseInv, LockInv, SilenceInv, WinnerInv
<1>2. IInv /\ IInv' /\ CauseInv /\ [Next]_vars => CauseInv'
  BY LockStep, SilenceStep, WinnerStep DEF IInv, CauseInv
<1> QED
  BY <1>1, <1>2, Invariant, PTL DEF Spec

\* No handler goes on and leaves its key held unless something failed: catch
\* does not abort after a failed commit, and nobody does after a crash.
THEOREM LocksHaveCauses == Spec => []LockHasCause
<1>1. IInv /\ CauseInv => LockHasCause
  BY DEF IInv, TypeOK, Labels, TxnInv, ErrorInv, CauseInv, LockInv, LockHasCause
<1> QED
  BY <1>1, Invariant, CausesHold, PTL

\* No stored conversation stays unannounced without a fault: what
\* StoredIsAnnounced needs besides fairness.
THEOREM SilenceHasCauses == Spec => []SilenceHasCause
<1>1. CauseInv => SilenceHasCause
  BY DEF CauseInv, SilenceInv, SilenceHasCause
<1> QED
  BY <1>1, CausesHold, PTL

\* After an error a client may retry without a second group: only the unknown
\* outcome of a commit leaves one behind.
THEOREM ErrorsLeaveNothing == Spec => []ErrorLeavesNothing
<1>1. IInv /\ CauseInv => ErrorLeavesNothing
  BY DEF IInv, TypeOK, TxnInv, ErrorInv, CauseInv, SilenceInv, ErrorLeavesNothing
<1> QED
  BY <1>1, Invariant, CausesHold, PTL

\* Only a handler that has not come past its commit throws.
LEMMA ErrorFootprint ==
    ASSUME TypeOK, Next, NEW q \in Requests, error'[q] # error[q]
    PROVE  pc[q] \in {"queued", "lookup", "session", "insert", "members", "commit"}
<1>1. ASSUME NEW r \in Requests, Handle(r), error' # error
      PROVE  /\ pc[r] \in {"queued", "lookup", "session", "insert", "members", "commit"}
             /\ \E e : Throw(r, e)
  BY <1>1 DEF Handle, RejectArity, AskUsers, RejectUnknownUsers, AcceptUsers, LookupFails,
     StartSession, SessionFails, InsertConversation, DuplicateKey, WriteConflict, InsertFails,
     InsertParticipants, InsertManyFails, Commit, CommitUnknown, CommitFails, Abort, SkipAbort,
     EndSession, Publish, PublishFails, Reply, Goto
<1>2. \E r \in Requests : Handle(r)
  BY DEF Next, LookupLost, Expire, Crash, Finished, vars
<1>3. PICK r \in Requests : Handle(r)
  BY <1>2
<1>4. PICK e : Throw(r, e)
  BY <1>1, <1>3
<1>5. r = q
  BY <1>4 DEF TypeOK, Throw
<1> QED
  BY <1>1, <1>3, <1>5

\* What is stored is no error: a failed emit is not the caller's.
THEOREM SuccessOnceStored == Spec => StoredIsNoError
<1> DEFINE Kept == \A r \in conversations : error'[r] = error[r]
<1>1. IInv /\ [Next]_vars => Kept
  <2> SUFFICES ASSUME IInv, [Next]_vars, NEW r \in conversations, error'[r] # error[r]
               PROVE  FALSE
    OBVIOUS
  <2>1. r \in Requests /\ txn[r] = "committed"
    BY DEF IInv, TypeOK, TxnInv
  <2>2. CASE Next
    BY <2>1, <2>2, ErrorFootprint DEF IInv, TxnInv
  <2> QED
    BY <2>2 DEF vars
<1> QED
  BY <1>1, Invariant, PTL DEF Spec, StoredIsNoError

\* Requests of one pair never refuse each other to the last.
THEOREM RivalsCannotAllLose == Spec => []ConflictHasWinner
<1>1. CauseInv => ConflictHasWinner
  BY DEF CauseInv, WinnerInv, ConflictHasWinner
<1> QED
  BY <1>1, CausesHold, PTL

\* Once a valid request of a pair is answered, the pair has or is about to have
\* its conversation: what PairServed needs besides fairness.
THEOREM AnsweredPairIsServed == Spec => []PairSettled
<1>1. IInv /\ CauseInv => PairSettled
  <2> SUFFICES ASSUME IInv, CauseInv, NoTxnFails, NEW r \in Requests,
                      pc[r] = "done", IsPrivate(r), Valid(r)
               PROVE  \/ \E q \in Requests : SameKey(q, r) /\ Wins(q)
                      \/ error[r] = "error" /\ Faults \cap {"lookup", "session"} # {}
    BY DEF PairSettled
  <2>1. CASE error[r] = "none"
    <3>1. SameKey(r, r) /\ Wins(r)
      BY <2>1 DEF IInv, TxnInv, ErrorInv, Wins, SameKey
    <3> QED
      BY <3>1
  <2>2. CASE error[r] = "conflict"
    BY <2>2 DEF IInv, TypeOK, TxnInv, ErrorInv, KeyTaken, Wins
  <2>3. CASE error[r] = "error"
    BY <2>3 DEF CauseInv, WinnerInv
  <2> QED
    BY <2>1, <2>2, <2>3 DEF IInv, TypeOK
<1> QED
  BY <1>1, Invariant, CausesHold, PTL

----------------------------------------------------------------------------
\* The refinement: the collections and the events are a conversation store.

\* Through the refinement mapping a conversation's members are the ids of its
\* request.
LEMMA MembersAre ==
    ASSUME IInv, NEW r \in Requests
    PROVE  StoredMembers[r] = IF r \in conversations THEN ParticipantIds(r) ELSE {}
<1> DEFINE docs == {p \in participants : p.conversationId = r}
<1>1. CASE r \in conversations
  <2>1. docs = ParticipantDocs(r)
    <3>1. ASSUME NEW d \in docs PROVE d \in ParticipantDocs(r)
      BY <3>1 DEF IInv, DocsInv
    <3>2. ASSUME NEW d \in ParticipantDocs(r) PROVE d \in docs
      <4>1. d \in participants
          BY <1>1, <3>2 DEF IInv, DocsInv
      <4>2. d.conversationId = r
        BY <3>2, DocsOf
      <4> QED
        BY <4>1, <4>2
    <3> HIDE DEF docs
    <3> QED
      BY <3>1, <3>2
  <2> QED
    BY <1>1, <2>1, DocsOf DEF StoredMembers
<1>2. CASE r \notin conversations
  <2>1. docs = {}
    BY <1>2 DEF IInv, DocsInv
  <2> QED
    BY <1>2, <2>1 DEF StoredMembers
<1> QED
  BY <1>1, <1>2

\* The initial states are initial states of the store.
LEMMA InitStore == Init => Store!StoreInit
BY DEF Init, Store!StoreInit, StoredMembers, StoredPrivate

\* A commit creates the conversation in the store, whole.
LEMMA CommitCreates ==
    ASSUME IInv, UNCHANGED <<args, published>>, NEW r \in Requests, CommitStep(r)
    PROVE  /\ Store!Create(r, ParticipantIds(r), IsPrivate(r))
           /\ ParticipantIds(r) \subseteq Registered
<1> DEFINE M == ParticipantIds(r)
<1>1. /\ conversations' = conversations \cup {r}
      /\ r \notin conversations
      /\ conversations \subseteq Requests
      /\ Valid(r)
  BY DEF CommitStep, Persisted, IInv, TypeOK, TxnInv
<1>2. \A q \in Requests : ParticipantIds(q)' = ParticipantIds(q) /\ IsPrivate(q)' = IsPrivate(q)
  BY DEF ParticipantIds, IsPrivate
<1>3. StoredMembers[r] = {}
  BY <1>1, MembersAre
<1>4. M # {} /\ M \subseteq Registered
  BY <1>1 DEF ParticipantIds, Valid, AllFound
<1>5. IsPrivate(r) => Store!IsPair(M) /\ Store!PairFree(M)
  <2> SUFFICES ASSUME IsPrivate(r), NEW q \in StoredPrivate
               PROVE  StoredMembers[q] # M
    BY <1>1 DEF Store!PairFree, Store!IsPair, IsPair, Valid, WrongArity
  <2>1. q \in conversations /\ IsPrivate(q) /\ q # r /\ q \in Requests
    BY <1>1 DEF StoredPrivate
  <2>2. StoredMembers[q] = ParticipantIds(q)
    BY <2>1, MembersAre
  <2>3. ~SameKey(q, r)
    BY <2>1 DEF IInv, KeyInv, HoldsKey, TxnInv, CommitStep
  <2> QED
    BY <1>1, <2>1, <2>2, <2>3 DEF SameKey, IdempotencyKey
<1>6. StoredMembers' = [StoredMembers EXCEPT ![r] = M]
  <2>1. participants' = participants \cup ParticipantDocs(r)
    BY DEF CommitStep, Persisted, IInv, TxnInv
  <2>2. \A d \in ParticipantDocs(r) : d.conversationId = r
    BY DocsOf
  <2>3. ASSUME NEW q \in Requests
        PROVE  StoredMembers'[q] = IF q = r THEN M ELSE StoredMembers[q]
    <3>1. CASE q # r
      <4>1. {p \in participants' : p.conversationId = q}
              = {p \in participants : p.conversationId = q}
        BY <2>1, <2>2, <3>1
      <4> QED
        BY <3>1, <4>1 DEF StoredMembers
    <3>2. CASE q = r
      <4>1. \A d \in participants : d.conversationId # r
        BY <1>1 DEF IInv, DocsInv
      <4>2. {p \in participants' : p.conversationId = r} = ParticipantDocs(r)
        BY <2>1, <2>2, <4>1
      <4>3. {d.userId : d \in ParticipantDocs(r)} = M
        BY DocsOf
      <4> QED
        BY <3>2, <4>2, <4>3 DEF StoredMembers
    <3> QED
      BY <3>1, <3>2
  <2>4. /\ StoredMembers = [q \in Requests |-> StoredMembers[q]]
        /\ StoredMembers' = [q \in Requests |-> StoredMembers'[q]]
    BY DEF StoredMembers
  <2> QED
    BY <2>3, <2>4
<1>7. StoredPrivate' = IF IsPrivate(r) THEN StoredPrivate \cup {r} ELSE StoredPrivate
  BY <1>1, <1>2 DEF StoredPrivate
<1> QED
  BY <1>3, <1>4, <1>5, <1>6, <1>7 DEF Store!Create

\* An emit announces a conversation that is stored.
LEMMA PublishAnnounces ==
    ASSUME IInv, NEW r \in Requests, Publish(r)
    PROVE  Store!Announce(r) \/ UNCHANGED Store!storeVars
<1>1. StoredMembers[r] = ParticipantIds(r)
  BY MembersAre DEF IInv, ErrorInv, Publish, Goto
<1>2. UNCHANGED <<StoredMembers, StoredPrivate>> /\ published' = published \cup {r}
  BY DEF Publish, db, StoredMembers, StoredPrivate, IsPrivate
<1> QED
  BY <1>1, <1>2 DEF ParticipantIds, Store!Announce, Store!storeVars

\* createConversation implements the store: a commit is its Create, an emit
\* its Announce, everything else leaves the store as it is.
THEOREM Refinement == Spec => ImplementsStore
<1>1. IInv /\ [Next]_vars => [Store!StoreNext]_Store!storeVars
  <2> SUFFICES ASSUME IInv, [Next]_vars
               PROVE  Store!StoreNext \/ UNCHANGED Store!storeVars
    OBVIOUS
  <2>1. CASE UNCHANGED <<args, db, published>>
    BY <2>1 DEF db, Store!storeVars, StoredMembers, StoredPrivate, IsPrivate
  <2>2. ASSUME UNCHANGED <<args, published>>, NEW r \in Requests, CommitStep(r)
        PROVE  Store!StoreNext
    BY <2>2, CommitCreates DEF Store!StoreNext, IsPrivate
  <2>3. ASSUME NEW r \in Requests, Publish(r)
        PROVE  Store!StoreNext \/ UNCHANGED Store!storeVars
    BY <2>3, PublishAnnounces DEF Store!StoreNext
  <2>4. CASE UNCHANGED vars
    BY <2>1, <2>4 DEF vars, db
  <2>5. CASE Next
    BY <2>1, <2>2, <2>3, <2>5, StoreFootprint
  <2> QED
    BY <2>4, <2>5
<1> QED
  BY <1>1, InitStore, Invariant, PTL DEF Spec, ImplementsStore, Store!StoreSpec

============================================================================
