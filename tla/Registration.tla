---------------------------- MODULE Registration ----------------------------
(***************************************************************************)
(* POST /auth/register: the gateway's guards, then auth.register and       *)
(* user.createOne over RabbitMQ, where the password is hashed and TypeORM  *)
(* saves the user.  The body is not cut down to RegisterDto on its way, so *)
(* it may carry an id.  save then looks for a row of that id, and if there *)
(* is one it updates the columns that differ from what it read; else, and  *)
(* under a generated uuid, it inserts.  Either is a MySQL transaction of   *)
(* one statement, in which the indexes are the only check for others.      *)
(*                                                                         *)
(* Unlike MongoDB, which refuses a key that an open transaction holds,     *)
(* InnoDB makes the second statement wait until the first transaction      *)
(* ends.  It goes through the indexes one after the other, the primary     *)
(* key, username, email; in each an UPDATE first takes the old value of    *)
(* its row, then the new one.  Two UPDATEs may so wait for each other, and *)
(* InnoDB breaks the circle.                                               *)
(*                                                                         *)
(* A request stands for the uuid TypeORM generates for it; an id that a    *)
(* client made up is that of a request which itself carries an id.         *)
(***************************************************************************)
EXTENDS Naturals, FiniteSets

CONSTANTS Requests,   \* one element per POST /auth/register
          Names, Emails, Passwords, Fold, Cut, None,   \* as in module Accounts
          Bodies,     \* what a request may carry
          Faults,     \* what may go wrong, a subset of Failures
          MaxFailures \* (bound) how many requests may meet an error of these

Failures == {"connection", "commit", "statement", "crash", "callers"}

\* RegisterDto, the id that may come with it, and whether the request has an
\* Authorization: Bearer header.
RequestBodies == [username : Names, email : Emails, password : Passwords,
                  id : Requests \cup {None}, bearer : BOOLEAN]

Rows == [username : Names, email : Emails, digest : {Cut[p] : p \in Passwords}]

ASSUME BodiesAssumption == Bodies \subseteq RequestBodies
ASSUME FaultsAssumption == Faults \subseteq Failures
ASSUME NoneAssumption == None \notin Requests \cup Rows

VARIABLES
    body,      \* body[r]: what request r carries
    stage,     \* stage[r]: how far it got
    loaded,    \* loaded[r]: the row that save found to update, None to insert
    held,      \* held[r]: index entries its open transaction holds
    error,     \* error[r]: what the users service is about to throw
    row,       \* row[a]: the committed row of id a, None if there is none
    saved,     \* (history) requests whose transaction was committed
    waiting,   \* requests whose callers, the gateway and auth, still wait
    reply      \* reply[r]: what the client was answered

table == <<row, saved>>
vars == <<body, stage, loaded, held, error, table, waiting, reply>>

----------------------------------------------------------------------------
Columns == {"username", "email"}

Account(r) == IF body[r].id = None THEN r ELSE body[r].id
Stored == {a \in Requests : row[a] # None}

\* Where save found the row of the id, it sets the columns that differ.
Updates(r) == loaded[r] # None
Sets(r) == {c \in Columns : Updates(r) => body[r][c] # loaded[r][c]}

\* Entries of the indexes: of a request's id, of the value it gives a column,
\* and of the value its row has there.
IdKey(a) == <<"id", a>>
NewKey(r, c) == <<c, Fold[body[r][c]]>>
OldKey(a, c) == <<c, Fold[row[a][c]]>>

Keys == ({"id"} \X Requests) \cup (Columns \X {Fold[v] : v \in Names \cup Emails})
KeysOf(a) == {IdKey(a)} \cup {OldKey(a, c) : c \in Columns}

\* The entry the statement of r is at.
NextIn(r, c) == IF Updates(r) /\ OldKey(Account(r), c) \notin held[r]
                THEN OldKey(Account(r), c) ELSE NewKey(r, c)

NextKey(r) ==
    IF held[r] = {} THEN IdKey(Account(r))
    ELSE NextIn(r, IF "username" \in Sets(r) /\ NewKey(r, "username") \notin held[r]
                   THEN "username" ELSE "email")

AllHeld(r) == held[r] # {} /\ (\A c \in Sets(r) : NewKey(r, c) \in held[r])

\* In a committed row, other than the one r updates.
Taken(r, key) == \E a \in Stored : key \in KeysOf(a) /\ ~(Updates(r) /\ a = Account(r))

\* A plausible slip: findOneBy before the INSERT in place of a unique column.
MutNeverHeld(r, key) == FALSE

Held(r, key) == \E q \in Requests \ {r} : key \in held[q]

\* Whose transaction the statement of r waits for.
WaitsFor(r, q) == stage[r] = "saving" /\ ~AllHeld(r) /\ q # r /\ NextKey(r) \in held[q]

InService(r) == stage[r] \in {"hashing", "saving", "rollback", "returning"}

----------------------------------------------------------------------------
Stages == {"new", "queued", "hashing", "saving", "rollback", "returning", "done", "lost"}

TypeOK ==
    /\ body \in [Requests -> RequestBodies]
    /\ stage \in [Requests -> Stages]
    /\ loaded \in [Requests -> Rows \cup {None}]
    /\ held \in [Requests -> SUBSET Keys]
    /\ error \in [Requests -> {"none", "duplicate", "error"}]
    /\ row \in [Requests -> Rows \cup {None}]
    /\ saved \subseteq Requests
    /\ waiting \subseteq Requests
    /\ reply \in [Requests -> {"none", "created", "conflict", "error", "unauthorized"}]

Init ==
    /\ body \in [Requests -> Bodies]
    /\ stage = [r \in Requests |-> "new"]
    /\ loaded = [r \in Requests |-> None]
    /\ held = [r \in Requests |-> {}]
    /\ error = [r \in Requests |-> "none"]
    /\ row = [r \in Requests |-> None]
    /\ saved = {}
    /\ waiting = {}
    /\ reply = [r \in Requests |-> "none"]

Goto(r, from, to) == stage[r] = from /\ stage' = [stage EXCEPT ![r] = to]
Release(r) == held' = [held EXCEPT ![r] = {}]
Throw(r, e) == error' = [error EXCEPT ![r] = e]

----------------------------------------------------------------------------
\* The gateway.  A bearer token is refused either way: AuthGuard throws if it
\* is not valid, GuestGard throws if it is.

RefuseSignedIn(r) ==
    /\ Goto(r, "new", "done")
    /\ body[r].bearer
    /\ reply' = [reply EXCEPT ![r] = "unauthorized"]
    /\ UNCHANGED <<body, loaded, held, error, table, waiting>>

\* Nobody knows the uuid generated for another before its row is committed.
Forward(r) ==
    /\ Goto(r, "new", "queued")
    /\ ~body[r].bearer
    /\ body[r].id # None => body[body[r].id].id # None \/ body[r].id \in Stored
    /\ waiting' = waiting \cup {r}
    /\ UNCHANGED <<body, loaded, held, error, table, reply>>

----------------------------------------------------------------------------
\* UsersService.createOne.

\* The call is delivered; bcrypt.hash runs.
Receive(r) ==
    /\ Goto(r, "queued", "hashing")
    /\ UNCHANGED <<body, loaded, held, error, table, waiting, reply>>

\* A plausible slip: save not returned, so that nobody waits for it.
MutNotAwaited(r) ==
    /\ Goto(r, "hashing", "returning")
    /\ UNCHANGED <<body, loaded, held, error, table, waiting, reply>>

\* userRepo.save: the SELECT of a row with the id, if one was sent, then the
\* transaction.
BeginSave(r) ==
    /\ Goto(r, "hashing", "saving")
    /\ loaded' = [loaded EXCEPT ![r] = IF body[r].id = None THEN None ELSE row[body[r].id]]
    /\ UNCHANGED <<body, held, error, table, waiting, reply>>

\* The INSERT or UPDATE passes the entry it is at.
ClaimKey(r) ==
    /\ stage[r] = "saving"
    /\ ~AllHeld(r)
    /\ ~Taken(r, NextKey(r)) /\ ~Held(r, NextKey(r))
    /\ held' = [held EXCEPT ![r] = @ \cup {NextKey(r)}]
    /\ UNCHANGED <<body, stage, loaded, error, table, waiting, reply>>

\* ER_DUP_ENTRY, on a committed row only.
DuplicateKey(r) ==
    /\ Goto(r, "saving", "rollback")
    /\ ~AllHeld(r)
    /\ Taken(r, NextKey(r)) /\ ~Held(r, NextKey(r))
    /\ Throw(r, "duplicate")
    /\ UNCHANGED <<body, loaded, held, table, waiting, reply>>

\* Everyone in S waits for one in S and is waited for by one in S.
InCircle(r) ==
    \E S \in SUBSET Requests :
        /\ r \in S
        /\ \A q \in S : (\E p \in S : WaitsFor(q, p)) /\ (\E p \in S : WaitsFor(p, q))

\* InnoDB finds a circle of waits and picks its victim.
Deadlock(r) ==
    /\ Goto(r, "saving", "rollback")
    /\ InCircle(r)
    /\ Throw(r, "error")
    /\ UNCHANGED <<body, loaded, held, table, waiting, reply>>

\* InnoDB gives up a wait, or MySQL refuses what the body has for a column, such
\* as a role that is none.
StatementFails(r) ==
    /\ Goto(r, "saving", "rollback")
    /\ "statement" \in Faults
    /\ ~AllHeld(r)
    /\ Throw(r, "error")
    /\ UNCHANGED <<body, loaded, held, table, waiting, reply>>

\* The connection breaks before the COMMIT; MySQL rolls back.
ConnectionFails(r) ==
    /\ Goto(r, "saving", "returning")
    /\ "connection" \in Faults
    /\ Release(r)
    /\ Throw(r, "error")
    /\ UNCHANGED <<body, loaded, table, waiting, reply>>

\* An UPDATE leaves a column that was as the body has it when it was read.
Row(r) == [username |-> body[r].username, email |-> body[r].email,
           digest |-> Cut[body[r].password]]

Written(r) ==
    [username |-> IF "username" \in Sets(r) THEN body[r].username ELSE row[Account(r)].username,
     email |-> IF "email" \in Sets(r) THEN body[r].email ELSE row[Account(r)].email,
     digest |-> Cut[body[r].password]]

Save(r) == /\ row' = [row EXCEPT ![Account(r)] = Written(r)]
           /\ saved' = saved \cup {r}

Commit(r) ==
    /\ Goto(r, "saving", "returning")
    /\ AllHeld(r)
    /\ Save(r)
    /\ Release(r)
    /\ UNCHANGED <<body, loaded, error, waiting, reply>>

\* The answer to the COMMIT is lost; it may have taken effect.
CommitUnknown(r) ==
    /\ Goto(r, "saving", "returning")
    /\ "commit" \in Faults
    /\ AllHeld(r)
    /\ Save(r) \/ UNCHANGED table
    /\ Release(r)
    /\ Throw(r, "error")
    /\ UNCHANGED <<body, loaded, waiting, reply>>

\* A plausible slip: the transaction left open after an error.
MutNoRollback(r) ==
    /\ Goto(r, "rollback", "returning")
    /\ UNCHANGED <<body, loaded, held, error, table, waiting, reply>>

\* TypeORM rolls back whatever the statement threw, then throws it again.
Rollback(r) ==
    /\ Goto(r, "rollback", "returning")
    /\ Release(r)
    /\ UNCHANGED <<body, loaded, error, table, waiting, reply>>

----------------------------------------------------------------------------
\* A plausible slip: whatever save rejects with is taken for a duplicate.
MutAnyConflict(r) == IF error[r] = "none" THEN "created" ELSE "conflict"

\* UsersExceptionFilter answers 409 to a duplicate and 500 to the rest; the
\* filter of auth and the gateway's interceptor pass both on.
Answer(r) == CASE error[r] = "none" -> "created"
               [] error[r] = "duplicate" -> "conflict"
               [] error[r] = "error" -> "error"

Reply(r) ==
    /\ Goto(r, "returning", "done")
    /\ waiting' = waiting \ {r}
    /\ reply' = IF r \in waiting THEN [reply EXCEPT ![r] = Answer(r)] ELSE reply
    /\ UNCHANGED <<body, loaded, held, error, table>>

----------------------------------------------------------------------------
\* The users service dies.  What it was delivered is gone and MySQL rolls back
\* the transactions of its connections; dying with a COMMIT on its way is
\* Commit, then this.
UsersCrash ==
    /\ "crash" \in Faults
    /\ \E r \in Requests : InService(r)
    /\ stage' = [r \in Requests |-> IF InService(r) THEN "lost" ELSE stage[r]]
    /\ held' = [r \in Requests |-> {}]
    /\ UNCHANGED <<body, loaded, error, table, waiting, reply>>

\* The gateway or the auth service dies; the users service goes on.
CallersCrash ==
    /\ "callers" \in Faults
    /\ waiting # {}
    /\ waiting' = {}
    /\ UNCHANGED <<body, stage, loaded, held, error, table, reply>>

\* Nobody is in service; some may never send.
Finished ==
    /\ \A r \in Requests : stage[r] \in {"new", "done", "lost"}
    /\ UNCHANGED vars

Serve(r) ==
    \/ Receive(r) \/ BeginSave(r)
    \/ ClaimKey(r) \/ DuplicateKey(r) \/ Deadlock(r) \/ Commit(r) \/ Rollback(r)
    \/ Reply(r)

Fail(r) == /\ Cardinality({q \in Requests : error[q] = "error"}) < MaxFailures
           /\ StatementFails(r) \/ ConnectionFails(r) \/ CommitUnknown(r)

Next == \/ \E r \in Requests : RefuseSignedIn(r) \/ Forward(r) \/ Serve(r) \/ Fail(r)
        \/ UsersCrash \/ CallersCrash
        \/ Finished

Spec == Init /\ [][Next]_vars

\* The services serve what they are delivered and InnoDB looks for deadlocks;
\* clients need not send, and nobody is obliged to fail.
FairSpec == Spec /\ \A r \in Requests : WF_vars(Serve(r))

----------------------------------------------------------------------------
\* Safety

\* No two accounts share a username or an email as MySQL compares them,
\* however the INSERTs and UPDATEs of several registrations interleave and
\* whichever of them are rolled back or cut off.
OneAccountPerKey == \A a, b \in Stored : KeysOf(a) \cap KeysOf(b) # {} => a = b

\* Ids that were saved under more than once.
Overwritten == {a \in Requests : \E q, r \in saved : q # r /\ Account(q) = a /\ Account(r) = a}

\* q kept r out: another account has the name or the email of r, or one came to
\* be under the id r carries after r had looked for it.
InTheWay(q, r) == IF Account(q) = Account(r) THEN ~Updates(r)
                  ELSE \E c \in Columns : NewKey(q, c) = NewKey(r, c)

\* A client told "created" has an account, as it asked for it unless another
\* registration with the same id was saved too.  One told "conflict" saved
\* nothing, and whoever was in its way did: nobody is refused because of a
\* registration that was itself rolled back.
ReplyTruth ==
    \A r \in Requests :
        /\ reply[r] = "created" =>
             /\ r \in saved /\ Account(r) \in Stored
             /\ Account(r) \in Overwritten \/ row[Account(r)] = Row(r)
        /\ reply[r] = "conflict" => r \notin saved /\ (\E q \in saved : InTheWay(q, r))
        /\ reply[r] = "unauthorized" => r \notin saved

\* Which index the statement of r is at.
Position(r) == CASE NextKey(r)[1] = "id" -> 0
                 [] NextKey(r)[1] = "username" -> 1
                 [] NextKey(r)[1] = "email" -> 2

\* Between the old and the new value of its row in one index.
Between(r) == Updates(r) /\ NextKey(r)[1] \in {k[1] : k \in held[r]}

\* Nobody waits for a transaction nobody will end: each wait is for one that
\* runs, or that itself waits at a later index.  Only for UPDATEs that are
\* between two values may it be the same index, so a circle is one of these,
\* which InnoDB breaks, and never of INSERTs.
WaitsEnd ==
    \A r, q \in Requests :
        WaitsFor(r, q) =>
            /\ stage[q] \in {"saving", "rollback"}
            /\ \A p \in Requests : WaitsFor(q, p) =>
                 Position(r) < Position(q) \/ (Position(r) = Position(q) /\ Between(q))

\* Seen through its table and its answers, the service is module Accounts.
Welcomed == {a \in Requests : \E r \in Requests : reply[r] = "created" /\ Account(r) = a}

Table == INSTANCE Accounts WITH
    Ids <- Requests,
    welcomed <- Welcomed,
    overwritten <- Overwritten

ImplementsAccounts == Table!AccountsSpec

----------------------------------------------------------------------------
\* Liveness, under FairSpec

\* Every registration comes to an end unless the service dies with it, and
\* nobody's failure is another's: it ends with its row saved, or because one
\* that was saved is in its way, or because its own request failed or was picked
\* to break a circle.  One that waits waits for transactions that end.
KeyServed ==
    \A r \in Requests :
        stage[r] = "queued" ~>
            \/ stage[r] = "lost"
            \/ /\ stage[r] = "done"
               /\ r \in saved \/ error[r] = "error" \/ (\E q \in saved : InTheWay(q, r))
============================================================================
