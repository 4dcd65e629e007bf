------------------------- MODULE RegistrationProofs -------------------------
(***************************************************************************)
(* Proofs about Registration, for any requests, bodies, collation and      *)
(* faults.  The invariant behind them: an open transaction keeps everyone  *)
(* else, open or committed, off the entries it holds, the row it updates   *)
(* excepted; every value in the table is one that a saved request carried; *)
(* and where a request stands says what it holds, what it is about to      *)
(* throw and whether it was saved.  On it rest what clients and accounts   *)
(* are promised, the refinement of the accounts, and what the liveness     *)
(* property KeyServed needs besides fairness: no circle of waits but of    *)
(* UPDATEs, no end without a cause.                                        *)
(***************************************************************************)
EXTENDS Registration, TLAPS

\* Entries are held by requests that are saving, or that were, the id first.
HeldInv ==
    \A r \in Requests : held[r] # {} =>
        stage[r] \in {"saving", "rollback"} /\ IdKey(Account(r)) \in held[r]

\* An entry that is held is nobody else's, held or committed.
KeyInv ==
    /\ \A q, r \in Requests : q # r => held[q] \cap held[r] = {}
    /\ \A r \in Requests : \A a \in Stored :
          held[r] \cap KeysOf(a) # {} => Updates(r) /\ a = Account(r)
    /\ \A r \in Requests : Updates(r) => Account(r) \in Stored

\* Of an index an INSERT holds its own value only; username comes first.
OrderInv ==
    \A r \in Requests : \A key \in held[r] :
        /\ key[1] \in Columns /\ ~Updates(r) => key = NewKey(r, key[1])
        /\ key[1] = "email" /\ "username" \in Sets(r) => NewKey(r, "username") \in held[r]

\* What is stored came from those that were saved.
SavedInv ==
    /\ \A q \in saved : Account(q) \in Stored
    /\ \A q \in saved : Account(q) \in Overwritten \/ row[Account(q)] = Row(q)
    /\ \A a \in Stored : \A c \in Columns :
          \E q \in saved : Account(q) = a /\ NewKey(q, c) = OldKey(a, c)

Before(r) == stage[r] \in {"new", "queued", "hashing", "saving"}

StageInv ==
    \A r \in Requests :
        /\ r \in saved => ~Before(r) /\ stage[r] # "rollback"
        /\ Before(r) => error[r] = "none"
        /\ stage[r] = "rollback" => error[r] # "none"
        /\ stage[r] = "returning" /\ error[r] = "none" => r \in saved
        /\ error[r] = "duplicate" => r \notin saved /\ \E q \in saved : InTheWay(q, r)
        /\ reply[r] # "none" => stage[r] = "done"
        /\ reply[r] = "created" => r \in saved
        /\ reply[r] = "conflict" => error[r] = "duplicate"
        /\ reply[r] = "unauthorized" => r \notin saved

IInv == TypeOK /\ HeldInv /\ KeyInv /\ OrderInv /\ OneAccountPerKey /\ SavedInv /\ StageInv

----------------------------------------------------------------------------
\* The account of a request is an id.
LEMMA AccountTyped ==
    ASSUME TypeOK, NEW r \in Requests
    PROVE  Account(r) \in Requests
BY DEF TypeOK, Account, RequestBodies

\* What is stored is a row.
LEMMA StoredTyped ==
    ASSUME TypeOK, NEW a \in Stored
    PROVE  a \in Requests /\ row[a] \in Rows
BY DEF TypeOK, Stored

\* Entries of indexes are keys.
LEMMA KeysTyped ==
    ASSUME TypeOK
    PROVE  /\ \A r \in Requests : IdKey(Account(r)) \in Keys
           /\ \A r \in Requests : \A c \in Columns : NewKey(r, c) \in Keys
           /\ \A a \in Stored : \A c \in Columns : OldKey(a, c) \in Keys
<1>1. \A r \in Requests : IdKey(Account(r)) \in Keys
  BY AccountTyped DEF IdKey, Keys
<1>2. ASSUME NEW r \in Requests, NEW c \in Columns PROVE NewKey(r, c) \in Keys
  <2>1. body[r][c] \in Names \cup Emails
    BY DEF TypeOK, RequestBodies, Columns
  <2> QED
    BY <2>1 DEF NewKey, Keys
<1>3. ASSUME NEW a \in Stored, NEW c \in Columns PROVE OldKey(a, c) \in Keys
  <2>1. row[a][c] \in Names \cup Emails
    BY StoredTyped DEF Rows, Columns
  <2> QED
    BY <2>1 DEF OldKey, Keys
<1> QED
  BY <1>1, <1>2, <1>3

\* The entry a statement is at: the id, or a value of a column that is set.
LEMMA NextKeyIs ==
    ASSUME NEW r \in Requests, ~AllHeld(r)
    PROVE  \/ held[r] = {} /\ NextKey(r) = IdKey(Account(r))
           \/ /\ held[r] # {}
              /\ \E c \in Sets(r) :
                    /\ NewKey(r, c) \notin held[r]
                    /\ c = "email" /\ "username" \in Sets(r) => NewKey(r, "username") \in held[r]
                    /\ NextKey(r) = NextIn(r, c)
<1>1. CASE held[r] = {}
  BY <1>1 DEF NextKey
<1>2. CASE held[r] # {} /\ "username" \in Sets(r) /\ NewKey(r, "username") \notin held[r]
  BY <1>2 DEF NextKey
<1>3. CASE held[r] # {} /\ ~("username" \in Sets(r) /\ NewKey(r, "username") \notin held[r])
  <2>1. "email" \in Sets(r) /\ NewKey(r, "email") \notin held[r]
    BY <1>3 DEF AllHeld, Sets, Columns
  <2> QED
    BY <1>3, <2>1 DEF NextKey
<1> QED
  BY <1>1, <1>2, <1>3

\* It is not held yet.
LEMMA NextKeyFresh ==
    ASSUME NEW r \in Requests, ~AllHeld(r)
    PROVE  NextKey(r) \notin held[r]
BY NextKeyIs DEF NextIn

\* It is a key.
LEMMA NextKeyTyped ==
    ASSUME TypeOK, KeyInv, NEW r \in Requests, ~AllHeld(r)
    PROVE  NextKey(r) \in Keys
<1>1. Updates(r) => Account(r) \in Stored
  BY DEF KeyInv
<1> QED
  BY <1>1, NextKeyIs, KeysTyped DEF NextIn, Sets

\* What is written is a row.
LEMMA WrittenTyped ==
    ASSUME TypeOK, KeyInv, NEW r \in Requests
    PROVE  Written(r) \in Rows /\ Row(r) \in Rows
<1>1. body[r] \in RequestBodies
  BY DEF TypeOK
<1>2. Updates(r) => row[Account(r)] \in Rows
  BY StoredTyped DEF KeyInv
<1>3. ~Updates(r) => Sets(r) = Columns
  BY DEF Sets
<1> QED
  BY <1>1, <1>2, <1>3 DEF Written, Row, Rows, RequestBodies, Columns

----------------------------------------------------------------------------
\* Every action keeps the types.
LEMMA TypeStep ==
    ASSUME TypeOK, KeyInv, [Next]_vars
    PROVE  TypeOK'
<1> USE DEF TypeOK, Stages, Goto, table
<1>1. ASSUME NEW r \in Requests, RefuseSignedIn(r) PROVE TypeOK'
  BY <1>1 DEF RefuseSignedIn
<1>2. ASSUME NEW r \in Requests, Forward(r) PROVE TypeOK'
  BY <1>2 DEF Forward
<1>3. ASSUME NEW r \in Requests, Receive(r) PROVE TypeOK'
  BY <1>3 DEF Receive
<1>4. ASSUME NEW r \in Requests, BeginSave(r) PROVE TypeOK'
  <2>1. (IF body[r].id = None THEN None ELSE row[body[r].id]) \in Rows \cup {None}
    BY DEF RequestBodies
  <2> QED
    BY <1>4, <2>1 DEF BeginSave
<1>5. ASSUME NEW r \in Requests, ClaimKey(r) PROVE TypeOK'
  <2>1. held[r] \cup {NextKey(r)} \in SUBSET Keys
    BY <1>5, NextKeyTyped DEF ClaimKey
  <2> QED
    BY <1>5, <2>1 DEF ClaimKey
<1>6. ASSUME NEW r \in Requests, DuplicateKey(r) \/ Deadlock(r) \/ StatementFails(r)
      PROVE  TypeOK'
  BY <1>6 DEF DuplicateKey, Deadlock, StatementFails, Throw
<1>7. ASSUME NEW r \in Requests, ConnectionFails(r) PROVE TypeOK'
  BY <1>7 DEF ConnectionFails, Throw, Release
<1>8. ASSUME NEW r \in Requests, Save(r)
      PROVE  row' \in [Requests -> Rows \cup {None}] /\ saved' \subseteq Requests
  BY <1>8, AccountTyped, WrittenTyped DEF Save
<1>9. ASSUME NEW r \in Requests, Commit(r) PROVE TypeOK'
  BY <1>8, <1>9 DEF Commit, Release
<1>10. ASSUME NEW r \in Requests, CommitUnknown(r) PROVE TypeOK'
  BY <1>8, <1>10 DEF CommitUnknown, Throw, Release
<1>11. ASSUME NEW r \in Requests, Rollback(r) PROVE TypeOK'
  BY <1>11 DEF Rollback, Release
<1>12. ASSUME NEW r \in Requests, Reply(r) PROVE TypeOK'
  <2>1. Answer(r) \in {"created", "conflict", "error"}
    BY DEF Answer
  <2> QED
    BY <1>12, <2>1 DEF Reply
<1>13. CASE UsersCrash
  BY <1>13 DEF UsersCrash
<1>14. CASE CallersCrash
  BY <1>14 DEF CallersCrash
<1>15. CASE UNCHANGED vars
  BY <1>15 DEF vars
<1> QED
  BY <1>1, <1>2, <1>3, <1>4, <1>5, <1>6, <1>7, <1>9, <1>10, <1>11, <1>12,
     <1>13, <1>14, <1>15 DEF Next, Serve, Fail, Finished

----------------------------------------------------------------------------
\* The step that commits what r wrote.
Commits(r) == /\ stage[r] = "saving" /\ AllHeld(r)
              /\ Save(r)
              /\ stage' = [stage EXCEPT ![r] = "returning"]
              /\ held' = [held EXCEPT ![r] = {}]
              /\ UNCHANGED <<body, loaded, reply>>

\* The steps, sorted by what they do to the entries and the table: they leave
\* both alone or release entries, read the row, claim an entry, or commit.
LEMMA KeyFootprint ==
    ASSUME TypeOK, [Next]_vars
    PROVE  /\ body' = body
           /\ \/ /\ UNCHANGED <<loaded, table>>
                 /\ \A r \in Requests : held'[r] \in {held[r], {}}
              \/ \E r \in Requests : BeginSave(r)
              \/ \E r \in Requests : ClaimKey(r)
              \/ \E r \in Requests : Commits(r)
BY DEF TypeOK, Next, Serve, Fail, Finished, vars, table, Release, Goto, RefuseSignedIn, Forward,
       Receive, DuplicateKey, Deadlock, StatementFails, ConnectionFails, Commit, CommitUnknown,
       Commits, Rollback, Reply, UsersCrash, CallersCrash, BeginSave, ClaimKey

\* The steps that leave the table alone leave what it says of keys alone.
LEMMA TableFixed ==
    ASSUME UNCHANGED <<body, table>>
    PROVE  /\ Stored' = Stored /\ Overwritten' = Overwritten
           /\ \A r : Account(r)' = Account(r) /\ IdKey(Account(r))' = IdKey(Account(r))
           /\ \A r, c : NewKey(r, c)' = NewKey(r, c)
           /\ \A a, c : OldKey(a, c)' = OldKey(a, c)
           /\ \A a : KeysOf(a)' = KeysOf(a)
           /\ \A r : Row(r)' = Row(r)
BY DEF table, Stored, Overwritten, Account, IdKey, NewKey, OldKey, KeysOf, Row

\* The steps that leave what was read alone leave the statements alone.
LEMMA StatementFixed ==
    ASSUME UNCHANGED <<body, loaded>>
    PROVE  \A r : Updates(r)' = Updates(r) /\ Sets(r)' = Sets(r)
BY DEF Updates, Sets

----------------------------------------------------------------------------
\* Tags of the entries.
LEMMA Tags ==
    /\ \A a, b : IdKey(a) = IdKey(b) => a = b
    /\ \A a, b, c : c \in Columns => IdKey(a) # OldKey(b, c) /\ IdKey(a) # NewKey(b, c)
    /\ \A a, b, c, d : OldKey(a, c) = OldKey(b, d) => c = d
    /\ \A r, a, c, d : NewKey(r, c) = OldKey(a, d) => c = d
    /\ \A r, c : c \in Columns => NewKey(r, c)[1] = c /\ OldKey(r, c)[1] = c
    /\ \A a : IdKey(a)[1] = "id"
BY DEF IdKey, OldKey, NewKey, Columns

\* What a commit leaves in the indexes: the id, and of each column the value
\* that was set or the one there was.
LEMMA CommitKeys ==
    ASSUME TypeOK, KeyInv, NEW r \in Requests, Commits(r)
    PROVE  /\ Stored' = Stored \cup {Account(r)}
           /\ Account(r) \in Requests
           /\ \A c \in Columns :
                 OldKey(Account(r), c)' = IF c \in Sets(r) THEN NewKey(r, c)
                                          ELSE OldKey(Account(r), c)
           /\ \A c \in Columns : c \notin Sets(r) => Updates(r) /\ Account(r) \in Stored
           /\ \A c \in Sets(r) : NewKey(r, c) \in held[r]
           /\ \A a \in Stored \ {Account(r)} : \A c \in Columns : OldKey(a, c)' = OldKey(a, c)
           /\ \A a \in Stored \ {Account(r)} : KeysOf(a)' = KeysOf(a)
           /\ \A q : Account(q)' = Account(q)
           /\ \A q, c : NewKey(q, c)' = NewKey(q, c)
<1>1. Account(r) \in Requests /\ Written(r) \in Rows
  BY AccountTyped, WrittenTyped
<1>2. row' = [row EXCEPT ![Account(r)] = Written(r)] /\ body' = body
  BY DEF Commits, Save
<1>3. row'[Account(r)] = Written(r) /\ \A a \in Requests \ {Account(r)} : row'[a] = row[a]
  BY <1>1, <1>2 DEF TypeOK
<1>4. Stored' = Stored \cup {Account(r)}
  BY <1>1, <1>3, NoneAssumption DEF Stored
<1>5. ASSUME NEW c \in Columns
      PROVE  OldKey(Account(r), c)' = IF c \in Sets(r) THEN NewKey(r, c) ELSE OldKey(Account(r), c)
  <2>1. Account(r)' = Account(r)
    BY <1>2 DEF Account
  <2>2. Written(r)[c] = IF c \in Sets(r) THEN body[r][c] ELSE row[Account(r)][c]
    BY DEF Written, Columns
  <2> QED
    BY <1>3, <2>1, <2>2 DEF OldKey, NewKey
<1>6. \A c \in Columns : c \notin Sets(r) => Updates(r) /\ Account(r) \in Stored
  BY DEF Sets, KeyInv
<1>7. \A a \in Stored \ {Account(r)} : \A c \in Columns : OldKey(a, c)' = OldKey(a, c)
  BY <1>3 DEF Stored, OldKey
<1>8. \A a \in Stored \ {Account(r)} : KeysOf(a)' = KeysOf(a)
  BY <1>7 DEF KeysOf, IdKey
<1>9. \A c \in Sets(r) : NewKey(r, c) \in held[r]
  BY DEF Commits, AllHeld
<1>10. (\A q : Account(q)' = Account(q)) /\ (\A q, c : NewKey(q, c)' = NewKey(q, c))
  BY <1>2 DEF Account, NewKey
<1> QED
  BY <1>1, <1>4, <1>5, <1>6, <1>7, <1>8, <1>9, <1>10

\* Two requests never come to hold, or to own, one entry.
LEMMA KeyStep ==
    ASSUME TypeOK, TypeOK', HeldInv, KeyInv, OneAccountPerKey, [Next]_vars
    PROVE  KeyInv' /\ OneAccountPerKey'
<1>0. UNCHANGED body
  BY KeyFootprint
<1>1. CASE UNCHANGED <<loaded, table>> /\ \A r \in Requests : held'[r] \in {held[r], {}}
  BY <1>0, <1>1, TableFixed, StatementFixed DEF KeyInv, OneAccountPerKey
<1>2. ASSUME NEW r \in Requests, BeginSave(r)
      PROVE  KeyInv' /\ OneAccountPerKey'
  <2>1. /\ UNCHANGED <<body, held, table>>
        /\ \A q \in Requests \ {r} : Updates(q)' = Updates(q)
    BY <1>2 DEF BeginSave, TypeOK, Updates
  <2>2. held[r] = {}
    BY <1>2 DEF BeginSave, Goto, HeldInv
  <2>3. Updates(r)' => Account(r) \in Stored
    <3>1. loaded'[r] = IF body[r].id = None THEN None ELSE row[body[r].id]
      BY <1>2 DEF BeginSave, TypeOK
    <3> QED
      BY <3>1, AccountTyped DEF Updates, Account, Stored
  <2> QED
    BY <2>1, <2>2, <2>3, TableFixed DEF KeyInv, OneAccountPerKey
<1>3. ASSUME NEW r \in Requests, ClaimKey(r)
      PROVE  KeyInv' /\ OneAccountPerKey'
  <2>1. /\ UNCHANGED <<body, loaded, table>>
        /\ held'[r] = held[r] \cup {NextKey(r)}
        /\ \A q \in Requests \ {r} : held'[q] = held[q]
    BY <1>3 DEF ClaimKey, TypeOK
  <2>2. \A q \in Requests \ {r} : NextKey(r) \notin held[q]
    BY <1>3 DEF ClaimKey, Held
  <2>3. \A a \in Stored : NextKey(r) \in KeysOf(a) => Updates(r) /\ a = Account(r)
    BY <1>3 DEF ClaimKey, Taken
  <2> QED
    BY <2>1, <2>2, <2>3, TableFixed, StatementFixed DEF KeyInv, OneAccountPerKey
<1>4. ASSUME NEW r \in Requests, Commits(r)
      PROVE  KeyInv' /\ OneAccountPerKey'
  <2> DEFINE a == Account(r)
  <2>1. /\ held'[r] = {} /\ \A q \in Requests \ {r} : held'[q] = held[q]
        /\ \A q : Updates(q)' = Updates(q)
    BY <1>4, StatementFixed DEF Commits, TypeOK
  <2>2. IdKey(a) \in held[r]
    BY <1>4 DEF HeldInv, Commits, AllHeld
  <2>3. ASSUME NEW key \in KeysOf(a)'
        PROVE  key \in held[r] \/ (Updates(r) /\ a \in Stored /\ key \in KeysOf(a))
    <3>1. KeysOf(a)' = {IdKey(a)} \cup {OldKey(a, c)' : c \in Columns}
      BY <1>4, CommitKeys DEF KeysOf, IdKey
    <3>2. CASE key = IdKey(a)
      BY <2>2, <3>2
    <3>3. ASSUME NEW c \in Columns, key = OldKey(a, c)'
          PROVE  key \in held[r] \/ (Updates(r) /\ a \in Stored /\ key \in KeysOf(a))
      BY <1>4, <3>3, CommitKeys DEF KeysOf
    <3> QED
      BY <2>3, <3>1, <3>2, <3>3
  <2>4. ASSUME NEW q \in Requests \ {r}, held[q] # {}
        PROVE  Account(q) # a
    BY <2>2, <2>4 DEF HeldInv, KeyInv
  <2>5. ASSUME NEW q \in Requests \ {r}
        PROVE  held[q] \cap KeysOf(a)' = {}
    BY <2>3, <2>4, <2>5 DEF KeyInv
  <2>6. ASSUME NEW b \in Stored \ {a}
        PROVE  KeysOf(b) \cap KeysOf(a)' = {}
    BY <2>3, <2>6 DEF KeyInv, OneAccountPerKey
  <2>7. KeyInv'
    <3>1. \A q, p \in Requests : q # p => held'[q] \cap held'[p] = {}
      BY <2>1 DEF KeyInv
    <3>2. ASSUME NEW q \in Requests, NEW b \in Stored', held'[q] \cap KeysOf(b)' # {}
          PROVE  Updates(q)' /\ b = Account(q)'
      <4>1. q # r /\ held'[q] = held[q]
        BY <2>1, <3>2
      <4>2. b \in Stored \ {a}
        BY <1>4, <2>5, <3>2, <4>1, CommitKeys
      <4>3. KeysOf(b)' = KeysOf(b)
        BY <1>4, <4>2, CommitKeys
      <4> QED
        BY <1>4, <2>1, <3>2, <4>1, <4>2, <4>3, CommitKeys DEF KeyInv
    <3>3. \A q \in Requests : Updates(q)' => Account(q)' \in Stored'
      BY <1>4, <2>1, CommitKeys DEF KeyInv
    <3> QED
      BY <3>1, <3>2, <3>3 DEF KeyInv
  <2>8. OneAccountPerKey'
    <3> SUFFICES ASSUME NEW b \in Stored', NEW d \in Stored', KeysOf(b)' \cap KeysOf(d)' # {},
                        b # d
                 PROVE  FALSE
      BY DEF OneAccountPerKey
    <3>1. CASE b = a
      BY <1>4, <2>6, <3>1, CommitKeys
    <3>2. CASE d = a
      BY <1>4, <2>6, <3>2, CommitKeys
    <3>3. CASE b # a /\ d # a
      BY <1>4, <3>3, CommitKeys DEF OneAccountPerKey
    <3> QED
      BY <3>1, <3>2, <3>3
  <2> QED
    BY <2>7, <2>8
<1> QED
  BY <1>1, <1>2, <1>3, <1>4, KeyFootprint

\* Entries are let go wherever a request stops saving.
LEMMA HeldStep ==
    ASSUME TypeOK, TypeOK', HeldInv, [Next]_vars
    PROVE  HeldInv'
<1>0. \A r : IdKey(Account(r))' = IdKey(Account(r))
  BY KeyFootprint DEF IdKey, Account
<1> USE DEF TypeOK, HeldInv, Goto
<1>1. ASSUME NEW r \in Requests, RefuseSignedIn(r) \/ Forward(r) PROVE HeldInv'
  BY <1>0, <1>1 DEF RefuseSignedIn, Forward
<1>2. ASSUME NEW r \in Requests, ClaimKey(r) PROVE HeldInv'
  <2>1. held[r] = {} => NextKey(r) = IdKey(Account(r))
    BY DEF NextKey
  <2> QED
    BY <1>0, <1>2, <2>1 DEF ClaimKey
<1>3. ASSUME NEW r \in Requests, Receive(r) \/ BeginSave(r) \/ DuplicateKey(r) \/ Deadlock(r)
                                 \/ StatementFails(r) \/ ConnectionFails(r)
      PROVE  HeldInv'
  BY <1>0, <1>3 DEF Receive, BeginSave, DuplicateKey, Deadlock, StatementFails, ConnectionFails,
     Release
<1>4. ASSUME NEW r \in Requests, Commit(r) \/ CommitUnknown(r) \/ Rollback(r) \/ Reply(r)
      PROVE  HeldInv'
  BY <1>0, <1>4 DEF Commit, CommitUnknown, Rollback, Reply, Release
<1>5. CASE UsersCrash
  BY <1>5 DEF UsersCrash
<1>6. CASE CallersCrash \/ UNCHANGED vars
  BY <1>0, <1>6 DEF CallersCrash, vars
<1> QED
  BY <1>1, <1>2, <1>3, <1>4, <1>5, <1>6 DEF Next, Finished, Serve, Fail

\* A statement goes through the indexes in their order.
LEMMA OrderStep ==
    ASSUME TypeOK, TypeOK', HeldInv, OrderInv, [Next]_vars
    PROVE  OrderInv'
<1>0. UNCHANGED body
  BY KeyFootprint
<1>00. \A r, c : NewKey(r, c)' = NewKey(r, c)
  BY <1>0 DEF NewKey
<1>1. CASE UNCHANGED loaded /\ \A r \in Requests : held'[r] \in {held[r], {}}
  BY <1>0, <1>00, <1>1, StatementFixed DEF OrderInv
<1>2. ASSUME NEW r \in Requests, BeginSave(r) PROVE OrderInv'
  <2>1. held' = held /\ held[r] = {}
    BY <1>2 DEF BeginSave, Goto, HeldInv
  <2>2. \A q \in Requests \ {r} : Updates(q)' = Updates(q) /\ Sets(q)' = Sets(q)
    BY <1>0, <1>2 DEF BeginSave, TypeOK, Updates, Sets
  <2> QED
    BY <1>00, <2>1, <2>2 DEF OrderInv
<1>3. ASSUME NEW r \in Requests, ClaimKey(r) PROVE OrderInv'
  <2>1. /\ UNCHANGED <<body, loaded>> /\ ~AllHeld(r)
        /\ held'[r] = held[r] \cup {NextKey(r)}
        /\ \A q \in Requests \ {r} : held'[q] = held[q]
    BY <1>3 DEF ClaimKey, TypeOK
  <2>2. NextKey(r)[1] \in Columns /\ ~Updates(r) => NextKey(r) = NewKey(r, NextKey(r)[1])
    BY <2>1, NextKeyIs, Tags DEF NextIn, Sets, Columns
  <2>3. NextKey(r)[1] = "email" /\ "username" \in Sets(r) => NewKey(r, "username") \in held[r]
    BY <2>1, NextKeyIs, Tags DEF NextIn, Sets, Columns
  <2> QED
    BY <1>00, <2>1, <2>2, <2>3, StatementFixed DEF OrderInv
<1>4. ASSUME NEW r \in Requests, Commits(r) PROVE OrderInv'
  BY <1>1, <1>4 DEF Commits, TypeOK
<1> QED
  BY <1>1, <1>2, <1>3, <1>4, KeyFootprint

----------------------------------------------------------------------------
\* Who meets a duplicate meets one that was saved.
LEMMA DuplicateIsSaved ==
    ASSUME IInv, NEW r \in Requests, DuplicateKey(r)
    PROVE  \E q \in saved : InTheWay(q, r)
<1> DEFINE key == NextKey(r)
<1>1. PICK a \in Stored : key \in KeysOf(a) /\ ~(Updates(r) /\ a = Account(r))
  BY DEF DuplicateKey, Taken
<1>2. key = IdKey(a) \/ \E c \in Columns : key = OldKey(a, c)
  BY <1>1 DEF KeysOf
<1>3. "username" \in Columns
  BY DEF Columns
<1>4. CASE a = Account(r)
  <2>1. PICK q \in saved : Account(q) = a
    BY <1>3 DEF IInv, SavedInv
  <2> QED
    BY <1>1, <1>4, <2>1 DEF InTheWay
<1>5. CASE a # Account(r)
  <2>1. PICK c \in Columns : key = NextIn(r, c)
    BY <1>2, <1>5, NextKeyIs, Tags DEF DuplicateKey, Sets
  <2>2. key = NewKey(r, c)
    <3>1. CASE key = OldKey(Account(r), c) /\ Updates(r)
      BY <1>1, <1>5, <3>1 DEF IInv, KeyInv, OneAccountPerKey, KeysOf
    <3> QED
      BY <2>1, <3>1 DEF NextIn
  <2>3. key = OldKey(a, c)
    BY <1>2, <2>2, Tags
  <2>4. PICK q \in saved : Account(q) = a /\ NewKey(q, c) = OldKey(a, c)
    BY DEF IInv, SavedInv
  <2> QED
    BY <1>5, <2>2, <2>3, <2>4 DEF InTheWay
<1> QED
  BY <1>4, <1>5

\* A commit leaves in the table what saved requests carried.
LEMMA SavedStep ==
    ASSUME IInv, TypeOK', [Next]_vars
    PROVE  SavedInv'
<1>1. CASE UNCHANGED table
  <2>1. \A q \in saved : Account(q)' \in Stored'
    BY <1>1, KeyFootprint, TableFixed DEF IInv, SavedInv
  <2>2. \A q \in saved : Account(q)' \in Overwritten' \/ row'[Account(q)'] = Row(q)'
    BY <1>1, KeyFootprint, TableFixed DEF IInv, SavedInv, table
  <2>3. \A a \in Stored' : \A c \in Columns :
           \E q \in saved : Account(q)' = a /\ NewKey(q, c)' = OldKey(a, c)'
    BY <1>1, KeyFootprint, TableFixed DEF IInv, SavedInv
  <2> QED
    BY <1>1, <2>1, <2>2, <2>3 DEF SavedInv, table
<1>2. ASSUME NEW r \in Requests, Commits(r) PROVE SavedInv'
  <2> DEFINE a == Account(r)
  <2>1. /\ saved' = saved \cup {r} /\ r \notin saved /\ saved \subseteq Requests
        /\ a \in Requests
        /\ row' = [row EXCEPT ![a] = Written(r)]
        /\ body' = body
    BY <1>2, AccountTyped DEF Commits, Save, IInv, StageInv, Before, TypeOK
  <2>2. \A q : Account(q)' = Account(q) /\ Row(q)' = Row(q)
    BY <2>1 DEF Account, Row
  <2>3. row'[a] = Written(r) /\ \A b \in Requests \ {a} : row'[b] = row[b]
    BY <2>1 DEF IInv, TypeOK
  <2>4. \A q \in saved' : Account(q)' \in Stored'
    BY <1>2, <2>1, <2>2, CommitKeys DEF IInv, SavedInv
  <2>5. Overwritten \subseteq Overwritten'
    BY <2>1, <2>2 DEF Overwritten
  <2>6. ASSUME NEW q \in saved, Account(q) = a PROVE a \in Overwritten'
    BY <2>1, <2>2, <2>6 DEF Overwritten
  <2>7. ASSUME \A q \in saved : Account(q) # a PROVE row'[a] = Row(r)
    <3>1. a \notin Stored
      BY <2>7 DEF IInv, SavedInv, Columns
    <3>2. Sets(r) = Columns
      BY <3>1 DEF IInv, KeyInv, Sets
    <3> QED
      BY <2>3, <3>2 DEF Written, Row, Columns
  <2>8. \A q \in saved' : Account(q)' \in Overwritten' \/ row'[Account(q)'] = Row(q)'
    <3> SUFFICES ASSUME NEW q \in saved'
                 PROVE  Account(q) \in Overwritten' \/ row'[Account(q)] = Row(q)
      BY <2>2
    <3>1. CASE Account(q) = a
      BY <2>1, <2>6, <2>7, <3>1
    <3>2. CASE Account(q) # a
      BY <2>1, <2>3, <2>5, <3>2, AccountTyped DEF IInv, SavedInv
    <3> QED
      BY <3>1, <3>2
  <2>9. ASSUME NEW b \in Stored', NEW c \in Columns
        PROVE  \E q \in saved' : Account(q)' = b /\ NewKey(q, c)' = OldKey(b, c)'
    <3>1. CASE b = a /\ c \in Sets(r)
      BY <1>2, <2>1, <3>1, CommitKeys DEF IInv
    <3>2. CASE ~(b = a /\ c \in Sets(r))
      <4>1. b \in Stored /\ OldKey(b, c)' = OldKey(b, c)
        BY <1>2, <2>9, <3>2, CommitKeys DEF IInv
      <4>2. PICK q \in saved : Account(q) = b /\ NewKey(q, c) = OldKey(b, c)
        BY <4>1 DEF IInv, SavedInv
      <4> QED
        BY <1>2, <2>1, <4>1, <4>2, CommitKeys DEF IInv
    <3> QED
      BY <3>1, <3>2
  <2> QED
    BY <2>4, <2>8, <2>9 DEF SavedInv
<1> QED
  BY <1>1, <1>2, KeyFootprint DEF IInv, BeginSave, ClaimKey, table

\* Where a request stands goes with its error, its row and its reply.
LEMMA StageStep ==
    ASSUME IInv, TypeOK', [Next]_vars
    PROVE  StageInv'
<1>1. saved \subseteq saved'
  BY KeyFootprint DEF IInv, Commits, Save, BeginSave, ClaimKey, table
<1>2. ASSUME NEW r \in Requests, loaded'[r] = loaded[r], \E q \in saved : InTheWay(q, r)
      PROVE  \E q \in saved' : InTheWay(q, r)'
  <2>1. PICK q \in saved : InTheWay(q, r)
    BY <1>2
  <2>2. InTheWay(q, r)' = InTheWay(q, r)
    BY <1>2, KeyFootprint DEF InTheWay, Account, Updates, NewKey, IInv
  <2> QED
    BY <1>1, <2>1, <2>2
<1>0. \A r \in Requests : DuplicateKey(r) => \E q \in saved : InTheWay(q, r)
  BY DuplicateIsSaved
<1> USE <1>1 DEF IInv, TypeOK, StageInv, Before, Goto, table
<1>3. ASSUME NEW r \in Requests, RefuseSignedIn(r) PROVE StageInv'
  BY <1>2, <1>3 DEF RefuseSignedIn
<1>4. ASSUME NEW r \in Requests, Forward(r) PROVE StageInv'
  BY <1>2, <1>4 DEF Forward
<1>5. ASSUME NEW r \in Requests, Receive(r) PROVE StageInv'
  BY <1>2, <1>5 DEF Receive
<1>6. ASSUME NEW r \in Requests, BeginSave(r) PROVE StageInv'
  BY <1>2, <1>6 DEF BeginSave
<1>7. ASSUME NEW r \in Requests, ClaimKey(r) PROVE StageInv'
  BY <1>2, <1>7 DEF ClaimKey
<1>8. ASSUME NEW r \in Requests, DuplicateKey(r) PROVE StageInv'
  <2>1. \E q \in saved : InTheWay(q, r)
    BY <1>0, <1>8
  <2>2. /\ UNCHANGED <<saved, loaded, reply>>
        /\ stage[r] = "saving" /\ stage' = [stage EXCEPT ![r] = "rollback"]
        /\ error' = [error EXCEPT ![r] = "duplicate"]
    BY <1>8 DEF DuplicateKey, Throw
  <2>3. \A p \in Requests : error'[p] = "duplicate" => \E q \in saved' : InTheWay(q, p)'
    BY <1>2, <2>1, <2>2
  <2> QED
    BY <2>2, <2>3
<1>9. ASSUME NEW r \in Requests, Deadlock(r) \/ StatementFails(r) PROVE StageInv'
  BY <1>2, <1>9 DEF Deadlock, StatementFails, Throw
<1>10. ASSUME NEW r \in Requests, ConnectionFails(r) PROVE StageInv'
  BY <1>2, <1>10 DEF ConnectionFails, Throw
<1>11. ASSUME NEW r \in Requests, Commit(r) PROVE StageInv'
  BY <1>2, <1>11 DEF Commit, Save
<1>12. ASSUME NEW r \in Requests, CommitUnknown(r) PROVE StageInv'
  BY <1>2, <1>12 DEF CommitUnknown, Throw, Save
<1>13. ASSUME NEW r \in Requests, Rollback(r) PROVE StageInv'
  BY <1>2, <1>13 DEF Rollback
<1>14. ASSUME NEW r \in Requests, Reply(r) PROVE StageInv'
  <2>1. /\ Answer(r) = "created" => error[r] = "none"
        /\ Answer(r) = "conflict" => error[r] = "duplicate"
        /\ Answer(r) # "unauthorized"
    BY DEF Answer
  <2> QED
    BY <1>2, <1>14, <2>1 DEF Reply
<1>15. CASE UsersCrash
  BY <1>2, <1>15 DEF UsersCrash, InService
<1>16. CASE CallersCrash
  BY <1>2, <1>16 DEF CallersCrash
<1>17. CASE UNCHANGED vars
  BY <1>2, <1>17 DEF vars
<1> QED
  BY <1>3, <1>4, <1>5, <1>6, <1>7, <1>8, <1>9, <1>10, <1>11, <1>12, <1>13, <1>14,
     <1>15, <1>16, <1>17 DEF Next, Serve, Fail, Finished

----------------------------------------------------------------------------
\* The inductive invariant.
THEOREM Invariant == Spec => []IInv
<1>1. Init => IInv
  BY BodiesAssumption
  DEF Init, IInv, TypeOK, Stages, HeldInv, KeyInv, OrderInv, OneAccountPerKey, SavedInv, StageInv,
      Before, Stored, Updates
<1>2. IInv /\ [Next]_vars => IInv'
  BY TypeStep, KeyStep, HeldStep, OrderStep, SavedStep, StageStep DEF IInv
<1> QED
  BY <1>1, <1>2, PTL DEF Spec

\* The state of a registration always has its type.
THEOREM TypeCorrect == Spec => []TypeOK
BY Invariant, PTL DEF IInv

\* No two accounts ever share a username or an email.
THEOREM UniqueAccounts == Spec => []OneAccountPerKey
BY Invariant, PTL DEF IInv

\* A registrant is told the truth about its account.
THEOREM HonestReply == Spec => []ReplyTruth
<1>1. IInv => ReplyTruth
  BY DEF IInv, StageInv, SavedInv, ReplyTruth
<1> QED
  BY <1>1, Invariant, PTL

----------------------------------------------------------------------------
\* The index a statement is at, and what it has passed.
LEMMA PositionIs ==
    ASSUME NEW q \in Requests, ~AllHeld(q)
    PROVE  \/ NextKey(q)[1] = "id" /\ Position(q) = 0 /\ held[q] = {}
           \/ NextKey(q)[1] = "username" /\ Position(q) = 1 /\ "username" \in Sets(q)
              /\ NewKey(q, "username") \notin held[q]
           \/ NextKey(q)[1] = "email" /\ Position(q) = 2 /\ "email" \in Sets(q)
              /\ NewKey(q, "email") \notin held[q]
<1>1. CASE held[q] = {} /\ NextKey(q) = IdKey(Account(q))
  BY <1>1, Tags DEF Position
<1>2. ASSUME NEW c \in Sets(q), NewKey(q, c) \notin held[q], NextKey(q) = NextIn(q, c)
      PROVE  \/ NextKey(q)[1] = "username" /\ Position(q) = 1 /\ c = "username"
             \/ NextKey(q)[1] = "email" /\ Position(q) = 2 /\ c = "email"
  <2>1. c \in Columns
    BY DEF Sets
  <2>2. NextKey(q)[1] = c
    BY <1>2, <2>1, Tags DEF NextIn
  <2> QED
    BY <2>1, <2>2 DEF Position, Columns
<1> QED
  BY <1>1, <1>2, NextKeyIs

\* An entry that is held was passed: it is of an earlier index than the one its
\* holder is at, or its holder is an UPDATE between two values of that index.
LEMMA HeldIsPassed ==
    ASSUME IInv, NEW r \in Requests, NEW q \in Requests, ~AllHeld(r), ~AllHeld(q),
           NextKey(r) \in held[q]
    PROVE  Position(r) < Position(q) \/ (Position(r) = Position(q) /\ Between(q))
<1> DEFINE key == NextKey(r)
<1>1. /\ key[1] \in Columns /\ ~Updates(q) => key = NewKey(q, key[1])
      /\ key[1] = "email" /\ "username" \in Sets(q) => NewKey(q, "username") \in held[q]
  BY DEF IInv, OrderInv
<1>2. NextKey(q)[1] = key[1] => key[1] \in {k[1] : k \in held[q]}
  OBVIOUS
<1>3. NextKey(q)[1] # "id"
  BY PositionIs
<1>4. CASE key[1] = "id"
  BY <1>3, <1>4, PositionIs
<1>5. CASE key[1] = "username"
  BY <1>1, <1>2, <1>5, PositionIs DEF Between, Columns
<1>6. CASE key[1] = "email"
  BY <1>1, <1>2, <1>6, PositionIs DEF Between, Columns
<1> QED
  BY <1>4, <1>5, <1>6, PositionIs

\* However many registrations wait for each other's entries, each wait is for
\* a transaction that is further on, or for an UPDATE between two values.
THEOREM WaitsAreShort == Spec => []WaitsEnd
<1>1. IInv => WaitsEnd
  <2> SUFFICES ASSUME IInv, NEW r \in Requests, NEW q \in Requests, WaitsFor(r, q)
               PROVE  /\ stage[q] \in {"saving", "rollback"}
                      /\ \A p \in Requests : WaitsFor(q, p) =>
                            \/ Position(r) < Position(q)
                            \/ Position(r) = Position(q) /\ Between(q)
    BY DEF WaitsEnd
  <2>1. stage[q] \in {"saving", "rollback"}
    BY DEF WaitsFor, IInv, HeldInv
  <2> QED
    BY <2>1, HeldIsPassed DEF WaitsFor
<1> QED
  BY <1>1, Invariant, PTL

\* A set in which everyone waits and is waited for.
Circle(S) == /\ S # {}
             /\ \A q \in S : (\E p \in S : WaitsFor(q, p)) /\ (\E p \in S : WaitsFor(p, q))

CirclesAreOfUpdates == \A S \in SUBSET Requests : Circle(S) => \E q \in S : Between(q)

\* InnoDB has to break a circle only if an UPDATE is in it: registrations
\* without an id never fail for each other.
THEOREM InsertsNeverDeadlock == Spec => []CirclesAreOfUpdates
<1>1. IInv /\ WaitsEnd => CirclesAreOfUpdates
  <2> SUFFICES ASSUME IInv, WaitsEnd, NEW S \in SUBSET Requests, Circle(S),
                      \A q \in S : ~Between(q)
               PROVE  FALSE
    BY DEF CirclesAreOfUpdates
  <2>1. \A q \in S : Position(q) \in 0..2
    BY PositionIs DEF Circle, WaitsFor
  <2>2. \A r, q \in S : WaitsFor(r, q) => Position(r) < Position(q)
    BY DEF WaitsEnd, Circle
  <2>3. PICK a \in S, b \in S, c \in S, d \in S :
          WaitsFor(a, b) /\ WaitsFor(b, c) /\ WaitsFor(c, d)
    BY DEF Circle
  <2>4. Position(a) < Position(b) /\ Position(b) < Position(c) /\ Position(c) < Position(d)
    BY <2>2, <2>3
  <2> QED
    BY <2>1, <2>4
<1> QED
  BY <1>1, Invariant, WaitsAreShort, PTL

----------------------------------------------------------------------------
\* Which fault stands behind an error, a request that is gone and a caller
\* that is not answered.
FailsAlone == Faults \cap {"connection", "commit", "statement"} # {}
SomeUpdate == \E q \in Requests : Updates(q)

CauseInv ==
    \A r \in Requests :
        /\ error[r] = "error" => FailsAlone \/ SomeUpdate
        /\ stage[r] = "lost" => "crash" \in Faults
        /\ stage[r] \in {"new", "done", "lost"} \/ r \in waiting \/ "callers" \in Faults
        /\ stage[r] = "done" /\ reply[r] = "none" => "callers" \in Faults
        /\ stage[r] = "done" /\ error[r] = "none" /\ ~body[r].bearer => r \in saved
        /\ stage[r] \in {"new", "queued", "hashing"} => ~Updates(r)

\* A registration that is over: it is lost with the service, or its client was
\* answered if its callers lived, and it was refused a bearer token, was saved,
\* or found one that was saved in its way, unless its own request failed or was
\* sacrificed to an UPDATE.
Settled ==
    \A r \in Requests :
        /\ stage[r] = "lost" => "crash" \in Faults
        /\ stage[r] = "done" =>
             /\ reply[r] # "none" \/ "callers" \in Faults
             /\ \/ body[r].bearer
                \/ r \in saved
                \/ \E q \in saved : InTheWay(q, r)
                \/ error[r] = "error" /\ (FailsAlone \/ SomeUpdate)

\* A circle takes an UPDATE.
LEMMA VictimsNeedUpdate ==
    ASSUME CirclesAreOfUpdates, NEW r \in Requests, InCircle(r)
    PROVE  SomeUpdate
<1>1. PICK S \in SUBSET Requests : Circle(S)
  BY DEF InCircle, Circle
<1> QED
  BY <1>1 DEF CirclesAreOfUpdates, Between, SomeUpdate

\* Every action keeps the causes.
LEMMA CauseStep ==
    ASSUME IInv, CirclesAreOfUpdates, CauseInv, [Next]_vars
    PROVE  CauseInv'
<1>0. body' = body
  BY KeyFootprint DEF IInv
<1>1. \A r \in Requests : Deadlock(r) => SomeUpdate
  BY VictimsNeedUpdate DEF Deadlock
<1>2. UNCHANGED loaded => SomeUpdate' = SomeUpdate /\ \A r : Updates(r)' = Updates(r)
  BY DEF SomeUpdate, Updates
<1> USE <1>0 DEF IInv, TypeOK, CauseInv, FailsAlone, Goto, table
<1>3. ASSUME NEW r \in Requests, RefuseSignedIn(r) \/ Forward(r) PROVE CauseInv'
  BY <1>2, <1>3 DEF RefuseSignedIn, Forward
<1>4. ASSUME NEW r \in Requests, Receive(r) \/ ClaimKey(r) PROVE CauseInv'
  BY <1>2, <1>4 DEF Receive, ClaimKey
<1>5. ASSUME NEW r \in Requests, BeginSave(r) PROVE CauseInv'
  <2>1. \A q \in Requests \ {r} : Updates(q)' = Updates(q)
    BY <1>5 DEF BeginSave, Updates
  <2>2. SomeUpdate => SomeUpdate'
    BY <1>5, <2>1 DEF SomeUpdate, BeginSave
  <2> QED
    BY <1>5, <2>1, <2>2 DEF BeginSave
<1>6. ASSUME NEW r \in Requests, DuplicateKey(r) PROVE CauseInv'
  BY <1>2, <1>6 DEF DuplicateKey, Throw
<1>7. ASSUME NEW r \in Requests, Deadlock(r) PROVE CauseInv'
  <2>1. SomeUpdate
    BY <1>1, <1>7
  <2>2. UNCHANGED <<loaded, saved, waiting, reply>>
    BY <1>7 DEF Deadlock
  <2>3. /\ stage[r] = "saving" /\ stage' = [stage EXCEPT ![r] = "rollback"]
        /\ error' = [error EXCEPT ![r] = "error"]
    BY <1>7 DEF Deadlock, Throw
  <2> QED
    BY <1>2, <2>1, <2>2, <2>3
<1>8. ASSUME NEW r \in Requests, StatementFails(r) PROVE CauseInv'
  BY <1>2, <1>8 DEF StatementFails, Throw
<1>9. ASSUME NEW r \in Requests, ConnectionFails(r) PROVE CauseInv'
  BY <1>2, <1>9 DEF ConnectionFails, Throw
<1>10. ASSUME NEW r \in Requests, CommitUnknown(r) PROVE CauseInv'
  BY <1>2, <1>10 DEF CommitUnknown, Throw, Save
<1>11. ASSUME NEW r \in Requests, Commit(r) \/ Rollback(r) PROVE CauseInv'
  BY <1>2, <1>11 DEF Commit, Rollback, Save
<1>12. ASSUME NEW r \in Requests, Reply(r) PROVE CauseInv'
  <2>1. Answer(r) # "none"
    BY DEF Answer
  <2>2. error[r] = "none" => r \in saved
    BY <1>12 DEF Reply, StageInv
  <2> QED
    BY <1>2, <1>12, <2>1, <2>2 DEF Reply
<1>13. CASE UsersCrash
  BY <1>2, <1>13 DEF UsersCrash, InService
<1>14. CASE CallersCrash
  BY <1>2, <1>14 DEF CallersCrash
<1>15. CASE UNCHANGED vars
  BY <1>2, <1>15 DEF vars
<1> QED
  BY <1>3, <1>4, <1>5, <1>6, <1>7, <1>8, <1>9, <1>10, <1>11, <1>12, <1>13, <1>14, <1>15
  DEF Next, Serve, Fail, Finished

\* What KeyServed says of the end of a registration, without fairness: nobody
\* is refused, lost or left unanswered without a cause of its own.
THEOREM SettledForCause == Spec => []Settled
<1>1. Init => CauseInv
  BY DEF Init, CauseInv, Updates
<1>2. IInv /\ CirclesAreOfUpdates /\ CauseInv /\ [Next]_vars => CauseInv'
  BY CauseStep
<1>3. IInv /\ CauseInv => Settled
  <2> SUFFICES ASSUME IInv, CauseInv, NEW r \in Requests, stage[r] = "done"
               PROVE  \/ body[r].bearer
                      \/ r \in saved
                      \/ \E q \in saved : InTheWay(q, r)
                      \/ error[r] = "error" /\ (FailsAlone \/ SomeUpdate)
    BY DEF Settled, CauseInv
  <2>1. error[r] \in {"none", "duplicate", "error"}
    BY DEF IInv, TypeOK
  <2> QED
    BY <2>1 DEF IInv, StageInv, CauseInv
<1> QED
  BY <1>1, <1>2, <1>3, Invariant, InsertsNeverDeadlock, PTL DEF Spec

----------------------------------------------------------------------------
\* The initial states are initial states of the accounts.
LEMMA InitAccounts == Init => Table!AccountsInit
BY DEF Init, Table!AccountsInit, Welcomed, Overwritten

\* A save creates the account, or overwrites it.
LEMMA SavePuts ==
    ASSUME IInv, OneAccountPerKey', NEW r \in Requests, Commits(r)
    PROVE  Table!Create(Account(r), Written(r)) \/ Table!Overwrite(Account(r), Written(r))
<1> DEFINE a == Account(r)
<1>1. /\ saved' = saved \cup {r} /\ r \notin saved /\ saved \subseteq Requests
      /\ row' = [row EXCEPT ![a] = Written(r)]
      /\ UNCHANGED <<body, reply>>
  BY DEF Commits, Save, IInv, StageInv, Before, TypeOK
<1>2. Table!Stored = Stored
  BY DEF Table!Stored, Stored
<1>3. \A q : Account(q)' = Account(q)
  BY <1>1 DEF Account
<1>4. ASSUME NEW b \in Stored \ {a} PROVE ~Table!Clash(Written(r), row[b])
  <2>1. a \in Stored' /\ b \in Stored' /\ b # a
    BY <1>4, CommitKeys DEF IInv
  <2>2. \A c \in Columns : OldKey(a, c)' # OldKey(b, c)'
    BY <1>3, <2>1 DEF OneAccountPerKey, KeysOf
  <2>3. a \in Requests /\ row'[a] = Written(r) /\ row'[b] = row[b]
    BY <1>1, <1>4, AccountTyped DEF IInv, TypeOK
  <2>4. \A c \in Columns : Fold[Written(r)[c]] # Fold[row[b][c]]
    BY <1>3, <2>2, <2>3 DEF OldKey
  <2> QED
    BY <2>4 DEF Table!Clash, Table!SameUsername, Table!SameEmail, Columns
<1>5. Table!Put(a, Written(r))
  BY <1>1, <1>2, <1>4 DEF Table!Put
<1>6. Welcomed' = Welcomed
  BY <1>1, <1>3 DEF Welcomed
<1>7. CASE a \in Stored
  <2>1. PICK q \in saved : Account(q) = a
    BY <1>7 DEF IInv, SavedInv, Columns
  <2>2. Overwritten' = Overwritten \cup {a}
    BY <1>1, <1>3, <2>1, AccountTyped DEF Overwritten, IInv
  <2> QED
    BY <1>2, <1>5, <1>6, <1>7, <2>2 DEF Table!Overwrite
<1>8. CASE a \notin Stored
  <2>1. \A q \in saved : Account(q) # a
    BY <1>8 DEF IInv, SavedInv
  <2>2. Overwritten' = Overwritten
    BY <1>1, <1>3, <2>1 DEF Overwritten
  <2> QED
    BY <1>2, <1>5, <1>6, <1>8, <2>2 DEF Table!Create
<1> QED
  BY <1>7, <1>8

\* A 201 welcomes the account, any other reply nobody.
LEMMA ReplyWelcomes ==
    ASSUME IInv, UNCHANGED <<body, table>>, NEW r \in Requests, reply[r] = "none",
           NEW answer, reply' = [reply EXCEPT ![r] = answer],
           answer = "created" => r \in saved
    PROVE  Table!Welcome(Account(r)) \/ UNCHANGED Table!accountVars
<1>1. /\ \A q : Account(q)' = Account(q)
      /\ Overwritten' = Overwritten /\ row' = row
      /\ reply'[r] = answer /\ \A q \in Requests \ {r} : reply'[q] = reply[q]
  BY DEF IInv, TypeOK, Account, Overwritten, table
<1>2. CASE answer = "created"
  <2>1. Account(r) \in Requests /\ Account(r) \in Table!Stored
    BY <1>2 DEF IInv, SavedInv, Stored, Table!Stored
  <2>2. Welcomed' = Welcomed \cup {Account(r)}
    BY <1>1, <1>2, <2>1 DEF Welcomed
  <2> QED
    BY <1>1, <2>1, <2>2 DEF Table!Welcome
<1>3. CASE answer # "created"
  <2>1. Welcomed' = Welcomed
    BY <1>1, <1>3 DEF Welcomed
  <2> QED
    BY <1>1, <2>1 DEF Table!accountVars
<1> QED
  BY <1>2, <1>3

\* The steps, sorted by what they answer: nothing, 401, or what the error says.
LEMMA ReplyFootprint ==
    ASSUME IInv, [Next]_vars, reply' # reply
    PROVE  /\ UNCHANGED <<body, table>>
           /\ \E r \in Requests : \E answer :
                 /\ reply[r] = "none"
                 /\ reply' = [reply EXCEPT ![r] = answer]
                 /\ answer = "created" => r \in saved
<1>1. (\E r \in Requests : RefuseSignedIn(r)) \/ (\E r \in Requests : Reply(r))
  BY DEF Next, Serve, Fail, Finished, vars, table, Forward, Receive, BeginSave, ClaimKey,
     DuplicateKey, Deadlock, StatementFails, ConnectionFails, Commit, CommitUnknown, Rollback,
     UsersCrash, CallersCrash
<1>2. ASSUME NEW r \in Requests, RefuseSignedIn(r)
      PROVE  /\ UNCHANGED <<body, table>>
             /\ reply[r] = "none"
             /\ reply' = [reply EXCEPT ![r] = "unauthorized"]
  BY <1>2 DEF RefuseSignedIn, Goto, IInv, StageInv
<1>3. ASSUME NEW r \in Requests, Reply(r)
      PROVE  /\ UNCHANGED <<body, table>>
             /\ reply[r] = "none"
             /\ reply' = [reply EXCEPT ![r] = Answer(r)]
             /\ Answer(r) = "created" => r \in saved
  <2>1. Answer(r) = "created" => error[r] = "none"
    BY <1>3 DEF Answer, IInv, TypeOK
  <2>2. /\ UNCHANGED <<body, table>>
        /\ stage[r] = "returning"
        /\ reply' = [reply EXCEPT ![r] = Answer(r)]
    BY <1>3 DEF Reply, Goto
  <2> QED
    BY <2>1, <2>2 DEF IInv, StageInv
<1> QED
  BY <1>1, <1>2, <1>3

\* auth.register and user.createOne implement the accounts: a COMMIT is their
\* Create or, of an UPDATE, their Overwrite, a 201 their Welcome, and everything
\* else leaves them as they are.
THEOREM Refinement == Spec => ImplementsAccounts
<1>1. IInv /\ IInv' /\ [Next]_vars => [Table!AccountsNext]_Table!accountVars
  <2> SUFFICES ASSUME IInv, IInv', [Next]_vars
               PROVE  Table!AccountsNext \/ UNCHANGED Table!accountVars
    OBVIOUS
  <2>1. CASE UNCHANGED <<table, reply>>
    BY <2>1, KeyFootprint DEF IInv, Table!accountVars, table, Welcomed, Overwritten, Account
  <2>2. CASE reply' # reply
    BY <2>2, ReplyFootprint, ReplyWelcomes, AccountTyped DEF Table!AccountsNext, IInv
  <2>3. ASSUME NEW r \in Requests, Commits(r)
        PROVE  Table!AccountsNext
    <3>1. Account(r) \in Requests /\ Written(r) \in Table!Rows
      BY AccountTyped, WrittenTyped DEF IInv, Rows, Table!Rows
    <3> QED
      BY <2>3, <3>1, SavePuts DEF Table!AccountsNext, IInv
  <2>4. UNCHANGED table \/ \E r \in Requests : Commits(r)
    BY KeyFootprint DEF IInv, BeginSave, ClaimKey, table
  <2> QED
    BY <2>1, <2>2, <2>3, <2>4
<1> QED
  BY <1>1, InitAccounts, Invariant, PTL DEF Spec, ImplementsAccounts, Table!AccountsSpec

============================================================================
