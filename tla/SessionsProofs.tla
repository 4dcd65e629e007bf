--------------------------- MODULE SessionsProofs ---------------------------
(***************************************************************************)
(* Proofs about Sessions, for any accounts, logins, calls, collation and   *)
(* token lifetime.  The invariant behind them: accounts are unique at any  *)
(* time and keep their row unless it is saved over, so what a login read   *)
(* is still there when its token is used, or was saved over; and a call    *)
(* past the guards acts for the token the gateway extracted.               *)
(***************************************************************************)
EXTENDS Sessions, TLAPS

\* What module Accounts promises.
AccountInv == /\ \A a, b \in Stored : Clash(row[a], row[b]) => a = b
              /\ welcomed \subseteq Stored
              /\ overwritten \subseteq Stored

\* What a login read has the name it asked for, and is still stored unless it
\* was saved over.
ReadInv(l) ==
    /\ found[l] \in Stored
    /\ Fold[seen[l].username] = Fold[entry[l].username]
    /\ found[l] \in overwritten \/ row[found[l]] = seen[l]

\* The account a login knew under the name typed is the one whose row it read.
KnownIsRead(l) ==
    \A a \in knew[l] \ overwritten :
        row[a].username = entry[l].username => a = found[l] /\ row[a] = seen[l]

\* What a login knows and found is there; its token is for what it read.
LoginInv ==
    \A l \in Logins :
        /\ step[l] # "new" => entry[l] \in Entries
        /\ knew[l] \subseteq Stored
        /\ Issued(l) => step[l] = "done"
        /\ step[l] \in {"comparing", "signing"} \/ Issued(l) => ReadInv(l)
        /\ step[l] = "comparing" => KnownIsRead(l)
        /\ step[l] = "signing" \/ Issued(l) => PasswordMatches(l)
        /\ step[l] \in {"new", "finding", "comparing", "signing"} => outcome[l] = "none"

\* A call came with tokens that were issued, and acts for the one extracted.
CallOk(k) ==
    /\ arrival[k] <= now
    /\ at[k] # "new" => /\ call[k] \in Presentations
                        /\ \A l \in Presented(k) : Issued(l)
    /\ at[k] \in Passed \cup {"validating"} => ExtractToken(call[k]) \in Presented(k)
    /\ at[k] \in Passed => /\ actor[k] = found[ExtractToken(call[k])]
                           /\ arrival[k] < expiry[ExtractToken(call[k])]

CallInv == \A k \in Calls : CallOk(k)

IInv == /\ TypeOK /\ AccountInv /\ LoginInv /\ CallInv
        /\ ReadYourRegistration /\ RefusedForCause

----------------------------------------------------------------------------
\* A presented token belongs to a login, in each of the places it may be in.
LEMMA PresentedTyped ==
    ASSUME NEW p \in Presentations, NEW c \in {p.auth, p.query, p.header} \ {None}
    PROVE  c.login \in Logins /\ c.scheme \in {"raw", "Bearer"}
BY DEF Presentations, Credentials

\* What is extracted was presented.
LEMMA ExtractPresented ==
    ASSUME NEW p \in Presentations, ExtractToken(p) # None
    PROVE  ExtractToken(p) \in {c.login : c \in {p.auth, p.query, p.header} \ {None}}
BY DEF ExtractToken, HeaderToken

\* A token presented as documented is extracted.
LEMMA DocumentedExtracted ==
    ASSUME NEW p \in Presentations, Documented(p)
    PROVE  ExtractToken(p) # None
BY PresentedTyped, NoneAssumption DEF Documented, ExtractToken, HeaderToken

\* The token of a call that waits or passed was issued by a login.
LEMMA ExtractedLogin ==
    ASSUME CallInv, NEW k \in Calls, at[k] \in Passed \cup {"validating"}
    PROVE  ExtractToken(call[k]) \in Logins /\ Issued(ExtractToken(call[k]))
<1>1. call[k] \in Presentations /\ ExtractToken(call[k]) \in Presented(k)
  BY DEF CallInv, CallOk, Passed
<1>2. ExtractToken(call[k]) \in Logins
  BY <1>1, PresentedTyped DEF Presented
<1> QED
  BY <1>1, <1>2 DEF CallInv, CallOk, Passed

----------------------------------------------------------------------------
\* Every action keeps the types.
LEMMA TypeStep ==
    ASSUME TypeOK, CallInv, [Next]_vars
    PROVE  TypeOK'
<1> USE DEF TypeOK, AccountsTypeOK, Steps, Places, loginVars, callVars, accountVars,
            Step, Answer, Move
<1>1. CASE Tick
  BY <1>1 DEF Tick
<1>2. CASE Register
  BY <1>2 DEF Register, AccountsNext, Create, Overwrite, Put, Welcome, Stored
<1>3. ASSUME NEW l \in Logins, SendLogin(l) PROVE TypeOK'
  BY <1>3 DEF SendLogin
<1>4. ASSUME NEW l \in Logins, Find(l) PROVE TypeOK'
  BY <1>4 DEF Find, Matching, Stored
<1>5. ASSUME NEW l \in Logins, FindNobody(l) \/ FindFails(l) \/ Compare(l) \/ RefusePassword(l)
                               \/ LoseLogin(l)
      PROVE  TypeOK'
  BY <1>5 DEF FindNobody, FindFails, Compare, RefusePassword, LoseLogin
<1>6. ASSUME NEW l \in Logins, Sign(l) PROVE TypeOK'
  <2>1. now + Lifetime \in Nat
    BY TimesAssumption
  <2> QED
    BY <1>6, <2>1 DEF Sign
<1>7. ASSUME NEW k \in Calls, Arrive(k) PROVE TypeOK'
  <2>1. PICK p \in Uses :
          /\ call' = [call EXCEPT ![k] = p]
          /\ Move(k, "new", IF ExtractToken(p) = None THEN GuestAnswer(p) ELSE "validating")
          /\ arrival' = [arrival EXCEPT ![k] = now]
          /\ UNCHANGED <<accountVars, now, loginVars, actor, failed>>
    BY <1>7 DEF Arrive
  <2>2. p \in Presentations
    BY UsesAssumption
  <2> QED
    BY <2>1, <2>2 DEF GuestAnswer
<1>8. ASSUME NEW k \in Calls, Validate(k) PROVE TypeOK'
  <2>1. found[ExtractToken(call[k])] \in Ids \cup {None}
    BY <1>8, ExtractedLogin DEF Validate
  <2> QED
    BY <1>8, <2>1 DEF Validate
<1>9. ASSUME NEW k \in Calls, RefuseToken(k) \/ GuardFails(k) \/ HandshakeFails(k) \/ Pass(k)
                              \/ Connect(k) \/ SocketSend(k) \/ LoseCall(k)
      PROVE  TypeOK'
  BY <1>9 DEF RefuseToken, GuardFails, HandshakeFails, Pass, Connect, SocketSend, LoseCall
<1>10. CASE UNCHANGED vars
  BY <1>10 DEF vars
<1> QED
  BY <1>1, <1>2, <1>3, <1>4, <1>5, <1>6, <1>7, <1>8, <1>9, <1>10
  DEF Next, ServeLogin, ServeCall, Finished

\* What no step does to the accounts.
Kept == /\ Stored \subseteq Stored'
        /\ overwritten \subseteq overwritten'
        /\ \A a \in Stored \ overwritten' : row'[a] = row[a]

\* A row that is put clashes with no other.
LEMMA PutKeeps ==
    ASSUME AccountsTypeOK, \A a, b \in Stored : Clash(row[a], row[b]) => a = b,
           NEW a \in Ids, NEW rw \in Rows, Put(a, rw)
    PROVE  /\ \A b, c \in Stored' : Clash(row'[b], row'[c]) => b = c
           /\ Stored' = Stored \cup {a}
           /\ \A b \in Stored \ {a} : row'[b] = row[b]
<1>1. row' = [row EXCEPT ![a] = rw] /\ row \in [Ids -> Rows \cup {None}]
  BY DEF Put, AccountsTypeOK
<1>2. rw # None
  BY NoRowAssumption
<1>3. Stored' = Stored \cup {a} /\ \A b \in Stored \ {a} : row'[b] = row[b]
  BY <1>1, <1>2 DEF Stored
<1>4. ASSUME NEW b \in Stored \ {a} PROVE ~Clash(row'[a], row'[b]) /\ ~Clash(row'[b], row'[a])
  BY <1>1, <1>3, <1>4 DEF Put, Clash, SameUsername, SameEmail
<1> QED
  BY <1>3, <1>4

\* Accounts are added and saved over one by one, each with a name and an email
\* no other has at the time.
LEMMA AccountsStep ==
    ASSUME AccountsTypeOK, AccountInv, AccountsNext \/ UNCHANGED accountVars
    PROVE  AccountInv' /\ Kept
<1>1. CASE UNCHANGED accountVars
  BY <1>1 DEF AccountInv, accountVars, Clash, SameUsername, SameEmail, Kept, Stored
<1>2. ASSUME NEW a \in Ids, NEW rw \in Rows, Create(a, rw) PROVE AccountInv' /\ Kept
  BY <1>2, PutKeeps DEF Create, AccountInv, Kept
<1>3. ASSUME NEW a \in Ids, NEW rw \in Rows, Overwrite(a, rw) PROVE AccountInv' /\ Kept
  BY <1>3, PutKeeps DEF Overwrite, AccountInv, Kept
<1>4. ASSUME NEW a \in Ids, Welcome(a) PROVE AccountInv' /\ Kept
  BY <1>4 DEF Welcome, AccountInv, Kept, Stored, Clash, SameUsername, SameEmail
<1> QED
  BY <1>1, <1>2, <1>3, <1>4 DEF AccountsNext

LEMMA AccountStep ==
    ASSUME TypeOK, AccountInv, [Next]_vars
    PROVE  AccountInv' /\ Kept
<1>1. AccountsNext \/ UNCHANGED accountVars
  BY DEF Next, vars, Tick, Register, SendLogin, ServeLogin, Find, FindNobody, FindFails, Compare,
     RefusePassword, Sign, LoseLogin, Arrive, ServeCall, Validate, RefuseToken, GuardFails,
     HandshakeFails, Pass, Connect, SocketSend, LoseCall, Finished
<1> QED
  BY <1>1, AccountsStep DEF TypeOK

\* The steps that are not a login's leave the logins alone; time only goes on.
LEMMA LoginFootprint ==
    ASSUME TypeOK, [Next]_vars
    PROVE  /\ \/ UNCHANGED loginVars
              \/ \E l \in Logins : SendLogin(l) \/ ServeLogin(l) \/ FindFails(l) \/ LoseLogin(l)
           /\ now' \in Nat /\ now <= now'
<1>1. CASE Tick
  BY <1>1 DEF Tick, TypeOK
<1>2. CASE ~Tick
  BY <1>2 DEF TypeOK, Next, vars, Register, SendLogin, ServeLogin, Find, FindNobody, FindFails,
     Compare, RefusePassword, Sign, LoseLogin, Arrive, ServeCall, Validate, RefuseToken,
     GuardFails, HandshakeFails, Pass, Connect, SocketSend, LoseCall, Finished
<1> QED
  BY <1>1, <1>2

\* Whatever happens to the accounts, what a login read stays what it was.
LEMMA ReadKept ==
    ASSUME Kept, NEW l \in Logins, ReadInv(l),
           found'[l] = found[l], seen'[l] = seen[l], entry'[l] = entry[l]
    PROVE  ReadInv(l)'
BY DEF Kept, ReadInv

LEMMA KnownKept ==
    ASSUME Kept, NEW l \in Logins, KnownIsRead(l), knew[l] \subseteq Stored, knew'[l] = knew[l],
           found'[l] = found[l], seen'[l] = seen[l], entry'[l] = entry[l]
    PROVE  KnownIsRead(l)'
BY DEF Kept, KnownIsRead

\* The part of LoginInv that is about one login.
LoginOk(l) ==
    /\ step[l] # "new" => entry[l] \in Entries
    /\ knew[l] \subseteq Stored
    /\ Issued(l) => step[l] = "done"
    /\ step[l] \in {"comparing", "signing"} \/ Issued(l) => ReadInv(l)
    /\ step[l] = "comparing" => KnownIsRead(l)
    /\ step[l] = "signing" \/ Issued(l) => PasswordMatches(l)
    /\ step[l] \in {"new", "finding", "comparing", "signing"} => outcome[l] = "none"

\* A login that does nothing keeps what holds of it.
LEMMA LoginKept ==
    ASSUME Kept, NEW l \in Logins, LoginOk(l),
           step'[l] = step[l], entry'[l] = entry[l], found'[l] = found[l], seen'[l] = seen[l],
           outcome'[l] = outcome[l], knew'[l] = knew[l]
    PROVE  LoginOk(l)'
BY ReadKept, KnownKept DEF LoginOk, Issued, PasswordMatches, Kept

\* Logins keep what they know, read and issued.
LEMMA LoginStep ==
    ASSUME TypeOK, AccountInv, LoginInv, [Next]_vars
    PROVE  LoginInv'
<1>1. Kept
  BY AccountStep
<1> SUFFICES ASSUME NEW l \in Logins PROVE LoginOk(l)'
  BY DEF LoginInv, LoginOk
<1>2. LoginOk(l)
  BY DEF LoginInv, LoginOk
<1> USE DEF TypeOK, Step, Answer, Steps
<1>3. CASE UNCHANGED loginVars
  BY <1>1, <1>2, <1>3, LoginKept DEF loginVars
<1>4. ASSUME NEW m \in Logins, m # l, SendLogin(m) \/ ServeLogin(m) \/ FindFails(m) \/ LoseLogin(m)
      PROVE  LoginOk(l)'
  <2>1. /\ step'[l] = step[l] /\ entry'[l] = entry[l] /\ found'[l] = found[l]
        /\ seen'[l] = seen[l] /\ outcome'[l] = outcome[l] /\ knew'[l] = knew[l]
    BY <1>4 DEF SendLogin, ServeLogin, Find, FindNobody, Compare, RefusePassword, Sign,
       FindFails, LoseLogin
  <2> QED
    BY <1>1, <1>2, <2>1, LoginKept
<1>5. CASE SendLogin(l)
  BY <1>1, <1>2, <1>5 DEF SendLogin, AccountInv, accountVars, LoginOk, Issued, Kept
<1>6. CASE Find(l)
  <2>1. PICK a \in Matching(l) : /\ found' = [found EXCEPT ![l] = a]
                                 /\ seen' = [seen EXCEPT ![l] = row[a]]
    BY <1>6 DEF Find
  <2>2. /\ a \in Stored /\ Fold[row[a].username] = Fold[entry[l].username]
        /\ found'[l] = a /\ seen'[l] = row[a]
        /\ step[l] = "finding" /\ step'[l] = "comparing"
        /\ UNCHANGED <<row, overwritten, entry, outcome, knew>>
    BY <1>6, <2>1 DEF Matching, Stored, Find, accountVars
  <2>3. ReadInv(l)'
    BY <2>2 DEF ReadInv, Stored
  <2>4. KnownIsRead(l)'
    <3> SUFFICES ASSUME NEW b \in knew[l] \ overwritten, row[b].username = entry[l].username
                 PROVE  b = a
      BY <2>2 DEF KnownIsRead
    <3>1. b \in Stored /\ Clash(row[a], row[b])
      BY <1>2, <2>2 DEF LoginOk, Clash, SameUsername
    <3> QED
      BY <2>2, <3>1 DEF AccountInv
  <2>5. ~Issued(l)'
    BY <1>2, <2>2 DEF LoginOk, Issued
  <2> QED
    BY <1>1, <1>2, <2>2, <2>3, <2>4, <2>5 DEF LoginOk, Kept
<1>7. CASE FindNobody(l) \/ FindFails(l)
  BY <1>1, <1>2, <1>7 DEF FindNobody, FindFails, accountVars, LoginOk, Issued, Kept
<1>8. CASE Compare(l)
  BY <1>1, <1>2, <1>8, ReadKept DEF Compare, accountVars, LoginOk, Issued, Kept, PasswordMatches
<1>9. CASE RefusePassword(l)
  BY <1>1, <1>2, <1>9 DEF RefusePassword, accountVars, LoginOk, Issued, Kept
<1>10. CASE Sign(l)
  BY <1>1, <1>2, <1>10, ReadKept DEF Sign, accountVars, LoginOk, Issued, Kept, PasswordMatches
<1>11. CASE LoseLogin(l)
  BY <1>1, <1>2, <1>11, ReadKept DEF LoseLogin, accountVars, LoginOk, Issued, Kept
<1> QED
  BY <1>3, <1>4, <1>5, <1>6, <1>7, <1>8, <1>9, <1>10, <1>11, LoginFootprint DEF ServeLogin

\* A token stays what it is.
LEMMA TokensStay ==
    ASSUME TypeOK, LoginInv, [Next]_vars, NEW l \in Logins, Issued(l)
    PROVE  /\ Issued(l)' /\ entry'[l] = entry[l]
           /\ found'[l] = found[l] /\ seen'[l] = seen[l] /\ expiry'[l] = expiry[l]
BY LoginFootprint DEF TypeOK, LoginInv, Issued, Step, Answer, loginVars, SendLogin, ServeLogin,
   Find, FindNobody, FindFails, Compare, RefusePassword, Sign, LoseLogin

\* The tokens that a call came with stay what they are.
LEMMA PresentedStay ==
    ASSUME TypeOK, LoginInv, CallInv, [Next]_vars, NEW k \in Calls, at[k] # "new",
           NEW l \in Presented(k)
    PROVE  l \in Logins /\ Issued(l)' /\ found'[l] = found[l] /\ expiry'[l] = expiry[l]
<1>1. l \in Logins /\ Issued(l)
  BY PresentedTyped DEF CallInv, CallOk, Presented
<1> QED
  BY <1>1, TokensStay

\* What holds of a call survives the steps that leave it alone, and those that
\* only move it on without letting it past the guards.
LEMMA CallKept ==
    ASSUME TypeOK, LoginInv, CallInv, [Next]_vars, NEW k \in Calls,
           call'[k] = call[k], arrival'[k] = arrival[k], actor'[k] = actor[k],
           \/ at'[k] = at[k]
           \/ at[k] \in Passed /\ at'[k] \in Passed
           \/ at[k] # "new" /\ at'[k] \notin Passed \cup {"validating"}
    PROVE  CallOk(k)'
<1>1. Presented(k)' = Presented(k)
  BY DEF Presented
<1>2. now \in Nat /\ now' \in Nat /\ now <= now' /\ arrival[k] \in Nat
  BY LoginFootprint DEF TypeOK
<1>3. "new" \notin Passed /\ "validating" \notin Passed
  BY DEF Passed
<1>4. at'[k] # "new" => at[k] # "new"
  BY <1>3
<1>5. at'[k] # "new" => call[k] \in Presentations /\ \A l \in Presented(k) : Issued(l)'
  BY <1>4, PresentedStay DEF CallInv, CallOk
<1>6. at'[k] \in Passed \cup {"validating"} => ExtractToken(call[k]) \in Presented(k)
  BY <1>3 DEF CallInv, CallOk
<1>7. at'[k] \in Passed => /\ actor[k] = found'[ExtractToken(call[k])]
                           /\ arrival[k] < expiry'[ExtractToken(call[k])]
  <2> SUFFICES ASSUME at'[k] \in Passed
               PROVE  /\ actor[k] = found'[ExtractToken(call[k])]
                      /\ arrival[k] < expiry'[ExtractToken(call[k])]
    OBVIOUS
  <2>1. at[k] \in Passed
    BY <1>3
  <2> QED
    BY <1>3, <1>6, <2>1, PresentedStay DEF CallInv, CallOk
<1>8. ExtractToken(call[k])' = ExtractToken(call[k])
  BY DEF ExtractToken, HeaderToken
<1> QED
  BY <1>1, <1>2, <1>5, <1>6, <1>7, <1>8 DEF CallOk, CallInv

\* The steps that are not a call's leave the calls alone.
LEMMA CallFootprint ==
    ASSUME [Next]_vars
    PROVE  /\ failed \subseteq failed'
           /\ \/ UNCHANGED callVars
              \/ \E k \in Calls : \/ Arrive(k) \/ ServeCall(k) \/ SocketSend(k)
                                  \/ GuardFails(k) \/ HandshakeFails(k) \/ LoseCall(k)
BY DEF Next, vars, Tick, Register, SendLogin, ServeLogin, Find, FindNobody,
   FindFails, Compare, RefusePassword, Sign, LoseLogin, Arrive, ServeCall, Validate, RefuseToken,
   GuardFails, HandshakeFails, Pass, Connect, SocketSend, LoseCall, Finished

\* A call gets past the guards only for a token it came with.
LEMMA CallStep ==
    ASSUME TypeOK, LoginInv, CallInv, [Next]_vars
    PROVE  CallInv'
<1> SUFFICES ASSUME NEW k \in Calls PROVE CallOk(k)'
  BY DEF CallInv, CallOk
<1> USE DEF TypeOK, Move
<1>1. CASE UNCHANGED callVars
  BY <1>1, CallKept DEF callVars
<1>2. ASSUME NEW j \in Calls, Arrive(j) PROVE CallOk(k)'
  <2>1. PICK p \in Uses :
          /\ \A c \in {p.auth, p.query, p.header} \ {None} : Issued(c.login)
          /\ call' = [call EXCEPT ![j] = p]
          /\ Move(j, "new", IF ExtractToken(p) = None THEN GuestAnswer(p) ELSE "validating")
          /\ arrival' = [arrival EXCEPT ![j] = now]
          /\ UNCHANGED <<accountVars, now, loginVars, actor, failed>>
    BY <1>2 DEF Arrive
  <2>2. CASE j # k
    BY <2>1, <2>2, CallKept
  <2>3. CASE j = k
    <3>1. p \in Presentations /\ call'[k] = p /\ arrival'[k] = now /\ now' = now /\ now \in Nat
      BY <2>1, <2>3, UsesAssumption
    <3>2. Presented(k)' = {c.login : c \in {p.auth, p.query, p.header} \ {None}}
      BY <3>1 DEF Presented
    <3>3. \A l : Issued(l)' <=> Issued(l)
      BY <2>1 DEF Issued, loginVars
    <3>4. \A l \in Presented(k)' : Issued(l)'
      BY <2>1, <3>2, <3>3
    <3>5. /\ at'[k] \notin Passed
          /\ at'[k] = "validating" => ExtractToken(p) # None
      BY <2>1, <2>3 DEF GuestAnswer, Passed
    <3>6. at'[k] = "validating" => ExtractToken(call[k])' \in Presented(k)'
      BY <3>1, <3>2, <3>5, ExtractPresented
    <3> QED
      BY <3>1, <3>4, <3>5, <3>6 DEF CallOk
  <2> QED
    BY <2>2, <2>3
<1>3. ASSUME NEW j \in Calls, Validate(j) PROVE CallOk(k)'
  <2>1. CASE j # k
    BY <1>3, <2>1, CallKept DEF Validate
  <2>2. CASE j = k
    <3> DEFINE l == ExtractToken(call[k])
    <3>1. /\ at[k] = "validating" /\ now < expiry[l] /\ actor'[k] = found[l]
          /\ UNCHANGED <<now, loginVars, call, arrival>>
      BY <1>3, <2>2 DEF Validate, Verifies
    <3>2. l \in Logins /\ l \in Presented(k)
      BY <3>1, ExtractedLogin DEF CallInv, CallOk
    <3>3. arrival[k] < expiry[l]
      BY <3>1, <3>2 DEF CallInv, CallOk
    <3>4. call[k] \in Presentations /\ \A m \in Presented(k) : Issued(m)
      BY <3>1 DEF CallInv, CallOk
    <3>5. Presented(k)' = Presented(k) /\ ExtractToken(call[k])' = l
      BY <3>1 DEF Presented, ExtractToken, HeaderToken
    <3>6. \A m : Issued(m)' <=> Issued(m)
      BY <3>1 DEF Issued, loginVars
    <3> QED
      BY <3>1, <3>2, <3>3, <3>4, <3>5, <3>6 DEF CallOk, loginVars, CallInv
  <2> QED
    BY <2>1, <2>2
<1>4. ASSUME NEW j \in Calls, RefuseToken(j) \/ GuardFails(j) \/ HandshakeFails(j) \/ LoseCall(j)
      PROVE  CallOk(k)'
  BY <1>4, CallKept DEF RefuseToken, GuardFails, HandshakeFails, LoseCall, Passed
<1>5. ASSUME NEW j \in Calls, Pass(j) \/ Connect(j) \/ SocketSend(j) PROVE CallOk(k)'
  BY <1>5, CallKept DEF Pass, Connect, SocketSend, Passed
<1> QED
  BY <1>1, <1>2, <1>3, <1>4, <1>5, CallFootprint DEF ServeCall

----------------------------------------------------------------------------
\* A login that is refused did not match an account it knew.
LEMMA ReadStep ==
    ASSUME TypeOK, AccountInv, LoginInv, ReadYourRegistration, [Next]_vars
    PROVE  ReadYourRegistration'
<1>1. Kept
  BY AccountStep
<1> SUFFICES ASSUME NEW l \in Logins, outcome'[l] = "unauthorized", ~entry'[l].bearer,
                    NEW a \in knew'[l] \ overwritten'
             PROVE  ~(row'[a].username = entry'[l].username /\ row'[a].digest = Cut[entry'[l].password])
  BY DEF ReadYourRegistration
<1> USE DEF TypeOK, Step, Answer
<1>2. CASE /\ outcome'[l] = outcome[l] /\ entry'[l] = entry[l] /\ knew'[l] = knew[l]
  <2>1. a \in knew[l] \ overwritten /\ row'[a] = row[a]
    BY <1>1, <1>2 DEF Kept, LoginInv
  <2> QED
    BY <1>2, <2>1 DEF ReadYourRegistration
<1>3. CASE SendLogin(l)
  BY <1>3 DEF SendLogin, LoginInv
<1>4. CASE FindNobody(l)
  <2>1. a \in Stored /\ a \notin Matching(l) /\ UNCHANGED <<row, overwritten, entry, knew>>
    BY <1>4 DEF FindNobody, LoginInv, accountVars
  <2> QED
    BY <2>1 DEF Matching
<1>5. CASE RefusePassword(l)
  <2>1. /\ step[l] = "comparing" /\ ~PasswordMatches(l)
        /\ UNCHANGED <<row, overwritten, entry, seen, knew>>
    BY <1>5 DEF RefusePassword, accountVars
  <2>2. row[a].username = entry[l].username => row[a] = seen[l]
    BY <2>1 DEF LoginInv, KnownIsRead
  <2> QED
    BY <2>1, <2>2 DEF PasswordMatches
<1>6. CASE FindFails(l)
  BY <1>6 DEF FindFails
<1>7. CASE Sign(l)
  BY <1>7 DEF Sign
<1>8. \/ outcome'[l] = outcome[l] /\ entry'[l] = entry[l] /\ knew'[l] = knew[l]
      \/ SendLogin(l) \/ FindNobody(l) \/ RefusePassword(l) \/ FindFails(l) \/ Sign(l)
  BY LoginFootprint DEF loginVars, SendLogin, ServeLogin, Find, FindNobody, Compare,
     RefusePassword, Sign, FindFails, LoseLogin
<1> QED
  BY <1>2, <1>3, <1>4, <1>5, <1>6, <1>7, <1>8

\* A call that is refused had no token in a documented place, or it expired.
LEMMA CauseStep ==
    ASSUME TypeOK, LoginInv, CallInv, RefusedForCause, [Next]_vars
    PROVE  RefusedForCause'
<1> SUFFICES ASSUME NEW k \in Calls, at'[k] = "unauthorized", Documented(call'[k]),
                    k \notin failed'
             PROVE  \E l \in Presented(k)' : expiry'[l] <= now'
  BY DEF RefusedForCause
<1>1. k \notin failed
  BY CallFootprint
<1>2. now \in Nat /\ now' \in Nat /\ now <= now' /\ expiry \in [Logins -> Nat]
  BY LoginFootprint DEF TypeOK
<1>3. CASE at[k] = "unauthorized" /\ call'[k] = call[k]
  <2>1. PICK l \in Presented(k) : expiry[l] <= now
    BY <1>1, <1>3 DEF RefusedForCause
  <2>2. expiry'[l] = expiry[l] /\ l \in Logins
    BY <1>3, <2>1, PresentedStay
  <2>3. l \in Presented(k)'
    BY <1>3, <2>1 DEF Presented
  <2> QED
    BY <1>2, <2>1, <2>2, <2>3
<1>4. CASE RefuseToken(k)
  <2> DEFINE l == ExtractToken(call[k])
  <2>1. at[k] = "validating" /\ ~(now < expiry[l]) /\ UNCHANGED <<now, loginVars, call>>
    BY <1>4 DEF RefuseToken, Move, Verifies
  <2>2. l \in Logins /\ l \in Presented(k)
    BY <2>1, ExtractedLogin DEF CallInv, CallOk
  <2>3. expiry'[l] <= now' /\ l \in Presented(k)'
    BY <1>2, <2>1, <2>2 DEF loginVars, Presented
  <2> QED
    BY <2>3
<1>5. CASE Arrive(k)
  BY <1>5, DocumentedExtracted, UsesAssumption DEF Arrive, Move, TypeOK
<1>6. CASE GuardFails(k) \/ HandshakeFails(k)
  BY <1>6 DEF GuardFails, HandshakeFails
<1>7. CASE at'[k] = at[k] /\ call'[k] = call[k]
  BY <1>3, <1>7
<1>8. \/ at'[k] = at[k] /\ call'[k] = call[k]
      \/ RefuseToken(k) \/ Arrive(k) \/ GuardFails(k) \/ HandshakeFails(k)
  BY CallFootprint DEF callVars, TypeOK, Move, Arrive, ServeCall, Validate, RefuseToken, GuardFails,
     HandshakeFails, Pass, Connect, SocketSend, LoseCall
<1> QED
  BY <1>4, <1>5, <1>6, <1>7, <1>8

----------------------------------------------------------------------------
\* The inductive invariant.
THEOREM Invariant == Spec => []IInv
<1>1. Init => IInv
  BY DEF Init, AccountsInit, IInv, TypeOK, AccountsTypeOK, Stored, Steps, Places, AccountInv,
     LoginInv, CallInv, CallOk, Issued, Passed, ReadYourRegistration, RefusedForCause
<1>2. IInv /\ [Next]_vars => IInv'
  BY TypeStep, AccountStep, LoginStep, CallStep, ReadStep, CauseStep DEF IInv
<1> QED
  BY <1>1, <1>2, PTL DEF Spec

\* The state of logins and calls always has its type.
THEOREM TypeCorrect == Spec => []TypeOK
BY Invariant, PTL DEF IInv

\* A registrant who was told of its account can log in with it, until somebody
\* saves over it.
THEOREM LoginAfterRegistration == Spec => []ReadYourRegistration
BY Invariant, PTL DEF IInv

\* A documented token is refused for a cause.
THEOREM NoIdleRefusal == Spec => []RefusedForCause
BY Invariant, PTL DEF IInv

\* A name has one account, whenever and however it is used, unless one that had
\* it was saved over.
THEOREM NameIsIdentity == Spec => []OneIdentity
<1>1. IInv => OneIdentity
  <2> SUFFICES ASSUME IInv, NEW l \in Logins, NEW m \in Logins, Issued(l), Issued(m),
                      Fold[entry[l].username] = Fold[entry[m].username],
                      found[l] \notin overwritten, found[m] \notin overwritten
               PROVE  found[l] = found[m]
    BY DEF OneIdentity
  <2>1. ReadInv(l) /\ ReadInv(m)
    BY DEF IInv, LoginInv
  <2>2. Clash(row[found[l]], row[found[m]])
    BY <2>1 DEF ReadInv, Clash, SameUsername
  <2> QED
    BY <2>1, <2>2 DEF IInv, AccountInv, ReadInv
<1> QED
  BY <1>1, Invariant, PTL

\* Every call past the guards, and every socket, acts for its token's owner.
THEOREM RightActor == Spec => []ActsForOwner
<1>1. IInv => ActsForOwner
  <2> SUFFICES ASSUME IInv, NEW k \in Calls, at[k] \in Passed
               PROVE  \E l \in Presented(k) :
                         /\ actor[k] = found[l] /\ actor[k] \in Stored
                         /\ Owned(l)
                         /\ actor[k] \in overwritten \/ row[actor[k]] = seen[l]
    BY DEF ActsForOwner
  <2> DEFINE l == ExtractToken(call[k])
  <2>1. l \in Presented(k) /\ l \in Logins /\ Issued(l) /\ actor[k] = found[l]
    BY ExtractedLogin DEF IInv, CallInv, CallOk
  <2>2. ReadInv(l) /\ PasswordMatches(l)
    BY <2>1 DEF IInv, LoginInv
  <2> QED
    BY <2>1, <2>2 DEF ReadInv, PasswordMatches, Owned
<1> QED
  BY <1>1, Invariant, PTL

\* An expired token opens nothing.
THEOREM NoLateEntry == Spec => []ExpiredOpensNothing
<1>1. IInv => ExpiredOpensNothing
  BY DEF IInv, CallInv, CallOk, ExpiredOpensNothing
<1> QED
  BY <1>1, Invariant, PTL

----------------------------------------------------------------------------
\* Logins and calls over the accounts registration was shown to implement.

\* No login, call, failure or clock tick writes an account: the users table is
\* module Accounts with sessions on top of it, as it was without them.
THEOREM SessionsUseAccounts == Spec => AccountsSpec
<1>1. Init => AccountsInit
  BY DEF Init
<1>2. [Next]_vars => [AccountsNext]_accountVars
  BY DEF Next, vars, Tick, Register, Finished, SendLogin, ServeLogin, Find, FindNobody, FindFails,
     Compare, RefusePassword, Sign, LoseLogin, Arrive, ServeCall, Validate, RefuseToken, Pass,
     Connect, SocketSend, GuardFails, HandshakeFails, LoseCall
<1> QED
  BY <1>1, <1>2, PTL DEF Spec, AccountsSpec

\* What Accounts promises the others: unique names and emails as MySQL compares
\* them, and nobody is told of an account that is not there.
THEOREM AccountsKeepPromise == AccountsSpec => [](AccountsTypeOK /\ AccountInv)
<1>1. AccountsInit => AccountsTypeOK /\ AccountInv
  BY DEF AccountsInit, AccountsTypeOK, AccountInv, Stored
<1>2. AccountsTypeOK /\ AccountInv /\ [AccountsNext]_accountVars => (AccountsTypeOK /\ AccountInv)'
  <2> SUFFICES ASSUME AccountsTypeOK, AccountInv, [AccountsNext]_accountVars
               PROVE  AccountsTypeOK'
    BY AccountsStep
  <2> QED
    BY DEF AccountsTypeOK, AccountsNext, accountVars, Create, Overwrite, Put, Welcome
<1> QED
  BY <1>1, <1>2, PTL DEF AccountsSpec

\* A token names one account, which stays, for as long as anybody may present
\* it; what is stored under it is what the login read, until it is saved over.
TokensAreFixed ==
    [][\A l \in Logins : Issued(l) =>
         /\ Issued(l)' /\ found'[l] = found[l] /\ seen'[l] = seen[l] /\ expiry'[l] = expiry[l]
         /\ found[l] \in Stored'
         /\ found[l] \in overwritten' \/ row'[found[l]] = seen[l]]_vars

\* Nothing revokes, renews or redirects a token.
THEOREM NothingRedirectsTokens == Spec => TokensAreFixed
<1> DEFINE Fixed ==
      \A l \in Logins : Issued(l) =>
         /\ Issued(l)' /\ found'[l] = found[l] /\ seen'[l] = seen[l] /\ expiry'[l] = expiry[l]
         /\ found[l] \in Stored'
         /\ found[l] \in overwritten' \/ row'[found[l]] = seen[l]
<1>1. IInv /\ [Next]_vars => Fixed
  <2> SUFFICES ASSUME IInv, [Next]_vars, NEW l \in Logins, Issued(l)
               PROVE  /\ Issued(l)' /\ found'[l] = found[l] /\ seen'[l] = seen[l]
                      /\ expiry'[l] = expiry[l]
                      /\ found[l] \in Stored'
                      /\ found[l] \in overwritten' \/ row'[found[l]] = seen[l]
    OBVIOUS
  <2>1. ReadInv(l) /\ Kept
    BY AccountStep DEF IInv, LoginInv
  <2> QED
    BY <2>1, TokensStay DEF IInv, ReadInv, Kept
<1> QED
  BY <1>1, Invariant, PTL DEF Spec, TokensAreFixed

----------------------------------------------------------------------------
\* What Answered needs besides fairness: a login without an answer is still
\* with a service, and so is a call, unless a service died with it; an error
\* comes from an RPC that failed, or from a creation without a token.
NobodyForgotten ==
    /\ \A l \in Logins : outcome[l] = "none" =>
         step[l] \in {"new", "finding", "comparing", "signing"} \/ "drop" \in Faults
    /\ \A k \in Calls : at[k] = "lost" => "drop" \in Faults
    /\ \A l \in Logins : outcome[l] = "error" => l \in failed
    /\ \A k \in Calls : at[k] = "error" => call[k].route = "create"
    /\ failed # {} => "rpc" \in Faults

\* A step that ends a login without dropping it answers it.
LEMMA AnsweredStep ==
    ASSUME TypeOK, NobodyForgotten, [Next]_vars
    PROVE  NobodyForgotten'
<1> USE DEF TypeOK, NobodyForgotten, Step, Answer, Move
<1>1. CASE UNCHANGED vars \/ Finished \/ Tick \/ Register
  BY <1>1 DEF vars, loginVars, callVars, Finished, Tick, Register
<1>2. ASSUME NEW l \in Logins, SendLogin(l) PROVE NobodyForgotten'
  BY <1>2 DEF SendLogin, callVars
<1>3. ASSUME NEW l \in Logins, ServeLogin(l) PROVE NobodyForgotten'
  BY <1>3 DEF ServeLogin, Find, FindNobody, Compare, RefusePassword, Sign, callVars
<1>4. ASSUME NEW l \in Logins, FindFails(l) \/ LoseLogin(l) PROVE NobodyForgotten'
  BY <1>4 DEF FindFails, LoseLogin, callVars
<1>5. ASSUME NEW k \in Calls, Arrive(k) PROVE NobodyForgotten'
  BY <1>5, UsesAssumption DEF Arrive, GuestAnswer, loginVars
<1>6. ASSUME NEW k \in Calls, ServeCall(k) \/ SocketSend(k) PROVE NobodyForgotten'
  BY <1>6 DEF ServeCall, Validate, RefuseToken, Pass, Connect, SocketSend, loginVars
<1>7. ASSUME NEW k \in Calls, GuardFails(k) \/ HandshakeFails(k) \/ LoseCall(k)
      PROVE  NobodyForgotten'
  BY <1>7 DEF GuardFails, HandshakeFails, LoseCall, loginVars
<1> QED
  BY <1>1, <1>2, <1>3, <1>4, <1>5, <1>6, <1>7 DEF Next

\* Nobody is left without an answer that nobody owes: the safety of Answered.
THEOREM NobodyIsForgotten == Spec => []NobodyForgotten
<1>1. Init => NobodyForgotten
  BY DEF Init, NobodyForgotten
<1>2. IInv /\ NobodyForgotten /\ [Next]_vars => NobodyForgotten'
  BY AnsweredStep DEF IInv
<1> QED
  BY <1>1, <1>2, Invariant, PTL DEF Spec

\* While every RPC is answered a token presented as documented is refused for
\* nothing but its age.
THEOREM OnlyAgeRefuses ==
    Spec => [](\A k \in Calls :
                 "rpc" \notin Faults /\ at[k] = "unauthorized" /\ Documented(call[k]) =>
                     \E l \in Presented(k) : expiry[l] <= now)
<1>1. RefusedForCause /\ NobodyForgotten =>
        \A k \in Calls :
          "rpc" \notin Faults /\ at[k] = "unauthorized" /\ Documented(call[k]) =>
             \E l \in Presented(k) : expiry[l] <= now
  BY DEF RefusedForCause, NobodyForgotten
<1> QED
  BY <1>1, NoIdleRefusal, NobodyIsForgotten, PTL
=============================================================================
