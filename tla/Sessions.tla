------------------------------ MODULE Sessions ------------------------------
(***************************************************************************)
(* Logins, the tokens they issue, and the guards that decide for whom an   *)
(* HTTP call or a socket acts.  The accounts are those of module Accounts. *)
(*                                                                         *)
(* A login is an RPC of the gateway to auth, and one of auth to the users  *)
(* service; a call is validated by an RPC to auth before the gateway does  *)
(* anything with it, and a socket is validated once, when it connects.     *)
(* Nothing is stored for a token: it is good until it expires.  Time goes  *)
(* on between any two steps.                                               *)
(*                                                                         *)
(* A token is identified with the login that issued it.  What the chat     *)
(* service does with a forwarded call is in the modules about chat.        *)
(***************************************************************************)
EXTENDS Accounts, Naturals

CONSTANTS Logins,     \* one element per POST /auth/login
          Calls,      \* one per HTTP call or connection attempt of a client
          Lifetime,   \* expiresIn
          Uses,       \* how calls present tokens, a subset of Presentations
          MaxTime,    \* (bound) where the clock stops
          Faults      \* what may go wrong, a subset of Failures

Failures == {"rpc", "drop"}

ASSUME TimesAssumption == Lifetime \in Nat /\ MaxTime \in Nat
ASSUME NoneAssumption == None \notin Logins
ASSUME FaultsAssumption == Faults \subseteq Failures

\* LoginDto, and whether the request has an Authorization: Bearer header.
Entries == [username : Names, password : Passwords, bearer : BOOLEAN]

\* A token in one of the places a client may put it, raw or after "Bearer ".
Credentials == {None} \cup [login : Logins, scheme : {"raw", "Bearer"}]

\* GET /auth/me, the chat routes behind RolesGuard, POST /chat/conversations
\* without it, and the handshake.
Routes == {"me", "chat", "create", "socket"}

Presentations == {p \in [route : Routes, auth : Credentials, query : Credentials,
                         header : Credentials] :
                    p.route # "socket" => p.auth = None /\ p.query = None}

ASSUME UsesAssumption == Uses \subseteq Presentations

VARIABLES
    now,       \* the clock of the auth service
    entry,     \* entry[l]: what was typed, None before l is sent
    step,      \* step[l]: where login l stands
    found,     \* found[l]: the account whose password is compared
    seen,      \* seen[l]: its row, as the lookup read it
    expiry,    \* expiry[l]: exp of the token of l
    outcome,   \* outcome[l]: what the client was answered
    knew,      \* (history) knew[l]: accounts welcomed when l was sent
    call,      \* call[k]: route and credentials, None before k is sent
    at,        \* at[k]: where call k stands
    actor,     \* actor[k]: request.user.sub, or socket.data.user.sub
    arrival,   \* (history) arrival[k]: when k reached the gateway
    failed     \* (history) logins and calls one of whose RPCs failed

loginVars == <<entry, step, found, seen, expiry, outcome, knew>>
callVars == <<call, at, actor, arrival>>
vars == <<accountVars, now, loginVars, callVars, failed>>

Steps == {"new", "finding", "comparing", "signing", "done", "lost"}
Places == {"new", "validating", "validated", "forwarded", "connected",
           "answered", "unauthorized", "error", "lost"}

TypeOK ==
    /\ AccountsTypeOK
    /\ now \in Nat
    /\ entry \in [Logins -> Entries \cup {None}]
    /\ step \in [Logins -> Steps]
    /\ found \in [Logins -> Ids \cup {None}]
    /\ seen \in [Logins -> Rows \cup {None}]
    /\ expiry \in [Logins -> Nat]
    /\ outcome \in [Logins -> {"none", "token", "unauthorized", "error"}]
    /\ knew \in [Logins -> SUBSET Ids]
    /\ call \in [Calls -> Presentations \cup {None}]
    /\ at \in [Calls -> Places]
    /\ actor \in [Calls -> Ids \cup {None}]
    /\ arrival \in [Calls -> Nat]
    /\ failed \subseteq Logins \cup Calls

Init ==
    /\ AccountsInit
    /\ now = 0
    /\ entry = [l \in Logins |-> None]
    /\ step = [l \in Logins |-> "new"]
    /\ found = [l \in Logins |-> None]
    /\ seen = [l \in Logins |-> None]
    /\ expiry = [l \in Logins |-> 0]
    /\ outcome = [l \in Logins |-> "none"]
    /\ knew = [l \in Logins |-> {}]
    /\ call = [k \in Calls |-> None]
    /\ at = [k \in Calls |-> "new"]
    /\ actor = [k \in Calls |-> None]
    /\ arrival = [k \in Calls |-> 0]
    /\ failed = {}

Tick ==
    /\ now < MaxTime
    /\ now' = now + 1
    /\ UNCHANGED <<accountVars, loginVars, callVars, failed>>

Register ==
    /\ AccountsNext
    /\ UNCHANGED <<now, loginVars, callVars, failed>>

----------------------------------------------------------------------------
\* AuthService.login, called by AuthController.login of the gateway.

Step(l, from, to) == step[l] = from /\ step' = [step EXCEPT ![l] = to]
Answer(l, o) == outcome' = [outcome EXCEPT ![l] = o]

\* Guests only: a valid token is refused by GuestGard, another by AuthGuard.
SendLogin(l) ==
    \E e \in Entries :
        /\ entry' = [entry EXCEPT ![l] = e]
        /\ knew' = [knew EXCEPT ![l] = welcomed]
        /\ IF e.bearer THEN Step(l, "new", "done") /\ Answer(l, "unauthorized")
                       ELSE Step(l, "new", "finding") /\ UNCHANGED outcome
        /\ UNCHANGED <<accountVars, now, found, seen, expiry, callVars, failed>>

\* A plausible slip: what was typed is put in lower case, the column is not.
MutLowerCased(l) == {a \in Stored : row[a].username = Fold[entry[l].username]}

\* findOneBy: the WHERE compares as the column's collation does.  The row it
\* answers with is what auth compares the password with and signs a token for,
\* whatever is saved meanwhile.
Matching(l) == {a \in Stored : Fold[row[a].username] = Fold[entry[l].username]}

Find(l) ==
    /\ Step(l, "finding", "comparing")
    /\ \E a \in Matching(l) : /\ found' = [found EXCEPT ![l] = a]
                               /\ seen' = [seen EXCEPT ![l] = row[a]]
    /\ UNCHANGED <<accountVars, now, entry, expiry, outcome, knew, callVars, failed>>

FindNobody(l) ==
    /\ Step(l, "finding", "done")
    /\ Matching(l) = {}
    /\ Answer(l, "unauthorized")
    /\ UNCHANGED <<accountVars, now, entry, found, seen, expiry, knew, callVars, failed>>

\* The users service answers with an error, which auth passes on.
FindFails(l) ==
    /\ "rpc" \in Faults
    /\ Step(l, "finding", "done")
    /\ Answer(l, "error")
    /\ failed' = failed \cup {l}
    /\ UNCHANGED <<accountVars, now, entry, found, seen, expiry, knew, callVars>>

\* A plausible slip: bcrypt.compare not awaited; a promise is never false.
MutNotAwaited(l) == TRUE

\* bcrypt.compare
PasswordMatches(l) == Cut[entry[l].password] = seen[l].digest

Compare(l) ==
    /\ Step(l, "comparing", "signing")
    /\ PasswordMatches(l)
    /\ UNCHANGED <<accountVars, now, entry, found, seen, expiry, outcome, knew, callVars, failed>>

RefusePassword(l) ==
    /\ Step(l, "comparing", "done")
    /\ ~PasswordMatches(l)
    /\ Answer(l, "unauthorized")
    /\ UNCHANGED <<accountVars, now, entry, found, seen, expiry, knew, callVars, failed>>

\* The token carries the id of the account found, not what was typed.
Sign(l) ==
    /\ Step(l, "signing", "done")
    /\ expiry' = [expiry EXCEPT ![l] = now + Lifetime]
    /\ Answer(l, "token")
    /\ UNCHANGED <<accountVars, now, entry, found, seen, knew, callVars, failed>>

LoseLogin(l) ==
    /\ "drop" \in Faults
    /\ step[l] \in {"finding", "comparing", "signing"}
    /\ step' = [step EXCEPT ![l] = "lost"]
    /\ UNCHANGED <<accountVars, now, entry, found, seen, expiry, outcome, knew, callVars, failed>>

----------------------------------------------------------------------------
\* The guards of the HTTP routes and the middleware of the sockets.

Issued(l) == outcome[l] = "token"
ViaSocket(k) == call[k].route = "socket"

\* extractTokenFromHeader, extractBearerToken
HeaderToken(p) == IF p.header # None /\ p.header.scheme = "Bearer" THEN p.header.login ELSE None

\* A plausible slip: the optional prefix not stripped from auth.token.
MutNotStripped(p) == IF p.auth # None THEN IF p.auth.scheme = "raw" THEN p.auth.login ELSE None
                     ELSE IF p.query # None THEN p.query.login ELSE HeaderToken(p)

\* extractToken: the first of auth.token, query.token and the header; the
\* prefix is optional in the first two.
ExtractToken(p) == IF p.auth # None THEN p.auth.login
                   ELSE IF p.query # None THEN p.query.login ELSE HeaderToken(p)

Move(k, from, to) == at[k] = from /\ at' = [at EXCEPT ![k] = to]

\* Without a token there is no user: AuthGuard lets the call pass and
\* RolesGuard refuses it; createConversation has no RolesGuard and reads
\* user.sub of undefined.  The middleware refuses the socket itself.
GuestAnswer(p) == IF p.route = "create" THEN "error" ELSE "unauthorized"

Arrive(k) ==
    \E p \in Uses :
        /\ \A c \in {p.auth, p.query, p.header} \ {None} : Issued(c.login)
        /\ call' = [call EXCEPT ![k] = p]
        /\ Move(k, "new", IF ExtractToken(p) = None THEN GuestAnswer(p) ELSE "validating")
        /\ arrival' = [arrival EXCEPT ![k] = now]
        /\ UNCHANGED <<accountVars, now, loginVars, actor, failed>>

\* A plausible slip: decode in place of verify.
MutDecoded(l) == TRUE

\* verifyAsync
Verifies(l) == now < expiry[l]

\* validateToken answers with the payload of the token.
Validate(k) ==
    /\ Move(k, "validating", "validated")
    /\ LET l == ExtractToken(call[k])
       IN  Verifies(l) /\ actor' = [actor EXCEPT ![k] = found[l]]
    /\ UNCHANGED <<accountVars, now, loginVars, call, arrival, failed>>

RefuseToken(k) ==
    /\ Move(k, "validating", "unauthorized")
    /\ ~Verifies(ExtractToken(call[k]))
    /\ UNCHANGED <<accountVars, now, loginVars, call, actor, arrival, failed>>

\* AuthGuard takes any error of the RPC for an invalid token.
GuardFails(k) ==
    /\ "rpc" \in Faults
    /\ Move(k, "validating", "unauthorized")
    /\ ~ViaSocket(k)
    /\ failed' = failed \cup {k}
    /\ UNCHANGED <<accountVars, now, loginVars, call, actor, arrival>>

\* A plausible slip: a middleware that does not catch, and never calls next.
MutUncaught(k) ==
    /\ "rpc" \in Faults
    /\ at[k] \in {"validating", "validated"}
    /\ ViaSocket(k)
    /\ at' = [at EXCEPT ![k] = "lost"]
    /\ failed' = failed \cup {k}
    /\ UNCHANGED <<accountVars, now, loginVars, call, actor, arrival>>

\* Either RPC of the middleware fails: validateToken or myConversationIds.
HandshakeFails(k) ==
    /\ "rpc" \in Faults
    /\ at[k] \in {"validating", "validated"}
    /\ ViaSocket(k)
    /\ at' = [at EXCEPT ![k] = "unauthorized"]
    /\ failed' = failed \cup {k}
    /\ UNCHANGED <<accountVars, now, loginVars, call, actor, arrival>>

\* GET /auth/me answers with the payload, the chat routes send it on.
Pass(k) ==
    /\ Move(k, "validated", IF call[k].route = "me" THEN "answered" ELSE "forwarded")
    /\ ~ViaSocket(k)
    /\ UNCHANGED <<accountVars, now, loginVars, call, actor, arrival, failed>>

\* myConversationIds is answered; whether the token expired meanwhile is not
\* looked at, nor is it when the socket sends (WsJwtGuard reads data.user).
Connect(k) ==
    /\ Move(k, "validated", "connected")
    /\ ViaSocket(k)
    /\ UNCHANGED <<accountVars, now, loginVars, call, actor, arrival, failed>>

SocketSend(k) ==
    /\ Move(k, "connected", "forwarded")
    /\ actor[k] # None
    /\ UNCHANGED <<accountVars, now, loginVars, call, actor, arrival, failed>>

\* A service dies with the RPC, which has no timeout.
LoseCall(k) ==
    /\ "drop" \in Faults
    /\ at[k] \in {"validating", "validated"}
    /\ at[k] = "validated" => ViaSocket(k)
    /\ at' = [at EXCEPT ![k] = "lost"]
    /\ UNCHANGED <<accountVars, now, loginVars, call, actor, arrival, failed>>

----------------------------------------------------------------------------
ServeLogin(l) == Find(l) \/ FindNobody(l) \/ Compare(l) \/ RefusePassword(l) \/ Sign(l)
ServeCall(k) == Validate(k) \/ RefuseToken(k) \/ Pass(k) \/ Connect(k)

\* Nothing left to do.
Finished ==
    /\ now = MaxTime
    /\ \A l \in Logins : step[l] \in {"done", "lost"}
    /\ \A k \in Calls : at[k] \notin {"new", "validating", "validated", "connected"}
    /\ UNCHANGED vars

Next ==
    \/ Tick \/ Register \/ Finished
    \/ \E l \in Logins : SendLogin(l) \/ ServeLogin(l) \/ FindFails(l) \/ LoseLogin(l)
    \/ \E k \in Calls : \/ Arrive(k) \/ ServeCall(k) \/ SocketSend(k)
                        \/ GuardFails(k) \/ HandshakeFails(k) \/ LoseCall(k)

Spec == Init /\ [][Next]_vars

\* The services answer what they are asked; clients, failures and time are
\* under no obligation.
FairSpec == /\ Spec
            /\ \A l \in Logins : WF_vars(ServeLogin(l))
            /\ \A k \in Calls : WF_vars(ServeCall(k))

----------------------------------------------------------------------------
\* Safety

\* Who was told of its account before it logs in is let in with the name and
\* the password it registered with, whatever else registers meanwhile: the
\* lookup reads what the registration committed, and nobody else is found
\* under the name.  Only a registration with the same id takes that away.
ReadYourRegistration ==
    \A l \in Logins :
        outcome[l] = "unauthorized" /\ ~entry[l].bearer =>
            \A a \in knew[l] \ overwritten : ~(/\ row[a].username = entry[l].username
                                               /\ row[a].digest = Cut[entry[l].password])

\* However a name is spelled, all tokens issued for it, at whatever time, are
\* for one account, unless a registration saved over one of theirs and freed
\* the name.
OneIdentity ==
    \A l, m \in Logins :
        Issued(l) /\ Issued(m) /\ Fold[entry[l].username] = Fold[entry[m].username]
            => \/ found[l] = found[m]
               \/ {found[l], found[m]} \cap overwritten # {}

Passed == {"validated", "forwarded", "connected", "answered"}

Presented(k) == {c.login : c \in {call[k].auth, call[k].query, call[k].header} \ {None}}

\* The name and the password typed are those of the row that was read.
Owned(l) == /\ Fold[seen[l].username] = Fold[entry[l].username]
            /\ seen[l].digest = Cut[entry[l].password]

\* A call that gets past the guards, or a socket that connects and sends, acts
\* for the stored account of one of the tokens it came with, which somebody
\* obtained with the name and the password that account had; it has them still
\* unless it was saved over.
ActsForOwner ==
    \A k \in Calls : at[k] \in Passed =>
        \E l \in Presented(k) :
            /\ actor[k] = found[l] /\ actor[k] \in Stored
            /\ Owned(l)
            /\ actor[k] \in overwritten \/ row[actor[k]] = seen[l]

\* A token that had expired when the call reached the gateway opens nothing,
\* however late it is looked at; one that expires afterwards may.
ExpiredOpensNothing ==
    \A k \in Calls : at[k] \in Passed => \E l \in Presented(k) : arrival[k] < expiry[l]

\* One token, in a place where the README says it is accepted.
Documented(p) ==
    \/ p.header # None /\ p.header.scheme = "Bearer" /\ p.auth = None /\ p.query = None
    \/ p.auth # None /\ p.query = None /\ p.header = None
    \/ p.query # None /\ p.query.scheme = "raw" /\ p.auth = None /\ p.header = None

\* A client that presents a token as documented is refused only if the token
\* expired by now or a service failed.
RefusedForCause ==
    \A k \in Calls :
        at[k] = "unauthorized" /\ Documented(call[k]) =>
            k \in failed \/ \E l \in Presented(k) : expiry[l] <= now

----------------------------------------------------------------------------
\* Liveness, under FairSpec

\* As long as no service dies with an RPC, every login is answered, every call
\* passed on or refused and every handshake ended, whichever RPC fails.
Answered ==
    /\ \A l \in Logins : step[l] = "finding" ~> outcome[l] # "none"
    /\ \A k \in Calls : at[k] = "validating" ~> at[k] \in (Passed \ {"validated"}) \cup {"unauthorized"}
============================================================================
