----------------------------- MODULE MCSessions -----------------------------
\* Values for TLC of the constants of Sessions that a .cfg cannot write.
EXTENDS Sessions, TLC

\* Two spellings of one name; two passwords bcrypt cannot tell apart, and one.
McFold == [v \in Names \cup Emails |-> IF v = "Ann" THEN "ann" ELSE v]
McCut == [p \in Passwords |-> IF p = "long2" THEN "long1" ELSE p]

\* One credential, or a raw one in auth.token and another login's in the
\* header.
McUses == {p \in Presentations :
             /\ p.query # None => p.auth = None /\ p.header = None /\ p.query.scheme = "raw"
             /\ p.auth # None /\ p.header # None =>
                  /\ p.auth.login # p.header.login
                  /\ p.auth.scheme = "raw" /\ p.header.scheme = "Bearer"}

\* For the safety run, those with a token, on one of the HTTP routes or a socket.
McFewUses == {p \in McUses : /\ {p.auth, p.query, p.header} # {None}
                             /\ p.route \in {"chat", "socket"}}

\* No login asks for an email: the first account has "x", the second the other
\* one, and saving over an account keeps its email.  What clashing emails come
\* to is checked for Registration.
McRows == \A a \in Stored : /\ Stored = {a} => row[a].email = "x"
                            /\ row[a].digest = IF row[a].username = "Ann" THEN "long1" ELSE "short"

\* Nobody types "bob", the name an account may get meanwhile.  A login that is
\* refused at once, fails or is lost shows nothing, whatever was typed.
McEntries == \A l \in Logins : entry[l] # None =>
                 /\ entry[l].username # "bob" /\ ~entry[l].bearer
                 /\ outcome[l] = "error" \/ step[l] = "lost" =>
                      entry[l].username = "ann" /\ entry[l].password = "short"

\* Who is told of its account when every login is sent already, nobody sees.
McWelcome == welcomed' # welcomed => \E l \in Logins : step[l] = "new"

\* Logins share nothing but the accounts, the clock only matters to tokens, and
\* a call only to the tokens it comes with, all that were issued.  So logins come
\* one after the other, and a call after them and after the registrations, which
\* it does not read: what they stored by then is arbitrary.
UnderWay == {l \in Logins : step[l] \in {"finding", "comparing", "signing"}}
Sent == {l \in Logins : entry[l] # None}
Called == {k \in Calls : call[k] # None}
McOrder == /\ entry' # entry => UnderWay = {} /\ Called = {}
           /\ row' # row => Called = {}
           /\ now' # now => \E l \in Logins : Issued(l)
           /\ \A k \in Called' : call[k] = None => Sent = Presented(k)'

\* (bound) One account is saved over, once.
McOverwrites == \A a \in overwritten : row'[a] = row[a] /\ overwritten' = {a}

McStep == McRows' /\ McEntries' /\ McWelcome /\ McOrder /\ McOverwrites

Symmetry == Permutations(Ids) \cup Permutations(Logins)
=============================================================================
