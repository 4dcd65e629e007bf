--------------------------- MODULE MCRegistration ---------------------------
\* Values for TLC of the constants of Registration that a .cfg cannot write.
EXTENDS Registration, TLC

CONSTANTS r1, r2, r3, r4

McRequests == {r1, r2, r3, r4}

\* Two spellings of one username, and another; case is what the collation
\* McFold ignores.
McNames == {"ann", "bob", "Bob"}
McEmails == {"x", "y"}
McPasswords == {"secret"}
McFold == [v \in McNames \cup McEmails |-> IF v = "Bob" THEN "bob" ELSE v]
McCut == [p \in McPasswords |-> p]

McBodies == RequestBodies

Body(name, mail, sent) ==
    [username |-> name, email |-> mail, password |-> "secret", id |-> sent, bearer |-> FALSE]

\* Somebody who is signed in, with an id made up by the client.
SignedIn == [Body("ann", "x", r4) EXCEPT !.bearer = TRUE]

\* What the requests carry.
Scenarios == {
    \* A chain of INSERTs: one waits for a made-up id of another, and that one
    \* for a third's email; the third has the first's name, spelled otherwise.
    <<Body("bob", "y", r4), Body("ann", "x", r4), Body("Bob", "x", None), SignedIn>>,
    \* An account, saved over twice from what each read.
    <<Body("ann", "x", None), Body("bob", "x", r1), Body("ann", "y", r1), SignedIn>>,
    \* An account is renamed while its old name is asked for.
    <<Body("ann", "x", None), Body("bob", "x", r1), Body("ann", "y", None), SignedIn>>,
    \* Two accounts exchange their names.
    <<Body("ann", "x", None), Body("bob", "y", None), Body("bob", "x", r1), Body("ann", "y", r2)>>}

McInit == /\ \E s \in Scenarios : body = (r1 :> s[1] @@ r2 :> s[2] @@ r3 :> s[3] @@ r4 :> s[4])
          /\ Init

\* One who is refused at once shares nothing with the others: first, then.
McFirst == \A r \in Requests : body[r].bearer => stage'[r] # "new"

McSpec == McInit /\ [][Next]_vars /\ \A r \in Requests : WF_vars(Serve(r))

AllFailures == Failures
=============================================================================
