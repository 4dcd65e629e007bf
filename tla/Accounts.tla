------------------------------ MODULE Accounts ------------------------------
(***************************************************************************)
(* What the users table promises the rest of the system: an account comes  *)
(* into being whole and stays, no two accounts share a username or an      *)
(* email as MySQL compares them, and a registrant is told of its account   *)
(* only once it is there.  What is stored under an id is not for good: a   *)
(* registration that carries the id of an account saves over it.           *)
(*                                                                         *)
(* Registration shows that auth.register, an RPC to the users service and  *)
(* a MySQL transaction there, implements this module; Sessions builds      *)
(* logins, tokens and guards on top of it.                                 *)
(***************************************************************************)
CONSTANTS Ids,        \* the uuids accounts get
          Names,      \* usernames as clients type them
          Emails,
          Passwords,
          Fold,       \* Fold[x]: what the columns' collation compares of x
          Cut,        \* Cut[p]: what bcrypt reads of p, its first 72 bytes
          None        \* no row, no account

\* The digest carries what compare can tell: the part of the password hashed.
Rows == [username : Names, email : Emails, digest : {Cut[p] : p \in Passwords}]

ASSUME FoldAssumption == DOMAIN Fold = Names \cup Emails
ASSUME CutAssumption == DOMAIN Cut = Passwords
ASSUME NoRowAssumption == None \notin Rows \cup Ids

VARIABLES row,         \* row[a]: what is stored under id a, None if nothing is
          welcomed,    \* ids whose registrant was answered with the account
          overwritten  \* (history) ids saved under again

accountVars == <<row, welcomed, overwritten>>

AccountsTypeOK == /\ row \in [Ids -> Rows \cup {None}]
                  /\ welcomed \subseteq Ids
                  /\ overwritten \subseteq Ids

AccountsInit == /\ row = [a \in Ids |-> None]
                /\ welcomed = {}
                /\ overwritten = {}

----------------------------------------------------------------------------
Stored == {a \in Ids : row[a] # None}

\* A plausible slip: a binary collation on the column.
MutBinary(x, y) == x.username = y.username

\* The two unique columns of UserEntity.
SameUsername(x, y) == Fold[x.username] = Fold[y.username]
SameEmail(x, y) == Fold[x.email] = Fold[y.email]
Clash(x, y) == SameUsername(x, y) \/ SameEmail(x, y)

Put(a, rw) == /\ \A b \in Stored \ {a} : ~Clash(rw, row[b])
              /\ row' = [row EXCEPT ![a] = rw]

Create(a, rw) ==
    /\ a \notin Stored
    /\ Put(a, rw)
    /\ UNCHANGED <<welcomed, overwritten>>

Overwrite(a, rw) ==
    /\ a \in Stored
    /\ Put(a, rw)
    /\ overwritten' = overwritten \cup {a}
    /\ UNCHANGED welcomed

Welcome(a) ==
    /\ a \in Stored
    /\ welcomed' = welcomed \cup {a}
    /\ UNCHANGED <<row, overwritten>>

AccountsNext ==
    \E a \in Ids : Welcome(a) \/ (\E rw \in Rows : Create(a, rw) \/ Overwrite(a, rw))

AccountsSpec == AccountsInit /\ [][AccountsNext]_accountVars
============================================================================
