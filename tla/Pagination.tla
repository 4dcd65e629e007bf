----------------------------- MODULE Pagination -----------------------------
(***************************************************************************)
(* ChatService.myConversations: a user walks through the conversations it  *)
(* participates in, newest first, one page per call, each call carrying    *)
(* the nextCursor of the one before.  The service keeps nothing between    *)
(* calls, and conversations are committed at any time, with an updatedAt   *)
(* taken before their transaction began: possibly one the walk has passed. *)
(*                                                                         *)
(* A call has two awaits: the aggregation that finds the page, and the     *)
(* lookup of the private conversations' peers in the users service, whose  *)
(* failure loses the page.  What the page says of a conversation is left   *)
(* out, and so are the conversations of other users.                       *)
(***************************************************************************)
EXTENDS Naturals, FiniteSets

CONSTANTS Ids,        \* ObjectIds, ordered as the numbers they are
          Private,    \* those of private conversations
          MaxLimit,   \* largest page, 100 in the code
          MaxTime,    \* (bound) largest updatedAt
          Null        \* nextCursor: null, and no cursor in the query

Times == 1..MaxTime

\* encodeCursor writes the milliseconds MongoDB stores, so nothing is lost.
Cursors == [updatedAt : Times, id : Ids]

ASSUME IdsAssumption == Ids \subseteq Nat /\ IsFiniteSet(Ids)
ASSUME BoundsAssumption == MaxLimit \in Nat \ {0} /\ MaxTime \in Nat \ {0}
ASSUME NullAssumption == Null \notin Cursors

VARIABLES
    updatedAt,   \* updatedAt[c]: of the committed conversation c, 0 if c is not there
    walk,        \* where the client stands: "idle", "found", "ended"
    cursor,      \* the cursor its next call carries
    page,        \* conversations of the page under way
    nextCursor,  \* and its pagination.nextCursor
    seen,        \* conversations of the pages it was given in this walk
    before       \* (history) conversations there were when the walk began

vars == <<updatedAt, walk, cursor, page, nextCursor, seen, before>>

Stored == {c \in Ids : updatedAt[c] # 0}

TypeOK ==
    /\ updatedAt \in [Ids -> 0..MaxTime]
    /\ walk \in {"idle", "found", "ended"}
    /\ cursor \in Cursors \cup {Null}
    /\ page \subseteq Stored
    /\ nextCursor \in Cursors \cup {Null}
    /\ seen \subseteq Stored
    /\ before \subseteq Stored

Init ==
    /\ updatedAt \in [Ids -> 0..MaxTime]
    /\ walk = "idle"
    /\ cursor = Null
    /\ page = {}
    /\ nextCursor = Null
    /\ seen = {}
    /\ before = Stored

----------------------------------------------------------------------------
\* $sort: { updatedAt: -1, _id: -1 }
Precedes(c, d) == \/ updatedAt[c] > updatedAt[d]
                  \/ updatedAt[c] = updatedAt[d] /\ c > d

\* Two plausible slips: $lt on updatedAt alone, and $lte on the _id.
MutTiesLost(c, k) == k = Null \/ updatedAt[c] < k.updatedAt
MutInclusive(c, k) == \/ k = Null
                      \/ updatedAt[c] < k.updatedAt
                      \/ updatedAt[c] = k.updatedAt /\ c <= k.id

\* cursorMatch
After(c, k) == \/ k = Null
               \/ updatedAt[c] < k.updatedAt
               \/ updatedAt[c] = k.updatedAt /\ c < k.id

\* The first n of S in that order: $limit, and slice(0, n).
First(S, n) == {c \in S : Cardinality({d \in S : Precedes(d, c)}) < n}

\* encodeCursor
EncodeCursor(c) == [updatedAt |-> updatedAt[c], id |-> c]

\* A plausible slip: a cursor whenever the page has a last item.
MutAlwaysCursor(found, limit) == found # {}
HasMore(found, limit) == Cardinality(found) > limit

----------------------------------------------------------------------------
\* createConversation of this user or with it, seen from here.
Store(c, t) ==
    /\ updatedAt[c] = 0
    /\ updatedAt' = [updatedAt EXCEPT ![c] = t]
    /\ UNCHANGED <<walk, cursor, page, nextCursor, seen, before>>

\* A call up to the end of the aggregation.  limit is in 1..MaxLimit: the
\* gateway's DTO admits no other value and the service clamps to this range.
FindPage(limit) ==
    /\ walk = "idle"
    /\ walk' = "found"
    /\ LET found == First({c \in Stored : After(c, cursor)}, limit + 1)
       IN  /\ page' = First(found, limit)
           /\ \/ /\ HasMore(found, limit)
                 /\ \E last \in page' :
                      /\ \A c \in page' : c = last \/ Precedes(c, last)
                      /\ nextCursor' = EncodeCursor(last)
              \/ /\ ~HasMore(found, limit)
                 /\ nextCursor' = Null
    /\ UNCHANGED <<updatedAt, cursor, seen, before>>

\* The peers are found, the client gets its page.
Answer ==
    /\ walk = "found"
    /\ walk' = IF nextCursor = Null THEN "ended" ELSE "idle"
    /\ seen' = seen \cup page
    /\ cursor' = nextCursor
    /\ page' = {}
    /\ nextCursor' = Null
    /\ UNCHANGED <<updatedAt, before>>

\* findUsersByIds throws; it is only called for private conversations.  The
\* client may repeat its call with the cursor it has.
PeersFail ==
    /\ walk = "found"
    /\ page \cap Private # {}
    /\ walk' = "idle"
    /\ page' = {}
    /\ nextCursor' = Null
    /\ UNCHANGED <<updatedAt, cursor, seen, before>>

\* The client starts again, whether or not it came to the end.
Restart ==
    /\ walk \in {"idle", "ended"}
    /\ walk' = "idle"
    /\ cursor' = Null
    /\ seen' = {}
    /\ before' = Stored
    /\ UNCHANGED <<updatedAt, page, nextCursor>>

Next ==
    \/ \E c \in Ids, t \in Times : Store(c, t)
    \/ \E limit \in 1..MaxLimit : FindPage(limit)
    \/ Answer
    \/ PeersFail
    \/ Restart

Spec == Init /\ [][Next]_vars

----------------------------------------------------------------------------
\* Safety

\* What a page brings comes strictly after everything the client has: pages
\* never overlap, and their concatenation is sorted, also when updatedAt ties
\* and when conversations appear between two calls.
PagesInOrder ==
    walk = "found" => \A c \in seen, d \in page : Precedes(c, d)

\* A conversation that was there when the walk began is in a page given, or is
\* still ahead of the cursor; when the walk ends nothing of it is missing.
NothingSkipped ==
    /\ walk = "idle" => \A c \in before \ seen : After(c, cursor)
    /\ walk = "found" => \A c \in before \ (seen \cup page) :
                           nextCursor # Null /\ After(c, nextCursor)
    /\ walk = "ended" => before \subseteq seen

\* hasMore is true: a client that holds a cursor finds at least one
\* conversation behind it, whatever was committed since.
MoreIsThere ==
    cursor # Null /\ walk = "idle" => \E c \in Stored : After(c, cursor)
============================================================================
