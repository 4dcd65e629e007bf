-------------------------- MODULE PaginationProofs --------------------------
(***************************************************************************)
(* Proofs about module Pagination.  The order of the conversations is a    *)
(* strict total order, so First takes a prefix of it; with that, what lies *)
(* before a cursor has been seen and what lies after it has not.           *)
(***************************************************************************)
EXTENDS Pagination, FiniteSetTheorems, WellFoundedInduction, TLAPS

\* A cursor stands for a stored conversation and what it carries is current.
Faithful(k) == k # Null => k.id \in Stored /\ updatedAt[k.id] = k.updatedAt

\* The cursor of the next call: all that was seen is at it or before it, and
\* all that was there and was not seen is after it.
CursorInv ==
    /\ Faithful(cursor)
    /\ walk # "ended" => /\ \A c \in seen : cursor # Null /\ ~After(c, cursor)
                         /\ \A c \in before \ seen : After(c, cursor)
    /\ cursor # Null => \E c \in Stored : After(c, cursor)
    /\ walk = "ended" => cursor = Null

\* The page under way: it lies between the two cursors.
PageInv ==
    /\ Faithful(nextCursor)
    /\ walk # "found" => page = {} /\ nextCursor = Null
    /\ \A c \in page : After(c, cursor)
    /\ nextCursor # Null =>
         /\ \A c \in page \cup seen : ~After(c, nextCursor)
         /\ \E c \in Stored : After(c, nextCursor)

IInv == TypeOK /\ CursorInv /\ PageInv /\ NothingSkipped

----------------------------------------------------------------------------
\* Precedes is irreflexive, total and transitive on conversations.
LEMMA Order ==
    ASSUME updatedAt \in [Ids -> 0..MaxTime]
    PROVE  /\ \A c \in Ids : ~Precedes(c, c)
           /\ \A c, d \in Ids : c = d \/ Precedes(c, d) \/ Precedes(d, c)
           /\ \A c, d, e \in Ids : Precedes(c, d) /\ Precedes(d, e) => Precedes(c, e)
<1>1. \A c \in Ids : c \in Nat /\ updatedAt[c] \in Nat
  BY IdsAssumption, BoundsAssumption
<1> QED  BY <1>1 DEF Precedes

\* First(S, n) is a prefix of S: whatever it leaves out comes after all of it.
LEMMA Prefix ==
    ASSUME updatedAt \in [Ids -> 0..MaxTime],
           NEW S \in SUBSET Ids, NEW n \in Nat,
           NEW c \in S \ First(S, n), NEW d \in First(S, n)
    PROVE  Precedes(d, c)
<1> DEFINE earlier(x) == {y \in S : Precedes(y, x)}
<1>1. IsFiniteSet(S)
  BY IdsAssumption, FS_Subset
<1>2. /\ IsFiniteSet(earlier(c)) /\ Cardinality(earlier(c)) \in Nat
      /\ IsFiniteSet(earlier(d)) /\ Cardinality(earlier(d)) \in Nat
  BY <1>1, FS_Subset, FS_CardinalityType
<1>3. d \in S /\ Cardinality(earlier(d)) < n /\ ~(Cardinality(earlier(c)) < n)
  BY DEF First
<1>4. c # d
  BY <1>3
<1>5. SUFFICES ASSUME Precedes(c, d) PROVE FALSE
  BY <1>3, <1>4, Order
<1>6. earlier(c) \subseteq earlier(d)
  BY <1>3, <1>5, Order
<1>7. Cardinality(earlier(c)) <= Cardinality(earlier(d))
  BY <1>2, <1>6, FS_Subset
<1> QED  BY <1>2, <1>3, <1>7

\* If fewer than n come out of First(S, n), nothing was left out.
LEMMA Exhausted ==
    ASSUME updatedAt \in [Ids -> 0..MaxTime],
           NEW S \in SUBSET Ids, NEW n \in Nat,
           Cardinality(First(S, n)) < n
    PROVE  First(S, n) = S
<1> DEFINE earlier(x) == {y \in S : Precedes(y, x)}
           Left == S \ First(S, n)
           T == {earlier(x) : x \in Left}
<1>1. IsFiniteSet(S) /\ First(S, n) \subseteq S /\ IsFiniteSet(First(S, n))
  BY IdsAssumption, FS_Subset DEF First
<1>2. SUFFICES ASSUME Left # {} PROVE FALSE
  BY <1>1
<1>3. T \subseteq FiniteSubsetsOf(Ids) /\ T # {}
  <2>1. \A x \in Left : earlier(x) \in SUBSET S /\ IsFiniteSet(earlier(x))
    BY <1>1, FS_Subset
  <2>2. \A x \in Left : earlier(x) \in FiniteSubsetsOf(Ids)
    BY <2>1 DEF FiniteSubsetsOf
  <2> HIDE DEF earlier, Left
  <2> QED  BY <1>2, <2>2
<1>4. PICK p \in T : \A q \in T : ~(<<q, p>> \in StrictSubsetOrdering(Ids))
  <2> HIDE DEF T
  <2> QED  BY <1>3, FS_StrictSubsetOrderingWellFounded, WFMin
<1>5. PICK c \in Left : p = earlier(c)
  OBVIOUS
<1>6. p \subseteq First(S, n)
  <2>1. SUFFICES ASSUME NEW d \in p, d \in Left PROVE FALSE
    BY <1>5
  <2>2. earlier(d) \subseteq p /\ d \notin earlier(d)
    BY <1>1, <1>5, <2>1, Order
  <2>3. earlier(d) \in T /\ earlier(d) \subseteq Ids /\ p \subseteq Ids /\ earlier(d) # p
    BY <1>5, <2>1, <2>2
  <2>4. <<earlier(d), p>> \in StrictSubsetOrdering(Ids)
    BY <2>2, <2>3 DEF StrictSubsetOrdering
  <2> QED  BY <1>4, <2>3, <2>4
<1>7. /\ Cardinality(p) <= Cardinality(First(S, n))
      /\ Cardinality(p) \in Nat /\ Cardinality(First(S, n)) \in Nat
  BY <1>1, <1>6, FS_Subset, FS_CardinalityType
<1>8. ~(Cardinality(p) < n)
  BY <1>5 DEF First
<1> QED  BY <1>7, <1>8


----------------------------------------------------------------------------
\* What FindPage finds: every element of the page is after the cursor, and what
\* it leaves out is after all of it; without hasMore nothing is left out.
LEMMA Found ==
    ASSUME TypeOK, NEW limit \in 1..MaxLimit
    PROVE  LET S == {c \in Stored : After(c, cursor)}
               found == First(S, limit + 1)
               P == First(found, limit)
           IN  /\ P \subseteq S
               /\ \A c \in S \ P, d \in P : Precedes(d, c)
               /\ ~HasMore(found, limit) => P = S
               /\ \A last \in P : HasMore(found, limit)
                                 /\ (\A c \in P : c = last \/ Precedes(c, last))
                                 => \E c \in S \ P : TRUE
<1> DEFINE S == {c \in Stored : After(c, cursor)}
           found == First(S, limit + 1)
           P == First(found, limit)
<1>1. /\ updatedAt \in [Ids -> 0..MaxTime]
      /\ limit \in Nat /\ limit + 1 \in Nat
      /\ S \in SUBSET Ids
  BY BoundsAssumption DEF TypeOK, Stored
<1> HIDE DEF S
<1>2. found \subseteq S /\ P \subseteq found
  BY DEF First
<1>3. /\ IsFiniteSet(S) /\ IsFiniteSet(found) /\ IsFiniteSet(P)
      /\ Cardinality(found) \in Nat /\ Cardinality(P) \in Nat
  BY <1>1, <1>2, IdsAssumption, FS_Subset, FS_CardinalityType
<1>4. ASSUME NEW c \in S \ P, NEW d \in P PROVE Precedes(d, c)
  <2>1. CASE c \in found
    <3> HIDE DEF found
    <3> QED  BY <1>1, <1>2, <2>1, Prefix
  <2>2. CASE c \notin found
    BY <1>1, <1>2, <2>2, Prefix
  <2> QED  BY <2>1, <2>2
<1>5. ASSUME ~HasMore(found, limit) PROVE P = S
  <2>1. Cardinality(found) < limit + 1
    BY <1>1, <1>3, <1>5 DEF HasMore
  <2>2. found = S
    BY <1>1, <2>1, Exhausted
  <2>3. ASSUME NEW c \in found PROVE c \in P
    <3>1. {d \in found : Precedes(d, c)} \subseteq found \ {c}
      BY <1>1, <1>2, Order
    <3>2. /\ IsFiniteSet(found \ {c})
          /\ Cardinality(found \ {c}) = Cardinality(found) - 1
      BY <1>3, <2>3, FS_RemoveElement
    <3>3. /\ Cardinality({d \in found : Precedes(d, c)}) <= Cardinality(found \ {c})
          /\ Cardinality({d \in found : Precedes(d, c)}) \in Nat
      BY <3>1, <3>2, FS_Subset, FS_CardinalityType
    <3>4. Cardinality({d \in found : Precedes(d, c)}) < limit
      BY <1>1, <1>3, <2>1, <3>2, <3>3
    <3> QED  BY <2>3, <3>4 DEF First
  <2> QED  BY <1>2, <2>2, <2>3
<1>6. ASSUME NEW last \in P, HasMore(found, limit),
             \A c \in P : c = last \/ Precedes(c, last)
      PROVE  S \ P # {}
  <2> DEFINE preds == {d \in found : Precedes(d, last)}
  <2>1. Cardinality(preds) < limit
    BY DEF First
  <2>2. IsFiniteSet(preds) /\ Cardinality(preds) \in Nat
    BY <1>3, FS_Subset, FS_CardinalityType
  <2>3. P \subseteq preds \cup {last}
    BY <1>2, <1>6
  <2>4. /\ IsFiniteSet(preds \cup {last})
        /\ Cardinality(preds \cup {last}) <= Cardinality(preds) + 1
    <3> HIDE DEF preds, P
    <3>1. /\ IsFiniteSet(preds \cup {last})
          /\ Cardinality(preds \cup {last})
               = IF last \in preds THEN Cardinality(preds) ELSE Cardinality(preds) + 1
      BY <2>2, FS_AddElement
    <3> QED  BY <2>2, <3>1
  <2>5. Cardinality(P) <= Cardinality(preds \cup {last})
    BY <2>3, <2>4, FS_Subset
  <2>6. Cardinality(preds \cup {last}) \in Nat
    BY <2>4, FS_CardinalityType
  <2>7. Cardinality(P) < Cardinality(found)
    <3> HIDE DEF preds, found
    <3> QED  BY <1>1, <1>3, <1>6, <2>1, <2>2, <2>4, <2>5, <2>6 DEF HasMore
  <2> QED  BY <1>2, <2>7, <1>3
<1> QED  BY <1>2, <1>4, <1>5, <1>6 DEF S

----------------------------------------------------------------------------
\* The initial states satisfy the invariant.
LEMMA InitStep == Init => IInv
BY BoundsAssumption, NullAssumption
   DEF Init, IInv, TypeOK, Stored, CursorInv, PageInv, NothingSkipped, Faithful, After

\* A conversation that appears changes the place of no other.
LEMMA StoreStep ==
    ASSUME IInv, NEW c \in Ids, NEW t \in Times, Store(c, t)
    PROVE  IInv'
<1>1. /\ TypeOK
      /\ updatedAt' = [updatedAt EXCEPT ![c] = t]
      /\ updatedAt' \in [Ids -> 0..MaxTime]
      /\ t # 0 /\ updatedAt[c] = 0
  BY BoundsAssumption DEF IInv, TypeOK, Store, Times
<1>2. /\ Stored' = Stored \cup {c}
      /\ \A x \in Stored : updatedAt'[x] = updatedAt[x]
  BY <1>1 DEF TypeOK, Stored
<1>3. UNCHANGED <<walk, cursor, page, nextCursor, seen, before>>
  BY DEF Store
<1>4. \A x \in Stored : After(x, cursor)' <=> After(x, cursor)
  BY <1>2, <1>3 DEF After
<1>5. \A x \in Stored : After(x, nextCursor)' <=> After(x, nextCursor)
  BY <1>2, <1>3 DEF After
<1>6. TypeOK'
  BY <1>1, <1>2, <1>3 DEF TypeOK
<1>7. page \subseteq Stored /\ seen \subseteq Stored /\ before \subseteq Stored
  BY <1>1 DEF TypeOK
<1>8. Faithful(cursor)' /\ Faithful(nextCursor)'
  BY <1>2, <1>3 DEF IInv, CursorInv, PageInv, Faithful
<1>9. CursorInv'
  BY <1>2, <1>3, <1>4, <1>7, <1>8 DEF IInv, CursorInv
<1>10. PageInv'
  BY <1>2, <1>3, <1>4, <1>5, <1>7, <1>8 DEF IInv, PageInv
<1>11. NothingSkipped'
  BY <1>3, <1>4, <1>5, <1>7 DEF IInv, NothingSkipped
<1> QED  BY <1>6, <1>9, <1>10, <1>11 DEF IInv

\* The page takes the next conversations after the cursor and leaves none of
\* them behind the cursor it hands out.
LEMMA FindPageStep ==
    ASSUME IInv, NEW limit \in 1..MaxLimit, FindPage(limit)
    PROVE  IInv'
<1> DEFINE S == {c \in Stored : After(c, cursor)}
           found == First(S, limit + 1)
           P == First(found, limit)
<1>1. /\ TypeOK /\ CursorInv /\ PageInv /\ NothingSkipped
      /\ walk = "idle" /\ walk' = "found"
      /\ UNCHANGED <<updatedAt, cursor, seen, before>>
      /\ Stored' = Stored
  BY DEF IInv, FindPage, Stored
<1>2. /\ page' = P
      /\ \/ /\ HasMore(found, limit)
            /\ \E last \in P : /\ \A c \in P : c = last \/ Precedes(c, last)
                              /\ nextCursor' = EncodeCursor(last)
         \/ ~HasMore(found, limit) /\ nextCursor' = Null
  BY DEF FindPage
<1>3. /\ P \subseteq S
      /\ \A c \in S \ P, d \in P : Precedes(d, c)
      /\ ~HasMore(found, limit) => P = S
      /\ \A last \in P : HasMore(found, limit)
                        /\ (\A c \in P : c = last \/ Precedes(c, last))
                        => \E c \in S \ P : TRUE
  BY <1>1, Found
<1> HIDE DEF P, found
<1>4. \A c \in Stored : c \in Nat /\ updatedAt[c] \in Times /\ updatedAt[c] \in Nat
  BY <1>1, IdsAssumption, BoundsAssumption DEF TypeOK, Stored, Times
<1>5. \A c \in Stored : After(c, cursor)' <=> After(c, cursor)
  BY <1>1 DEF After
<1>6. S \subseteq Stored /\ page' \subseteq S
  BY <1>2, <1>3
<1>7. ASSUME nextCursor' # Null
      PROVE  /\ nextCursor' \in Cursors
             /\ Faithful(nextCursor)'
             /\ \A c \in page' : ~After(c, nextCursor)'
             /\ \A c \in S \ page' : After(c, nextCursor)'
             /\ \E c \in S \ page' : TRUE
             /\ \A c \in seen : ~After(c, nextCursor)'
  <2>1. PICK last \in P : /\ \A c \in P : c = last \/ Precedes(c, last)
                          /\ nextCursor' = EncodeCursor(last)
    BY <1>2, <1>7
  <2>2. /\ last \in Stored /\ last \in Ids
        /\ nextCursor' = [updatedAt |-> updatedAt[last], id |-> last]
    BY <1>6, <1>2, <2>1 DEF EncodeCursor, Stored
  <2>3. nextCursor' \in Cursors /\ Faithful(nextCursor)'
    BY <1>1, <1>4, <2>2 DEF Cursors, Faithful
  <2>4. \A c \in Stored : After(c, nextCursor)' <=> Precedes(last, c)
    <3>1. \A c \in Stored : After(c, nextCursor)' <=>
            \/ updatedAt[c] < updatedAt[last]
            \/ updatedAt[c] = updatedAt[last] /\ c < last
      BY <1>1, <1>7, <2>2 DEF After
    <3> QED  BY <1>4, <2>2, <3>1 DEF Precedes
  <2>5. \A c \in page' : ~After(c, nextCursor)'
    <3>1. \A c \in P : ~Precedes(last, c)
      BY <1>1, <1>2, <1>6, <2>1, Order DEF TypeOK, Stored
    <3> QED  BY <1>2, <1>6, <2>4, <3>1
  <2>6. \A c \in S \ page' : After(c, nextCursor)'
    BY <1>2, <1>3, <1>6, <2>4
  <2>7. \E c \in S \ page' : TRUE
    BY <1>2, <1>3, <1>7, <2>1
  <2>8. ASSUME NEW c \in seen PROVE ~After(c, nextCursor)'
    <3>1. c \in Stored /\ cursor # Null /\ ~After(c, cursor)
      BY <1>1 DEF CursorInv, TypeOK
    <3>2. After(last, cursor)
      BY <1>3, <2>1
    <3>3. cursor.id \in Nat /\ cursor.updatedAt \in Nat
      BY <1>1, <1>4, <3>1 DEF CursorInv, Faithful
    <3>4. ~Precedes(last, c)
      BY <1>4, <2>2, <3>1, <3>2, <3>3 DEF After, Precedes
    <3> QED  BY <2>4, <3>1, <3>4
  <2> QED  BY <2>3, <2>5, <2>6, <2>7, <2>8
<1>8. nextCursor' = Null => page' = S
  <2>1. ASSUME nextCursor' = Null, HasMore(found, limit) PROVE FALSE
    <3>1. PICK last \in P : nextCursor' = EncodeCursor(last)
      BY <1>2, <2>1
    <3>2. last \in Ids /\ updatedAt[last] \in Times
      BY <1>2, <1>4, <1>6 DEF Stored
    <3> QED  BY <2>1, <3>1, <3>2, NullAssumption DEF EncodeCursor, Cursors
  <2> QED  BY <1>2, <1>3, <2>1
<1>9. TypeOK'
  BY <1>1, <1>6, <1>7 DEF TypeOK
<1>10. CursorInv'
  BY <1>1, <1>5 DEF CursorInv, Faithful, TypeOK
<1>11. PageInv'
  <2>1. Faithful(nextCursor)'
    BY <1>7 DEF Faithful
  <2> QED  BY <1>1, <1>5, <1>6, <1>7, <2>1 DEF PageInv
<1>12. NothingSkipped'
  <2>1. ASSUME NEW c \in before, c \notin seen, c \notin page'
        PROVE  nextCursor' # Null /\ After(c, nextCursor)'
    <3>1. c \in S
      BY <1>1, <2>1 DEF NothingSkipped, TypeOK
    <3> QED  BY <1>7, <1>8, <2>1, <3>1
  <2> QED  BY <1>1, <2>1 DEF NothingSkipped
<1> QED  BY <1>9, <1>10, <1>11, <1>12 DEF IInv

\* The client takes the page and the cursor that goes with it.
LEMMA AnswerStep == IInv /\ Answer => IInv'
<1> SUFFICES ASSUME IInv, Answer PROVE IInv'
  OBVIOUS
<1>1. /\ TypeOK /\ CursorInv /\ PageInv /\ NothingSkipped
      /\ walk = "found" /\ page' = {} /\ nextCursor' = Null
      /\ walk' = (IF nextCursor = Null THEN "ended" ELSE "idle")
      /\ seen' = seen \cup page /\ cursor' = nextCursor
      /\ UNCHANGED <<updatedAt, before>> /\ Stored' = Stored
  BY DEF IInv, Answer, Stored
<1>2. \A c \in Stored : After(c, cursor)' <=> After(c, nextCursor)
  BY <1>1 DEF After
<1>3. \A c \in page \cup seen : c \in Stored
  BY <1>1 DEF TypeOK
<1>4. TypeOK'
  BY <1>1 DEF TypeOK
<1>5. CursorInv'
  <2>1. nextCursor # Null => \A c \in before \ (seen \cup page) : After(c, nextCursor)
    BY <1>1 DEF NothingSkipped
  <2>2. before \subseteq Stored
    BY <1>1 DEF TypeOK
  <2> QED  BY <1>1, <1>2, <1>3, <2>1, <2>2 DEF CursorInv, PageInv, Faithful
<1>6. PageInv'
  BY <1>1 DEF PageInv, Faithful
<1>7. NothingSkipped'
  BY <1>1, <1>2 DEF NothingSkipped, TypeOK
<1> QED  BY <1>4, <1>5, <1>6, <1>7 DEF IInv

\* A lost page leaves the client where it was: what the page would have brought
\* is still after its cursor.
LEMMA PeersFailStep == IInv /\ PeersFail => IInv'
<1> SUFFICES ASSUME IInv, PeersFail PROVE IInv'
  OBVIOUS
<1>1. /\ TypeOK /\ CursorInv /\ PageInv /\ NothingSkipped
      /\ walk = "found" /\ walk' = "idle" /\ page' = {} /\ nextCursor' = Null
      /\ UNCHANGED <<updatedAt, cursor, seen, before>> /\ Stored' = Stored
  BY DEF IInv, PeersFail, Stored
<1>2. \A c \in Stored : After(c, cursor)' <=> After(c, cursor)
  BY <1>1 DEF After
<1>3. seen \subseteq Stored /\ page \subseteq Stored /\ before \subseteq Stored
  BY <1>1 DEF TypeOK
<1>4. TypeOK'
  BY <1>1 DEF TypeOK
<1>5. CursorInv'
  BY <1>1, <1>2, <1>3 DEF CursorInv, Faithful
<1>6. PageInv'
  BY <1>1 DEF PageInv, Faithful
<1>7. \A c \in before \ seen : After(c, cursor)
  BY <1>1 DEF CursorInv
<1>8. NothingSkipped'
  BY <1>1, <1>2, <1>3, <1>7 DEF NothingSkipped
<1> QED  BY <1>4, <1>5, <1>6, <1>8 DEF IInv

\* A new walk starts before everything.
LEMMA RestartStep == IInv /\ Restart => IInv'
<1> SUFFICES ASSUME IInv, Restart PROVE IInv'
  OBVIOUS
<1>1. /\ TypeOK /\ PageInv
      /\ walk' = "idle" /\ cursor' = Null /\ seen' = {} /\ before' = Stored
      /\ page' = page /\ nextCursor' = nextCursor /\ updatedAt' = updatedAt
      /\ page = {} /\ nextCursor = Null /\ Stored' = Stored
  BY DEF IInv, Restart, PageInv, Stored
<1>2. TypeOK'
  BY <1>1 DEF TypeOK
<1>3. CursorInv' /\ PageInv' /\ NothingSkipped'
  BY <1>1 DEF CursorInv, PageInv, NothingSkipped, Faithful, After
<1> QED  BY <1>2, <1>3 DEF IInv

\* The invariant is inductive.
THEOREM Invariant == Spec => []IInv
<1>1. Init => IInv
  BY InitStep
<1>2. IInv /\ [Next]_vars => IInv'
  <2> SUFFICES ASSUME IInv, [Next]_vars PROVE IInv'
    OBVIOUS
  <2>1. CASE \E c \in Ids, t \in Times : Store(c, t)
    BY <2>1, StoreStep
  <2>2. CASE \E limit \in 1..MaxLimit : FindPage(limit)
    BY <2>2, FindPageStep
  <2>3. CASE Answer
    BY <2>3, AnswerStep
  <2>4. CASE PeersFail
    BY <2>4, PeersFailStep
  <2>5. CASE Restart
    BY <2>5, RestartStep
  <2>6. CASE UNCHANGED vars
    BY <2>6 DEF vars, IInv, TypeOK, Stored, CursorInv, PageInv, NothingSkipped, Faithful, After
  <2> QED  BY <2>1, <2>2, <2>3, <2>4, <2>5, <2>6 DEF Next
<1> QED  BY <1>1, <1>2, PTL DEF Spec

\* Every state of a walk has its type: the walk of myConversations.
THEOREM TypeCorrect == Spec => []TypeOK
<1>1. IInv => TypeOK
  BY DEF IInv
<1> QED  BY <1>1, Invariant, PTL

\* Nothing that was there when the walk began is missing at its end, for every
\* page size, every pattern of ties and every conversation committed meanwhile:
\* the keyset condition and the limit + 1 of myConversations.
THEOREM Complete == Spec => []NothingSkipped
<1>1. IInv => NothingSkipped
  BY DEF IInv
<1> QED  BY <1>1, Invariant, PTL

\* No page repeats or precedes what earlier pages brought.
THEOREM Sorted == Spec => []PagesInOrder
<1>1. IInv => PagesInOrder
  <2> SUFFICES ASSUME IInv, walk = "found", NEW c \in seen, NEW d \in page
               PROVE  Precedes(c, d)
    BY DEF PagesInOrder
  <2>1. /\ c \in Stored /\ d \in Stored
        /\ cursor # Null /\ ~After(c, cursor) /\ After(d, cursor)
        /\ cursor.id \in Stored /\ updatedAt[cursor.id] = cursor.updatedAt
    BY DEF IInv, TypeOK, CursorInv, PageInv, Faithful
  <2>2. \A x \in Stored : x \in Nat /\ updatedAt[x] \in Nat
    BY IdsAssumption, BoundsAssumption DEF IInv, TypeOK, Stored
  <2> QED  BY <2>1, <2>2 DEF After, Precedes
<1> QED  BY <1>1, Invariant, PTL

\* A cursor in the client's hands is never a dead end: hasMore is true.
THEOREM NoDeadEnd == Spec => []MoreIsThere
<1>1. IInv => MoreIsThere
  BY DEF IInv, CursorInv, MoreIsThere
<1> QED  BY <1>1, Invariant, PTL

----------------------------------------------------------------------------
\* How much a page brings, and that a walk gets on with every page.

\* A page has at most the conversations asked for, and exactly as many unless it
\* is the last one: slice drops the one that limit + 1 found and nothing else.
PagesAreFull ==
    [][\A limit \in 1..MaxLimit : FindPage(limit) =>
         /\ Cardinality(page') <= limit
         /\ nextCursor' # Null => Cardinality(page') = limit]_vars

\* A page that is not the last one brings the client something new, so no walk
\* takes more pages than there are conversations.
WalkAdvances ==
    [][Answer /\ walk' = "idle" => \E c \in seen' : c \notin seen]_vars

\* A cursor is handed out with the conversation it stands for.
CursorHasPage == nextCursor # Null => page # {}

\* First(S, n) has no more than n elements if it has a last one.
LEMMA AtMost ==
    ASSUME NEW S \in SUBSET Ids, NEW n \in Nat, NEW last \in First(S, n),
           \A c \in First(S, n) : c = last \/ Precedes(c, last)
    PROVE  Cardinality(First(S, n)) <= n
<1> DEFINE earlier == {d \in S : Precedes(d, last)}
           F == First(S, n)
<1>1. /\ IsFiniteSet(S) /\ F \subseteq S /\ IsFiniteSet(F)
      /\ IsFiniteSet(earlier) /\ Cardinality(earlier) \in Nat /\ Cardinality(F) \in Nat
  BY IdsAssumption, FS_Subset, FS_CardinalityType DEF First
<1>2. Cardinality(earlier) < n
  BY DEF First
<1>3. F \subseteq earlier \cup {last}
  BY <1>1
<1> HIDE DEF earlier, F
<1>4. /\ IsFiniteSet(earlier \cup {last}) /\ Cardinality(earlier \cup {last}) \in Nat
      /\ Cardinality(earlier \cup {last}) <= Cardinality(earlier) + 1
  <2>1. /\ IsFiniteSet(earlier \cup {last})
        /\ Cardinality(earlier \cup {last}) =
             IF last \in earlier THEN Cardinality(earlier) ELSE Cardinality(earlier) + 1
    BY <1>1, FS_AddElement, Zenon
  <2> QED
    BY <1>1, <2>1
<1>5. Cardinality(F) <= Cardinality(earlier \cup {last})
  BY <1>3, <1>4, FS_Subset
<1> QED
  BY <1>1, <1>2, <1>4, <1>5 DEF F

\* What a call finds has the size asked for.
LEMMA PageSize ==
    ASSUME TypeOK, NEW limit \in 1..MaxLimit, FindPage(limit)
    PROVE  /\ Cardinality(page') <= limit
           /\ nextCursor' # Null => Cardinality(page') = limit /\ page' # {}
<1> DEFINE S == {c \in Stored : After(c, cursor)}
           found == First(S, limit + 1)
           P == First(found, limit)
<1>1. /\ updatedAt \in [Ids -> 0..MaxTime]
      /\ limit \in Nat /\ limit + 1 \in Nat /\ limit # 0
      /\ S \in SUBSET Ids
  BY BoundsAssumption DEF TypeOK, Stored
<1>2. /\ found \in SUBSET Ids /\ IsFiniteSet(found) /\ Cardinality(found) \in Nat
      /\ P \subseteq found /\ IsFiniteSet(P) /\ Cardinality(P) \in Nat
      /\ Cardinality(P) <= Cardinality(found)
  BY <1>1, IdsAssumption, FS_Subset, FS_CardinalityType DEF First
<1>3. page' = P
  BY DEF FindPage
<1>4. \/ /\ HasMore(found, limit)
         /\ \E last \in P : \A c \in P : c = last \/ Precedes(c, last)
      \/ ~HasMore(found, limit) /\ nextCursor' = Null
  BY DEF FindPage
<1> HIDE DEF S, found
<1>5. CASE HasMore(found, limit)
  <2>1. PICK last \in P : \A c \in P : c = last \/ Precedes(c, last)
    BY <1>4, <1>5
  <2>2. Cardinality(P) <= limit
    BY <1>1, <1>2, <2>1, AtMost
  <2>3. ~(Cardinality(P) < limit)
    <3>1. ASSUME Cardinality(P) < limit PROVE P = found
      BY <1>1, <1>2, <3>1, Exhausted
    <3> QED
      BY <1>1, <1>2, <1>5, <3>1 DEF HasMore
  <2> QED
    BY <1>1, <1>2, <1>3, <2>1, <2>2, <2>3
<1>6. CASE ~HasMore(found, limit)
  BY <1>1, <1>2, <1>3, <1>4, <1>6 DEF HasMore
<1> QED
  BY <1>5, <1>6

\* The size of every page, for any conversations, ties and page sizes.
THEOREM PageSizes == Spec => PagesAreFull
<1>1. TypeOK /\ [Next]_vars =>
        \A limit \in 1..MaxLimit : FindPage(limit) =>
           /\ Cardinality(page') <= limit
           /\ nextCursor' # Null => Cardinality(page') = limit
  BY PageSize
<1> QED
  BY <1>1, TypeCorrect, PTL DEF Spec, PagesAreFull

\* A cursor comes with a page that is not empty.
THEOREM NoEmptyPages == Spec => []CursorHasPage
<1>1. Init => CursorHasPage
  BY DEF Init, CursorHasPage
<1>2. TypeOK /\ CursorHasPage /\ [Next]_vars => CursorHasPage'
  <2>1. ASSUME TypeOK, NEW limit \in 1..MaxLimit, FindPage(limit) PROVE CursorHasPage'
    BY <2>1, PageSize DEF CursorHasPage
  <2> QED
    BY <2>1 DEF CursorHasPage, Next, vars, Store, Answer, PeersFail, Restart
<1> QED
  BY <1>1, <1>2, TypeCorrect, PTL DEF Spec

\* A client that follows its cursors comes to the end.
THEOREM WalksAdvance == Spec => WalkAdvances
<1>1. IInv /\ PagesInOrder /\ CursorHasPage /\ [Next]_vars =>
        (Answer /\ walk' = "idle" => \E c \in seen' : c \notin seen)
  <2> SUFFICES ASSUME IInv, PagesInOrder, CursorHasPage, Answer, walk' = "idle"
               PROVE  \E c \in seen' : c \notin seen
    OBVIOUS
  <2>1. page # {} /\ walk = "found" /\ seen' = seen \cup page
    BY DEF Answer, CursorHasPage
  <2>2. PICK c \in page : TRUE
    BY <2>1
  <2>3. c \in Ids /\ ~Precedes(c, c)
    BY Order DEF IInv, TypeOK, Stored
  <2>4. c \notin seen
    BY <2>1, <2>3 DEF PagesInOrder
  <2> QED
    BY <2>1, <2>4
<1> QED
  BY <1>1, Invariant, Sorted, NoEmptyPages, PTL DEF Spec, WalkAdvances
============================================================================
