-------------------------- MODULE RpcErrorsProofs --------------------------
(***************************************************************************)
(* Proofs about RpcErrors, for any set of texts.  The value on its way is  *)
(* a function of the error that was thrown, because what one filter made   *)
(* of it the next ones leave alone.                                        *)
(***************************************************************************)
EXTENDS RpcErrors, TLAPS

FromService(x) == x \in HttpErrors \cup LibraryErrors

Unauthorized == Error("http", 401, "unauthorized")

\* What the process at position at holds, given that position d threw.
Carried(d) ==
    /\ at \in 1..d
    /\ origin.site = route[d]
    /\ origin.error \in Raised(origin.site)
    /\ at = d => thrown = origin.error
    /\ at < d => thrown = IF Guarded /\ at = 1 THEN Unauthorized
                          ELSE RpcError(ToRpcErrorPayload(origin.site, origin.error))

Answered(r) == IF route[1] = "http" THEN ToHttpException(r) ELSE Normalize(r)

IInv ==
    /\ route \in Routes
    /\ at = 0 => answer = None /\ thrown = NoError
    /\ at # 0 => \E d \in 1..Len(route) : Carried(d)
    /\ at \in 0..Len(route)
    /\ answer # None => at = 1 /\ answer = Answered(thrown)

----------------------------------------------------------------------------
\* A client's transport comes first, then services, with at most a guard before
\* one of them.
LEMMA RouteShape ==
    ASSUME NEW r \in Routes
    PROVE  /\ Len(r) \in 1..3
           /\ r[1] \in {"http", "ws"}
           /\ \A d \in 2..Len(r) : r[d] \in Services \cup {"guard"}
           /\ (\E d \in DOMAIN r : r[d] = "guard") => r = <<"http", "guard", "auth">>
BY DEF Routes, Services

\* Whatever a service catches of its own, it sends a payload with an error
\* status and a text meant for clients.
LEMMA PayloadShape ==
    ASSUME NEW s \in Services, NEW x, FromService(x)
    PROVE  /\ ToRpcErrorPayload(s, x).statusCode \in 400..599
           /\ ToRpcErrorPayload(s, x).errorMessage \in Said
           /\ x.kind \in LibraryKinds \cup {"http"}
<1> DEFINE p == ToRpcErrorPayload(s, x)
<1>1. CASE x \in HttpErrors
  <2>1. PICK c \in {400, 401, 403, 404, 409}, m \in Texts : x = Error("http", c, m)
    BY <1>1 DEF HttpErrors
  <2>2. x.kind = "http" /\ x.status = c /\ x.message = m
    BY <2>1 DEF Error
  <2>3. p = Payload(c, m)
    BY <2>2 DEF ToRpcErrorPayload, IsRpcPayload
  <2> HIDE DEF p
  <2>4. p.statusCode = c /\ p.errorMessage = m
    BY <2>3 DEF Payload
  <2>5. c \in 400..599
    OBVIOUS
  <2>6. m \in Said
    BY Zenon DEF Said
  <2> QED
    BY <2>2, <2>4, <2>5, <2>6 DEF p
<1>2. CASE x \in LibraryErrors
  <2>1. PICK k \in LibraryKinds : x = Error(k, None, Internal)
    BY <1>2 DEF LibraryErrors
  <2>2. x.kind = k
    BY <2>1 DEF Error
  <2>3. DuplicateErrorMessage(s) \in Said
    BY DEF DuplicateErrorMessage, Services, Said
  <2>4. \/ p = Payload(409, DuplicateErrorMessage(s))
        \/ p = Payload(404, "Resource not found")
        \/ p = Payload(400, "Invalid data")
        \/ p = Payload(500, "Internal server error")
    <3>1. CASE k = "duplicate"
      BY <2>2, <3>1 DEF ToRpcErrorPayload, IsRpcPayload
    <3>2. CASE k = "missing"
      BY <2>2, <3>2 DEF ToRpcErrorPayload, IsRpcPayload
    <3>3. CASE k = "invalid"
      BY <2>2, <3>3 DEF ToRpcErrorPayload, IsRpcPayload
    <3>4. CASE k \in {"error", "value"}
      BY <2>2, <3>4 DEF ToRpcErrorPayload, IsRpcPayload, Unexpected
    <3> QED
      BY <3>1, <3>2, <3>3, <3>4 DEF LibraryKinds
  <2> HIDE DEF p
  <2>5. {"Resource not found", "Invalid data", "Internal server error"} \subseteq Said
    BY Zenon DEF Said
  <2>6. ASSUME NEW c \in 400..599, NEW m \in Said, p = Payload(c, m)
        PROVE  p.statusCode \in 400..599 /\ p.errorMessage \in Said
    BY <2>6 DEF Payload
  <2>7. 400 \in 400..599 /\ 404 \in 400..599 /\ 409 \in 400..599 /\ 500 \in 400..599
    OBVIOUS
  <2>8. /\ "Resource not found" \in Said /\ "Invalid data" \in Said
        /\ "Internal server error" \in Said
    BY <2>5
  <2>9. p.statusCode \in 400..599 /\ p.errorMessage \in Said
    <3>1. CASE p = Payload(409, DuplicateErrorMessage(s))
      BY <2>3, <2>6, <2>7, <3>1, Zenon
    <3>2. CASE p = Payload(404, "Resource not found")
      BY <2>6, <2>7, <2>8, <3>2, Zenon
    <3>3. CASE p = Payload(400, "Invalid data")
      BY <2>6, <2>7, <2>8, <3>3, Zenon
    <3>4. CASE p = Payload(500, "Internal server error")
      BY <2>6, <2>7, <2>8, <3>4, Zenon
    <3> QED
      BY <2>4, <3>1, <3>2, <3>3, <3>4
  <2> QED
    BY <2>2, <2>9 DEF p
<1> QED
  BY <1>1, <1>2 DEF FromService

\* A filter passes on unchanged what an earlier filter made.
LEMMA Idempotent ==
    ASSUME NEW s \in Services, NEW t \in Services, NEW x, FromService(x)
    PROVE  LET p == ToRpcErrorPayload(s, x)
           IN  RpcError(ToRpcErrorPayload(t, RpcError(p))) = RpcError(p)
<1> DEFINE p == ToRpcErrorPayload(s, x)
<1>1. p.statusCode \in 400..599
  BY PayloadShape
<1> HIDE DEF p
<1>2. IsRpcPayload(RpcError(p))
  BY <1>1, NoneAssumption DEF IsRpcPayload, IsHttpStatus, RpcError, Error
<1>3. ToRpcErrorPayload(t, RpcError(p)) = Payload(p.statusCode, p.errorMessage)
  BY <1>2 DEF ToRpcErrorPayload, KeptMessage, RpcError, Error
<1> QED
  BY <1>3 DEF p, RpcError, Payload, Error

----------------------------------------------------------------------------
\* A position behind the first is a service, or the guard that throws nothing.
LEMMA Thrower ==
    ASSUME IInv, NEW d \in 2..Len(route), Carried(d)
    PROVE  route[d] \in Services /\ FromService(origin.error)
<1>1. route[d] \in Services \cup {"guard"}
  BY RouteShape DEF IInv
<1>2. origin.error \in Raised(route[d])
  BY DEF Carried
<1>3. route[d] # "guard"
  BY <1>2 DEF Raised
<1> QED
  BY <1>1, <1>2, <1>3 DEF Raised, Services, FromService

\* A filter keeps the value a function of the error that was thrown.
LEMMA FilterStep ==
    ASSUME IInv, Filter
    PROVE  IInv'
<1>1. route \in Routes /\ route[1] \notin Services /\ Len(route) \in 1..3
  BY RouteShape DEF IInv, Services
<1>2. at \in 2..Len(route) /\ answer = None
  BY <1>1 DEF IInv, Filter
<1>3. PICK d \in 1..Len(route) : Carried(d)
  BY <1>2 DEF IInv
<1>4. d \in 2..Len(route) /\ at \in 2..d
  BY <1>1, <1>2, <1>3 DEF Carried
<1>5. route[d] \in Services /\ FromService(origin.error) /\ origin.site = route[d]
  BY <1>3, <1>4, Thrower DEF Carried
<1>6. Guarded => at = 3
  <2>1. Guarded => route = <<"http", "guard", "auth">>
    BY <1>1, RouteShape DEF Guarded
  <2>2. route = <<"http", "guard", "auth">> => at # 2
    BY DEF Filter, Services
  <2>3. Guarded => at # 2
    BY <2>1, <2>2
  <2>4. at \in 2..3
    <3>1. \A n \in 1..3 : \A a \in 2..n : a \in 2..3
      OBVIOUS
    <3> QED
      BY <1>1, <1>2, <3>1
  <2> QED
    BY <2>3, <2>4
<1>7. thrown' = RpcError(ToRpcErrorPayload(origin.site, origin.error))
  <2>1. CASE at = d
    BY <1>3, <1>5, <2>1 DEF Filter, Carried
  <2>2. CASE at < d
    <3>1. thrown = RpcError(ToRpcErrorPayload(origin.site, origin.error))
      BY <1>3, <1>2, <2>2 DEF Carried
    <3> QED
      BY <1>5, <3>1, Idempotent DEF Filter
  <2> QED
    BY <1>4, <2>1, <2>2
<1>8. Carried(d)'
  <2>1. at' \in 1..d /\ at' < d /\ ~(Guarded' /\ at' = 1)
    BY <1>1, <1>2, <1>4, <1>6 DEF Filter, Guarded
  <2> QED
    BY <1>3, <1>7, <2>1 DEF Filter, Carried, Guarded
<1> QED
  BY <1>1, <1>2, <1>3, <1>8 DEF IInv, Filter

\* The guard's own answer replaces whatever it caught.
LEMMA GuardStep ==
    ASSUME IInv, GuardCatches
    PROVE  IInv'
<1>1. route = <<"http", "guard", "auth">>
  BY RouteShape DEF IInv, GuardCatches
<1>2. at = 2 /\ answer = None
  BY <1>1 DEF IInv, GuardCatches
<1>3. PICK d \in 1..Len(route) : Carried(d)
  BY <1>2 DEF IInv
<1>4. Carried(d)'
  <2>1. Guarded'
    BY <1>1 DEF Guarded, GuardCatches
  <2> QED
    BY <1>1, <1>2, <1>3, <2>1 DEF Carried, GuardCatches, Unauthorized
<1> QED
  BY <1>1, <1>2, <1>3, <1>4 DEF IInv, GuardCatches

\* The invariant is inductive.
THEOREM Invariant == Spec => []IInv
<1>1. Init => IInv
  BY RouteShape DEF Init, IInv
<1>2. IInv /\ [Next]_vars => IInv'
  <2> SUFFICES ASSUME IInv, [Next]_vars PROVE IInv'
    OBVIOUS
  <2>1. ASSUME NEW d \in 1..Len(route), NEW x \in Raised(route[d]), Throw(d, x)
        PROVE  IInv'
    <3>1. Len(route) \in 1..3
      BY RouteShape DEF IInv
    <3>2. Carried(d)'
      BY <2>1, <3>1 DEF Throw, Carried
    <3> QED
      BY <2>1, <3>1, <3>2 DEF IInv, Throw
  <2>2. CASE AnswerHttp
    BY <2>2 DEF AnswerHttp, IInv, Carried, Guarded, Answered
  <2>3. CASE EmitSendMessageError
    BY <2>3 DEF EmitSendMessageError, IInv, Carried, Guarded, Answered
  <2>4. CASE UNCHANGED vars
    BY <2>4 DEF vars, IInv, Carried, Guarded, Answered
  <2> QED
    BY <2>1, <2>2, <2>3, <2>4, FilterStep, GuardStep DEF Next
<1> QED
  BY <1>1, <1>2, PTL DEF Spec

----------------------------------------------------------------------------
\* What the client is answered, in terms of the error that was thrown: the
\* gateway's own error, the guard's, or the payload of the first filter.
OwnError == origin.error \in Raised(route[1]) /\ origin.site = route[1] /\ thrown = origin.error

FromFilter ==
    /\ origin.site \in Services /\ FromService(origin.error)
    /\ thrown = RpcError(ToRpcErrorPayload(origin.site, origin.error))

\* There is no other answer.
LEMMA Outcome ==
    ASSUME IInv, answer # None
    PROVE  /\ route[1] \in {"http", "ws"}
           /\ answer = Answered(thrown)
           /\ \/ OwnError
              \/ FromFilter
              \/ Guarded /\ route[1] = "http" /\ thrown = Unauthorized
<1>1. at = 1 /\ answer = Answered(thrown) /\ route[1] \in {"http", "ws"} /\ Len(route) \in 1..3
  BY RouteShape DEF IInv
<1>2. PICK d \in 1..Len(route) : Carried(d)
  <2>1. at # 0
    BY <1>1
  <2> QED
    BY <2>1 DEF IInv
<1>3. CASE d = 1
  BY <1>1, <1>2, <1>3 DEF Carried, OwnError
<1>4. CASE d # 1
  <2>1. d \in 2..Len(route) /\ at < d
    BY <1>1, <1>4
  <2>2. origin.site \in Services /\ FromService(origin.error)
    BY <1>2, <2>1, Thrower DEF Carried
  <2>3. Guarded => route[1] = "http"
    BY RouteShape DEF IInv, Guarded
  <2>4. thrown = IF Guarded THEN Unauthorized
                 ELSE RpcError(ToRpcErrorPayload(origin.site, origin.error))
    BY <1>1, <1>2, <2>1 DEF Carried
  <2> QED
    BY <1>1, <2>2, <2>3, <2>4 DEF FromFilter
<1> QED
  BY <1>1, <1>3, <1>4

\* The payload of a filter reaches the client as it is, over either transport.
LEMMA PayloadArrives ==
    ASSUME IInv, answer # None, FromFilter
    PROVE  LET p == ToRpcErrorPayload(origin.site, origin.error)
           IN  /\ AnswerStatus = p.statusCode
               /\ AnswerText = p.errorMessage
               /\ p.statusCode \in 400..599 /\ p.errorMessage \in Said
               /\ route[1] = "http" => answer = Response(p.statusCode, p.errorMessage)
               /\ route[1] = "ws" => "code" \in DOMAIN answer
<1> DEFINE p == ToRpcErrorPayload(origin.site, origin.error)
<1>1. p.statusCode \in 400..599 /\ p.errorMessage \in Said
  BY PayloadShape DEF FromFilter
<1>2. thrown = RpcError(p) /\ answer = Answered(thrown) /\ route[1] \in {"http", "ws"}
  BY Outcome DEF FromFilter
<1> HIDE DEF p
<1>3. /\ thrown.kind = "rpc" /\ thrown.status = p.statusCode /\ thrown.message = p.errorMessage
      /\ IsRpcPayload(thrown)
  BY <1>1, <1>2, NoneAssumption DEF RpcError, Error, IsRpcPayload, IsHttpStatus
<1>4. CASE route[1] = "http"
  <2>1. answer = Response(p.statusCode, p.errorMessage)
    BY <1>2, <1>3, <1>4 DEF Answered, ToHttpException
  <2> QED
    BY <1>1, <1>4, <2>1 DEF p, AnswerStatus, AnswerText, Response
<1>5. CASE route[1] = "ws"
  <2>1. answer = [code |-> "MESSAGE_SEND_FAILED", errorMessage |-> p.errorMessage,
                  statusCode |-> p.statusCode]
    BY <1>2, <1>3, <1>5 DEF Answered, Normalize
  <2>2. DOMAIN answer = {"code", "errorMessage", "statusCode"}
    BY <2>1
  <2>3. answer.statusCode = p.statusCode /\ answer.errorMessage = p.errorMessage
    BY <2>1
  <2> QED
    BY <1>1, <1>5, <2>2, <2>3 DEF p, AnswerStatus, AnswerText
<1> QED
  BY <1>2, <1>4, <1>5

\* A service's exception keeps its status and message through any number of
\* filters and either end of the gateway.
THEOREM StatusIsKept == Spec => []StatusKept
<1>1. ASSUME IInv, answer # None, origin.error.kind = "http", ~Guarded
      PROVE  AnswerStatus = origin.error.status /\ AnswerText = origin.error.message
  <2>1. CASE OwnError
    <3>1. route[1] = "http"
      BY <1>1, <2>1, Outcome DEF OwnError, Raised, WsErrors, Error
    <3>2. answer = Response(origin.error.status, origin.error.message)
      BY <1>1, <2>1, <3>1, Outcome DEF OwnError, Answered, ToHttpException
    <3> QED
      BY <3>2 DEF Response, AnswerStatus, AnswerText
  <2>2. CASE FromFilter
    <3>1. ToRpcErrorPayload(origin.site, origin.error)
            = Payload(origin.error.status, origin.error.message)
      BY <1>1 DEF ToRpcErrorPayload, IsRpcPayload
    <3> QED
      BY <1>1, <2>2, <3>1, PayloadArrives DEF Payload
  <2> QED
    BY <1>1, <2>1, <2>2, Outcome
<1> QED
  BY <1>1, Invariant, PTL DEF StatusKept

\* A conflict is worded by the service whose database found it.
THEOREM ConflictIsNamed == Spec => []ConflictNamed
<1>1. ASSUME IInv, answer # None, origin.error.kind = "duplicate", ~Guarded
      PROVE  AnswerStatus = 409 /\ AnswerText = DuplicateErrorMessage(origin.site)
  <2>1. ~OwnError
    BY <1>1, Outcome DEF OwnError, Raised, WsErrors, HttpErrors, Error
  <2>2. FromFilter
    BY <1>1, <2>1, Outcome
  <2>3. ToRpcErrorPayload(origin.site, origin.error)
          = Payload(409, DuplicateErrorMessage(origin.site))
    BY <1>1 DEF ToRpcErrorPayload, IsRpcPayload
  <2> QED
    BY <1>1, <2>2, <2>3, PayloadArrives DEF Payload
<1> QED
  BY <1>1, Invariant, PTL DEF ConflictNamed

\* No text of a library leaves the service it came up in, and none leaves the
\* gateway over HTTP.
THEOREM NothingLeaks == Spec => []NothingInternal
<1>1. ASSUME IInv, answer # None, origin.site \in Services \/ route[1] = "http"
      PROVE  AnswerText # Internal
  <2>1. CASE FromFilter
    BY <1>1, <2>1, PayloadArrives, TextsAssumption
  <2>2. CASE OwnError
    <3>1. route[1] = "http"
      BY <1>1, <2>2, Outcome DEF OwnError, Services
    <3>2. CASE origin.error \in HttpErrors
      <4>1. origin.error.message \in Texts /\ origin.error.kind = "http"
        BY <3>2 DEF HttpErrors, Error
      <4>2. answer = Response(origin.error.status, origin.error.message)
        BY <1>1, <2>2, <3>1, <4>1, Outcome DEF OwnError, Answered, ToHttpException
      <4>3. AnswerText = origin.error.message
        BY <4>2 DEF Response, AnswerText
      <4> QED
        <5>1. origin.error.message \in Said
          BY <4>1, Zenon DEF Said
        <5> QED
          BY <4>3, <5>1, TextsAssumption, Zenon
    <3>3. CASE origin.error = Error("error", None, Internal)
      <4>1. answer = Response(500, "Internal server error")
        <5>1. origin.error.kind = "error" /\ ~IsRpcPayload(origin.error)
          BY <3>3 DEF Error, IsRpcPayload
        <5>2. answer = ToHttpException(origin.error)
          BY <1>1, <2>2, <3>1, Outcome DEF OwnError, Answered
        <5> QED
          BY <5>1, <5>2 DEF ToHttpException
      <4>2. AnswerText = "Internal server error"
        BY <4>1 DEF Response, AnswerText
      <4> QED
        BY <4>2, TextsAssumption, Zenon DEF Said
    <3> QED
      BY <2>2, <3>1, <3>2, <3>3 DEF OwnError, Raised
  <2>3. CASE route[1] = "http" /\ thrown = Unauthorized
    <3>1. answer = Response(401, "unauthorized")
      BY <1>1, <2>3, Outcome DEF Answered, ToHttpException, Unauthorized, Error
    <3>2. AnswerText = "unauthorized"
      BY <3>1 DEF Response, AnswerText
    <3> QED
      BY <3>2, TextsAssumption, Zenon DEF Said
  <2> QED
    BY <1>1, <2>1, <2>2, <2>3, Outcome
<1> QED
  BY <1>1, Invariant, PTL DEF NothingInternal

\* What a client is answered over HTTP.
Responses == [statusCode : 400..599, message : Said]

\* An error status and a text for clients make such an answer.
LEMMA ResponseType ==
    ASSUME NEW c \in 400..599, NEW m \in Said
    PROVE  Response(c, m) \in Responses
BY DEF Response, Responses

\* A payload with an error status travels as an RPC error.
LEMMA WireType ==
    ASSUME NEW p, p.statusCode \in 400..599
    PROVE  RpcError(p).kind = "rpc" /\ IsHttpStatus(RpcError(p).status)
BY NoneAssumption DEF RpcError, Error, IsHttpStatus

\* The error on its way and the answer are of their types; an answer over HTTP
\* is an error status and a text meant for clients.
THEOREM TypeCorrect == Spec => []TypeOK
<1>1. ASSUME IInv PROVE TypeOK
  <2>1. /\ thrown.kind \in LibraryKinds \cup {"none", "http", "rpc", "ws"}
        /\ thrown.kind = "rpc" => IsHttpStatus(thrown.status)
    <3>1. CASE at = 0
      BY <1>1, <3>1 DEF IInv, NoError, Error
    <3>2. ASSUME at # 0 PROVE \E d \in 1..Len(route) : Carried(d)
      BY <1>1, <3>2 DEF IInv
    <3>3. ASSUME NEW d \in 1..Len(route), Carried(d), at = d
          PROVE  thrown.kind \in LibraryKinds \cup {"none", "http", "ws"}
      <4>1. thrown \in HttpErrors \cup LibraryErrors \cup WsErrors
        <5>1. thrown \in Raised(route[d])
          BY <3>3 DEF Carried
        <5> QED
          BY <5>1 DEF Raised, LibraryErrors, LibraryKinds
      <4>2. CASE thrown \in HttpErrors
        BY <4>2 DEF HttpErrors, Error
      <4>3. CASE thrown \in LibraryErrors
        BY <4>3 DEF LibraryErrors, Error
      <4>4. CASE thrown \in WsErrors
        BY <4>4 DEF WsErrors, Error
      <4> QED
        BY <4>1, <4>2, <4>3, <4>4
    <3>4. ASSUME NEW d \in 1..Len(route), Carried(d), at < d, thrown # Unauthorized
          PROVE  thrown.kind = "rpc" /\ IsHttpStatus(thrown.status)
      <4>1. d \in 2..Len(route)
        BY <3>4 DEF Carried
      <4>2. FromService(origin.error) /\ origin.site \in Services
        BY <1>1, <3>4, <4>1, Thrower DEF Carried
      <4>3. thrown = RpcError(ToRpcErrorPayload(origin.site, origin.error))
        BY <3>4 DEF Carried
      <4> QED
        BY <4>2, <4>3, PayloadShape, WireType
    <3>5. Unauthorized.kind = "http"
      BY DEF Unauthorized, Error
    <3> QED
      <4>1. CASE at # 0
        <5>1. PICK d \in 1..Len(route) : Carried(d)
          BY <3>2, <4>1
        <5>2. at = d \/ at < d
          BY <5>1 DEF Carried
        <5> QED
          BY <3>3, <3>4, <3>5, <5>1, <5>2 DEF LibraryKinds
      <4> QED
        BY <3>1, <4>1
  <2>2. ASSUME answer # None
        PROVE  /\ route[1] = "http" => answer \in Responses
               /\ route[1] = "ws" => "code" \in DOMAIN answer
    <3>1. CASE FromFilter
      <4> DEFINE p == ToRpcErrorPayload(origin.site, origin.error)
      <4>1. /\ p.statusCode \in 400..599 /\ p.errorMessage \in Said
            /\ route[1] = "http" => answer = Response(p.statusCode, p.errorMessage)
            /\ route[1] = "ws" => "code" \in DOMAIN answer
        BY <1>1, <2>2, <3>1, PayloadArrives
      <4> HIDE DEF p
      <4> QED
        BY <4>1, ResponseType, Zenon
    <3>2. CASE route[1] = "ws"
      <4>1. answer = Normalize(thrown)
        BY <1>1, <2>2, <3>2, Outcome DEF Answered
      <4>2. "code" \in DOMAIN Normalize(thrown)
        BY DEF Normalize
      <4> QED
        BY <3>2, <4>1, <4>2
    <3>3. ASSUME route[1] = "http", ~FromFilter
          PROVE  answer \in Responses
      <4>1. answer = ToHttpException(thrown)
        BY <1>1, <2>2, <3>3, Outcome DEF Answered
      <4>2. "Internal server error" \in Said /\ "unauthorized" \in Said /\ Texts \subseteq Said
        BY Zenon DEF Said
      <4>3. 401 \in 400..599 /\ 500 \in 400..599
        OBVIOUS
      <4>4. CASE thrown \in HttpErrors
        <5>1. PICK c \in {400, 401, 403, 404, 409}, m \in Texts : thrown = Error("http", c, m)
          BY <4>4 DEF HttpErrors
        <5>2. thrown.kind = "http" /\ thrown.status = c /\ thrown.message = m
          BY <5>1 DEF Error
        <5>3. answer = Response(c, m)
          BY <4>1, <5>2 DEF ToHttpException
        <5>4. c \in 400..599
          OBVIOUS
        <5>5. m \in Said
          BY <4>2
        <5> QED
          BY <5>3, <5>4, <5>5, ResponseType, Zenon
      <4>5. CASE thrown = Error("error", None, Internal)
        <5>1. thrown.kind = "error" /\ ~IsRpcPayload(thrown)
          BY <4>5 DEF Error, IsRpcPayload
        <5>2. answer = Response(500, "Internal server error")
          BY <4>1, <5>1 DEF ToHttpException
        <5> QED
          BY <4>2, <4>3, <5>2, ResponseType, Zenon
      <4>6. CASE thrown = Unauthorized
        <5>1. answer = Response(401, "unauthorized")
          BY <4>1, <4>6 DEF ToHttpException, Unauthorized, Error
        <5> QED
          BY <4>2, <4>3, <5>1, ResponseType, Zenon
      <4> QED
        BY <1>1, <2>2, <3>3, <4>4, <4>5, <4>6, Outcome DEF OwnError, Raised
    <3> QED
      BY <1>1, <2>2, <3>1, <3>2, <3>3, Outcome
  <2> QED
    BY <1>1, <2>1, <2>2 DEF TypeOK, IInv, Responses
<1> QED
  BY <1>1, Invariant, PTL

----------------------------------------------------------------------------
\* Where the promises of the documentation end.

\* README.md's message is in sendMessageError exactly when the gateway itself
\* threw the error: one that came from a service has errorMessage instead.
MessageFromGatewayOnly ==
    answer # None /\ route[1] = "ws"
    => ("message" \in DOMAIN answer <=> origin.site \notin Services)

\* Behind AuthGuard the client cannot tell why auth failed: whatever was thrown
\* there, a database that is down included, is a 401.
GuardMasks ==
    answer # None /\ Guarded /\ origin.site \in Services
    => answer = Response(401, "unauthorized")

\* The errors of services, and no others, miss their message.
THEOREM ServiceErrorsLackMessage == Spec => []MessageFromGatewayOnly
<1>1. ASSUME IInv, answer # None, route[1] = "ws"
      PROVE  "message" \in DOMAIN answer <=> origin.site \notin Services
  <2>1. answer = Normalize(thrown)
    BY <1>1, Outcome DEF Answered
  <2>2. CASE OwnError
    <3>1. thrown.kind \in {"ws", "error"} /\ origin.site \notin Services
      BY <1>1, <2>2 DEF OwnError, Raised, WsErrors, Error, Services
    <3>2. "message" \in DOMAIN answer
      BY <2>1, <3>1 DEF Normalize
    <3> QED
      BY <3>1, <3>2
  <2>3. CASE FromFilter
    <3>1. thrown.kind = "rpc"
      BY <2>3 DEF FromFilter, RpcError, Error
    <3>2. DOMAIN answer = {"code", "errorMessage", "statusCode"}
      BY <2>1, <3>1 DEF Normalize
    <3> QED
      BY <2>3, <3>2 DEF FromFilter
  <2> QED
    BY <1>1, <2>2, <2>3, Outcome
<1> QED
  BY <1>1, Invariant, PTL DEF MessageFromGatewayOnly

\* Every failure behind the guard is the same to the client.
THEOREM GuardHidesCause == Spec => []GuardMasks
<1>1. ASSUME IInv, answer # None, Guarded, origin.site \in Services
      PROVE  answer = Response(401, "unauthorized")
  <2>1. at = 1 /\ answer = Answered(thrown) /\ route = <<"http", "guard", "auth">>
    BY <1>1, RouteShape DEF IInv, Guarded
  <2>2. PICK d \in 1..Len(route) : Carried(d)
    BY <1>1, <2>1 DEF IInv
  <2>3. d # 1
    BY <1>1, <2>1, <2>2 DEF Carried, Services
  <2>4. thrown = Unauthorized
    BY <1>1, <2>1, <2>2, <2>3 DEF Carried
  <2> QED
    BY <2>1, <2>4 DEF Answered, ToHttpException, Unauthorized, Error
<1> QED
  BY <1>1, Invariant, PTL DEF GuardMasks
=============================================================================
