----------------------------- MODULE RpcErrors -----------------------------
(***************************************************************************)
(* What becomes of an error on its way back to the client.  A request      *)
(* enters the gateway over HTTP or a socket and goes down a chain of       *)
(* services, each waiting for the next over RabbitMQ.  An error is thrown  *)
(* somewhere in the chain; every service's exception filter turns what it  *)
(* catches, an error of its own or one that came over the wire, into an    *)
(* RPC payload, and the gateway's interceptor or WebSocket filter turns    *)
(* that into the client's answer.                                          *)
(*                                                                         *)
(* A text is one the code wrote for clients, or Internal, which stands for *)
(* whatever a library put into an Error: addresses, queries, field names.  *)
(***************************************************************************)
EXTENDS Naturals, Sequences

CONSTANTS Texts,      \* messages of exceptions thrown on purpose
          Internal,   \* a message not meant for clients
          None

\* What clients may read: those messages, and the fixed ones of the filters.
Said == Texts \cup {"Conversation already exists", "user duplicate error",
                    "Resource already exists", "Resource not found",
                    "Invalid data", "Internal server error", "unauthorized"}

ASSUME TextsAssumption == Internal \notin Said /\ None \notin Texts
ASSUME NoneAssumption == None \notin 400..599

\* From the client's side: the gateway's transport, then the services called.
\* "guard" is AuthGuard, which calls the auth service before the handler.
Routes == {<<"http">>, <<"ws">>,
           <<"http", "guard", "auth">>,
           <<"http", "auth", "users">>,
           <<"http", "chat", "users">>,
           <<"ws", "chat">>}

Services == {"auth", "users", "chat"}

VARIABLES
    route,    \* the chain of the current request
    at,       \* position in route of the process that holds the error, 0 before
    thrown,   \* the value it caught
    origin,   \* (history) where the error was thrown, and as what
    answer    \* what the client was answered

vars == <<route, at, thrown, origin, answer>>

----------------------------------------------------------------------------
\* Values that are thrown.  A field that kind does not have is None.
Error(kind, status, message) == [kind |-> kind, status |-> status, message |-> message]

HttpErrors == {Error("http", s, m) : s \in {400, 401, 403, 404, 409}, m \in Texts}

\* What a failed RPC leaves with its caller: { error: payload, message: "Rpc
\* Exception" }, an RpcException through JSON.
RpcError(payload) == Error("rpc", payload.statusCode, payload.errorMessage)

\* WsException of the guard and of the validation pipe: no status, but a code.
WsErrors == {Error("ws", c, m) : c \in {"UNAUTHORIZED", "VALIDATION_ERROR"}, m \in Texts}

\* Errors of libraries: E11000 or ER_DUP_ENTRY, a missing entity or document,
\* a mongoose ValidationError, any other Error, and a value that is no Error.
LibraryKinds == {"duplicate", "missing", "invalid", "error", "value"}
LibraryErrors == {Error(k, None, Internal) : k \in LibraryKinds}

Raised(site) ==
    CASE site = "ws"    -> WsErrors \cup {Error("error", None, Internal)}
      [] site = "guard" -> {}
      [] site = "http"  -> HttpErrors \cup {Error("error", None, Internal)}
      [] OTHER          -> HttpErrors \cup LibraryErrors

----------------------------------------------------------------------------
\* RpcExceptionFilter.

IsHttpStatus(s) == s # None /\ s \in 400..599

\* A plausible slip: the payload looked for at the top level only.
MutTopLevelOnly(x) == FALSE

\* getRpcPayload finds a payload only in what came over the wire; an
\* HttpException has a status but no statusCode.
IsRpcPayload(x) == x.kind = "rpc" /\ IsHttpStatus(x.status)

Payload(s, m) == [statusCode |-> s, errorMessage |-> m]

DuplicateErrorMessage(service) ==
    CASE service = "chat"  -> "Conversation already exists"
      [] service = "users" -> "user duplicate error"
      [] service = "auth"  -> "Resource already exists"

\* A plausible slip: the database checked before the known payload, by message.
MutOwnMessage(service, x) ==
    IF x.status = 409 THEN DuplicateErrorMessage(service) ELSE x.message

KeptMessage(service, x) == x.message

\* A plausible slip: the message of the error that was not expected.
MutShowUnexpected(x) == Payload(500, x.message)

Unexpected(x) == Payload(500, "Internal server error")

ToRpcErrorPayload(service, x) ==
    CASE IsRpcPayload(x)        -> Payload(x.status, KeptMessage(service, x))
      [] x.kind = "http"        -> Payload(x.status, x.message)
      [] x.kind = "duplicate"   -> Payload(409, DuplicateErrorMessage(service))
      [] x.kind = "missing"     -> Payload(404, "Resource not found")
      [] x.kind = "invalid"     -> Payload(400, "Invalid data")
      [] OTHER                  -> Unexpected(x)

----------------------------------------------------------------------------
\* The gateway's ends.

Response(s, m) == [statusCode |-> s, message |-> m]

\* A plausible slip: the RPC payload passed on as it came.
MutPassOn(x) == IF x.kind = "rpc" THEN Payload(x.status, x.message)
                                  ELSE Response(500, "Internal server error")

\* RpcInterceptor.toHttpException
ToHttpException(x) ==
    IF x.kind = "http" \/ IsRpcPayload(x)
    THEN Response(x.status, x.message)
    ELSE Response(500, "Internal server error")

\* WsExceptionFilter.normalize.  The code of a WsException takes the place of
\* WS_ERROR; an RPC payload is spread next to MESSAGE_SEND_FAILED.
Normalize(x) ==
    CASE x.kind = "ws"    -> [code |-> x.status, message |-> x.message]
      [] x.kind = "rpc"   -> [code |-> "MESSAGE_SEND_FAILED",
                              errorMessage |-> x.message, statusCode |-> x.status]
      [] x.kind = "value" -> [code |-> "INTERNAL_ERROR",
                              message |-> "An unexpected WebSocket error occurred"]
      [] OTHER            -> [code |-> "MESSAGE_SEND_FAILED",
                              message |-> x.message, status |-> x.status]

----------------------------------------------------------------------------
NoError == Error("none", None, None)

TypeOK ==
    /\ route \in Routes
    /\ at \in 0..Len(route)
    /\ thrown.kind \in LibraryKinds \cup {"none", "http", "rpc", "ws"}
    /\ thrown.kind = "rpc" => IsHttpStatus(thrown.status)
    /\ answer # None /\ route[1] = "http" =>
         answer \in [statusCode : 400..599, message : Said]
    /\ answer # None /\ route[1] = "ws" => "code" \in DOMAIN answer

Init ==
    /\ route \in Routes
    /\ at = 0
    /\ thrown = NoError
    /\ origin = [site |-> None, error |-> NoError]
    /\ answer = None

Throw(d, x) ==
    /\ at = 0
    /\ at' = d
    /\ thrown' = x
    /\ origin' = [site |-> route[d], error |-> x]
    /\ UNCHANGED <<route, answer>>

Filter ==
    /\ at > 0
    /\ route[at] \in Services
    /\ thrown' = RpcError(ToRpcErrorPayload(route[at], thrown))
    /\ at' = at - 1
    /\ UNCHANGED <<route, origin, answer>>

\* AuthGuard answers with an UnauthorizedException of its own whatever failed.
GuardCatches ==
    /\ at > 0
    /\ route[at] = "guard"
    /\ thrown' = Error("http", 401, "unauthorized")
    /\ at' = at - 1
    /\ UNCHANGED <<route, origin, answer>>

AnswerHttp ==
    /\ at = 1
    /\ route[1] = "http"
    /\ answer = None
    /\ answer' = ToHttpException(thrown)
    /\ UNCHANGED <<route, at, thrown, origin>>

EmitSendMessageError ==
    /\ at = 1
    /\ route[1] = "ws"
    /\ answer = None
    /\ answer' = Normalize(thrown)
    /\ UNCHANGED <<route, at, thrown, origin>>

Next ==
    \/ \E d \in 1..Len(route) : \E x \in Raised(route[d]) : Throw(d, x)
    \/ Filter
    \/ GuardCatches
    \/ AnswerHttp
    \/ EmitSendMessageError

Spec == Init /\ [][Next]_vars

----------------------------------------------------------------------------
\* Safety

AnswerStatus == IF "statusCode" \in DOMAIN answer THEN answer.statusCode ELSE None
AnswerText == IF "message" \in DOMAIN answer THEN answer.message ELSE answer.errorMessage

Guarded == \E d \in DOMAIN route : route[d] = "guard"

\* An exception a service threw on purpose reaches the client with its status
\* and its message, through however many filters: filtering is idempotent.
StatusKept ==
    answer # None /\ origin.error.kind = "http" /\ ~Guarded
    => /\ AnswerStatus = origin.error.status
       /\ AnswerText = origin.error.message

\* A duplicate key is a conflict in the words of the service that met it, not
\* of one that passed it on.
ConflictNamed ==
    answer # None /\ origin.error.kind = "duplicate" /\ ~Guarded
    => /\ AnswerStatus = 409
       /\ AnswerText = DuplicateErrorMessage(origin.site)

\* What a library said in a service stays there: the client learns the kind
\* of failure, never its text.
NothingInternal ==
    answer # None /\ (origin.site \in Services \/ route[1] = "http")
    => AnswerText # Internal

\* README.md: sendMessageError carries a code and a message.
SendMessageErrorShape ==
    answer # None /\ route[1] = "ws" => {"code", "message"} \subseteq DOMAIN answer
============================================================================
