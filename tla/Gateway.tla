------------------------------ MODULE Gateway ------------------------------
(***************************************************************************)
(* The HTTP gateway between browsers and the services.  A request to a     *)
(* guarded route first asks identity whose session its cookie is           *)
(* (SessionAuthGuard), then its body is validated, then one gRPC call does *)
(* the work; anything that fails on the way passes the error filter.       *)
(*                                                                         *)
(* Between these steps anything may happen: other requests, the session    *)
(* revoked or expired, the connection to a service broken while the call   *)
(* goes on (Break), a service killed (Crash), the response lost on its way *)
(* to the browser (Lose).  The gateway sets no deadline on its calls.      *)
(***************************************************************************)
EXTENDS Channel, GatewayErrors, Sequences, Integers, FiniteSets, TLC

CONSTANTS
    Requests,    \* slots for HTTP requests in progress
    Browsers,
    Loads,       \* what browsers may be up to: see load
    SessionAge, TickLength, MaxNow,   \* see Identity
    NoOrder, Missing                  \* see Services

ASSUME TimeAssumption ==
    SessionAge \in Nat \ {0} /\ TickLength \in Nat \ {0} /\ MaxNow \in Nat

ASSUME MissingAssumption ==
    /\ Missing \notin [ticketId : TicketIds, userId : Users,
                       status : {"Created", "AwaitingPayment", "Complete", "Canceled"}]
    /\ Missing \notin [price : Prices, userId : Users, reservedBy : OrderIds \cup {NoOrder}]

VARIABLES
    users, mails, sessions, now,                                    \* identity
    tickets, ticketsSeen, orders, lapsed, ordersSeen, payments,     \* services
    http,   \* the HTTP requests
    jar,    \* the session cookie each browser keeps
    load,   \* in this behaviour: the routes and bodies asked for (wanted), by which
            \* browsers, how many requests at a time, the clock's last reading, who
            \* is signed in and what is on sale at the start
    wrote   \* history: the calls that have changed a table

Id == INSTANCE Identity
Svc == INSTANCE Services

identityVars == <<users, mails, sessions, now>>
serviceVars == <<tickets, ticketsSeen, orders, lapsed, ordersSeen, payments>>
vars == <<identityVars, serviceVars, rpc, http, jar, load, wrote>>

NoUser == [id |-> "undefined"]
\* No cookie, or one that has expired; and a response that sets none.
NoCookie == [token |-> NoToken, expires |-> 0]
Keep == [token |-> NoToken, expires |-> -1]
SESSION_COOKIE_NAME == "better-auth.session_token"

-----------------------------------------------------------------------------
(* DTOs: the fields of a body that do not validate.  A field the DTO does   *)
(* not declare is forbidden (forbidNonWhitelisted).                         *)

Undeclared(body, declared) == DOMAIN body \ declared

SignUpDto(body) ==
    {f \in DOMAIN body :
        \/ f = "name" /\ body[f] = "empty"
        \/ f = "email" /\ body[f] = "malformed"
        \/ f = "password" /\ body[f] = "short"}
    \cup Undeclared(body, {"name", "email", "password"})

SignInDto(body) ==
    {f \in DOMAIN body :
        \/ f = "email" /\ body[f] = "malformed"
        \/ f = "password" /\ body[f] = "short"}
    \cup Undeclared(body, {"email", "password"})

VerifyEmailDto(body) == {f \in DOMAIN body : f = "token" /\ body[f] = ""}
                            \cup Undeclared(body, {"token"})

CreateOrderDto(body) == {f \in DOMAIN body : f = "ticketId" /\ body[f] = "malformed"}
                            \cup Undeclared(body, {"ticketId"})

CreatePaymentDto(body) == {f \in DOMAIN body : f = "orderId" /\ body[f] = "malformed"}
                            \cup Undeclared(body, {"orderId"})

CreateTicketDto(body) ==
    {f \in DOMAIN body :
        \/ f = "title" /\ body[f] = "empty"
        \/ f = "price" /\ body[f] \in {"zero", "excess"}}
    \cup Undeclared(body, {"title", "price"})

NoDto(body) == {}

-----------------------------------------------------------------------------
(* Controllers: which routes are guarded, and the status of success          *)

AuthController ==
    [signUp      |-> [guarded |-> FALSE, ok |-> 201],
     signIn      |-> [guarded |-> FALSE, ok |-> 201],
     signOut     |-> [guarded |-> FALSE, ok |-> 204],
     currentUser |-> [guarded |-> FALSE, ok |-> 200],
     verifyEmail |-> [guarded |-> FALSE, ok |-> 200]]

\* ok is the status when nothing new was created, if the service says so.
OrdersController ==
    [createOrder |-> [guarded |-> TRUE, ok |-> 200],
     cancelOrder |-> [guarded |-> TRUE, ok |-> 200],
     listOrders  |-> [guarded |-> TRUE, ok |-> 200],
     getOrder    |-> [guarded |-> TRUE, ok |-> 200]]

PaymentsController == [createPayment |-> [guarded |-> TRUE, ok |-> 200]]

TicketsController ==
    [listTickets  |-> [guarded |-> FALSE, ok |-> 200],
     getTicket    |-> [guarded |-> FALSE, ok |-> 200],
     updateTicket |-> [guarded |-> TRUE, ok |-> 200],
     createTicket |-> [guarded |-> TRUE, ok |-> 201]]

\* Records of routes put together: the modules of AppModule.
With(f, g) == [x \in DOMAIN f \cup DOMAIN g |-> IF x \in DOMAIN f THEN f[x] ELSE g[x]]

AppModule ==
    With(With(AuthController, TicketsController), With(OrdersController, PaymentsController))

Route == DOMAIN AppModule

\* The id of the path is kept beside the body.
WithoutId(body) == [f \in DOMAIN body \ {"id"} |-> body[f]]

\* The validation pipe: the DTO of each route.
Invalid(route, body) ==
    CASE route = "signUp"        -> SignUpDto(body)
      [] route = "signIn"        -> SignInDto(body)
      [] route = "verifyEmail"   -> VerifyEmailDto(body)
      [] route = "createOrder"   -> CreateOrderDto(body)
      [] route = "createPayment" -> CreatePaymentDto(body)
      [] route = "createTicket"  -> CreateTicketDto(body)
      [] route = "updateTicket"  -> CreateTicketDto(WithoutId(body))
      [] OTHER -> NoDto(body)

\* What a controller reads: the class of its body and, beside it, the id of the path.
Bodies ==
    [signUp        |-> SignUpRequest,
     signIn        |-> SignInRequest,
     signOut       |-> {<<>>},
     currentUser   |-> {<<>>},
     verifyEmail   |-> VerifyEmailRequest,
     createOrder   |-> [ticketId : TicketId],
     cancelOrder   |-> [id : OrderId],
     listOrders    |-> {<<>>},
     getOrder      |-> [id : OrderId],
     createPayment |-> [orderId : OrderId],
     listTickets   |-> {<<>>},
     getTicket     |-> [id : TicketId],
     updateTicket  |-> [id : TicketId, title : Title, price : Price],
     createTicket  |-> [title : Title, price : Price]]

\* Browsers that exist ask for routes that exist, and a body that is not refused has
\* the fields of its class (none of which is optional); who is signed in has an account
\* and a session, and what is on sale is a ticket.
ASSUME LoadsAssumption ==
    \A l \in Loads :
        /\ l.browsers \subseteq Browsers
        /\ \A want \in l.wanted :
            /\ want.route \in Route
            /\ Invalid(want.route, want.body) = {} => want.body \in Bodies[want.route]
        /\ \A s \in l.signedIn :
            s.browser \in Browsers /\ s.user \in Users /\ s.token \in SessionTokens
        /\ l.onSale \subseteq Ticket

-----------------------------------------------------------------------------
(* The gateway's own declarations of what each route sends to its service    *)
(* and answers to the client, kept by hand beside the generated ones.        *)

Declared(sent, body) == [sent |-> sent, body |-> body]

CurrentUserBody == [user : [id : Users, emailVerified : BOOLEAN]]

IdentityTypes ==
    [signUp      |-> Declared(SignUpRequest, SignUpResponse),
     signIn      |-> Declared(SignInRequest,
                              [user : [id : Users, emailVerified : BOOLEAN], session : Nat]),
     signOut     |-> Declared(SignOutRequest, SignOutResponse),
     currentUser |-> Declared(CurrentUserRequest, CurrentUserBody),
     verifyEmail |-> Declared(VerifyEmailRequest, VerifyEmailResponse)]

OrderResponse ==
    [id : OrderIds, ticketId : TicketIds, userId : Users,
     status : {"AwaitingPayment", "Canceled", "Complete", "Created"}]

OrdersTypes ==
    [createOrder |-> Declared(CreateOrderRequest, OrderResponse),
     cancelOrder |-> Declared(CancelOrderRequest, OrderResponse),
     listOrders  |-> Declared(ListOrdersRequest, [orders : SUBSET OrderResponse]),
     getOrder    |-> Declared(GetOrderRequest, OrderResponse)]

PaymentsTypes == [createPayment |-> Declared(CreatePaymentRequest, Payment)]

TicketsTypes ==
    [createTicket |-> Declared(CreateTicketRequest, CreateTicketResponse),
     updateTicket |-> Declared(UpdateTicketRequest, Ticket),
     getTicket    |-> Declared(GetTicketRequest, Ticket),
     listTickets  |-> Declared(ListTicketsRequest, ListTicketsResponse)]

Types == With(With(IdentityTypes, TicketsTypes), With(OrdersTypes, PaymentsTypes))

-----------------------------------------------------------------------------
(* Headers and cookies *)

\* The first cookie of that name; the header holds them in any order.
getCookieValue(cookies, name) ==
    LET hits == {i \in DOMAIN cookies : cookies[i].name = name} IN
    IF hits = {} THEN NoToken
    ELSE cookies[CHOOSE i \in hits : \A j \in hits : i <= j].value

createSessionRequestMetadata(headers) ==
    [NoMetadata EXCEPT !.cookie = getCookieValue(headers.cookies, SESSION_COOKIE_NAME)]

FORWARDED_AUTH_HEADERS ==
    {"origin", "referer", "sec-fetch-dest", "sec-fetch-mode", "sec-fetch-site",
     "user-agent"}

createAuthRequestMetadata(headers) ==
    [NoMetadata EXCEPT !.headers = headers.names \cap FORWARDED_AUTH_HEADERS]

\* What a browser sends: every header it has, other cookies, and the session
\* cookie unless it has expired.
HeadersOf(b) ==
    [names |-> Headers,
     cookies |-> <<[name |-> "theme", value |-> "dark"]>>
                    \o IF Id!Milliseconds < jar[b].expires
                       THEN <<[name |-> SESSION_COOKIE_NAME, value |-> jar[b].token]>>
                       ELSE <<>>]

-----------------------------------------------------------------------------
(* The gRPC call each route makes, and the item for a refusal without one *)

AuthServiceCall(route, body, headers) ==
    CASE route = "signUp" -> Sent("SignUp", body, NoMetadata)
      [] route = "signIn" -> Sent("SignIn", body, createAuthRequestMetadata(headers))
      [] route = "signOut" -> Sent("SignOut", <<>>, createSessionRequestMetadata(headers))
      [] route = "currentUser" -> Sent("CurrentUser", <<>>, createSessionRequestMetadata(headers))
      [] route = "verifyEmail" -> Sent("VerifyEmail", body, NoMetadata)

OrdersServiceCall(route, body, user) ==
    CASE route = "createOrder" ->
            Sent("CreateOrder", [ticketId |-> body.ticketId, userId |-> user], NoMetadata)
      [] route = "cancelOrder" ->
            Sent("CancelOrder", [orderId |-> body.id, userId |-> user], NoMetadata)
      [] route = "listOrders" -> Sent("ListOrders", [userId |-> user], NoMetadata)
      [] route = "getOrder" ->
            Sent("GetOrder", [orderId |-> body.id, userId |-> user], NoMetadata)

PaymentsServiceCall(body, user) ==
    Sent("CreatePayment", [orderId |-> body.orderId, userId |-> user], NoMetadata)

\* Mutant: the user is left out of the request.
TicketsServiceCallAnonymous(route, body, user) ==
    CASE route = "createTicket" -> Sent("CreateTicket", body, NoMetadata)
      [] route = "updateTicket" -> Sent("UpdateTicket", body, NoMetadata)
      [] route = "listTickets" -> Sent("ListTickets", <<>>, NoMetadata)
      [] route = "getTicket" -> Sent("GetTicket", [id |-> body.id], NoMetadata)

TicketsServiceCall(route, body, user) ==
    CASE route = "createTicket" ->
            Sent("CreateTicket", With(body, [userId |-> user]), NoMetadata)
      [] route = "updateTicket" ->
            Sent("UpdateTicket", With(body, [userId |-> user]), NoMetadata)
      [] route = "listTickets" -> Sent("ListTickets", <<>>, NoMetadata)
      [] route = "getTicket" -> Sent("GetTicket", [id |-> body.id], NoMetadata)

ServiceCall(route, body, headers, user) ==
    CASE route \in DOMAIN AuthController -> AuthServiceCall(route, body, headers)
      [] route \in DOMAIN OrdersController -> OrdersServiceCall(route, body, user)
      [] route \in DOMAIN PaymentsController -> PaymentsServiceCall(body, user)
      [] route \in DOMAIN TicketsController -> TicketsServiceCall(route, body, user)

Fallback(route) ==
    CASE route \in {"signOut", "currentUser", "verifyEmail", "listTickets", "getTicket"} -> {}
      [] route = "listOrders" -> {Item("INTERNAL_ERROR", "gateway")}
      [] OTHER -> {Item("INVALID_ARGUMENT", "gateway")}

-----------------------------------------------------------------------------
(* What the client is answered *)

\* A timestamp as milliseconds.
toDate(timestamp) == timestamp.seconds * 1000 + timestamp.nanos \div 1000000

toCurrentUserResponse(message) ==
    [user |-> [id |-> message.userId, emailVerified |-> message.emailVerified]]

\* The default case throws.
toOrderStatus(status) ==
    CASE status = "CREATED" -> "Created"
      [] status = "CANCELED" -> "Canceled"
      [] status = "AWAITING_PAYMENT" -> "AwaitingPayment"
      [] status = "COMPLETE" -> "Complete"
      [] OTHER -> "throws"

toOrderResponse(message) ==
    [id |-> message.id, ticketId |-> message.ticketId, userId |-> message.userId,
     status |-> toOrderStatus(message.status)]

toCreateOrderResponse(message) ==
    [created |-> message.created, order |-> toOrderResponse(message)]

toCancelOrderResponse(message) == toOrderResponse(message.order)

toListOrdersResponse(message) == {toOrderResponse(order) : order \in message.orders}

toGetOrderResponse(message) == toOrderResponse(message.order)

toPaymentResponse(message) == [id |-> message.id, orderId |-> message.orderId]

\* The orders of an answer, to see whether the conversion of one of them throws.
OrdersIn(route, message) ==
    CASE route = "createOrder" -> {toCreateOrderResponse(message).order}
      [] route = "cancelOrder" -> {toCancelOrderResponse(message)}
      [] route = "listOrders"  -> toListOrdersResponse(message)
      [] route = "getOrder"    -> {toGetOrderResponse(message)}
      [] OTHER -> {}

\* The response of a request that failed with this exception.
Failed(exception) ==
    [status |-> Catch(exception).status, errors |-> Catch(exception).errors,
     body |-> <<>>, cookie |-> Keep]

Succeeded(status, body, cookie) ==
    [status |-> status, errors |-> {}, body |-> body, cookie |-> cookie]

\* The session cookie of a sign-in, and the one that replaces it at sign-out.
SessionCookie(message) ==
    [token |-> message.sessionToken, expires |-> toDate(message.sessionExpiresAt)]

\* The status of a POST that may find what it would create.
CreationStatus(created) == IF created THEN 201 ELSE 200

Success(route, message) ==
    LET ok == AppModule[route].ok IN
    CASE route = "signUp" -> Succeeded(ok, message, Keep)
      [] route = "signIn" ->
            Succeeded(ok, With([session |-> toDate(message.sessionExpiresAt)],
                               toCurrentUserResponse(message)), SessionCookie(message))
      [] route = "signOut" -> Succeeded(ok, <<>>, NoCookie)
      [] route = "currentUser" -> Succeeded(ok, toCurrentUserResponse(message), Keep)
      [] route = "verifyEmail" -> Succeeded(ok, message, Keep)
      [] route = "createOrder" ->
            LET result == toCreateOrderResponse(message) IN
            Succeeded(CreationStatus(result.created), result.order, Keep)
      [] route = "cancelOrder" -> Succeeded(ok, toCancelOrderResponse(message), Keep)
      [] route = "listOrders" -> Succeeded(ok, [orders |-> toListOrdersResponse(message)], Keep)
      [] route = "getOrder" -> Succeeded(ok, toGetOrderResponse(message), Keep)
      [] route = "createPayment" ->
            Succeeded(CreationStatus(message.created), toPaymentResponse(message.payment), Keep)
      [] route \in {"updateTicket", "getTicket"} -> Succeeded(ok, message.ticket, Keep)
      [] route = "listTickets" -> Succeeded(ok, message, Keep)
      [] route = "createTicket" -> Succeeded(ok, message, Keep)

\* Mutant: the sign-out clears the cookie whether or not identity did its part.
ResponseSwallowing(route, reply) ==
    CASE route = "signOut" -> Success(route, <<>>)
      [] route # "signOut" /\ reply.code # "OK" ->
            Failed(throwGatewayGrpcError(GrpcError(reply), Fallback(route)))
      [] OTHER -> Success(route, reply.message)

\* The answer of the call becomes the response of the request.
Response(route, reply) ==
    CASE reply.code # "OK" -> Failed(throwGatewayGrpcError(GrpcError(reply), Fallback(route)))
      [] /\ reply.code = "OK"
         /\ \E order \in OrdersIn(route, reply.message) : order.status = "throws" ->
            Failed(throwGatewayGrpcError([kind |-> "other"], Fallback(route)))
      [] OTHER -> Success(route, reply.message)

-----------------------------------------------------------------------------
(* Requests *)

\* Request r makes a call, in a free slot or that of its guard's call, which is over.
Start(r, c, call) ==
    /\ IF http[r].phase = "guard" THEN c = http[r].call ELSE rpc[c] = Idle
    /\ rpc' = [rpc EXCEPT ![c] = call]
    /\ wrote' = wrote \ {c}

\* The answer of request r's call is read.
Release(r) ==
    /\ rpc' = [rpc EXCEPT ![http[r].call] = Idle]
    /\ wrote' = wrote \ {http[r].call}

Respond(r, request, response) ==
    http' = [http EXCEPT ![r] = [request EXCEPT !.phase = "answered", !.call = "none",
                                                !.body = <<>>, !.response = response]]

\* @CurrentUser() of a guarded route: without a user there is nobody to act for.
CurrentUser(request) == AppModule[request.route].guarded => request.user # NoUser

UnauthorizedException ==
    [kind |-> "http", status |-> 401,
     response |-> [form |-> "message", errors |-> {}, messages |-> {"gateway"}]]

\* After the guard, if there is one: the validation pipe, then the controller.
Dispatch(r, request) ==
    LET invalid == Invalid(request.route, request.body)
        declared == DOMAIN request.body \ {"extra"} IN
    \/ /\ invalid # {} \/ ~CurrentUser(request)
       /\ Respond(r, request,
                  Failed(IF invalid # {} THEN createValidationApiError(invalid, declared)
                         ELSE UnauthorizedException))
       /\ IF http[r].phase = "guard" THEN Release(r) ELSE UNCHANGED <<rpc, wrote>>
    \/ /\ invalid = {} /\ CurrentUser(request)
       /\ \E c \in Calls :
            /\ Start(r, c, ServiceCall(request.route, request.body, request.headers,
                                      request.user.id))
            /\ http' = [http EXCEPT ![r] = [request EXCEPT !.phase = "service", !.call = c]]

\* A browser sends a request.  stale is a history: the session of the cookie was
\* over already at this time.
Receive(r, b, want) ==
    LET headers == HeadersOf(b)
        cookie == createSessionRequestMetadata(headers).cookie
        request == [phase |-> "received", browser |-> b, route |-> want.route,
                    body |-> want.body, headers |-> headers, user |-> NoUser,
                    call |-> "none", response |-> Failed([kind |-> "other"]),
                    stale |-> ~Id!IsLive(cookie)] IN
    /\ http[r].phase = "idle"
    /\ UNCHANGED <<identityVars, serviceVars, jar>>
    /\ \/ /\ ~AppModule[want.route].guarded
          /\ Dispatch(r, request)
       \/ /\ AppModule[want.route].guarded
          /\ \E c \in Calls :
                /\ Start(r, c, AuthServiceCall("currentUser", <<>>, headers))
                /\ http' = [http EXCEPT ![r] = [request EXCEPT !.phase = "guard", !.call = c]]

\* Mutant: a guard that lets a request pass when identity does not answer.
canActivateOpen(r) ==
    LET reply == rpc[http[r].call].reply IN
    /\ http[r].phase = "guard" /\ rpc[http[r].call].phase = "done"
    /\ UNCHANGED <<identityVars, serviceVars, jar>>
    /\ Dispatch(r, [http[r] EXCEPT !.user =
            IF reply.code = "OK" THEN toCurrentUserResponse(reply.message).user
            ELSE [id |-> CHOOSE u \in Users : TRUE, emailVerified |-> TRUE]])

\* SessionAuthGuard: the answer decides whether the request goes on.
canActivate(r) ==
    LET reply == rpc[http[r].call].reply IN
    /\ http[r].phase = "guard" /\ rpc[http[r].call].phase = "done"
    /\ UNCHANGED <<identityVars, serviceVars, jar>>
    /\ \/ /\ reply.code = "OK"
          /\ Dispatch(r, [http[r] EXCEPT !.user = toCurrentUserResponse(reply.message).user])
       \/ /\ reply.code # "OK"
          /\ Respond(r, http[r], Failed(throwGatewayGrpcError(GrpcError(reply), {})))
          /\ Release(r)

\* The service call is answered.
Finish(r) ==
    /\ http[r].phase = "service" /\ rpc[http[r].call].phase = "done"
    /\ Respond(r, http[r], Response(http[r].route, rpc[http[r].call].reply))
    /\ Release(r)
    /\ UNCHANGED <<identityVars, serviceVars, jar>>

\* The connection breaks: the gateway gets UNAVAILABLE, the call may go on.
Break(r) ==
    /\ http[r].phase \in {"guard", "service"}
    /\ Respond(r, http[r], Response(http[r].route, Failure("UNAVAILABLE", {})))
    /\ Abandon(http[r].call)
    /\ wrote' = wrote \ {http[r].call}
    /\ UNCHANGED <<identityVars, serviceVars, jar>>

\* The response arrives with its cookie, or is lost.
Deliver(r) ==
    LET b == http[r].browser
        cookie == http[r].response.cookie IN
    /\ http[r].phase = "answered"
    /\ http' = [http EXCEPT ![r] = Idle]
    /\ jar' = IF cookie = Keep THEN jar ELSE [jar EXCEPT ![b] = cookie]
    /\ UNCHANGED <<identityVars, serviceVars, rpc, wrote>>

Lose(r) ==
    /\ http[r].phase = "answered"
    /\ http' = [http EXCEPT ![r] = Idle]
    /\ UNCHANGED <<identityVars, serviceVars, rpc, jar, wrote>>

-----------------------------------------------------------------------------
(* The whole *)

\* A step of a service on a call, with the history of which calls wrote.
Handle(c) ==
    /\ \/ Id!Handle(c) /\ UNCHANGED serviceVars
       \/ Svc!Serve(c) /\ UNCHANGED identityVars
    /\ wrote' = IF <<users, sessions, serviceVars>>' # <<users, sessions, serviceVars>>
                    /\ ~rpc[c].abandoned
                THEN wrote \cup {c} ELSE wrote
    /\ UNCHANGED <<http, jar>>

Crash(c) == Drop(c) /\ UNCHANGED <<identityVars, serviceVars, http, jar, wrote>>

Tick == now < load.ticks /\ Id!Tick /\ UNCHANGED <<serviceVars, http, jar, wrote>>

Event == Svc!Background /\ UNCHANGED <<identityVars, rpc, http, jar, wrote>>

\* A verification link is opened only by who got it.
Ask(r) ==
    \E b \in load.browsers, want \in load.wanted :
        /\ Cardinality({q \in Requests : http[q].phase # "idle"}) < load.requests
        /\ want.route = "verifyEmail" => Id!Mailed(want.body.token)
        /\ Receive(r, b, want)

\* Some users are signed in already.
Init ==
    /\ load \in Loads
    /\ users = [u \in Users |->
                  IF \E s \in load.signedIn : s.user = u THEN "verified" ELSE "none"]
    /\ mails = [u \in Users |-> IF users[u] = "verified" THEN 1 ELSE 0]
    /\ sessions = [t \in SessionTokens |->
                     IF \E s \in load.signedIn : s.token = t
                     THEN [state |-> "live", expiresAt |-> SessionAge,
                           user |-> (CHOOSE s \in load.signedIn : s.token = t).user]
                     ELSE Id!Unused]
    /\ now = 0
    /\ Svc!TablesInit(load.onSale)
    /\ rpc = [c \in Calls |-> Idle]
    /\ http = [r \in Requests |-> Idle]
    /\ jar = [b \in Browsers |->
                IF \E s \in load.signedIn : s.browser = b
                THEN [token |-> (CHOOSE s \in load.signedIn : s.browser = b).token,
                      expires |-> SessionAge]
                ELSE NoCookie]
    /\ wrote = {}

Step ==
    \/ \E r \in Requests : Ask(r) \/ canActivate(r) \/ Finish(r) \/ Break(r) \/ Deliver(r) \/ Lose(r)
    \/ \E c \in Calls : Handle(c) \/ Crash(c)
    \/ Tick \/ Event

Next == Step /\ UNCHANGED load

Spec == Init /\ [][Next]_vars

-----------------------------------------------------------------------------
(* Properties *)

Guarded(r) == http[r].phase # "idle" /\ AppModule[http[r].route].guarded

Cookie(r) == createSessionRequestMetadata(http[r].headers).cookie

IdentityMethods == DOMAIN IdentityService

AllServices == With(With(OrdersService, TicketsService), PaymentsService)

\* The tables and the requests are well formed; every call carries the message
\* its method declares and gets one in return, and both are what the gateway
\* declares for the route (the status of an order is a named one); a sign-in forwards exactly the
\* headers identity goes on to use and no cookie, every other call no header.
TypeOK ==
    /\ Svc!TablesOK /\ Id!TablesOK
    /\ load \in Loads
    /\ wrote \subseteq Calls
    /\ \A b \in Browsers : jar[b].token \in SessionTokens \cup {NoToken}
    /\ \A r \in Requests :
        /\ http[r].phase \in {"idle", "guard", "service", "answered"}
        /\ http[r].phase = "answered" =>
            /\ http[r].response.status \in {200, 201, 204, 400, 401, 403, 404, 409, 500, 503}
            /\ http[r].response.status >= 400 <=> http[r].response.errors # {}
            /\ http[r].response.status < 400 => http[r].response.body \in Types[http[r].route].body
        /\ http[r].phase = "service" =>
            rpc[http[r].call].request \in Types[http[r].route].sent
    /\ \A c \in Calls : rpc[c] # Idle =>
        /\ WellFormed(c, IF rpc[c].method \in IdentityMethods
                         THEN IdentityService ELSE AllServices)
        /\ Id!createAuthRequestHeaders(rpc[c].metadata) = rpc[c].metadata.headers
        /\ rpc[c].metadata.headers # {} => rpc[c].method = "SignIn"
        /\ Id!createSessionRequestHeaders(rpc[c].metadata) # NoToken =>
            rpc[c].method \in {"SignOut", "CurrentUser"}

\* Whatever a guarded call reads or writes, it does for the user whose session
\* cookie the request came with, and its answer shows orders of that user only
\* (SessionAuthGuard, @CurrentUser), although the session is not looked at again
\* after the guard.
ActsForSessionUser ==
    \A r \in Requests :
        /\ Guarded(r) /\ http[r].phase = "service" =>
            /\ Cookie(r) # NoToken
            /\ rpc[http[r].call].phase = "sent" =>
                rpc[http[r].call].request.userId = sessions[Cookie(r)].user
        /\ Guarded(r) /\ http[r].phase = "answered" /\ http[r].response.status < 300 =>
            LET body == http[r].response.body
                shown == CASE http[r].route \in {"createOrder", "cancelOrder", "getOrder"} -> {body}
                           [] http[r].route = "listOrders" -> body.orders
                           [] http[r].route = "createPayment" ->
                                {[userId |-> orders[body.orderId].userId]}
                           [] OTHER -> {[userId |-> body.userId]} IN
            \A x \in shown : x.userId = sessions[Cookie(r)].user

\* A request sent after its session was over (signed out elsewhere, expired, or
\* never there) is refused before the service is called.  Only a request that was
\* on its way before the sign-out can still act after it.
StaleSessionsAreRefused ==
    \A r \in Requests :
        Guarded(r) /\ http[r].stale =>
            /\ http[r].phase # "service"
            /\ http[r].phase = "answered" => http[r].response.status \in {401, 500, 503}

\* The cookie a browser keeps never promises more than the session it names: the
\* expiry went from the database through seconds and nanoseconds back to a date
\* (toTimestamp, toDate), and later requests put off the session's expiry only.
CookieWithinSession ==
    \A b \in Browsers : jar[b].token # NoToken =>
        /\ sessions[jar[b].token] # Id!Unused
        /\ jar[b].expires <= sessions[jar[b].token].expiresAt

\* A browser that is told 204 has no session any more: "If identity cannot revoke
\* the session, the gateway returns its structured error and retains the cookie".
\* Identity learns of a failed deletion if Better Auth throws (Identity!signOut).
SignedOutIsOver ==
    \A r \in Requests :
        http[r].phase = "answered" /\ http[r].response.status = 204 /\ Cookie(r) # NoToken
            => ~Id!IsLive(Cookie(r))

Answers(r) == http[r].phase # "answered" /\ http'[r].phase = "answered"

\* What a status says of the effect is true, whatever was lost or retried: after
\* a 4xx nothing was done, after a 201 the call did it, after a 200 to a POST it
\* had been done before; only a 5xx leaves it open.
StatusTellsEffect ==
    [][\A r \in Requests : Answers(r) /\ http[r].phase = "service" =>
        LET status == http'[r].response.status
            did == http[r].call \in wrote IN
        /\ status \in 400 .. 499 => ~did
        /\ status = 201 /\ http[r].route \in {"createOrder", "createPayment", "createTicket"} => did
        /\ status = 200 /\ http[r].route \in {"createOrder", "createPayment"} => ~did]_vars

Answered(r) == http[r].phase = "answered"

\* An error tells whose fault it was and no more: a 4xx comes with the items that
\* a service or the gateway gave for it, never with those of an outage or an
\* internal error, and a 5xx with nothing of what a failing service said
\* ("Service implementation details ... must not be included in public error
\* messages", docs/error-contract.md).
ErrorsTellWhoseFault ==
    \A r \in Requests : Answered(r) /\ http[r].response.status >= 400 =>
        LET status == http[r].response.status
            errors == http[r].response.errors IN
        IF status < 500
        THEN errors # {} /\ errors \subseteq
                 [code : PublicCode \ {"INTERNAL_ERROR", "SERVICE_UNAVAILABLE"},
                  text : {"service", "gateway"}]
        ELSE errors = {IF status = 503 THEN Unavailable ELSE Unexpected}
=============================================================================
