--------------------------- MODULE GatewayProofs ----------------------------
(***************************************************************************)
(* Theorems about Gateway, for any browsers, users, sessions and numbers   *)
(* of requests and calls at a time.                                        *)
(***************************************************************************)
EXTENDS Gateway, TLAPS

----------------------------------------------------------------------------
(* The routes. *)

GuardedRoutes ==
    {"createOrder", "cancelOrder", "listOrders", "getOrder", "createPayment", "updateTicket",
     "createTicket"}

OpenRoutes ==
    {"signUp", "signIn", "signOut", "currentUser", "verifyEmail", "listTickets", "getTicket"}

LEMMA Routes ==
    /\ Route = GuardedRoutes \cup OpenRoutes
    /\ \A route \in Route : AppModule[route].guarded <=> route \in GuardedRoutes
    /\ \A route \in Route : AppModule[route].ok = 204 <=> route = "signOut"
    /\ \A route \in Route : AppModule[route].ok \in {200, 201, 204}
  <1> DEFINE accounts == AuthController
             sales == With(OrdersController, PaymentsController)
             first == With(AuthController, TicketsController)
  <1>1. /\ DOMAIN AuthController = {"signUp", "signIn", "signOut", "currentUser", "verifyEmail"}
        /\ DOMAIN OrdersController = {"createOrder", "cancelOrder", "listOrders", "getOrder"}
        /\ DOMAIN PaymentsController = {"createPayment"}
        /\ DOMAIN TicketsController = {"listTickets", "getTicket", "updateTicket", "createTicket"}
    BY DEF AuthController, OrdersController, PaymentsController, TicketsController
  <1>2. /\ DOMAIN sales = {"createOrder", "cancelOrder", "listOrders", "getOrder", "createPayment"}
        /\ \A route \in DOMAIN OrdersController : sales[route] = OrdersController[route]
        /\ sales["createPayment"] = PaymentsController["createPayment"]
    BY <1>1 DEF With
  <1>3. /\ DOMAIN first = DOMAIN AuthController \cup DOMAIN TicketsController
        /\ \A route \in DOMAIN AuthController : first[route] = AuthController[route]
        /\ \A route \in DOMAIN TicketsController : first[route] = TicketsController[route]
    BY <1>1 DEF With
  <1> HIDE DEF sales, first
  <1>4. AppModule = With(first, sales)
    BY DEF AppModule, first, sales
  <1>5. /\ Route = DOMAIN first \cup DOMAIN sales
        /\ \A route \in DOMAIN first : AppModule[route] = first[route]
        /\ \A route \in DOMAIN sales : AppModule[route] = sales[route]
    BY <1>1, <1>2, <1>3, <1>4 DEF With, Route
  <1>6. Route = GuardedRoutes \cup OpenRoutes
    BY <1>1, <1>2, <1>3, <1>5 DEF GuardedRoutes, OpenRoutes
  <1>7. ASSUME NEW route \in DOMAIN AuthController
        PROVE  /\ ~AppModule[route].guarded
               /\ AppModule[route].ok = 204 <=> route = "signOut"
               /\ AppModule[route].ok \in {200, 201, 204}
    BY <1>1, <1>3, <1>5 DEF AuthController
  <1>8. ASSUME NEW route \in DOMAIN TicketsController
        PROVE  /\ AppModule[route].guarded <=> route \in {"updateTicket", "createTicket"}
               /\ AppModule[route].ok \in {200, 201}
    BY <1>1, <1>3, <1>5 DEF TicketsController
  <1>9. ASSUME NEW route \in DOMAIN sales
        PROVE  AppModule[route].guarded /\ AppModule[route].ok = 200
    BY <1>1, <1>2, <1>5 DEF OrdersController, PaymentsController
  <1> QED
    BY <1>1, <1>2, <1>3, <1>5, <1>6, <1>7, <1>8, <1>9 DEF GuardedRoutes, OpenRoutes

\* The session cookie a browser sends is the one it keeps, if it has not expired:
\* the first of that name in the header.
LEMMA CookieSent ==
    ASSUME NEW b
    PROVE  createSessionRequestMetadata(HeadersOf(b)).cookie =
             IF Id!Milliseconds < jar[b].expires THEN jar[b].token ELSE NoToken
  <1> DEFINE theme == [name |-> "theme", value |-> "dark"]
             session == [name |-> SESSION_COOKIE_NAME, value |-> jar[b].token]
             cookies == HeadersOf(b).cookies
             hits == {i \in DOMAIN cookies : cookies[i].name = SESSION_COOKIE_NAME}
  <1>1. createSessionRequestMetadata(HeadersOf(b)).cookie = getCookieValue(cookies, SESSION_COOKIE_NAME)
    BY DEF createSessionRequestMetadata, NoMetadata
  <1>2. CASE Id!Milliseconds < jar[b].expires
    <2>1. DOMAIN cookies = {1, 2} /\ cookies[1] = theme /\ cookies[2] = session
      <3>1. cookies = <<theme>> \o <<session>>
        BY <1>2 DEF HeadersOf
      <3> HIDE DEF theme, session, cookies
      <3> QED
        BY <3>1
    <2>2. hits = {2}
      BY <2>1 DEF SESSION_COOKIE_NAME
    <2>3. (CHOOSE i \in hits : \A j \in hits : i <= j) = 2
      BY <2>2
    <2>4. cookies[2].value = jar[b].token
      BY <2>1
    <2> QED
      BY <1>1, <1>2, <2>2, <2>3, <2>4 DEF getCookieValue
  <1>3. CASE ~(Id!Milliseconds < jar[b].expires)
    <2>1. cookies = <<theme>>
      BY <1>3 DEF HeadersOf
    <2>2. hits = {}
      BY <2>1 DEF SESSION_COOKIE_NAME
    <2> QED
      BY <1>1, <1>3, <2>2 DEF getCookieValue
  <1> QED
    BY <1>2, <1>3

\* An expiry survives the way through seconds and nanoseconds.
LEMMA ExpiryKept ==
    ASSUME NEW m \in Nat
    PROVE  toDate(Id!toTimestamp(m)) = m
  BY DEF toDate, Id!toTimestamp

----------------------------------------------------------------------------
(* Sessions and cookies: the inductive invariant. *)

\* A call, and a request in progress, are records of these fields.
CallFields == {"phase", "method", "request", "metadata", "token", "reply", "abandoned"}

RequestFields ==
    {"phase", "browser", "route", "body", "headers", "user", "call", "response", "stale"}

IsCall(x) ==
    /\ x = [f \in CallFields |-> x[f]]
    /\ x.phase \in {"sent", "mailing", "expiry", "done"}
    /\ x.abandoned \in BOOLEAN

IsRequest(x) ==
    /\ x = [f \in RequestFields |-> x[f]]
    /\ x.phase \in {"guard", "service", "answered"}
    /\ x.route \in Route /\ x.browser \in Browsers /\ x.stale \in BOOLEAN

IsSession(x) ==
    /\ x = [state |-> x.state, user |-> x.user, expiresAt |-> x.expiresAt]
    /\ x.state \in {"live", "revoked"}
    /\ x.expiresAt \in Nat

SessionsTyped ==
    /\ sessions = [t \in SessionTokens |-> sessions[t]]
    /\ \A t \in SessionTokens : sessions[t] = Id!Unused \/ IsSession(sessions[t])
    /\ now \in Nat

Shapes ==
    /\ SessionsTyped
    /\ load \in Loads
    /\ rpc = [c \in Calls |-> rpc[c]]
    /\ \A c \in Calls : rpc[c] = Idle \/ IsCall(rpc[c])
    /\ http = [r \in Requests |-> http[r]]
    /\ \A r \in Requests : http[r] = Idle \/ IsRequest(http[r])
    /\ jar = [b \in Browsers |-> jar[b]]

\* A token that stands for a session there is or was, or no cookie at all.
Used(t) == t = NoToken \/ (t \in SessionTokens /\ sessions[t] # Id!Unused)

\* A session that is over stays over: no token is drawn twice, and only a live
\* session is put off.
Over(t) == Used(t) /\ ~Id!IsLive(t)

\* A cookie that promises no more than its session.
GoodCookie(cookie) ==
    /\ cookie = [token |-> cookie.token, expires |-> cookie.expires]
    /\ cookie.expires \in Int
    /\ Used(cookie.token)
    /\ cookie.token # NoToken => cookie.expires <= sessions[cookie.token].expiresAt

\* No session lasts beyond what the clock allows, so putting it off only adds.
ExpiriesBounded ==
    \A t \in SessionTokens :
        sessions[t] # Id!Unused => sessions[t].expiresAt <= Id!Milliseconds + SessionAge

\* What the guard may be told of a cookie that is no session's.
Refusals ==
    {Failure("UNAUTHENTICATED", {Id!createCurrentUserUnauthenticatedError}),
     Failure("INTERNAL", {Id!createCurrentUserInternalError}),
     Failure("UNAVAILABLE", {})}

\* What identity has answered is true, and stays true until it is read.
CurrentUserTrue(call) ==
    \/ /\ call.reply.code = "OK"
       /\ call.metadata.cookie # NoToken
       /\ call.reply.message.userId = sessions[call.metadata.cookie].user
    \/ call.reply \in Refusals

CallTrue(call) ==
    call # Idle =>
        /\ Used(call.metadata.cookie)
        /\ call.phase = "done" /\ call.method = "CurrentUser" => CurrentUserTrue(call)
        /\ call.phase = "done" /\ call.method = "SignIn" /\ call.reply.code = "OK" =>
            GoodCookie(SessionCookie(call.reply.message))
        /\ call.phase = "done" /\ call.method = "SignOut" /\ call.reply.code = "OK" =>
            Over(call.metadata.cookie)

Calling(r) == http[r].phase \in {"guard", "service"}

\* A call somebody waits for is that of one request.
Owns(r) ==
    Calling(r) =>
        /\ http[r].call \in Calls
        /\ rpc[http[r].call] # Idle
        /\ ~rpc[http[r].call].abandoned
        /\ \A q \in Requests : q # r /\ Calling(q) => http[q].call # http[r].call

\* What is true of a request, given the call it waits for.
RequestTrue(request, call) ==
    LET cookie == createSessionRequestMetadata(request.headers).cookie
        guarded == request.route \in GuardedRoutes IN
    request # Idle =>
        /\ Used(cookie)
        /\ request.stale => Over(cookie)
        /\ request.phase = "guard" =>
            /\ guarded
            /\ call.method = "CurrentUser"
            /\ call.metadata.cookie = cookie
            /\ request.stale /\ call.phase = "done" => call.reply.code # "OK"
        /\ request.phase = "service" =>
            /\ guarded => ~request.stale
            /\ request.route = "signIn" => call.method = "SignIn"
            /\ request.route = "signOut" =>
                call.method = "SignOut" /\ call.metadata.cookie = cookie
        /\ request.phase = "answered" =>
            /\ GoodCookie(request.response.cookie)
            /\ guarded /\ request.stale => request.response.status \in {401, 500, 503}
            /\ request.response.status = 204 => Over(cookie)

SessionInv ==
    /\ Shapes
    /\ ExpiriesBounded
    /\ \A b \in Browsers : GoodCookie(jar[b])
    /\ \A c \in Calls : CallTrue(rpc[c])
    /\ \A r \in Requests : Owns(r) /\ RequestTrue(http[r], rpc[http[r].call])

\* What a step may do to the sessions.
SessionsGrow ==
    /\ SessionsTyped'
    /\ ExpiriesBounded'
    /\ \A t \in SessionTokens : sessions[t] # Id!Unused =>
        /\ sessions'[t] # Id!Unused
        /\ sessions'[t].user = sessions[t].user
        /\ sessions'[t].expiresAt >= sessions[t].expiresAt
        /\ ~Id!IsLive(t) => ~Id!IsLive(t)'

LEMMA ClockIsNat ==
    ASSUME now \in Nat
    PROVE  Id!Milliseconds \in Nat
  BY TimeAssumption DEF Id!Milliseconds

LEMMA ClockAdvances ==
    ASSUME now \in Nat, now' = now + 1
    PROVE  Id!Milliseconds' \in Nat /\ Id!Milliseconds' >= Id!Milliseconds
  BY TimeAssumption DEF Id!Milliseconds

\* A session row is not the mark of an unused token.
LEMMA SessionIsUsed ==
    ASSUME NEW x, IsSession(x)
    PROVE  x # Id!Unused
  <1>1. Id!Unused.state = "unused"
    BY DEF Id!Unused
  <1> QED
    BY <1>1 DEF IsSession

\* A step writes one row, keeping what SessionsGrow asks of it.
LEMMA RowWritten ==
    ASSUME SessionsTyped, ExpiriesBounded, UNCHANGED now,
           NEW t \in SessionTokens, NEW row, IsSession(row),
           sessions' = [sessions EXCEPT ![t] = row],
           row.expiresAt <= Id!Milliseconds + SessionAge,
           sessions[t] # Id!Unused =>
             /\ row.user = sessions[t].user
             /\ row.expiresAt >= sessions[t].expiresAt
             /\ row.state = "live" => Id!IsLive(t)
    PROVE  SessionsGrow
  <1>1. row # Id!Unused
    BY SessionIsUsed
  <1>2. /\ sessions'[t] = row
        /\ \A s \in SessionTokens : s # t => sessions'[s] = sessions[s]
        /\ sessions' = [s \in SessionTokens |-> sessions'[s]]
    BY DEF SessionsTyped
  <1>3. SessionsTyped'
    BY <1>2 DEF SessionsTyped
  <1>4. Id!Milliseconds' = Id!Milliseconds
    BY DEF Id!Milliseconds
  <1>5. ExpiriesBounded'
    BY <1>2, <1>4 DEF ExpiriesBounded
  <1>6. ASSUME NEW s \in SessionTokens, sessions[s] # Id!Unused
        PROVE  /\ sessions'[s] # Id!Unused
               /\ sessions'[s].user = sessions[s].user
               /\ sessions'[s].expiresAt >= sessions[s].expiresAt
               /\ ~Id!IsLive(s) => ~Id!IsLive(s)'
    <2>1. CASE s = t
      BY <1>1, <1>2, <1>4, <1>6, <2>1 DEF Id!IsLive
    <2>2. CASE s # t
      <3>1. IsSession(sessions[s])
        BY <1>6 DEF SessionsTyped
      <3>2. sessions[s].expiresAt >= sessions[s].expiresAt
        BY <3>1 DEF IsSession
      <3> QED
        BY <1>2, <1>4, <1>6, <2>2, <3>2 DEF Id!IsLive
    <2> QED
      BY <2>1, <2>2
  <1> QED
    BY <1>3, <1>5, <1>6 DEF SessionsGrow

\* Where the sessions stay as they are and time passes or not.
LEMMA RowsStay ==
    ASSUME SessionsTyped, ExpiriesBounded, UNCHANGED sessions, now' = now \/ now' = now + 1
    PROVE  SessionsGrow
  <1>1. now' \in Nat /\ Id!Milliseconds \in Nat /\ Id!Milliseconds' >= Id!Milliseconds
        /\ Id!Milliseconds' \in Nat
    <2>1. CASE now' = now
      BY <2>1, ClockIsNat DEF SessionsTyped, Id!Milliseconds
    <2>2. CASE now' = now + 1
      BY <2>2, ClockIsNat, ClockAdvances DEF SessionsTyped
    <2> QED
      BY <2>1, <2>2
  <1>2. \A s \in SessionTokens : sessions[s] # Id!Unused => sessions[s].expiresAt \in Nat
    BY DEF SessionsTyped, IsSession
  <1>3. SessionsTyped'
    BY <1>1 DEF SessionsTyped
  <1>4. ExpiriesBounded'
    <2> SUFFICES ASSUME NEW t \in SessionTokens, sessions[t] # Id!Unused
                 PROVE  sessions[t].expiresAt <= Id!Milliseconds' + SessionAge
      BY DEF ExpiriesBounded
    <2>1. sessions[t].expiresAt <= Id!Milliseconds + SessionAge
      BY DEF ExpiriesBounded
    <2> QED
      BY <1>1, <1>2, <2>1, TimeAssumption
  <1>5. \A s \in SessionTokens : sessions[s] # Id!Unused =>
          sessions[s].expiresAt >= sessions[s].expiresAt /\ (~Id!IsLive(s) => ~Id!IsLive(s)')
    BY <1>1, <1>2 DEF Id!IsLive
  <1> QED
    BY <1>3, <1>4, <1>5 DEF SessionsGrow

\* The sessions only grow, whoever takes the step.
LEMMA SessionSteps ==
    ASSUME SessionInv, [Next]_vars
    PROVE  SessionsGrow
  <1>0. /\ SessionsTyped /\ ExpiriesBounded
        /\ \A c \in Calls : rpc[c] # Idle => Used(rpc[c].metadata.cookie)
        /\ Id!Milliseconds \in Nat
    BY ClockIsNat DEF SessionInv, Shapes, CallTrue, SessionsTyped
  <1>1. ASSUME NEW c \in Calls, Id!Handle(c)
        PROVE  SessionsGrow
    <2>0. UNCHANGED now
      BY <1>1 DEF Id!Handle, Id!signUp, Id!sendVerificationEmail, Id!signIn, Id!getSessionExpiry,
                  Id!signOut, Id!currentUser, Id!verifyEmail
    <2>1. rpc[c] # Idle
      <3>1. Idle.phase = "idle"
        BY DEF Idle
      <3> QED
        BY <1>1, <3>1 DEF Id!Handle, Id!signUp, Id!sendVerificationEmail, Id!signIn,
                  Id!getSessionExpiry, Id!signOut, Id!currentUser, Id!verifyEmail, Id!Waits
    <2>2. CASE Id!signIn(c) /\ sessions' # sessions
      <3>1. PICK t \in SessionTokens :
              /\ sessions[t] = Id!Unused
              /\ sessions' = [sessions EXCEPT ![t] =
                   [state |-> "live", user |-> rpc[c].request.email,
                    expiresAt |-> Id!Milliseconds + SessionAge]]
        BY <2>2 DEF Id!signIn
      <3> DEFINE row == [state |-> "live", user |-> rpc[c].request.email,
                         expiresAt |-> Id!Milliseconds + SessionAge]
      <3>2. IsSession(row) /\ row.expiresAt <= Id!Milliseconds + SessionAge
        BY <1>0, TimeAssumption DEF IsSession
      <3>3. sessions' = [sessions EXCEPT ![t] = row] /\ sessions[t] = Id!Unused
        BY <3>1
      <3> HIDE DEF row
      <3> QED
        BY <1>0, <2>0, <3>2, <3>3, RowWritten
    <2>3. CASE Id!signOut(c) /\ sessions' # sessions
      <3> DEFINE t == rpc[c].metadata.cookie
                 row == [sessions[t] EXCEPT !.state = "revoked"]
      <3>1. /\ t # NoToken /\ sessions[t].state = "live"
            /\ sessions' = [sessions EXCEPT ![t].state = "revoked"]
        BY <2>3 DEF Id!signOut, Id!createSessionRequestHeaders
      <3>2. t \in SessionTokens /\ IsSession(sessions[t])
        BY <1>0, <2>1, <3>1 DEF Used, SessionsTyped
      <3>3. /\ IsSession(row) /\ row.user = sessions[t].user
            /\ row.expiresAt = sessions[t].expiresAt /\ row.state = "revoked"
        BY <3>2 DEF IsSession
      <3>4. sessions' = [sessions EXCEPT ![t] = row]
        BY <3>1
      <3>5. row.expiresAt >= sessions[t].expiresAt /\ row.expiresAt <= Id!Milliseconds + SessionAge
        BY <1>0, <3>2, <3>3, SessionIsUsed DEF IsSession, ExpiriesBounded
      <3> HIDE DEF t, row
      <3> QED
        BY <1>0, <2>0, <3>2, <3>3, <3>4, <3>5, RowWritten
    <2>4. CASE Id!currentUser(c) /\ sessions' # sessions
      <3> DEFINE t == rpc[c].metadata.cookie
                 row == [sessions[t] EXCEPT !.expiresAt = Id!Milliseconds + SessionAge]
      <3>1. Id!IsLive(t) /\ sessions' = [sessions EXCEPT ![t].expiresAt = Id!Milliseconds + SessionAge]
        BY <2>4 DEF Id!currentUser, Id!createSessionRequestHeaders
      <3>2. t \in SessionTokens /\ IsSession(sessions[t])
        BY <1>0, <2>1, <3>1 DEF Used, SessionsTyped, Id!IsLive
      <3>3. /\ IsSession(row) /\ row.user = sessions[t].user
            /\ row.expiresAt = Id!Milliseconds + SessionAge
        BY <1>0, <3>2, TimeAssumption DEF IsSession
      <3>4. sessions' = [sessions EXCEPT ![t] = row]
        BY <3>1
      <3>5. row.expiresAt >= sessions[t].expiresAt /\ row.expiresAt <= Id!Milliseconds + SessionAge
        BY <1>0, <3>2, <3>3, SessionIsUsed, TimeAssumption DEF IsSession, ExpiriesBounded
      <3> HIDE DEF t, row
      <3> QED
        BY <1>0, <2>0, <3>1, <3>2, <3>3, <3>4, <3>5, RowWritten
    <2>5. CASE UNCHANGED sessions
      BY <1>0, <2>0, <2>5, RowsStay
    <2>6. UNCHANGED sessions \/ Id!signIn(c) \/ Id!signOut(c) \/ Id!currentUser(c)
      BY <1>1 DEF Id!Handle, Id!signUp, Id!sendVerificationEmail, Id!getSessionExpiry,
                  Id!verifyEmail, Id!tables
    <2> QED
      BY <2>2, <2>3, <2>4, <2>5, <2>6
  <1>2. CASE UNCHANGED sessions /\ (now' = now \/ now' = now + 1)
    BY <1>0, <1>2, RowsStay
  <1>3. ASSUME NEW c \in Calls, Handle(c) \/ Crash(c)
        PROVE  SessionsGrow
    BY <1>1, <1>2, <1>3 DEF Handle, Crash, identityVars
  <1>4. ASSUME NEW r \in Requests,
               \/ Ask(r) \/ canActivate(r) \/ Finish(r) \/ Break(r) \/ Deliver(r) \/ Lose(r)
        PROVE  UNCHANGED <<sessions, now>>
    BY <1>4 DEF Ask, Receive, canActivate, Finish, Break, Deliver, Lose, identityVars
  <1>5. CASE Tick \/ Event \/ UNCHANGED vars
    BY <1>2, <1>5 DEF Tick, Id!Tick, Id!tables, Event, vars, identityVars
  <1> QED
    BY <1>2, <1>3, <1>4, <1>5 DEF Next, Step

\* What is true of a token, a cookie, a call or a request stays true.
LEMMA StaysTrue ==
    ASSUME SessionsTyped, SessionsGrow
    PROVE  /\ \A t : Used(t) => Used(t)'
           /\ \A t : Over(t) => Over(t)'
           /\ \A cookie : GoodCookie(cookie) => GoodCookie(cookie)'
           /\ \A call : CallTrue(call) => CallTrue(call)'
           /\ \A request, call : RequestTrue(request, call) => RequestTrue(request, call)'
  <1>1. ASSUME NEW t, Used(t) PROVE Used(t)'
    BY <1>1 DEF Used, SessionsGrow
  <1>2. ASSUME NEW t, Over(t) PROVE Over(t)'
    <2>1. Used(t)'
      BY <1>1, <1>2 DEF Over
    <2>2. ~Id!IsLive(t)'
      BY <1>2 DEF Over, Used, SessionsGrow, Id!IsLive
    <2> QED
      BY <2>1, <2>2 DEF Over
  <1>3. ASSUME NEW cookie, GoodCookie(cookie) PROVE GoodCookie(cookie)'
    <2>1. Used(cookie.token) /\ Used(cookie.token)'
      BY <1>1, <1>3 DEF GoodCookie
    <2>2. ASSUME cookie.token # NoToken PROVE cookie.expires <= sessions'[cookie.token].expiresAt
      <3> DEFINE t == cookie.token
      <3>1. t \in SessionTokens /\ sessions[t] # Id!Unused
        BY <2>1, <2>2 DEF Used
      <3>2. sessions[t].expiresAt \in Nat /\ sessions'[t].expiresAt \in Nat
        BY <3>1 DEF SessionsTyped, SessionsGrow, IsSession
      <3>3. sessions'[t].expiresAt >= sessions[t].expiresAt
        BY <3>1 DEF SessionsGrow
      <3> QED
        BY <1>3, <2>2, <3>2, <3>3 DEF GoodCookie
    <2> QED
      BY <1>3, <2>1, <2>2 DEF GoodCookie
  <1>4. ASSUME NEW call, CallTrue(call) PROVE CallTrue(call)'
    <2>1. ASSUME Used(call.metadata.cookie), CurrentUserTrue(call) PROVE CurrentUserTrue(call)'
      BY <2>1 DEF Used, CurrentUserTrue, SessionsGrow, Refusals, Id!createCurrentUserUnauthenticatedError,
                  Id!createCurrentUserInternalError
    <2> QED
      BY <1>1, <1>2, <1>3, <1>4, <2>1 DEF CallTrue
  <1>5. ASSUME NEW request, NEW call, RequestTrue(request, call) PROVE RequestTrue(request, call)'
    BY <1>1, <1>2, <1>3, <1>5 DEF RequestTrue
  <1> QED
    BY <1>1, <1>2, <1>3, <1>4, <1>5

\* Nothing is said of the call of a request that waits for none.
LEMMA WithoutCall ==
    ASSUME NEW request, NEW call, NEW other, RequestTrue(request, call),
           request.phase \notin {"guard", "service"}
    PROVE  RequestTrue(request, other)
  BY DEF RequestTrue

LEMMA IdlePhase ==
    /\ Idle.phase = "idle"
    /\ \A x : IsCall(x) \/ IsRequest(x) => x # Idle /\ x.phase # "idle"
  <1>1. Idle.phase = "idle"
    BY DEF Idle
  <1> QED
    BY <1>1 DEF IsCall, IsRequest

\* A step of request r: it touches free calls and its own, and what becomes of it is
\* true.
LEMMA RequestMoves ==
    ASSUME SessionInv, SessionsGrow, UNCHANGED load,
           NEW r \in Requests, NEW x, x = Idle \/ IsRequest(x),
           http' = [http EXCEPT ![r] = x],
           rpc' = [d \in Calls |-> rpc'[d]],
           \A d \in Calls : /\ rpc'[d] = Idle \/ IsCall(rpc'[d])
                            /\ CallTrue(rpc[d])'
                            /\ \/ rpc'[d] = rpc[d]
                               \/ rpc[d] = Idle
                               \/ Calling(r) /\ http[r].call = d,
           x.phase \in {"guard", "service"} =>
             /\ x.call \in Calls
             /\ rpc[x.call] = Idle \/ (Calling(r) /\ http[r].call = x.call)
             /\ rpc'[x.call] # Idle /\ ~rpc'[x.call].abandoned,
           RequestTrue(x, rpc[x.call])',
           jar' = [b \in Browsers |-> jar'[b]],
           \A b \in Browsers : GoodCookie(jar[b])'
    PROVE  SessionInv'
  <1>0. Shapes /\ SessionsTyped
    BY DEF SessionInv, Shapes
  <1>1. /\ http'[r] = x
        /\ \A q \in Requests : q # r => http'[q] = http[q]
        /\ http' = [q \in Requests |-> http'[q]]
    BY <1>0 DEF Shapes
  <1>2. Shapes'
    BY <1>0, <1>1 DEF Shapes, SessionsGrow
  <1>3. ASSUME NEW q \in Requests, q # r, Calling(q)
        PROVE  /\ http[q].call \in Calls
               /\ rpc'[http[q].call] = rpc[http[q].call]
               /\ x.phase \in {"guard", "service"} => x.call # http[q].call
    <2>1. Owns(q) /\ Owns(r)
      BY DEF SessionInv
    <2>2. http[q].call \in Calls /\ rpc[http[q].call] # Idle
      BY <1>3, <2>1 DEF Owns
    <2>3. ~(Calling(r) /\ http[r].call = http[q].call)
      BY <1>3, <2>1 DEF Owns
    <2> QED
      BY <2>2, <2>3
  <1>4. ASSUME NEW q \in Requests PROVE Owns(q)'
    <2>1. CASE q = r
      BY <1>1, <1>3, <2>1 DEF Owns, Calling
    <2>2. CASE q # r
      <3>1. Owns(q)
        BY DEF SessionInv
      <3> QED
        BY <1>1, <1>3, <2>2, <3>1 DEF Owns, Calling
    <2> QED
      BY <2>1, <2>2
  <1>5. ASSUME NEW q \in Requests PROVE RequestTrue(http[q], rpc[http[q].call])'
    <2>1. CASE q = r
      <3>1. RequestTrue(http[r], rpc[http[r].call])' = RequestTrue(x, rpc[x.call])'
        BY <1>1 DEF RequestTrue, Used, Over, Id!IsLive, GoodCookie, Id!Milliseconds
      <3> QED
        BY <2>1, <3>1
    <2>2. CASE q # r
      <3>1. PICK request : request = http[q]
        OBVIOUS
      <3>2. PICK call : call = rpc[http[q].call]
        OBVIOUS
      <3>3. PICK new : new = rpc'[http[q].call]
        OBVIOUS
      <3>4. RequestTrue(request, call)
        BY <3>1, <3>2 DEF SessionInv
      <3>5. RequestTrue(request, new)'
        <4>1. RequestTrue(request, call)'
          BY <1>0, <3>4, StaysTrue
        <4>2. CASE Calling(q)
          BY <1>3, <2>2, <3>2, <3>3, <4>1, <4>2
        <4>3. CASE ~Calling(q)
          BY <3>1, <4>1, <4>3 DEF Calling, RequestTrue
        <4> QED
          BY <4>2, <4>3
      <3>6. http'[q] = request /\ rpc'[http'[q].call] = new
        BY <1>1, <2>2, <3>1, <3>3
      <3> QED
        BY <3>5, <3>6 DEF RequestTrue, Used, Over, Id!IsLive, GoodCookie, Id!Milliseconds
    <2> QED
      BY <2>1, <2>2
  <1> QED
    BY <1>2, <1>4, <1>5 DEF SessionInv, SessionsGrow

\* A step of a service on call c: the call goes on or is over, what it answers is
\* true, and no session that is over is taken for a live one.
LEMMA CallMoves ==
    ASSUME SessionInv, SessionsGrow, UNCHANGED <<http, jar, load>>,
           NEW c \in Calls, NEW y, rpc[c] # Idle,
           rpc' = [rpc EXCEPT ![c] = y],
           \/ rpc[c].abandoned /\ y = Idle
           \/ /\ IsCall(y) /\ y.abandoned = rpc[c].abandoned
              /\ y.method = rpc[c].method /\ y.metadata = rpc[c].metadata
              /\ CallTrue(y)'
              /\ y.phase = "done" /\ y.method = "CurrentUser" /\ y.reply.code = "OK" =>
                   Id!IsLive(y.metadata.cookie)
    PROVE  SessionInv'
  <1>0. Shapes /\ SessionsTyped /\ IsCall(rpc[c])
    BY DEF SessionInv, Shapes
  <1>1. /\ rpc'[c] = y
        /\ \A d \in Calls : d # c => rpc'[d] = rpc[d]
        /\ rpc' = [d \in Calls |-> rpc'[d]]
    BY <1>0 DEF Shapes
  <1>2. Shapes'
    BY <1>0, <1>1 DEF Shapes, SessionsGrow
  <1>3. ASSUME NEW b \in Browsers PROVE GoodCookie(jar[b])'
    <2>1. PICK cookie : cookie = jar[b]
      OBVIOUS
    <2>2. GoodCookie(cookie)'
      BY <1>0, <2>1, StaysTrue DEF SessionInv
    <2>3. jar'[b] = cookie
      BY <2>1
    <2> QED
      BY <2>2, <2>3 DEF GoodCookie, Used
  <1>4. ASSUME NEW d \in Calls PROVE CallTrue(rpc[d])'
    <2>1. PICK call : call = rpc'[d]
      OBVIOUS
    <2>2. CallTrue(call)'
      <3>1. CASE d = c
        BY <1>1, <2>1, <3>1 DEF CallTrue
      <3>2. CASE d # c
        <4>1. CallTrue(call)
          BY <1>1, <2>1, <3>2 DEF SessionInv
        <4> QED
          BY <1>0, <4>1, StaysTrue
      <3> QED
        BY <3>1, <3>2
    <2> QED
      BY <2>1, <2>2 DEF CallTrue, Used, Over, Id!IsLive, GoodCookie, Id!Milliseconds,
                        CurrentUserTrue
  <1>5. ASSUME NEW r \in Requests PROVE Owns(r)' /\ RequestTrue(http[r], rpc[http[r].call])'
    <2>1. PICK request : request = http[r]
      OBVIOUS
    <2>2. PICK call : call = rpc[http[r].call]
      OBVIOUS
    <2>3. PICK new : new = rpc'[http[r].call]
      OBVIOUS
    <2>4. Owns(r) /\ RequestTrue(request, call)
      BY <2>1, <2>2 DEF SessionInv
    <2>5. ASSUME Calling(r) PROVE new = call \/ (http[r].call = c /\ new = y /\ y # Idle)
      BY <1>1, <2>2, <2>3, <2>4, <2>5, IdlePhase DEF Owns
    <2>6. Owns(r)'
      BY <1>0, <1>1, <2>1, <2>2, <2>3, <2>4, <2>5, IdlePhase DEF Owns, Calling
    <2>7. RequestTrue(request, new)'
      <3>1. RequestTrue(request, call)'
        BY <1>0, <2>4, StaysTrue
      <3>2. CASE ~Calling(r) \/ new = call
        BY <2>1, <3>1, <3>2 DEF Calling, RequestTrue
      <3>3. CASE Calling(r) /\ http[r].call = c /\ new = y /\ y # Idle
        <4>1. call = rpc[c] /\ y.method = call.method /\ y.metadata = call.metadata
          BY <2>2, <3>3
        <4>2. ASSUME request.phase = "guard", request.stale, y.phase = "done"
              PROVE  y.reply.code # "OK"
          <5>1. request # Idle
            BY <4>2, IdlePhase
          <5>2. Over(y.metadata.cookie) /\ y.method = "CurrentUser"
            BY <2>4, <4>1, <4>2, <5>1 DEF RequestTrue
          <5> QED
            BY <3>3, <4>2, <5>2 DEF Over
        <4> QED
          BY <3>1, <3>3, <4>1, <4>2 DEF RequestTrue
      <3> QED
        BY <2>5, <3>2, <3>3
    <2>8. http'[r] = request /\ rpc'[http'[r].call] = new
      BY <2>1, <2>3
    <2> QED
      BY <2>6, <2>7, <2>8 DEF RequestTrue, Used, Over, Id!IsLive, GoodCookie, Id!Milliseconds
  <1> QED
    BY <1>2, <1>3, <1>4, <1>5 DEF SessionInv, SessionsGrow

\* An answer is kept for whoever waits for it.
LEMMA Replied ==
    ASSUME NEW c \in Calls, IsCall(rpc[c]), NEW answer, Reply(c, answer)
    PROVE  \E y : /\ rpc' = [rpc EXCEPT ![c] = y]
                  /\ \/ rpc[c].abandoned /\ y = Idle
                     \/ /\ IsCall(y) /\ y.abandoned = rpc[c].abandoned
                        /\ y.method = rpc[c].method /\ y.metadata = rpc[c].metadata
                        /\ y.request = rpc[c].request
                        /\ y.phase = "done" /\ y.reply = answer
  <1>1. CASE rpc[c].abandoned
    BY <1>1 DEF Reply
  <1>2. CASE ~rpc[c].abandoned
    <2> DEFINE y == [rpc[c] EXCEPT !.phase = "done", !.reply = answer]
    <2>1. rpc' = [rpc EXCEPT ![c] = y]
      BY <1>2 DEF Reply
    <2>2. /\ y.phase = "done" /\ y.reply = answer /\ y.abandoned = rpc[c].abandoned
          /\ y.method = rpc[c].method /\ y.metadata = rpc[c].metadata
          /\ y.request = rpc[c].request /\ IsCall(y)
      BY DEF IsCall, CallFields
    <2> HIDE DEF y
    <2> QED
      BY <2>1, <2>2
  <1> QED
    BY <1>1, <1>2

\* The services answer through the same channel as the gateway sees.
LEMMA SameChannel ==
    /\ \A c, answer : Id!Reply(c, answer) <=> Reply(c, answer)
    /\ \A c, answer : Svc!Reply(c, answer) <=> Reply(c, answer)
    /\ \A message : Id!Answer(message) = Answer(message)
    /\ \A code, items : Id!Failure(code, items) = Failure(code, items)
    /\ \A c, phase, method : Id!Waits(c, phase, method) <=> Waits(c, phase, method)
    /\ \A c, phase, method : Svc!Waits(c, phase, method) <=> Waits(c, phase, method)
  <1>1. /\ \A c, answer : Id!Reply(c, answer) <=> Reply(c, answer)
        /\ \A c, answer : Svc!Reply(c, answer) <=> Reply(c, answer)
    BY DEF Id!Reply, Svc!Reply, Reply, Id!Idle, Svc!Idle, Idle
  <1> QED
    BY <1>1 DEF Id!Answer, Answer, Id!Failure, Failure, Id!Waits, Svc!Waits, Waits

ServiceMethods ==
    {"CreateTicket", "UpdateTicket", "GetTicket", "ListTickets", "CreateOrder", "CancelOrder",
     "GetOrder", "ListOrders", "CreatePayment"}

\* Every handler of the other services answers the call at once.
LEMMA ServicesReply ==
    ASSUME NEW c \in Calls, Svc!Serve(c)
    PROVE  /\ rpc[c].phase = "sent" /\ rpc[c].method \in ServiceMethods
           /\ \E answer : Reply(c, answer)
  <1> USE DEF Svc!Refuses, Svc!Refuse, Svc!Read, Svc!Fail
  <1>1. \E answer : Svc!Reply(c, answer)
    <2>1. CASE Svc!CreateTicket(c)
      BY <2>1 DEF Svc!CreateTicket
    <2>2. CASE Svc!UpdateTicket(c)
      BY <2>2 DEF Svc!UpdateTicket
    <2>3. CASE Svc!GetTicket(c)
      BY <2>3 DEF Svc!GetTicket
    <2>4. CASE Svc!ListTickets(c)
      BY <2>4 DEF Svc!ListTickets
    <2>5. CASE Svc!CreateOrder(c)
      BY <2>5 DEF Svc!CreateOrder
    <2>6. CASE Svc!CancelOrder(c)
      BY <2>6 DEF Svc!CancelOrder
    <2>7. CASE Svc!GetOrder(c)
      BY <2>7 DEF Svc!GetOrder
    <2>8. CASE Svc!ListOrders(c)
      BY <2>8 DEF Svc!ListOrders
    <2>9. CASE Svc!CreatePayment(c)
      BY <2>9 DEF Svc!CreatePayment
    <2> QED
      BY <2>1, <2>2, <2>3, <2>4, <2>5, <2>6, <2>7, <2>8, <2>9 DEF Svc!Serve
  <1>2. \E method \in ServiceMethods : Svc!Waits(c, "sent", method)
    BY DEF ServiceMethods, Svc!Serve, Svc!CreateTicket, Svc!UpdateTicket, Svc!GetTicket,
           Svc!ListTickets, Svc!CreateOrder, Svc!CancelOrder, Svc!GetOrder, Svc!ListOrders,
           Svc!CreatePayment
  <1> QED
    BY <1>1, <1>2, SameChannel DEF Waits

\* A call is answered with what is true.
LEMMA AnswerKeeps ==
    ASSUME SessionInv, SessionsGrow, UNCHANGED <<http, jar, load>>,
           NEW c \in Calls, rpc[c] # Idle, NEW answer, Reply(c, answer),
           rpc[c].method = "CurrentUser" =>
             \/ /\ answer.code = "OK"
                /\ Id!IsLive(rpc[c].metadata.cookie)
                /\ answer.message.userId = sessions[rpc[c].metadata.cookie].user
             \/ answer \in Refusals,
           rpc[c].method = "SignIn" /\ answer.code = "OK" =>
             GoodCookie(SessionCookie(answer.message)),
           rpc[c].method = "SignOut" /\ answer.code = "OK" =>
             \A t : t = rpc[c].metadata.cookie => ~Id!IsLive(t)'
    PROVE  SessionInv'
  <1>0. Shapes /\ SessionsTyped /\ IsCall(rpc[c]) /\ CallTrue(rpc[c])
    BY DEF SessionInv, Shapes
  <1>1. PICK cookie : cookie = rpc[c].metadata.cookie
    OBVIOUS
  <1>2. Used(cookie) /\ Used(cookie)'
    BY <1>0, <1>1, StaysTrue DEF CallTrue
  <1>3. PICK y : /\ rpc' = [rpc EXCEPT ![c] = y]
                 /\ \/ rpc[c].abandoned /\ y = Idle
                    \/ /\ IsCall(y) /\ y.abandoned = rpc[c].abandoned
                       /\ y.method = rpc[c].method /\ y.metadata = rpc[c].metadata
                       /\ y.request = rpc[c].request
                       /\ y.phase = "done" /\ y.reply = answer
    BY <1>0, Replied
  <1>4. ASSUME IsCall(y), y.method = rpc[c].method, y.metadata = rpc[c].metadata, y.reply = answer,
               y.phase = "done"
        PROVE  /\ CallTrue(y)'
               /\ y.phase = "done" /\ y.method = "CurrentUser" /\ y.reply.code = "OK" =>
                   Id!IsLive(y.metadata.cookie)
    <2>1. \A x \in Refusals : x.code # "OK"
      BY DEF Refusals, Failure
    <2>2. ASSUME y.method = "CurrentUser" PROVE CurrentUserTrue(y)'
      <3>1. CASE answer \in Refusals
        BY <1>4, <3>1 DEF CurrentUserTrue, Refusals, Id!createCurrentUserUnauthenticatedError,
                          Id!createCurrentUserInternalError
      <3>2. CASE /\ answer.code = "OK"
                 /\ Id!IsLive(cookie)
                 /\ answer.message.userId = sessions[cookie].user
        <4>1. cookie # NoToken /\ sessions'[cookie].user = sessions[cookie].user
          BY <1>2, <3>2 DEF Id!IsLive, Used, SessionsGrow
        <4> QED
          BY <1>1, <1>4, <3>2, <4>1 DEF CurrentUserTrue
      <3> QED
        BY <1>1, <1>4, <2>2, <3>1, <3>2
    <2>3. ASSUME y.method = "SignIn", answer.code = "OK"
          PROVE  GoodCookie(SessionCookie(y.reply.message))'
      <3>1. GoodCookie(SessionCookie(answer.message))'
        BY <1>0, <1>4, <2>3, StaysTrue
      <3> QED
        BY <1>4, <3>1
    <2>4. ASSUME y.method = "SignOut", answer.code = "OK"
          PROVE  Over(y.metadata.cookie)'
      BY <1>1, <1>2, <1>4, <2>4 DEF Over, Id!IsLive
    <2> QED
      BY <1>1, <1>2, <1>4, <2>1, <2>2, <2>3, <2>4 DEF CallTrue
  <1> QED
    BY <1>3, <1>4, CallMoves

\* A call that goes on says nothing yet.
LEMMA GoesOn ==
    ASSUME SessionInv, SessionsGrow, UNCHANGED <<http, jar, load>>,
           NEW c \in Calls, rpc[c] # Idle, NEW y,
           rpc' = [rpc EXCEPT ![c] = y],
           IsCall(y), y.phase # "done", y.abandoned = rpc[c].abandoned,
           y.method = rpc[c].method, y.metadata = rpc[c].metadata
    PROVE  SessionInv'
  <1>1. PICK cookie : cookie = rpc[c].metadata.cookie
    OBVIOUS
  <1>2. Used(cookie)'
    BY <1>1, StaysTrue DEF CallTrue, SessionInv, Shapes
  <1>3. CallTrue(y)'
    BY <1>1, <1>2 DEF CallTrue
  <1> QED
    BY <1>3, CallMoves

LEMMA IdentityKeeps ==
    ASSUME SessionInv, SessionsGrow, UNCHANGED <<http, jar, load>>,
           NEW c \in Calls, Id!Handle(c)
    PROVE  SessionInv'
  <1> USE SameChannel
  <1>0. /\ Shapes /\ SessionsTyped
        /\ rpc[c] # Idle => IsCall(rpc[c]) /\ CallTrue(rpc[c])
    BY DEF SessionInv, Shapes
  <1>1. ASSUME Waits(c, "sent", "SignUp") \/ Waits(c, "mailing", "SignUp")
               \/ Waits(c, "sent", "VerifyEmail"),
               NEW answer, Reply(c, answer)
        PROVE  SessionInv'
    <2>1. rpc[c] # Idle /\ rpc[c].method \notin {"CurrentUser", "SignIn", "SignOut"}
      BY <1>1, IdlePhase DEF Waits
    <2> QED
      BY <1>1, <2>1, AnswerKeeps
  <1>2. CASE Id!signUp(c)
    <2>1. CASE rpc' = [rpc EXCEPT ![c].phase = "mailing"]
      <3> DEFINE y == [rpc[c] EXCEPT !.phase = "mailing"]
      <3>1. rpc[c] # Idle /\ rpc[c].method = "SignUp"
        BY <1>2, IdlePhase DEF Id!signUp, Waits
      <3>2. rpc' = [rpc EXCEPT ![c] = y]
        BY <2>1
      <3>3. /\ IsCall(y) /\ y.phase = "mailing" /\ y.abandoned = rpc[c].abandoned
            /\ y.method = rpc[c].method /\ y.metadata = rpc[c].metadata
        BY <1>0, <3>1 DEF IsCall, CallFields
      <3> HIDE DEF y
      <3> QED
        BY <3>1, <3>2, <3>3, GoesOn
    <2>2. CASE \E answer : Reply(c, answer)
      BY <1>1, <1>2, <2>2 DEF Id!signUp
    <2> QED
      BY <1>2, <2>1, <2>2 DEF Id!signUp
  <1>3. CASE Id!sendVerificationEmail(c)
    <2>1. \E answer : Reply(c, answer)
      BY <1>3 DEF Id!sendVerificationEmail
    <2> QED
      BY <1>1, <1>3, <2>1 DEF Id!sendVerificationEmail
  <1>4. CASE Id!verifyEmail(c)
    <2>1. \E answer : Reply(c, answer)
      BY <1>4 DEF Id!verifyEmail
    <2> QED
      BY <1>1, <1>4, <2>1 DEF Id!verifyEmail
  <1>5. CASE Id!signIn(c)
    <2>0. rpc[c] # Idle /\ rpc[c].method = "SignIn"
      BY <1>5, IdlePhase DEF Id!signIn, Waits
    <2>1. ASSUME NEW t, rpc' = [rpc EXCEPT ![c].phase = "expiry", ![c].token = t]
          PROVE  SessionInv'
      <3> DEFINE y == [rpc[c] EXCEPT !.phase = "expiry", !.token = t]
      <3>2. rpc' = [rpc EXCEPT ![c] = y]
        BY <2>1
      <3>3. /\ IsCall(y) /\ y.phase = "expiry" /\ y.abandoned = rpc[c].abandoned
            /\ y.method = rpc[c].method /\ y.metadata = rpc[c].metadata
        BY <1>0, <2>0 DEF IsCall, CallFields
      <3> HIDE DEF y
      <3> QED
        BY <2>0, <3>2, <3>3, GoesOn
    <2>2. ASSUME NEW answer, Reply(c, answer), answer.code # "OK"
          PROVE  SessionInv'
      BY <2>0, <2>2, AnswerKeeps
    <2>3. /\ \A items : Failure("INVALID_ARGUMENT", items).code # "OK"
          /\ \A code : Id!mapBetterAuthSignInError(code).code # "OK"
      BY DEF Failure, Id!mapBetterAuthSignInError
    <2> QED
      BY <1>5, <2>1, <2>2, <2>3 DEF Id!signIn
  <1>6. CASE Id!getSessionExpiry(c)
    <2>0. rpc[c] # Idle /\ rpc[c].method = "SignIn"
      BY <1>6, IdlePhase DEF Id!getSessionExpiry, Waits
    <2>1. ASSUME NEW t \in Id!SessionRows(rpc[c].token, rpc[c].request.email), NEW user, NEW verified,
                 Reply(c, Answer([userId |-> user, emailVerified |-> verified,
                             sessionToken |-> rpc[c].token,
                             sessionExpiresAt |-> Id!toTimestamp(sessions[t].expiresAt)]))
          PROVE  SessionInv'
      <3> DEFINE message == [userId |-> user, emailVerified |-> verified,
                             sessionToken |-> rpc[c].token,
                             sessionExpiresAt |-> Id!toTimestamp(sessions[t].expiresAt)]
      <3>1. t \in SessionTokens /\ t = rpc[c].token /\ sessions[t].state = "live"
        BY DEF Id!SessionRows
      <3>2. sessions[t] # Id!Unused /\ sessions[t].expiresAt \in Nat
        BY <1>0, <3>1 DEF SessionsTyped, IsSession, Id!Unused
      <3>3. SessionCookie(message) = [token |-> t, expires |-> sessions[t].expiresAt]
        BY <3>1, <3>2, ExpiryKept DEF SessionCookie
      <3>4. GoodCookie(SessionCookie(message))
        BY <3>1, <3>2, <3>3 DEF GoodCookie, Used
      <3>5. Answer(message).message = message
        BY DEF Answer
      <3> HIDE DEF message
      <3>6. PICK answer : answer = Answer(message)
        OBVIOUS
      <3>7. Reply(c, answer) /\ GoodCookie(SessionCookie(answer.message))
        BY <2>1, <3>4, <3>5, <3>6 DEF message
      <3> QED
        BY <2>0, <3>7, AnswerKeeps
    <2>2. ASSUME Reply(c, Id!mapBetterAuthSignInError("none"))
          PROVE  SessionInv'
      <3>1. Id!mapBetterAuthSignInError("none").code # "OK"
        BY DEF Failure, Id!mapBetterAuthSignInError
      <3> QED
        BY <2>0, <2>2, <3>1, AnswerKeeps
    <2> QED
      BY <1>6, <2>1, <2>2 DEF Id!getSessionExpiry
  <1>7. CASE Id!signOut(c)
    <2>0. rpc[c] # Idle /\ rpc[c].method = "SignOut"
      BY <1>7, IdlePhase DEF Id!signOut, Waits
    <2>1. CASE Reply(c, Id!mapBetterAuthSignOutError)
      <3>1. Id!mapBetterAuthSignOutError.code # "OK"
        BY DEF Failure, Id!mapBetterAuthSignOutError
      <3> QED
        BY <2>0, <2>1, <3>1, AnswerKeeps
    <2>2. CASE /\ Reply(c, Answer(<<>>))
               /\ IF rpc[c].metadata.cookie # NoToken /\ sessions[rpc[c].metadata.cookie].state = "live"
                  THEN sessions' = [sessions EXCEPT ![rpc[c].metadata.cookie].state = "revoked"]
                  ELSE UNCHANGED sessions
      <3>1. PICK t : t = rpc[c].metadata.cookie
        OBVIOUS
      <3>2. Used(t)
        BY <1>0, <2>0, <3>1 DEF CallTrue
      <3>3. ~Id!IsLive(t)'
        <4>1. CASE t = NoToken
          BY <4>1 DEF Id!IsLive
        <4>2. CASE t # NoToken /\ sessions[t].state # "live"
          <5>1. sessions' = sessions
            BY <2>2, <3>1, <4>2
          <5> QED
            BY <4>2, <5>1 DEF Id!IsLive
        <4>3. CASE t # NoToken /\ sessions[t].state = "live"
          <5>1. sessions' = [sessions EXCEPT ![t].state = "revoked"] /\ t \in SessionTokens
                /\ IsSession(sessions[t])
            BY <1>0, <2>2, <3>1, <3>2, <4>3 DEF Used, SessionsTyped
          <5>2. sessions'[t].state = "revoked"
            BY <1>0, <5>1 DEF IsSession, SessionsTyped
          <5> QED
            BY <5>2 DEF Id!IsLive
        <4> QED
          BY <4>1, <4>2, <4>3
      <3> QED
        BY <2>0, <2>2, <3>1, <3>3, AnswerKeeps
    <2> QED
      BY <1>7, <2>1, <2>2 DEF Id!signOut, Id!createSessionRequestHeaders
  <1>8. CASE Id!currentUser(c)
    <2>0. rpc[c] # Idle /\ rpc[c].method = "CurrentUser"
      BY <1>8, IdlePhase DEF Id!currentUser, Waits
    <2>1. ASSUME NEW answer \in Refusals, Reply(c, answer)
          PROVE  SessionInv'
      BY <2>0, <2>1, AnswerKeeps
    <2>2. ASSUME NEW t, t = rpc[c].metadata.cookie, Id!IsLive(t), NEW verified,
                 Reply(c, Answer([userId |-> sessions[t].user, emailVerified |-> verified]))
          PROVE  SessionInv'
      <3>1. PICK answer : answer = Answer([userId |-> sessions[t].user, emailVerified |-> verified])
        OBVIOUS
      <3>2. answer.code = "OK" /\ answer.message.userId = sessions[t].user /\ Reply(c, answer)
        BY <2>2, <3>1 DEF Answer
      <3> QED
        BY <2>0, <2>2, <3>2, AnswerKeeps
    <2> QED
      BY <1>8, <2>1, <2>2 DEF Id!currentUser, Id!createSessionRequestHeaders, Refusals
  <1> QED
    BY <1>2, <1>3, <1>4, <1>5, <1>6, <1>7, <1>8 DEF Id!Handle

\* A step of a service, or the death of one.
LEMMA ServicesKeep ==
    ASSUME SessionInv, SessionsGrow, UNCHANGED load, NEW c \in Calls, Handle(c) \/ Crash(c)
    PROVE  SessionInv'
  <1>1. CASE Handle(c) /\ Id!Handle(c)
    BY <1>1, IdentityKeeps DEF Handle
  <1>2. CASE Handle(c) /\ Svc!Serve(c)
    <2>1. PICK answer : Reply(c, answer)
      BY <1>2, ServicesReply
    <2>2. rpc[c] # Idle /\ rpc[c].method \notin {"CurrentUser", "SignIn", "SignOut"}
      BY <1>2, ServicesReply, IdlePhase DEF ServiceMethods
    <2> QED
      BY <1>2, <2>1, <2>2, AnswerKeeps DEF Handle
  <1>3. CASE Crash(c)
    <2>1. PICK answer : answer = Failure("UNAVAILABLE", {})
      OBVIOUS
    <2>2. Reply(c, answer) /\ rpc[c] # Idle /\ UNCHANGED <<http, jar>>
      BY <1>3, <2>1, IdlePhase DEF Crash, Drop
    <2>3. answer \in Refusals /\ answer.code # "OK"
      BY <2>1 DEF Refusals, Failure
    <2> QED
      BY <2>2, <2>3, AnswerKeeps
  <1> QED
    BY <1>1, <1>2, <1>3 DEF Handle

----------------------------------------------------------------------------
(* What requests are answered. *)

LEMMA FailedStatus ==
    /\ \A exception : Failed(exception).cookie = Keep
    /\ \A error, item : Failed(throwGatewayGrpcError(error, item)).status # 204
    /\ \A reply \in Refusals :
        Failed(throwGatewayGrpcError(GrpcError(reply), {})).status \in {401, 500, 503}
    /\ \A route : Response(route, Failure("UNAVAILABLE", {})).status = 503
    /\ \A fields, declared : Failed(createValidationApiError(fields, declared)).status # 204
    /\ Failed(UnauthorizedException).status # 204
  <1> USE DEF Failed, Catch, getHttpStatus, throwGatewayGrpcError, ApiError
  <1>1. \A exception : Failed(exception).cookie = Keep
    OBVIOUS
  <1>2. \A code : httpStatusFromGrpcCode(code) \in Nat /\ httpStatusFromGrpcCode(code) # 204
    BY DEF httpStatusFromGrpcCode
  <1>3. ASSUME NEW error, NEW item
        PROVE  Failed(throwGatewayGrpcError(error, item)).status # 204
    BY <1>2
  <1>4. ASSUME NEW reply, reply.code \in {"UNAUTHENTICATED", "INTERNAL", "UNAVAILABLE"}
        PROVE  Failed(throwGatewayGrpcError(GrpcError(reply), {})).status \in {401, 500, 503}
    <2>1. httpStatusFromGrpcCode(reply.code) \in {401, 500, 503}
      BY <1>4 DEF httpStatusFromGrpcCode
    <2>2. GrpcError(reply).code = reply.code
      BY DEF GrpcError
    <2> QED
      BY <2>1, <2>2
  <1>5. \A reply \in Refusals : reply.code \in {"UNAUTHENTICATED", "INTERNAL", "UNAVAILABLE"}
    BY DEF Refusals, Failure
  <1>6. ASSUME NEW route
        PROVE  Response(route, Failure("UNAVAILABLE", {})).status = 503
    BY DEF Response, Failure, GrpcError, getGrpcErrorResponse, isGrpcStatusError
  <1>7. /\ \A fields, declared : Failed(createValidationApiError(fields, declared)).status # 204
        /\ Failed(UnauthorizedException).status # 204
    BY DEF createValidationApiError, UnauthorizedException
  <1> QED
    BY <1>1, <1>3, <1>4, <1>5, <1>6, <1>7

LEMMA SuccessStatus ==
    ASSUME NEW route \in Route, NEW message
    PROVE  /\ Success(route, message).status = 204 => route = "signOut"
           /\ route = "signIn" => Success(route, message).cookie = SessionCookie(message)
           /\ route = "signOut" => Success(route, message).cookie = NoCookie
           /\ route \notin {"signIn", "signOut"} => Success(route, message).cookie = Keep
  <1>1. AppModule[route].ok = 204 <=> route = "signOut"
    BY Routes
  <1>2. \A created : CreationStatus(created) # 204
    BY DEF CreationStatus
  <1>3. route \in GuardedRoutes \cup OpenRoutes
    BY Routes
  <1> QED
    BY <1>1, <1>2, <1>3 DEF Success, Succeeded, GuardedRoutes, OpenRoutes

\* What a response says of the sessions, by the reply it is made of.
LEMMA ResponseFacts ==
    ASSUME NEW route \in Route, NEW reply
    PROVE  LET response == Response(route, reply) IN
           /\ response.status = 204 => route = "signOut" /\ reply.code = "OK"
           /\ \/ response.cookie \in {Keep, NoCookie}
              \/ /\ route = "signIn" /\ reply.code = "OK"
                 /\ response.cookie = SessionCookie(reply.message)
  BY FailedStatus, SuccessStatus DEF Response

LEMMA NoSessionCookies == GoodCookie(Keep) /\ GoodCookie(NoCookie)
  BY DEF GoodCookie, Keep, NoCookie, Used

----------------------------------------------------------------------------
(* Steps of requests. *)

\* The records that become requests.
IsFilled(x) ==
    /\ x = [f \in RequestFields |-> x[f]]
    /\ x.route \in Route /\ x.browser \in Browsers /\ x.stale \in BOOLEAN

CookieOf(request) == createSessionRequestMetadata(request.headers).cookie

LEMMA CookiesStay ==
    ASSUME SessionInv, SessionsGrow, UNCHANGED jar
    PROVE  /\ jar' = [b \in Browsers |-> jar'[b]]
           /\ \A b \in Browsers : GoodCookie(jar[b])'
  <1>1. SessionsTyped /\ jar = [b \in Browsers |-> jar[b]]
    BY DEF SessionInv, Shapes
  <1>2. ASSUME NEW b \in Browsers PROVE GoodCookie(jar[b])'
    <2>1. PICK cookie : cookie = jar[b]
      OBVIOUS
    <2>2. GoodCookie(cookie)'
      BY <1>1, <2>1, StaysTrue DEF SessionInv
    <2>3. jar'[b] = cookie
      BY <2>1
    <2> QED
      BY <2>2, <2>3 DEF GoodCookie, Used
  <1> QED
    BY <1>1, <1>2

\* Call c changes and no other; what the calls say is true.
OnlyCall(c) ==
    /\ rpc' = [d \in Calls |-> rpc'[d]]
    /\ \A d \in Calls : /\ rpc'[d] = Idle \/ IsCall(rpc'[d])
                        /\ CallTrue(rpc[d])'
                        /\ d # c => rpc'[d] = rpc[d]

\* One call is begun, freed or left to itself.
LEMMA CallsAfter ==
    ASSUME SessionInv, SessionsGrow, NEW c \in Calls, NEW y,
           y = Idle \/ IsCall(y), CallTrue(y)',
           rpc' = [rpc EXCEPT ![c] = y]
    PROVE  rpc'[c] = y /\ OnlyCall(c)
  <1>0. Shapes /\ SessionsTyped
    BY DEF SessionInv, Shapes
  <1>1. /\ rpc'[c] = y
        /\ \A d \in Calls : d # c => rpc'[d] = rpc[d]
        /\ rpc' = [d \in Calls |-> rpc'[d]]
    BY <1>0 DEF Shapes
  <1>2. ASSUME NEW d \in Calls PROVE CallTrue(rpc[d])'
    <2>1. PICK call : call = rpc'[d]
      OBVIOUS
    <2>2. CallTrue(call)'
      <3>1. CASE d = c
        BY <1>1, <2>1, <3>1 DEF CallTrue
      <3>2. CASE d # c
        <4>1. CallTrue(call)
          BY <1>1, <2>1, <3>2 DEF SessionInv
        <4> QED
          BY <1>0, <4>1, StaysTrue
      <3> QED
        BY <3>1, <3>2
    <2> QED
      BY <2>1, <2>2 DEF CallTrue, Used, Over, Id!IsLive, GoodCookie, Id!Milliseconds,
                        CurrentUserTrue
  <1> QED
    BY <1>0, <1>1, <1>2 DEF Shapes, OnlyCall

LEMMA CallsStay ==
    ASSUME SessionInv, SessionsGrow, UNCHANGED rpc
    PROVE  /\ rpc' = [d \in Calls |-> rpc'[d]]
           /\ \A d \in Calls : /\ rpc'[d] = Idle \/ IsCall(rpc'[d])
                               /\ CallTrue(rpc[d])'
                               /\ rpc'[d] = rpc[d]
  <1>0. SessionsTyped /\ Shapes
    BY DEF SessionInv, Shapes
  <1>1. ASSUME NEW d \in Calls PROVE CallTrue(rpc[d])'
    <2>1. PICK call : call = rpc[d]
      OBVIOUS
    <2>2. CallTrue(call)'
      BY <1>0, <2>1, StaysTrue DEF SessionInv
    <2>3. rpc'[d] = call
      BY <2>1
    <2> QED
      BY <2>2, <2>3 DEF CallTrue, Used, Over, Id!IsLive, GoodCookie, Id!Milliseconds,
                        CurrentUserTrue
  <1> QED
    BY <1>0, <1>1 DEF Shapes

\* A request gets its answer; the call it had, if any, is freed or left to itself.
LEMMA AnswersRequest ==
    ASSUME SessionInv, SessionsGrow, UNCHANGED <<load, jar>>,
           NEW r \in Requests, NEW request, IsFilled(request), NEW response,
           Respond(r, request, response),
           \/ UNCHANGED rpc
           \/ Calling(r) /\ (Release(r) \/ Abandon(http[r].call)),
           Used(CookieOf(request)),
           request.stale => Over(CookieOf(request)),
           GoodCookie(response.cookie),
           request.route \in GuardedRoutes /\ request.stale => response.status \in {401, 500, 503},
           response.status = 204 => Over(CookieOf(request))
    PROVE  SessionInv'
  <1> DEFINE z == [request EXCEPT !.phase = "answered", !.call = "none", !.body = <<>>,
                                  !.response = response]
  <1>0. SessionsTyped /\ Shapes
    BY DEF SessionInv, Shapes
  <1>1. PICK x : x = z
    OBVIOUS
  <1>2. /\ x = [f \in RequestFields |-> x[f]]
        /\ x.phase = "answered" /\ x.response = response
        /\ x.route = request.route /\ x.headers = request.headers /\ x.stale = request.stale
        /\ x.browser = request.browser
    BY <1>1 DEF IsFilled, RequestFields
  <1>3. http' = [http EXCEPT ![r] = x]
    BY <1>1 DEF Respond
  <1> HIDE DEF z
  <1>4. IsRequest(x)
    BY <1>2 DEF IsRequest, IsFilled
  <1>5. PICK cookie : cookie = CookieOf(request)
    OBVIOUS
  <1>6. PICK given : given = response.cookie
    OBVIOUS
  <1>7. /\ Used(cookie)' /\ GoodCookie(given)'
        /\ Over(cookie) => Over(cookie)'
    BY <1>0, <1>5, <1>6, StaysTrue
  <1>8. ASSUME NEW call PROVE RequestTrue(x, call)'
    BY <1>2, <1>5, <1>6, <1>7 DEF RequestTrue, CookieOf
  <1>9. /\ rpc' = [d \in Calls |-> rpc'[d]]
        /\ \A d \in Calls : /\ rpc'[d] = Idle \/ IsCall(rpc'[d])
                            /\ CallTrue(rpc[d])'
                            /\ rpc'[d] = rpc[d] \/ (Calling(r) /\ http[r].call = d)
    <2>1. CASE UNCHANGED rpc
      BY <2>1, CallsStay
    <2>2. CASE Calling(r) /\ (Release(r) \/ Abandon(http[r].call))
      <3>1. PICK c : c = http[r].call
        OBVIOUS
      <3>2. c \in Calls /\ rpc[c] # Idle /\ IsCall(rpc[c]) /\ CallTrue(rpc[c])
        BY <1>0, <2>2, <3>1 DEF SessionInv, Owns, Shapes
      <3>3. ASSUME rpc' = [rpc EXCEPT ![c] = Idle]
            PROVE  \E y : (y = Idle \/ IsCall(y)) /\ CallTrue(y)' /\ rpc' = [rpc EXCEPT ![c] = y]
        <4>1. CallTrue(Idle)'
          BY DEF CallTrue
        <4> QED
          BY <3>3, <4>1
      <3>4. ASSUME rpc' = [rpc EXCEPT ![c] = [rpc[c] EXCEPT !.abandoned = TRUE]],
                   rpc[c].phase # "done"
            PROVE  \E y : (y = Idle \/ IsCall(y)) /\ CallTrue(y)' /\ rpc' = [rpc EXCEPT ![c] = y]
        <4>1. PICK y : y = [rpc[c] EXCEPT !.abandoned = TRUE]
          OBVIOUS
        <4>2. IsCall(y) /\ y.phase = rpc[c].phase /\ y.metadata = rpc[c].metadata
          BY <3>2, <4>1 DEF IsCall, CallFields
        <4>3. PICK sent : sent = rpc[c].metadata.cookie
          OBVIOUS
        <4>4. Used(sent)'
          BY <1>0, <3>2, <4>3, StaysTrue DEF CallTrue
        <4>5. CallTrue(y)'
          BY <3>4, <4>2, <4>3, <4>4 DEF CallTrue
        <4> QED
          BY <3>4, <4>1, <4>2, <4>5
      <3>5. \/ rpc' = [rpc EXCEPT ![c] = Idle]
            \/ /\ rpc' = [rpc EXCEPT ![c] = [rpc[c] EXCEPT !.abandoned = TRUE]]
               /\ rpc[c].phase # "done"
        <4>1. CASE Release(r)
          BY <3>1, <4>1 DEF Release
        <4>2. CASE Abandon(c) /\ rpc[c].phase = "done"
          BY <4>2 DEF Abandon
        <4>3. CASE Abandon(c) /\ rpc[c].phase # "done"
          BY <4>3 DEF Abandon
        <4> QED
          BY <2>2, <3>1, <4>1, <4>2, <4>3
      <3>6. PICK y : (y = Idle \/ IsCall(y)) /\ CallTrue(y)' /\ rpc' = [rpc EXCEPT ![c] = y]
        BY <3>3, <3>4, <3>5
      <3>7. c \in Calls /\ (y = Idle \/ IsCall(y)) /\ CallTrue(y)'
            /\ rpc' = [rpc EXCEPT ![c] = y]
        BY <3>2, <3>6
      <3>8. OnlyCall(c)
        BY <3>7, CallsAfter
      <3> QED
        BY <2>2, <3>1, <3>8 DEF OnlyCall
    <2> QED
      BY <2>1, <2>2
  <1>10. RequestTrue(x, rpc[x.call])'
    <2>1. PICK call : call = rpc'[x.call]
      OBVIOUS
    <2>2. RequestTrue(x, call)'
      BY <1>8
    <2> QED
      BY <2>1, <2>2 DEF RequestTrue, Used, Over, Id!IsLive, GoodCookie, Id!Milliseconds
  <1> QED
    BY <1>2, <1>3, <1>4, <1>9, <1>10, CookiesStay, RequestMoves

\* A request begins a call, in a free slot or that of its guard's.
LEMMA StartsCall ==
    ASSUME SessionInv, SessionsGrow, UNCHANGED <<load, jar>>,
           NEW r \in Requests, NEW c \in Calls,
           NEW method, NEW message, NEW metadata, NEW call,
           call = Sent(method, message, metadata), Used(metadata.cookie),
           Start(r, c, call),
           NEW x, IsRequest(x), x.call = c, x.phase \in {"guard", "service"},
           http' = [http EXCEPT ![r] = x],
           RequestTrue(x, call)
    PROVE  SessionInv'
  <1>0. Shapes /\ SessionsTyped
    BY DEF SessionInv, Shapes
  <1>1. /\ IsCall(call) /\ call.phase = "sent" /\ call.metadata = metadata
        /\ call # Idle /\ ~call.abandoned
    <2>1. IsCall(call) /\ call.phase = "sent" /\ call.metadata = metadata /\ ~call.abandoned
      BY DEF Sent, IsCall, CallFields
    <2> QED
      BY <2>1, IdlePhase
  <1>2. PICK cookie : cookie = metadata.cookie
    OBVIOUS
  <1>3. Used(cookie)'
    BY <1>0, <1>2, StaysTrue
  <1>4. CallTrue(call)'
    BY <1>1, <1>2, <1>3 DEF CallTrue
  <1>5. rpc' = [rpc EXCEPT ![c] = call]
    BY DEF Start
  <1>6. rpc'[c] = call /\ OnlyCall(c)
    BY <1>1, <1>4, <1>5, CallsAfter
  <1>7. rpc[c] = Idle \/ (Calling(r) /\ http[r].call = c)
    BY DEF Start, Calling
  <1>8. RequestTrue(x, call)'
    BY <1>0, StaysTrue
  <1>9. RequestTrue(x, rpc[x.call])'
    <2>1. rpc'[x.call] = call
      BY <1>6
    <2> QED
      BY <1>8, <2>1 DEF RequestTrue, Used, Over, Id!IsLive, GoodCookie, Id!Milliseconds
  <1>10. \A d \in Calls : /\ rpc'[d] = Idle \/ IsCall(rpc'[d])
                          /\ CallTrue(rpc[d])'
                          /\ \/ rpc'[d] = rpc[d]
                             \/ rpc[d] = Idle
                             \/ Calling(r) /\ http[r].call = d
    BY <1>6, <1>7 DEF OnlyCall
  <1>11. rpc' = [d \in Calls |-> rpc'[d]]
    BY <1>6 DEF OnlyCall
  <1>12. /\ x.call \in Calls
         /\ rpc[x.call] = Idle \/ (Calling(r) /\ http[r].call = x.call)
         /\ rpc'[x.call] # Idle /\ ~rpc'[x.call].abandoned
    BY <1>1, <1>6, <1>7
  <1> QED
    BY <1>9, <1>10, <1>11, <1>12, CookiesStay, RequestMoves

\* The call a route makes, and the cookie it carries.
LEMMA CallOfRoute ==
    ASSUME NEW route \in Route, NEW body, NEW headers, NEW user
    PROVE  \E method, message, metadata :
             /\ ServiceCall(route, body, headers, user) = Sent(method, message, metadata)
             /\ metadata.cookie \in {NoToken, createSessionRequestMetadata(headers).cookie}
             /\ route = "signIn" => method = "SignIn"
             /\ route = "signOut" =>
                   /\ method = "SignOut"
                   /\ metadata.cookie = createSessionRequestMetadata(headers).cookie
  <1>0. route \in GuardedRoutes \cup OpenRoutes
    BY Routes
  <1>1. /\ NoMetadata.cookie = NoToken /\ createAuthRequestMetadata(headers).cookie = NoToken
    BY DEF NoMetadata, createAuthRequestMetadata
  <1>2. /\ DOMAIN AuthController = {"signUp", "signIn", "signOut", "currentUser", "verifyEmail"}
        /\ DOMAIN OrdersController = {"createOrder", "cancelOrder", "listOrders", "getOrder"}
        /\ DOMAIN PaymentsController = {"createPayment"}
        /\ DOMAIN TicketsController = {"listTickets", "getTicket", "updateTicket", "createTicket"}
    BY DEF AuthController, OrdersController, PaymentsController, TicketsController
  <1>3. CASE route \in DOMAIN AuthController
    BY <1>1, <1>2, <1>3 DEF ServiceCall, AuthServiceCall
  <1>4. CASE route \in DOMAIN OrdersController
    BY <1>1, <1>2, <1>4 DEF ServiceCall, OrdersServiceCall
  <1>5. CASE route \in DOMAIN PaymentsController
    BY <1>1, <1>2, <1>5 DEF ServiceCall, PaymentsServiceCall
  <1>6. CASE route \in DOMAIN TicketsController
    BY <1>1, <1>2, <1>6 DEF ServiceCall, TicketsServiceCall
  <1> QED
    BY <1>0, <1>2, <1>3, <1>4, <1>5, <1>6 DEF GuardedRoutes, OpenRoutes

\* The validation pipe and the controller.
LEMMA DispatchKeeps ==
    ASSUME SessionInv, SessionsGrow, UNCHANGED <<load, jar>>,
           NEW r \in Requests, NEW request, IsFilled(request), Dispatch(r, request),
           Used(CookieOf(request)),
           request.stale => Over(CookieOf(request)),
           request.route \in GuardedRoutes => ~request.stale
    PROVE  SessionInv'
  <1> DEFINE invalid == Invalid(request.route, request.body)
             declared == DOMAIN request.body \ {"extra"}
             refusal == Failed(IF invalid # {} THEN createValidationApiError(invalid, declared)
                               ELSE UnauthorizedException)
  <1>1. CASE /\ Respond(r, request, refusal)
             /\ IF http[r].phase = "guard" THEN Release(r) ELSE UNCHANGED <<rpc, wrote>>
    <2>1. refusal.status # 204 /\ refusal.cookie = Keep
      BY FailedStatus
    <2>2. PICK response : response = refusal
      OBVIOUS
    <2>3. UNCHANGED rpc \/ (Calling(r) /\ (Release(r) \/ Abandon(http[r].call)))
      BY <1>1 DEF Calling
    <2>4. /\ Respond(r, request, response)
          /\ response.status # 204 /\ GoodCookie(response.cookie)
      BY <1>1, <2>1, <2>2, NoSessionCookies
    <2> QED
      BY <2>3, <2>4, AnswersRequest
  <1>2. ASSUME NEW c \in Calls,
               Start(r, c, ServiceCall(request.route, request.body, request.headers,
                                      request.user.id)),
               http' = [http EXCEPT ![r] = [request EXCEPT !.phase = "service", !.call = c]]
        PROVE  SessionInv'
    <2>1. PICK method, message, metadata :
             /\ ServiceCall(request.route, request.body, request.headers, request.user.id)
                  = Sent(method, message, metadata)
             /\ metadata.cookie \in {NoToken, CookieOf(request)}
             /\ request.route = "signIn" => method = "SignIn"
             /\ request.route = "signOut" =>
                   method = "SignOut" /\ metadata.cookie = CookieOf(request)
      BY CallOfRoute DEF IsFilled, CookieOf
    <2>2. PICK call : call = Sent(method, message, metadata)
      OBVIOUS
    <2>3. PICK x : x = [request EXCEPT !.phase = "service", !.call = c]
      OBVIOUS
    <2>4. /\ x = [f \in RequestFields |-> x[f]]
          /\ x.phase = "service" /\ x.call = c
          /\ x.route = request.route /\ x.headers = request.headers /\ x.stale = request.stale
          /\ x.browser = request.browser
      BY <2>3 DEF IsFilled, RequestFields
    <2>5. IsRequest(x)
      BY <2>4 DEF IsRequest, IsFilled
    <2>6. call.method = method /\ call.metadata = metadata
      BY <2>2 DEF Sent
    <2>7. RequestTrue(x, call)
      BY <2>1, <2>4, <2>6 DEF RequestTrue, CookieOf
    <2>8. Used(metadata.cookie)
      BY <2>1 DEF Used
    <2>9. Start(r, c, call) /\ http' = [http EXCEPT ![r] = x]
      BY <1>2, <2>1, <2>2, <2>3
    <2> QED
      BY <2>2, <2>4, <2>5, <2>7, <2>8, <2>9, StartsCall
  <1> QED
    BY <1>1, <1>2 DEF Dispatch

LEMMA AskKeeps ==
    ASSUME SessionInv, SessionsGrow, UNCHANGED load, NEW r \in Requests, Ask(r)
    PROVE  SessionInv'
  <1>1. PICK b \in load.browsers, want \in load.wanted : Receive(r, b, want)
    BY DEF Ask
  <1>2. b \in Browsers /\ want.route \in Route
    BY <1>1, LoadsAssumption DEF SessionInv, Shapes
  <1> DEFINE headers == HeadersOf(b)
             cookie == createSessionRequestMetadata(headers).cookie
             request == [phase |-> "received", browser |-> b, route |-> want.route,
                         body |-> want.body, headers |-> headers, user |-> NoUser,
                         call |-> "none", response |-> Failed([kind |-> "other"]),
                         stale |-> ~Id!IsLive(cookie)]
  <1>3. Used(cookie)
    BY <1>2, CookieSent DEF SessionInv, GoodCookie, Used
  <1>4. PICK new : new = request
    OBVIOUS
  <1>5. PICK stale : stale = ~Id!IsLive(cookie)
    OBVIOUS
  <1>6. stale \in BOOLEAN
    BY <1>5, Zenon
  <1>7. /\ new = [f \in RequestFields |-> new[f]]
        /\ new.route = want.route /\ new.browser = b /\ new.headers = headers
        /\ new.stale = stale
    BY <1>4, <1>5 DEF RequestFields
  <1> HIDE DEF headers, request
  <1>8. IsFilled(new)
    BY <1>2, <1>6, <1>7 DEF IsFilled
  <1>9. /\ Used(CookieOf(new))
        /\ new.stale => Over(CookieOf(new))
    BY <1>3, <1>5, <1>7 DEF CookieOf, Over
  <1>10. CASE ~AppModule[want.route].guarded /\ Dispatch(r, request)
    <2>1. new.route \notin GuardedRoutes
      BY <1>2, <1>7, <1>10, Routes
    <2>2. Dispatch(r, new) /\ UNCHANGED jar
      BY <1>1, <1>4, <1>10 DEF Receive
    <2> QED
      BY <1>8, <1>9, <2>1, <2>2, DispatchKeeps
  <1>11. ASSUME AppModule[want.route].guarded, NEW c \in Calls,
                Start(r, c, AuthServiceCall("currentUser", <<>>, headers)),
                http' = [http EXCEPT ![r] = [request EXCEPT !.phase = "guard", !.call = c]]
         PROVE  SessionInv'
    <2>1. PICK metadata : metadata = createSessionRequestMetadata(headers)
      OBVIOUS
    <2>2. PICK call : call = Sent("CurrentUser", <<>>, metadata)
      OBVIOUS
    <2>3. PICK x : x = [new EXCEPT !.phase = "guard", !.call = c]
      OBVIOUS
    <2>4. /\ x = [f \in RequestFields |-> x[f]]
          /\ x.phase = "guard" /\ x.call = c
          /\ x.route = new.route /\ x.headers = new.headers /\ x.stale = new.stale
          /\ x.browser = new.browser
      BY <1>7, <2>3 DEF RequestFields
    <2>5. IsRequest(x)
      BY <1>8, <2>4 DEF IsRequest, IsFilled
    <2>6. call.method = "CurrentUser" /\ call.metadata = metadata /\ call.phase = "sent"
      BY <2>2 DEF Sent
    <2>7. new.route \in GuardedRoutes
      BY <1>2, <1>7, <1>11, Routes
    <2>8. RequestTrue(x, call)
      BY <1>7, <1>9, <2>1, <2>4, <2>6, <2>7 DEF RequestTrue, CookieOf
    <2>9. Used(metadata.cookie)
      BY <1>3, <2>1
    <2>10. Start(r, c, call) /\ http' = [http EXCEPT ![r] = x]
      BY <1>4, <1>11, <2>1, <2>2, <2>3 DEF AuthServiceCall
    <2>11. UNCHANGED jar
      BY <1>1 DEF Receive
    <2> QED
      BY <2>2, <2>4, <2>5, <2>8, <2>9, <2>10, <2>11, StartsCall
  <1> QED
    BY <1>1, <1>10, <1>11 DEF Receive, headers, request

\* A request that waits for a call, and that call.
LEMMA CallingFacts ==
    ASSUME SessionInv, NEW r \in Requests, Calling(r)
    PROVE  /\ http[r] # Idle /\ IsFilled(http[r])
           /\ http[r].call \in Calls /\ rpc[http[r].call] # Idle
           /\ Used(CookieOf(http[r]))
           /\ http[r].stale => Over(CookieOf(http[r]))
           /\ RequestTrue(http[r], rpc[http[r].call])
           /\ CallTrue(rpc[http[r].call])
  <1>1. http[r] # Idle
    BY IdlePhase DEF Calling
  <1>2. IsRequest(http[r]) /\ Owns(r) /\ RequestTrue(http[r], rpc[http[r].call])
    BY <1>1 DEF SessionInv, Shapes
  <1>3. IsFilled(http[r])
    BY <1>2 DEF IsRequest, IsFilled
  <1>4. http[r].call \in Calls /\ rpc[http[r].call] # Idle
    BY <1>2 DEF Owns
  <1>5. CallTrue(rpc[http[r].call])
    BY <1>4 DEF SessionInv
  <1>6. /\ Used(CookieOf(http[r]))
        /\ http[r].stale => Over(CookieOf(http[r]))
    BY <1>1, <1>2 DEF RequestTrue, CookieOf
  <1> QED
    BY <1>1, <1>2, <1>3, <1>4, <1>5, <1>6

LEMMA GuardKeeps ==
    ASSUME SessionInv, SessionsGrow, UNCHANGED load, NEW r \in Requests, canActivate(r)
    PROVE  SessionInv'
  <1> DEFINE call == rpc[http[r].call]
             reply == call.reply
  <1>0. Calling(r) /\ http[r].phase = "guard" /\ call.phase = "done" /\ UNCHANGED jar
    BY DEF canActivate, Calling
  <1>1. /\ http[r] # Idle /\ IsFilled(http[r])
        /\ Used(CookieOf(http[r]))
        /\ http[r].stale => Over(CookieOf(http[r]))
        /\ RequestTrue(http[r], call) /\ CallTrue(call) /\ call # Idle
    BY <1>0, CallingFacts
  <1>2. /\ call.method = "CurrentUser"
        /\ http[r].stale => reply.code # "OK"
    BY <1>0, <1>1 DEF RequestTrue
  <1>3. reply.code = "OK" \/ reply \in Refusals
    BY <1>0, <1>1, <1>2 DEF CallTrue, CurrentUserTrue
  <1> HIDE DEF call
  <1>4. CASE /\ reply.code = "OK"
             /\ Dispatch(r, [http[r] EXCEPT !.user = toCurrentUserResponse(reply.message).user])
    <2>1. PICK request :
            request = [http[r] EXCEPT !.user = toCurrentUserResponse(reply.message).user]
      OBVIOUS
    <2>2. /\ request = [f \in RequestFields |-> request[f]]
          /\ request.route = http[r].route /\ request.headers = http[r].headers
          /\ request.stale = http[r].stale /\ request.browser = http[r].browser
      BY <1>1, <2>1 DEF IsFilled, RequestFields
    <2>3. /\ IsFilled(request) /\ Used(CookieOf(request)) /\ ~request.stale
          /\ Dispatch(r, request)
      BY <1>1, <1>2, <1>4, <2>1, <2>2 DEF IsFilled, CookieOf
    <2> QED
      BY <1>0, <2>3, DispatchKeeps
  <1>5. CASE /\ reply.code # "OK"
             /\ Respond(r, http[r], Failed(throwGatewayGrpcError(GrpcError(reply), {})))
             /\ Release(r)
    <2>1. PICK response : response = Failed(throwGatewayGrpcError(GrpcError(reply), {}))
      OBVIOUS
    <2>2. response.status \in {401, 500, 503} /\ response.cookie = Keep
      BY <1>3, <1>5, <2>1, FailedStatus
    <2>3. PICK request : request = http[r]
      OBVIOUS
    <2>4. /\ response.status # 204 /\ response.status \in {401, 500, 503}
          /\ GoodCookie(response.cookie)
          /\ Respond(r, request, response)
          /\ UNCHANGED rpc \/ (Calling(r) /\ (Release(r) \/ Abandon(http[r].call)))
      BY <1>0, <1>5, <2>1, <2>2, <2>3, NoSessionCookies
    <2>5. /\ IsFilled(request) /\ Used(CookieOf(request))
          /\ request.stale => Over(CookieOf(request))
      BY <1>1, <2>3
    <2> QED
      BY <1>0, <2>4, <2>5, AnswersRequest
  <1> QED
    BY <1>4, <1>5 DEF canActivate, call

LEMMA FinishKeeps ==
    ASSUME SessionInv, SessionsGrow, UNCHANGED load, NEW r \in Requests, Finish(r)
    PROVE  SessionInv'
  <1> DEFINE call == rpc[http[r].call]
             reply == call.reply
  <1>0. Calling(r) /\ http[r].phase = "service" /\ call.phase = "done" /\ UNCHANGED jar
    BY DEF Finish, Calling
  <1>1. /\ http[r] # Idle /\ IsFilled(http[r])
        /\ Used(CookieOf(http[r]))
        /\ http[r].stale => Over(CookieOf(http[r]))
        /\ RequestTrue(http[r], call) /\ CallTrue(call) /\ call # Idle
    BY <1>0, CallingFacts
  <1>2. PICK request : request = http[r]
    OBVIOUS
  <1>3. PICK response : response = Response(request.route, reply)
    OBVIOUS
  <1>4. /\ Respond(r, request, response)
        /\ UNCHANGED rpc \/ (Calling(r) /\ (Release(r) \/ Abandon(http[r].call)))
    BY <1>0, <1>2, <1>3 DEF Finish
  <1> HIDE DEF call
  <1>5. /\ response.status = 204 => request.route = "signOut" /\ reply.code = "OK"
        /\ \/ response.cookie \in {Keep, NoCookie}
           \/ /\ request.route = "signIn" /\ reply.code = "OK"
              /\ response.cookie = SessionCookie(reply.message)
    BY <1>1, <1>2, <1>3, ResponseFacts DEF IsFilled
  <1>6. /\ request.route \in GuardedRoutes => ~request.stale
        /\ request.route = "signIn" => call.method = "SignIn"
        /\ request.route = "signOut" =>
              call.method = "SignOut" /\ call.metadata.cookie = CookieOf(request)
    BY <1>0, <1>1, <1>2 DEF RequestTrue, CookieOf
  <1>7. response.status = 204 => Over(CookieOf(request))
    BY <1>0, <1>1, <1>5, <1>6 DEF CallTrue
  <1>8. GoodCookie(response.cookie)
    BY <1>0, <1>1, <1>5, <1>6, NoSessionCookies DEF CallTrue
  <1>9. /\ IsFilled(request) /\ Used(CookieOf(request))
        /\ request.stale => Over(CookieOf(request))
    BY <1>1, <1>2
  <1> QED
    BY <1>0, <1>4, <1>6, <1>7, <1>8, <1>9, AnswersRequest

LEMMA BreakKeeps ==
    ASSUME SessionInv, SessionsGrow, UNCHANGED load, NEW r \in Requests, Break(r)
    PROVE  SessionInv'
  <1>0. Calling(r) /\ UNCHANGED jar
    BY DEF Break, Calling
  <1>1. PICK request : request = http[r]
    OBVIOUS
  <1>2. /\ IsFilled(request) /\ Used(CookieOf(request))
        /\ request.stale => Over(CookieOf(request))
    BY <1>0, <1>1, CallingFacts
  <1>3. PICK response : response = Response(request.route, Failure("UNAVAILABLE", {}))
    OBVIOUS
  <1>4. response.status = 503
    BY <1>3, FailedStatus
  <1>5. GoodCookie(response.cookie)
    <2>1. Failure("UNAVAILABLE", {}).code # "OK"
      BY DEF Failure
    <2>2. response.cookie \in {Keep, NoCookie}
      BY <1>2, <1>3, <2>1, ResponseFacts DEF IsFilled
    <2> QED
      BY <2>2, NoSessionCookies
  <1>6. /\ Respond(r, request, response)
        /\ UNCHANGED rpc \/ (Calling(r) /\ (Release(r) \/ Abandon(http[r].call)))
    BY <1>0, <1>1, <1>3 DEF Break
  <1> QED
    BY <1>0, <1>2, <1>4, <1>5, <1>6, AnswersRequest

LEMMA DeliveryKeeps ==
    ASSUME SessionInv, SessionsGrow, UNCHANGED load, NEW r \in Requests, Deliver(r) \/ Lose(r)
    PROVE  SessionInv'
  <1>0. Shapes /\ SessionsTyped
    BY DEF SessionInv, Shapes
  <1>1. /\ http' = [http EXCEPT ![r] = Idle] /\ UNCHANGED rpc
        /\ http[r].phase = "answered"
    BY DEF Deliver, Lose
  <1>2. /\ jar' = [b \in Browsers |-> jar'[b]]
        /\ \A b \in Browsers : GoodCookie(jar[b])'
    <2>1. CASE UNCHANGED jar
      BY <2>1, CookiesStay
    <2>2. CASE jar' = [jar EXCEPT ![http[r].browser] = http[r].response.cookie]
      <3>1. http[r] # Idle
        BY <1>1, IdlePhase
      <3>2. GoodCookie(http[r].response.cookie)
        BY <1>1, <3>1 DEF SessionInv, RequestTrue
      <3>3. /\ jar' = [b \in Browsers |-> jar'[b]]
            /\ \A b \in Browsers : jar'[b] = jar[b] \/ jar'[b] = http[r].response.cookie
        BY <1>0, <2>2 DEF Shapes
      <3>4. ASSUME NEW b \in Browsers PROVE GoodCookie(jar[b])'
        <4>1. PICK cookie : cookie = jar'[b]
          OBVIOUS
        <4>2. GoodCookie(cookie)
          BY <3>2, <3>3, <4>1 DEF SessionInv
        <4>3. GoodCookie(cookie)'
          BY <1>0, <4>2, StaysTrue
        <4> QED
          BY <4>1, <4>3 DEF GoodCookie, Used
      <3> QED
        BY <3>3, <3>4
    <2> QED
      BY <2>1, <2>2 DEF Deliver, Lose
  <1>3. PICK x : x = Idle
    OBVIOUS
  <1>4. x.phase \notin {"guard", "service"}
    BY <1>3, IdlePhase
  <1>5. RequestTrue(x, rpc[x.call])'
    BY <1>3 DEF RequestTrue
  <1>6. /\ rpc' = [d \in Calls |-> rpc'[d]]
        /\ \A d \in Calls : /\ rpc'[d] = Idle \/ IsCall(rpc'[d])
                            /\ CallTrue(rpc[d])'
                            /\ rpc'[d] = rpc[d]
    BY <1>1, CallsStay
  <1> QED
    BY <1>1, <1>2, <1>3, <1>4, <1>5, <1>6, RequestMoves

\* Time passes, or something happens behind the services.
LEMMA QuietKeeps ==
    ASSUME SessionInv, SessionsGrow, UNCHANGED <<http, jar, load, rpc>>
    PROVE  SessionInv'
  <1>0. Shapes /\ SessionsTyped
    BY DEF SessionInv, Shapes
  <1>1. Shapes'
    BY <1>0 DEF Shapes, SessionsGrow
  <1>2. \A b \in Browsers : GoodCookie(jar[b])'
    BY CookiesStay
  <1>3. \A d \in Calls : CallTrue(rpc[d])'
    BY CallsStay
  <1>4. ASSUME NEW r \in Requests PROVE Owns(r)' /\ RequestTrue(http[r], rpc[http[r].call])'
    <2>1. Owns(r)'
      BY DEF SessionInv, Owns, Calling
    <2>2. PICK request : request = http[r]
      OBVIOUS
    <2>3. PICK call : call = rpc[http[r].call]
      OBVIOUS
    <2>4. RequestTrue(request, call)'
      BY <1>0, <2>2, <2>3, StaysTrue DEF SessionInv
    <2>5. http'[r] = request /\ rpc'[http'[r].call] = call
      BY <2>2, <2>3
    <2> QED
      BY <2>1, <2>4, <2>5 DEF RequestTrue, Used, Over, Id!IsLive, GoodCookie, Id!Milliseconds
  <1> QED
    BY <1>1, <1>2, <1>3, <1>4 DEF SessionInv, SessionsGrow

LEMMA SessionInvKept ==
    ASSUME SessionInv, [Next]_vars
    PROVE  SessionInv'
  <1>1. SessionsGrow
    BY SessionSteps
  <1>2. CASE UNCHANGED vars
    BY <1>1, <1>2, QuietKeeps DEF vars
  <1>3. CASE Next
    <2>0. UNCHANGED load
      BY <1>3 DEF Next
    <2>1. ASSUME NEW r \in Requests,
                 Ask(r) \/ canActivate(r) \/ Finish(r) \/ Break(r) \/ Deliver(r) \/ Lose(r)
          PROVE  SessionInv'
      BY <1>1, <2>0, <2>1, AskKeeps, GuardKeeps, FinishKeeps, BreakKeeps, DeliveryKeeps
    <2>2. ASSUME NEW c \in Calls, Handle(c) \/ Crash(c)
          PROVE  SessionInv'
      BY <1>1, <2>0, <2>2, ServicesKeep
    <2>3. CASE Tick \/ Event
      <3>1. UNCHANGED <<http, jar, load, rpc>>
        BY <2>0, <2>3 DEF Tick, Event, Id!Tick
      <3> QED
        BY <1>1, <3>1, QuietKeeps
    <2> QED
      BY <1>3, <2>1, <2>2, <2>3 DEF Next, Step
  <1> QED
    BY <1>2, <1>3

LEMMA SessionInvInit ==
    ASSUME Init
    PROVE  SessionInv
  <1>0. now = 0 /\ load \in Loads /\ Id!Milliseconds = 0 /\ SessionAge \in Nat
    BY TimeAssumption DEF Init, Id!Milliseconds
  <1>1. ASSUME NEW t \in SessionTokens
        PROVE  /\ sessions[t] = Id!Unused \/ (IsSession(sessions[t]) /\ sessions[t].expiresAt = SessionAge)
               /\ (\E s \in load.signedIn : s.token = t) => sessions[t] # Id!Unused
    <2>1. CASE \E s \in load.signedIn : s.token = t
      <3>1. sessions[t] = [state |-> "live", expiresAt |-> SessionAge,
                           user |-> (CHOOSE s \in load.signedIn : s.token = t).user]
        BY <2>1 DEF Init
      <3>2. PICK user : user = (CHOOSE s \in load.signedIn : s.token = t).user
        OBVIOUS
      <3>3. sessions[t] = [state |-> "live", expiresAt |-> SessionAge, user |-> user]
        BY <3>1, <3>2
      <3>4. IsSession(sessions[t]) /\ sessions[t].expiresAt = SessionAge
        BY <1>0, <3>3 DEF IsSession
      <3> QED
        BY <3>4, SessionIsUsed
    <2>2. CASE ~\E s \in load.signedIn : s.token = t
      BY <2>2 DEF Init
    <2> QED
      BY <2>1, <2>2
  <1>2. SessionsTyped
    <2>1. sessions = [t \in SessionTokens |-> sessions[t]]
      BY DEF Init
    <2> QED
      BY <1>0, <1>1, <2>1 DEF SessionsTyped
  <1>3. ExpiriesBounded
    BY <1>0, <1>1 DEF ExpiriesBounded
  <1>4. /\ rpc = [c \in Calls |-> rpc[c]] /\ \A c \in Calls : rpc[c] = Idle
        /\ http = [r \in Requests |-> http[r]] /\ \A r \in Requests : http[r] = Idle
        /\ jar = [b \in Browsers |-> jar[b]]
    BY DEF Init
  <1>5. ASSUME NEW b \in Browsers PROVE GoodCookie(jar[b])
    <2>1. CASE \E s \in load.signedIn : s.browser = b
      <3>1. PICK s \in load.signedIn : s = CHOOSE x \in load.signedIn : x.browser = b
        BY <2>1
      <3>2. jar[b] = [token |-> s.token, expires |-> SessionAge]
        BY <2>1, <3>1 DEF Init
      <3>3. s.token \in SessionTokens
        BY <1>0, <3>1, LoadsAssumption
      <3>4. sessions[s.token] # Id!Unused /\ sessions[s.token].expiresAt = SessionAge
        BY <1>1, <3>1, <3>3
      <3> QED
        BY <1>0, <3>2, <3>3, <3>4 DEF GoodCookie, Used
    <2>2. CASE ~\E s \in load.signedIn : s.browser = b
      <3>1. jar[b] = NoCookie
        BY <2>2 DEF Init
      <3> QED
        BY <3>1, NoSessionCookies
    <2> QED
      BY <2>1, <2>2
  <1>6. ASSUME NEW r \in Requests PROVE Owns(r) /\ RequestTrue(http[r], rpc[http[r].call])
    BY <1>4, IdlePhase DEF Owns, Calling, RequestTrue
  <1> QED
    BY <1>0, <1>2, <1>3, <1>4, <1>5, <1>6 DEF SessionInv, Shapes, CallTrue

THEOREM SessionsSafe == Spec => []SessionInv
  <1>1. Init => SessionInv
    BY SessionInvInit
  <1>2. SessionInv /\ [Next]_vars => SessionInv'
    BY SessionInvKept
  <1> QED
    BY <1>1, <1>2, PTL DEF Spec

\* A request sent after its session was over is refused before any service is called
\* (SessionAuthGuard).
THEOREM StaleRefused == Spec => []StaleSessionsAreRefused
  <1>1. SessionInv => StaleSessionsAreRefused
    <2> SUFFICES ASSUME SessionInv, NEW r \in Requests, Guarded(r), http[r].stale
                 PROVE  /\ http[r].phase # "service"
                        /\ http[r].phase = "answered" => http[r].response.status \in {401, 500, 503}
      BY DEF StaleSessionsAreRefused
    <2>1. http[r] # Idle
      BY IdlePhase DEF Guarded
    <2>2. RequestTrue(http[r], rpc[http[r].call]) /\ IsRequest(http[r])
      BY <2>1 DEF SessionInv, Shapes
    <2>3. http[r].route \in GuardedRoutes
      BY <2>2, Routes DEF Guarded, IsRequest
    <2> QED
      BY <2>1, <2>2, <2>3 DEF RequestTrue
  <1> QED
    BY <1>1, SessionsSafe, PTL

\* A browser's cookie names a session there is or was, and promises no more than it
\* (toTimestamp, toDate).
THEOREM CookiesHonest == Spec => []CookieWithinSession
  <1>1. SessionInv => CookieWithinSession
    BY DEF SessionInv, CookieWithinSession, GoodCookie, Used
  <1> QED
    BY <1>1, SessionsSafe, PTL

\* Whoever is told 204 is signed out: the session of the cookie is over (signOut).
THEOREM SignedOut == Spec => []SignedOutIsOver
  <1>1. SessionInv => SignedOutIsOver
    <2> SUFFICES ASSUME SessionInv, NEW r \in Requests, http[r].phase = "answered",
                        http[r].response.status = 204
                 PROVE  ~Id!IsLive(Cookie(r))
      BY DEF SignedOutIsOver
    <2>1. http[r] # Idle
      BY IdlePhase
    <2> QED
      BY <2>1 DEF SessionInv, RequestTrue, Over, Cookie
  <1> QED
    BY <1>1, SessionsSafe, PTL

----------------------------------------------------------------------------
(* What the steps do to calls and requests. *)

\* A step of a service on call c: the answer is dropped if nobody waits for it, and
\* the call keeps what it was asked.
LEMMA HandledCall ==
    ASSUME SessionInv, NEW c \in Calls, Handle(c) \/ Crash(c)
    PROVE  /\ rpc[c] # Idle /\ UNCHANGED http
           /\ \A d \in Calls : d # c => rpc'[d] = rpc[d]
           /\ \/ rpc[c].abandoned /\ rpc'[c] = Idle
              \/ /\ rpc'[c] # Idle /\ rpc'[c].method = rpc[c].method
                 /\ rpc'[c].request = rpc[c].request /\ rpc'[c].abandoned = rpc[c].abandoned
                 /\ rpc'[c].phase # "sent"
  <1>0. Shapes /\ (rpc[c] # Idle => IsCall(rpc[c]))
    BY DEF SessionInv, Shapes
  <1>1. ASSUME NEW y, rpc' = [rpc EXCEPT ![c] = y]
        PROVE  rpc'[c] = y /\ \A d \in Calls : d # c => rpc'[d] = rpc[d]
    BY <1>0, <1>1 DEF Shapes
  <1>2. UNCHANGED http
    BY DEF Handle, Crash
  <1>3. CASE rpc[c] # Idle /\ \E answer : Reply(c, answer)
    <2>1. PICK answer : Reply(c, answer)
      BY <1>3
    <2>2. PICK y : /\ rpc' = [rpc EXCEPT ![c] = y]
                   /\ \/ rpc[c].abandoned /\ y = Idle
                      \/ /\ IsCall(y) /\ y.abandoned = rpc[c].abandoned
                         /\ y.method = rpc[c].method /\ y.metadata = rpc[c].metadata
                         /\ y.request = rpc[c].request
                         /\ y.phase = "done" /\ y.reply = answer
      BY <1>0, <1>3, <2>1, Replied
    <2>3. rpc'[c] = y /\ \A d \in Calls : d # c => rpc'[d] = rpc[d]
      BY <1>1, <2>2
    <2> QED
      BY <1>2, <1>3, <2>2, <2>3, IdlePhase
  <1>4. CASE Id!signUp(c) /\ rpc' = [rpc EXCEPT ![c].phase = "mailing"]
    <2> DEFINE y == [rpc[c] EXCEPT !.phase = "mailing"]
    <2>1. rpc[c] # Idle
      BY <1>4, IdlePhase, SameChannel DEF Id!signUp, Waits
    <2>2. rpc' = [rpc EXCEPT ![c] = y]
      BY <1>4
    <2>3. IsCall(y) /\ y.method = rpc[c].method /\ y.request = rpc[c].request
          /\ y.abandoned = rpc[c].abandoned /\ y.phase = "mailing"
      BY <1>0, <2>1 DEF IsCall, CallFields
    <2> HIDE DEF y
    <2> QED
      BY <1>1, <1>2, <2>1, <2>2, <2>3, IdlePhase
  <1>5. ASSUME Id!signIn(c), NEW t, rpc' = [rpc EXCEPT ![c].phase = "expiry", ![c].token = t]
        PROVE  /\ rpc[c] # Idle
               /\ \A d \in Calls : d # c => rpc'[d] = rpc[d]
               /\ rpc'[c] # Idle /\ rpc'[c].method = rpc[c].method
               /\ rpc'[c].request = rpc[c].request /\ rpc'[c].abandoned = rpc[c].abandoned
               /\ rpc'[c].phase # "sent"
    <2> DEFINE y == [rpc[c] EXCEPT !.phase = "expiry", !.token = t]
    <2>1. rpc[c] # Idle
      BY <1>5, IdlePhase, SameChannel DEF Id!signIn, Waits
    <2>2. rpc' = [rpc EXCEPT ![c] = y]
      BY <1>5
    <2>3. IsCall(y) /\ y.method = rpc[c].method /\ y.request = rpc[c].request
          /\ y.abandoned = rpc[c].abandoned /\ y.phase = "expiry"
      BY <1>0, <2>1 DEF IsCall, CallFields
    <2> HIDE DEF y
    <2> QED
      BY <1>1, <2>1, <2>2, <2>3, IdlePhase
  <1>6. CASE Svc!Serve(c)
    BY <1>3, <1>6, ServicesReply, IdlePhase
  <1>7. CASE Crash(c)
    BY <1>3, <1>7, IdlePhase DEF Crash, Drop
  <1>8. CASE Id!Handle(c)
    <2>1. rpc[c] # Idle
      BY <1>8, IdlePhase, SameChannel
         DEF Id!Handle, Id!signUp, Id!sendVerificationEmail, Id!signIn, Id!getSessionExpiry,
             Id!signOut, Id!currentUser, Id!verifyEmail, Waits
    <2>2. \/ \E answer : Reply(c, answer)
          \/ Id!signUp(c) /\ rpc' = [rpc EXCEPT ![c].phase = "mailing"]
          \/ Id!signIn(c) /\ \E t : rpc' = [rpc EXCEPT ![c].phase = "expiry", ![c].token = t]
      <3> USE SameChannel
      <3>1. CASE Id!signUp(c)
        BY <3>1 DEF Id!signUp
      <3>2. CASE Id!sendVerificationEmail(c)
        BY <3>2 DEF Id!sendVerificationEmail
      <3>3. CASE Id!signIn(c)
        BY <3>3 DEF Id!signIn
      <3>4. CASE Id!getSessionExpiry(c)
        BY <3>4 DEF Id!getSessionExpiry
      <3>5. CASE Id!signOut(c)
        BY <3>5 DEF Id!signOut
      <3>6. CASE Id!currentUser(c)
        BY <3>6 DEF Id!currentUser
      <3>7. CASE Id!verifyEmail(c)
        BY <3>7 DEF Id!verifyEmail
      <3> QED
        BY <1>8, <3>1, <3>2, <3>3, <3>4, <3>5, <3>6, <3>7 DEF Id!Handle
    <2> QED
      BY <1>2, <1>3, <1>4, <1>5, <2>1, <2>2
  <1> QED
    BY <1>6, <1>7, <1>8 DEF Handle

RequestStep(r) ==
    Ask(r) \/ canActivate(r) \/ Finish(r) \/ Break(r) \/ Deliver(r) \/ Lose(r)

\* A call that is not answered in this step: it is as before, begins, is over, or
\* nobody waits for it any more.
CallKept(d) ==
    \/ rpc'[d] = rpc[d] /\ (d \in wrote' <=> d \in wrote)
    \/ rpc'[d] = Idle
    \/ /\ rpc'[d] # Idle /\ rpc'[d].phase # "done"
       /\ rpc'[d].abandoned \/ (rpc'[d].phase = "sent" /\ d \notin wrote')

Asked(r, request) == IsFilled(request) /\ Dispatch(r, request)

LEMMA RequestCalls ==
    ASSUME SessionInv, NEW r \in Requests, RequestStep(r)
    PROVE  /\ \A q \in Requests : q # r => http'[q] = http[q]
           /\ \A d \in Calls :
                /\ CallKept(d)
                /\ rpc'[d] = rpc[d] \/ rpc[d] = Idle \/ (Calling(r) /\ http[r].call = d)
  <1>0. Shapes
    BY DEF SessionInv, Shapes
  <1>1. ASSUME NEW x, http' = [http EXCEPT ![r] = x]
        PROVE  \A q \in Requests : q # r => http'[q] = http[q]
    BY <1>0, <1>1 DEF Shapes
  <1>2. ASSUME NEW c, NEW y, rpc' = [rpc EXCEPT ![c] = y], wrote' = wrote \ {c},
               \/ y = Idle
               \/ y # Idle /\ y.phase # "done" /\ (y.abandoned \/ y.phase = "sent"),
               rpc[c] = Idle \/ (Calling(r) /\ http[r].call = c)
        PROVE  \A d \in Calls :
                /\ CallKept(d)
                /\ rpc'[d] = rpc[d] \/ rpc[d] = Idle \/ (Calling(r) /\ http[r].call = d)
    <2> SUFFICES ASSUME NEW d \in Calls
                 PROVE  /\ CallKept(d)
                        /\ rpc'[d] = rpc[d] \/ rpc[d] = Idle \/ (Calling(r) /\ http[r].call = d)
      OBVIOUS
    <2>1. CASE d = c
      <3>1. rpc'[d] = y /\ d \notin wrote'
        BY <1>0, <1>2, <2>1 DEF Shapes
      <3> QED
        BY <1>2, <2>1, <3>1 DEF CallKept
    <2>2. CASE d # c
      <3>1. rpc'[d] = rpc[d] /\ (d \in wrote' <=> d \in wrote)
        BY <1>0, <1>2, <2>2 DEF Shapes
      <3> QED
        BY <3>1 DEF CallKept
    <2> QED
      BY <2>1, <2>2
  <1> DEFINE Kept == \A d \in Calls :
                /\ CallKept(d)
                /\ rpc'[d] = rpc[d] \/ rpc[d] = Idle \/ (Calling(r) /\ http[r].call = d)
  <1>3. ASSUME UNCHANGED <<rpc, wrote>> PROVE Kept
    BY <1>3 DEF CallKept
  <1>4. ASSUME Calling(r), Release(r) PROVE Kept
    <2>1. PICK c : c = http[r].call
      OBVIOUS
    <2>2. rpc' = [rpc EXCEPT ![c] = Idle] /\ wrote' = wrote \ {c}
      BY <1>4, <2>1 DEF Release
    <2> QED
      BY <1>2, <1>4, <2>1, <2>2
  <1>5. ASSUME Calling(r), Abandon(http[r].call), wrote' = wrote \ {http[r].call} PROVE Kept
    <2>1. PICK c : c = http[r].call
      OBVIOUS
    <2>2. c \in Calls /\ IsCall(rpc[c])
      BY <1>0, <1>5, <2>1, CallingFacts DEF Shapes
    <2>3. CASE rpc[c].phase = "done"
      <3>1. rpc' = [rpc EXCEPT ![c] = Idle]
        BY <1>5, <2>1, <2>3 DEF Abandon
      <3> QED
        BY <1>2, <1>5, <2>1, <3>1
    <2>4. CASE rpc[c].phase # "done"
      <3>1. PICK y : y = [rpc[c] EXCEPT !.abandoned = TRUE]
        OBVIOUS
      <3>2. rpc' = [rpc EXCEPT ![c] = y]
        BY <1>5, <2>1, <2>4, <3>1 DEF Abandon
      <3>3. IsCall(y) /\ y.phase = rpc[c].phase /\ y.abandoned
        BY <2>2, <3>1 DEF IsCall, CallFields
      <3>4. y # Idle /\ y.phase # "done" /\ y.abandoned
        BY <2>4, <3>3, IdlePhase
      <3> QED
        BY <1>2, <1>5, <2>1, <3>2, <3>4
    <2> QED
      BY <2>3, <2>4
  <1>6. ASSUME NEW c, NEW method, NEW message, NEW metadata,
               Start(r, c, Sent(method, message, metadata))
        PROVE  Kept
    <2>1. PICK y : y = Sent(method, message, metadata)
      OBVIOUS
    <2>2. y.phase = "sent" /\ y # Idle
      BY <2>1, IdlePhase DEF Sent
    <2>3. rpc' = [rpc EXCEPT ![c] = y] /\ wrote' = wrote \ {c}
          /\ (rpc[c] = Idle \/ (Calling(r) /\ http[r].call = c))
      BY <1>6, <2>1 DEF Start, Calling
    <2> QED
      BY <1>2, <2>2, <2>3
  <1> HIDE DEF Kept
  <1>7. ASSUME NEW request, Asked(r, request)
        PROVE  Kept /\ \E x : http' = [http EXCEPT ![r] = x]
    <2>1. \E x : http' = [http EXCEPT ![r] = x]
      BY <1>7 DEF Asked, Dispatch, Respond
    <2>2. \/ Calling(r) /\ Release(r)
          \/ UNCHANGED <<rpc, wrote>>
          \/ \E c \in Calls : Start(r, c, ServiceCall(request.route, request.body, request.headers,
                                                      request.user.id))
      BY <1>7 DEF Asked, Dispatch, Calling
    <2>3. PICK method, message, metadata :
             ServiceCall(request.route, request.body, request.headers, request.user.id)
                  = Sent(method, message, metadata)
      BY <1>7, CallOfRoute DEF Asked, IsFilled
    <2> QED
      BY <1>3, <1>4, <1>6, <2>1, <2>2, <2>3
  <1>8. CASE Ask(r)
    <2>1. PICK b \in load.browsers, want \in load.wanted : Receive(r, b, want)
      BY <1>8 DEF Ask
    <2>2. b \in Browsers /\ want.route \in Route
      BY <2>1, LoadsAssumption DEF SessionInv, Shapes
    <2>3. \/ \E request : Asked(r, request)
          \/ /\ \E c : Start(r, c, AuthServiceCall("currentUser", <<>>, HeadersOf(b)))
             /\ \E x : http' = [http EXCEPT ![r] = x]
      <3> DEFINE request == [phase |-> "received", browser |-> b, route |-> want.route,
                    body |-> want.body, headers |-> HeadersOf(b), user |-> NoUser,
                    call |-> "none", response |-> Failed([kind |-> "other"]),
                    stale |-> ~Id!IsLive(createSessionRequestMetadata(HeadersOf(b)).cookie)]
      <3>1. PICK stale : stale = ~Id!IsLive(createSessionRequestMetadata(HeadersOf(b)).cookie)
        OBVIOUS
      <3>2. stale \in BOOLEAN
        BY <3>1, Zenon
      <3>3. IsFilled(request)
        BY <2>2, <3>1, <3>2 DEF IsFilled, RequestFields
      <3> QED
        BY <2>1, <3>3 DEF Receive, Asked
    <2>4. \A headers : \E metadata :
            AuthServiceCall("currentUser", <<>>, headers) = Sent("CurrentUser", <<>>, metadata)
      BY DEF AuthServiceCall
    <2> QED
      BY <1>1, <1>6, <1>7, <2>3, <2>4 DEF Kept
  <1>9. CASE canActivate(r)
    <2>0. Calling(r) /\ IsFilled(http[r])
      BY <1>9, CallingFacts DEF canActivate, Calling
    <2>1. \A user : IsFilled([http[r] EXCEPT !.user = user])
      BY <2>0 DEF IsFilled, RequestFields
    <2>2. \/ \E request : Asked(r, request)
          \/ Release(r) /\ \E x : http' = [http EXCEPT ![r] = x]
      BY <1>9, <2>1 DEF canActivate, Asked, Respond
    <2> QED
      BY <1>1, <1>4, <1>7, <2>0, <2>2 DEF Kept
  <1>10. CASE Finish(r)
    <2>1. Calling(r) /\ Release(r) /\ \E x : http' = [http EXCEPT ![r] = x]
      BY <1>10 DEF Finish, Calling, Respond
    <2> QED
      BY <1>1, <1>4, <2>1 DEF Kept
  <1>11. CASE Break(r)
    <2>1. /\ Calling(r) /\ Abandon(http[r].call) /\ wrote' = wrote \ {http[r].call}
          /\ \E x : http' = [http EXCEPT ![r] = x]
      BY <1>11 DEF Break, Calling, Respond
    <2> QED
      BY <1>1, <1>5, <2>1 DEF Kept
  <1>12. CASE Deliver(r) \/ Lose(r)
    <2>1. UNCHANGED <<rpc, wrote>> /\ \E x : http' = [http EXCEPT ![r] = x]
      BY <1>12 DEF Deliver, Lose
    <2>2. \A q \in Requests : q # r => http'[q] = http[q]
      BY <1>1, <2>1
    <2> QED
      BY <2>1, <2>2 DEF CallKept
  <1> QED
    BY <1>8, <1>9, <1>10, <1>11, <1>12 DEF RequestStep

\* A call is answered by its service or by the loss of it, and by nothing else.
LEMMA CallSteps ==
    ASSUME SessionInv, [Next]_vars, NEW d \in Calls
    PROVE  CallKept(d) \/ Handle(d) \/ Crash(d)
  <1>1. ASSUME NEW r \in Requests, RequestStep(r) PROVE CallKept(d)
    BY <1>1, RequestCalls
  <1>2. ASSUME NEW c \in Calls, Handle(c) \/ Crash(c), c # d PROVE CallKept(d)
    <2>1. rpc'[d] = rpc[d]
      BY <1>2, HandledCall
    <2>2. d \in wrote' <=> d \in wrote
      BY <1>2 DEF Handle, Crash
    <2> QED
      BY <2>1, <2>2 DEF CallKept
  <1>3. CASE Tick \/ Event \/ UNCHANGED vars
    BY <1>3 DEF Tick, Event, Id!Tick, vars, CallKept
  <1> QED
    BY <1>1, <1>2, <1>3 DEF Next, Step, RequestStep

\* A request is as it was, and so is the question it waits to be answered, unless it
\* takes a step itself.
LEMMA OwnSteps ==
    ASSUME SessionInv, [Next]_vars, NEW r \in Requests
    PROVE  \/ RequestStep(r)
           \/ /\ http'[r] = http[r]
              /\ Calling(r) => /\ rpc'[http[r].call].method = rpc[http[r].call].method
                               /\ rpc'[http[r].call].request = rpc[http[r].call].request
  <1>0. /\ Owns(r)
        /\ Calling(r) => http[r].call \in Calls /\ rpc[http[r].call] # Idle
    BY DEF SessionInv, Owns
  <1>1. ASSUME NEW q \in Requests, q # r, RequestStep(q)
        PROVE  /\ http'[r] = http[r]
               /\ Calling(r) => rpc'[http[r].call] = rpc[http[r].call]
    <2>1. http'[r] = http[r]
      BY <1>1, RequestCalls
    <2>2. ASSUME Calling(r) PROVE rpc'[http[r].call] = rpc[http[r].call]
      <3>1. \/ rpc'[http[r].call] = rpc[http[r].call]
            \/ Calling(q) /\ http[q].call = http[r].call
        BY <1>0, <1>1, <2>2, RequestCalls
      <3> QED
        BY <1>0, <1>1, <2>2, <3>1 DEF Owns
    <2> QED
      BY <2>1, <2>2
  <1>2. ASSUME NEW c \in Calls, Handle(c) \/ Crash(c)
        PROVE  /\ http'[r] = http[r]
               /\ Calling(r) => /\ rpc'[http[r].call].method = rpc[http[r].call].method
                                /\ rpc'[http[r].call].request = rpc[http[r].call].request
    <2>1. http'[r] = http[r]
      BY <1>2, HandledCall
    <2>2. CASE Calling(r) /\ http[r].call = c
      BY <1>0, <1>2, <2>1, <2>2, HandledCall DEF Owns
    <2>3. CASE Calling(r) /\ http[r].call # c
      BY <1>0, <1>2, <2>1, <2>3, HandledCall
    <2> QED
      BY <2>1, <2>2, <2>3
  <1>3. CASE Tick \/ Event \/ UNCHANGED vars
    BY <1>3 DEF Tick, Event, Id!Tick, vars
  <1> QED
    BY <1>1, <1>2, <1>3 DEF Next, Step, RequestStep

----------------------------------------------------------------------------
(* What a failure says. *)

\* The items that may reach a client with a 4xx.
ClientItem ==
    [code : PublicCode \ {"INTERNAL_ERROR", "SERVICE_UNAVAILABLE"}, text : {"service", "gateway"}]

ClientCode ==
    {"INVALID_ARGUMENT", "NOT_FOUND", "ALREADY_EXISTS", "PERMISSION_DENIED", "UNAUTHENTICATED"}

\* A service that refuses says why in its own words; one that fails may say anything,
\* and one that is not there says nothing.
FailureTold(reply) ==
    \/ /\ reply.code \in ClientCode
       /\ reply.details # {} /\ reply.details \subseteq ClientItem
    \/ reply.code = "INTERNAL" /\ reply.details # {} /\ reply.details \subseteq ErrorItem
    \/ reply.code = "UNAVAILABLE" /\ reply.details = {}

ErrorTold(response) ==
    response.status >= 400 =>
        IF response.status < 500
        THEN response.errors # {} /\ response.errors \subseteq ClientItem
        ELSE response.errors = {IF response.status = 503 THEN Unavailable ELSE Unexpected}

LEMMA ItemsAreErrors ==
    /\ ClientItem \subseteq ErrorItem
    /\ \A item \in ErrorItem : isErrorItem(item)
  BY DEF ClientItem, ErrorItem, isErrorItem, PublicCode, Text

LEMMA GrpcFailure ==
    ASSUME NEW reply, FailureTold(reply), NEW item
    PROVE  LET response == Failed(throwGatewayGrpcError(GrpcError(reply), item)) IN
           /\ ErrorTold(response)
           /\ response.status \in {400, 401, 403, 404, 409, 500, 503}
           /\ response.status < 500 => reply.code \in ClientCode
  <1> DEFINE response == Failed(throwGatewayGrpcError(GrpcError(reply), item))
             status == httpStatusFromGrpcCode(reply.code)
  <1>1. /\ GrpcError(reply).kind = "grpc" /\ GrpcError(reply).code = reply.code
        /\ GrpcError(reply).details.errors = reply.details
        /\ GrpcError(reply).details.json = (reply.details # {})
    BY DEF GrpcError
  <1>2. CASE reply.code = "UNAVAILABLE" /\ reply.details = {}
    <2>1. throwGatewayGrpcError(GrpcError(reply), item) = ApiError(503, {Unavailable})
      BY <1>1, <1>2 DEF throwGatewayGrpcError, isGrpcStatusError, getGrpcErrorResponse
    <2> QED
      BY <2>1 DEF Failed, Catch, ApiError, getHttpStatus, getErrorResponse, ErrorTold
  <1>3. CASE reply.details # {} /\ reply.details \subseteq ErrorItem
    <2>1. getGrpcErrorResponse(GrpcError(reply)) = reply.details
      BY <1>1, <1>3, ItemsAreErrors DEF getGrpcErrorResponse, hasErrorItems
    <2>2. throwGatewayGrpcError(GrpcError(reply), item) = ApiError(status, reply.details)
      BY <1>1, <1>3, <2>1 DEF throwGatewayGrpcError, isGrpcStatusError
    <2>3. /\ response.status = status
          /\ status < 500 => response.errors = reply.details
          /\ status = 500 => response.errors = {Unexpected}
      BY <1>3, <2>2, ItemsAreErrors
         DEF Failed, Catch, ApiError, getHttpStatus, getErrorResponse, getStructuredResponse
    <2>4. CASE reply.code = "INTERNAL"
      <3>1. status = 500
        BY <2>4 DEF httpStatusFromGrpcCode
      <3> QED
        BY <2>3, <3>1 DEF ErrorTold
    <2>5. CASE reply.code \in ClientCode /\ reply.details \subseteq ClientItem
      <3>1. status \in {400, 401, 403, 404, 409}
        BY <2>5 DEF httpStatusFromGrpcCode, ClientCode
      <3> QED
        BY <1>3, <2>3, <2>5, <3>1 DEF ErrorTold
    <2> QED
      BY <1>3, <2>4, <2>5 DEF FailureTold
  <1> QED
    BY <1>2, <1>3, ItemsAreErrors DEF FailureTold

LEMMA OtherFailures ==
    /\ \A item : LET response == Failed(throwGatewayGrpcError([kind |-> "other"], item)) IN
         ErrorTold(response) /\ response.status = 503
    /\ \A fields, declared : fields # {} =>
         LET response == Failed(createValidationApiError(fields, declared)) IN
         ErrorTold(response) /\ response.status = 400
    /\ ErrorTold(Failed(UnauthorizedException)) /\ Failed(UnauthorizedException).status = 401
  <1>1. ASSUME NEW item
        PROVE  LET response == Failed(throwGatewayGrpcError([kind |-> "other"], item)) IN
               ErrorTold(response) /\ response.status = 503
    <2>1. throwGatewayGrpcError([kind |-> "other"], item) = ApiError(503, {Unavailable})
      BY DEF throwGatewayGrpcError, isGrpcStatusError
    <2> QED
      BY <2>1 DEF Failed, Catch, ApiError, getHttpStatus, getErrorResponse, ErrorTold
  <1>2. ASSUME NEW fields, NEW declared, fields # {}
        PROVE  LET response == Failed(createValidationApiError(fields, declared)) IN
               ErrorTold(response) /\ response.status = 400
    <2> DEFINE items == {toErrorItem(f, declared) : f \in fields}
    <2>1. \A f : toErrorItem(f, declared) \in ClientItem
      BY DEF toErrorItem, getValidationCode, toPublicErrorCode, Item, ClientItem, PublicCode, ErrorCode
    <2>2. items # {} /\ items \subseteq ClientItem
      BY <1>2, <2>1
    <2>3. createValidationApiError(fields, declared) = ApiError(400, items)
      BY DEF createValidationApiError
    <2> HIDE DEF items
    <2> QED
      BY <2>2, <2>3, ItemsAreErrors
         DEF Failed, Catch, ApiError, getHttpStatus, getErrorResponse, getStructuredResponse, ErrorTold
  <1>3. ErrorTold(Failed(UnauthorizedException)) /\ Failed(UnauthorizedException).status = 401
    <2>1. Failed(UnauthorizedException).status = 401
      BY DEF UnauthorizedException, Failed, Catch, getHttpStatus
    <2>2. Failed(UnauthorizedException).errors = {Item("UNAUTHENTICATED", "gateway")}
      BY DEF UnauthorizedException, Failed, Catch, getHttpStatus, getErrorResponse,
             getStructuredResponse, getMessages, getCodeForStatus, toPublicErrorCode, ErrorCode
    <2>3. Item("UNAUTHENTICATED", "gateway") \in ClientItem
      BY DEF Item, ClientItem, PublicCode, ErrorCode
    <2> QED
      BY <2>1, <2>2, <2>3 DEF ErrorTold
  <1> QED
    BY <1>1, <1>2, <1>3

LEMMA ResponseTold ==
    ASSUME NEW route \in Route, NEW reply, reply.code # "OK" => FailureTold(reply)
    PROVE  LET response == Response(route, reply) IN
           /\ ErrorTold(response)
           /\ response.status \in {200, 201, 204, 400, 401, 403, 404, 409, 500, 503}
           /\ response.status \in 400 .. 499 => reply.code \in ClientCode
           /\ response.status < 400 => reply.code = "OK" /\ response = Success(route, reply.message)
  <1> DEFINE response == Response(route, reply)
  <1>1. CASE reply.code # "OK"
    <2>1. response = Failed(throwGatewayGrpcError(GrpcError(reply), Fallback(route)))
      BY <1>1 DEF Response
    <2> QED
      BY <1>1, <2>1, GrpcFailure
  <1>2. CASE /\ reply.code = "OK"
             /\ response = Failed(throwGatewayGrpcError([kind |-> "other"], Fallback(route)))
    BY <1>2, OtherFailures
  <1>3. CASE reply.code = "OK" /\ response = Success(route, reply.message)
    <2>1. AppModule[route].ok \in {200, 201, 204} /\ route \in GuardedRoutes \cup OpenRoutes
      BY Routes
    <2>2. \A created : CreationStatus(created) \in {200, 201}
      BY DEF CreationStatus
    <2>3. response.status \in {200, 201, 204}
      BY <1>3, <2>1, <2>2 DEF Success, Succeeded, GuardedRoutes, OpenRoutes
    <2> QED
      BY <1>3, <2>3 DEF ErrorTold
  <1> QED
    BY <1>1, <1>2, <1>3 DEF Response

----------------------------------------------------------------------------
(* Whom the services answer, and what they have done. *)

OrderRow ==
    [ticketId : TicketIds, userId : Users,
     status : {"Created", "AwaitingPayment", "Complete", "Canceled"}]

Rows ==
    /\ orders = [o \in OrderIds |-> orders[o]]
    /\ \A o \in OrderIds : orders[o] = Missing \/ orders[o] \in OrderRow
    /\ tickets = [t \in TicketIds |-> tickets[t]]
    /\ ordersSeen = [o \in OrderIds |-> ordersSeen[o]]
    /\ \A o \in OrderIds : ordersSeen[o].payments # "none" => orders[o] # Missing

OrderFor(o, user) == o \in OrderIds /\ orders[o] # Missing /\ orders[o].userId = user

\* A message that shows nothing but what belongs to the user.
AnsweredFor(method, message, user) ==
    /\ method \in {"CreateOrder", "CreateTicket"} => message.userId = user
    /\ method \in {"CancelOrder", "GetOrder"} => message.order.userId = user
    /\ method = "ListOrders" => \A order \in message.orders : order.userId = user
    /\ method = "CreatePayment" => OrderFor(message.payment.orderId, user)
    /\ method = "UpdateTicket" => message.ticket.userId = user

\* A step that answers a call of this method for this user, saying truly whether it
\* has done anything.
Served(c, method, user) ==
    \E answer :
        /\ Reply(c, answer)
        /\ answer.code # "OK" => FailureTold(answer) /\ UNCHANGED serviceVars
        /\ answer.code = "OK" =>
            /\ AnsweredFor(method, answer.message, user)'
            /\ method \in {"CreateOrder", "CreatePayment"} =>
                (answer.message.created <=> serviceVars' # serviceVars)
            /\ method = "CreateTicket" => serviceVars' # serviceVars

LEMMA ServiceRefuses ==
    ASSUME NEW c, NEW method, NEW user, NEW code, NEW item, Svc!Refuse(c, code, item),
           UNCHANGED Svc!tables,
           \/ code \in ClientCode /\ item \in PublicCode \ {"INTERNAL_ERROR", "SERVICE_UNAVAILABLE"}
           \/ code = "INTERNAL" /\ item = "INTERNAL_ERROR"
    PROVE  Served(c, method, user)
  <1>1. PICK answer : answer = Failure(code, {Item(item, "service")})
    OBVIOUS
  <1>2. Reply(c, answer)
    BY <1>1, SameChannel DEF Svc!Refuse, Svc!Failure, Failure, Svc!Item, Item
  <1>3. /\ answer.code = code /\ answer.details = {Item(item, "service")}
    BY <1>1 DEF Failure
  <1>4. code # "OK"
    BY DEF ClientCode
  <1>5. \/ Item(item, "service") \in ClientItem /\ code \in ClientCode
        \/ Item(item, "service") \in ErrorItem /\ code = "INTERNAL"
    BY DEF Item, ClientItem, ErrorItem, ErrorCode, Text
  <1>6. FailureTold(answer) /\ answer.code # "OK"
    BY <1>3, <1>4, <1>5 DEF FailureTold
  <1>7. UNCHANGED serviceVars
    BY DEF Svc!tables, serviceVars
  <1> QED
    BY <1>2, <1>6, <1>7 DEF Served

LEMMA ServiceReads ==
    ASSUME NEW c, NEW method, NEW user, NEW message, Svc!Read(c, message),
           AnsweredFor(method, message, user),
           method \in {"CreateOrder", "CreatePayment"} => ~message.created,
           method # "CreateTicket"
    PROVE  Served(c, method, user)
  <1>1. PICK answer : answer = Answer(message)
    OBVIOUS
  <1>2. Reply(c, answer) /\ answer.code = "OK" /\ answer.message = message
    BY <1>1, SameChannel DEF Svc!Read, Svc!Answer, Answer
  <1>3. UNCHANGED serviceVars
    BY DEF Svc!Read, Svc!tables, serviceVars
  <1>4. AnsweredFor(method, answer.message, user)'
    BY <1>2, <1>3 DEF AnsweredFor, OrderFor, serviceVars
  <1> QED
    BY <1>2, <1>3, <1>4 DEF Served

\* Every handler of a service answers for the user of the request, whatever the rows
\* and copies it finds, and says what it has done.
LEMMA ServicesServe ==
    ASSUME Rows, NEW c \in Calls, Svc!Serve(c),
           NEW method, method = rpc[c].method, NEW user, user = rpc[c].request.userId
    PROVE  Served(c, method, user)
  <1> DEFINE Client == PublicCode \ {"INTERNAL_ERROR", "SERVICE_UNAVAILABLE"}
  <1>1. ASSUME NEW condition, NEW code \in ClientCode, NEW item \in Client,
               Svc!Refuses(c, condition, code, item)
        PROVE  Served(c, method, user)
    BY <1>1, ServiceRefuses DEF Svc!Refuses
  <1>2. ASSUME Svc!Fail(c) PROVE Served(c, method, user)
    BY <1>2, ServiceRefuses DEF Svc!Fail
  <1>3. /\ {"INVALID_ARGUMENT", "NOT_FOUND", "ALREADY_EXISTS", "PERMISSION_DENIED"} \subseteq ClientCode
        /\ {"INVALID_ARGUMENT", "NOT_FOUND", "ALREADY_EXISTS", "FORBIDDEN", "INVALID_TITLE",
            "INVALID_PRICE"} \subseteq Client
    BY DEF ClientCode, PublicCode, ErrorCode
  <1>4. \A request : Svc!validateMutation(request) # "" => Svc!validateMutation(request) \in Client
    BY <1>3 DEF Svc!validateMutation
  <1> HIDE DEF Client
  <1>5. ASSUME NEW request,
               Svc!Refuses(c, Svc!validateMutation(request) # "", "INVALID_ARGUMENT",
                           Svc!validateMutation(request))
        PROVE  Served(c, method, user)
    <2>1. Svc!validateMutation(request) # ""
      BY <1>5 DEF Svc!Refuses
    <2> QED
      BY <1>1, <1>3, <1>4, <1>5, <2>1
  <1>6. CASE Svc!CreateTicket(c)
    <2>0. method = "CreateTicket"
      BY <1>6 DEF Svc!CreateTicket, Svc!Waits
    <2>1. \/ Served(c, method, user)
          \/ /\ Svc!validateMutation(rpc[c].request) = ""
             /\ \E t \in TicketIds :
                /\ tickets[t] = Missing
                /\ tickets' = [tickets EXCEPT ![t] =
                     [price |-> rpc[c].request.price, userId |-> user, reservedBy |-> NoOrder]]
                /\ Svc!Reply(c, Svc!Answer([id |-> t, price |-> rpc[c].request.price, userId |-> user]))
      BY <1>2, <1>5, <1>6 DEF Svc!CreateTicket
    <2>2. ASSUME Svc!validateMutation(rpc[c].request) = "", NEW t \in TicketIds,
                 tickets[t] = Missing,
                 tickets' = [tickets EXCEPT ![t] =
                     [price |-> rpc[c].request.price, userId |-> user, reservedBy |-> NoOrder]],
                 Svc!Reply(c, Svc!Answer([id |-> t, price |-> rpc[c].request.price, userId |-> user]))
          PROVE  Served(c, method, user)
      <3>1. PICK answer : answer = Answer([id |-> t, price |-> rpc[c].request.price, userId |-> user])
        OBVIOUS
      <3>2. Reply(c, answer) /\ answer.code = "OK" /\ answer.message.userId = user
        BY <2>2, <3>1, SameChannel DEF Svc!Answer, Answer
      <3>3. rpc[c].request.price \in Prices /\ user \in Users
        BY <2>2 DEF Svc!validateMutation
      <3>4. PICK row : row = [price |-> rpc[c].request.price, userId |-> user, reservedBy |-> NoOrder]
        OBVIOUS
      <3>5. row # Missing
        BY <3>3, <3>4, MissingAssumption
      <3>6. tickets'[t] = row
        BY <2>2, <3>4 DEF Rows
      <3>7. serviceVars' # serviceVars
        BY <2>2, <3>5, <3>6 DEF serviceVars
      <3> QED
        BY <2>0, <3>2, <3>7 DEF Served, AnsweredFor
    <2> QED
      BY <2>1, <2>2
  <1>7. CASE Svc!UpdateTicket(c)
    <2>0. method = "UpdateTicket"
      BY <1>7 DEF Svc!UpdateTicket, Svc!Waits
    <2>1. \/ Served(c, method, user)
          \/ \E t, price : Svc!Reply(c, Svc!Answer([ticket |-> [id |-> t, price |-> price, userId |-> user]]))
      BY <1>1, <1>2, <1>3, <1>5, <1>7 DEF Svc!UpdateTicket
    <2>2. ASSUME NEW t, NEW price,
                 Svc!Reply(c, Svc!Answer([ticket |-> [id |-> t, price |-> price, userId |-> user]]))
          PROVE  Served(c, method, user)
      <3>1. PICK answer : answer = Answer([ticket |-> [id |-> t, price |-> price, userId |-> user]])
        OBVIOUS
      <3>2. Reply(c, answer) /\ answer.code = "OK" /\ answer.message.ticket.userId = user
        BY <2>2, <3>1, SameChannel DEF Svc!Answer, Answer
      <3> QED
        BY <2>0, <3>2 DEF Served, AnsweredFor
    <2> QED
      BY <2>1, <2>2
  <1>8. CASE Svc!GetTicket(c) \/ Svc!ListTickets(c)
    <2>0. method \in {"GetTicket", "ListTickets"}
      BY <1>8 DEF Svc!GetTicket, Svc!ListTickets, Svc!Waits
    <2>1. \/ Served(c, method, user)
          \/ \E message : Svc!Read(c, message)
      BY <1>1, <1>2, <1>3, <1>8 DEF Svc!GetTicket, Svc!ListTickets
    <2>2. ASSUME NEW message, Svc!Read(c, message) PROVE Served(c, method, user)
      <3>1. AnsweredFor(method, message, user)
        BY <2>0 DEF AnsweredFor
      <3> QED
        BY <2>0, <2>2, <3>1, ServiceReads
    <2> QED
      BY <2>1, <2>2
  <1>9. CASE Svc!CreateOrder(c)
    <2>0. method = "CreateOrder"
      BY <1>9 DEF Svc!CreateOrder, Svc!Waits
    <2>1. \/ Served(c, method, user)
          \/ \E o \in Svc!Reusable(Svc!findBlockingOrder(rpc[c].request.ticketId), user) :
                Svc!Read(c, Svc!toCreateOrderResponse(o, orders[o], FALSE))
          \/ /\ Svc!validateTicketReservation(rpc[c].request.ticketId, user)
             /\ \E o \in OrderIds :
                    /\ orders[o] = Missing
                    /\ orders' = [orders EXCEPT ![o] =
                         [ticketId |-> rpc[c].request.ticketId, userId |-> user, status |-> "Created"]]
                    /\ Svc!Reply(c, Svc!Answer(Svc!toCreateOrderResponse(o, orders'[o], TRUE)))
      BY <1>1, <1>2, <1>3, <1>9 DEF Svc!CreateOrder
    <2>2. ASSUME NEW o \in Svc!Reusable(Svc!findBlockingOrder(rpc[c].request.ticketId), user),
                 Svc!Read(c, Svc!toCreateOrderResponse(o, orders[o], FALSE))
          PROVE  Served(c, method, user)
      <3>1. PICK message : message = Svc!toCreateOrderResponse(o, orders[o], FALSE)
        OBVIOUS
      <3>2. orders[o].userId = user
        BY DEF Svc!Reusable
      <3>3. message.userId = user /\ ~message.created
        BY <3>1, <3>2 DEF Svc!toCreateOrderResponse
      <3>4. AnsweredFor(method, message, user) /\ Svc!Read(c, message)
        BY <2>0, <2>2, <3>1, <3>3 DEF AnsweredFor
      <3> QED
        BY <2>0, <3>3, <3>4, ServiceReads
    <2>3. ASSUME NEW t, Svc!validateTicketReservation(t, user), NEW o \in OrderIds,
                 orders[o] = Missing,
                 orders' = [orders EXCEPT ![o] =
                    [ticketId |-> t, userId |-> user, status |-> "Created"]],
                 Svc!Reply(c, Svc!Answer(Svc!toCreateOrderResponse(o, orders'[o], TRUE)))
          PROVE  Served(c, method, user)
      <3>1. PICK row : row = [ticketId |-> t, userId |-> user, status |-> "Created"]
        OBVIOUS
      <3>2. orders'[o] = row /\ row.userId = user
        BY <2>3, <3>1 DEF Rows
      <3>3. row # Missing
        BY <2>3, <3>1, MissingAssumption DEF Svc!validateTicketReservation
      <3>4. PICK answer : answer = Answer(Svc!toCreateOrderResponse(o, row, TRUE))
        OBVIOUS
      <3>5. Reply(c, answer)
        BY <2>3, <3>2, <3>4, SameChannel DEF Svc!Answer, Answer
      <3>6. answer.code = "OK" /\ answer.message.userId = user /\ answer.message.created
        BY <3>2, <3>4 DEF Answer, Svc!toCreateOrderResponse
      <3>7. serviceVars' # serviceVars
        BY <2>3, <3>2, <3>3 DEF serviceVars
      <3> QED
        BY <2>0, <3>5, <3>6, <3>7 DEF Served, AnsweredFor
    <2> QED
      BY <2>1, <2>2, <2>3
  <1>10. CASE Svc!CancelOrder(c) \/ Svc!GetOrder(c)
    <2>0. method \in {"CancelOrder", "GetOrder"}
      BY <1>10 DEF Svc!CancelOrder, Svc!GetOrder, Svc!Waits
    <2>1. PICK o : o = rpc[c].request.orderId
      OBVIOUS
    <2>2. \/ Served(c, method, user)
          \/ Svc!OwnOrder(o, user) /\ Svc!Read(c, [order |-> Svc!OrderOf(o, orders[o])])
          \/ /\ Svc!OwnOrder(o, user)
             /\ orders' = [orders EXCEPT ![o].status = "Canceled"]
             /\ Svc!Reply(c, Svc!Answer([order |-> Svc!OrderOf(o, orders'[o])]))
      <3>1. CASE Svc!CancelOrder(c)
        BY <1>1, <1>2, <1>3, <2>1, <3>1 DEF Svc!CancelOrder
      <3>2. CASE Svc!GetOrder(c)
        BY <1>1, <1>2, <1>3, <2>1, <3>2 DEF Svc!GetOrder
      <3> QED
        BY <1>10, <3>1, <3>2
    <2>3. CASE Svc!OwnOrder(o, user) /\ Svc!Read(c, [order |-> Svc!OrderOf(o, orders[o])])
      <3>1. PICK message : message = [order |-> Svc!OrderOf(o, orders[o])]
        OBVIOUS
      <3>2. message.order.userId = user
        BY <2>3, <3>1 DEF Svc!OwnOrder, Svc!OrderOf
      <3>3. AnsweredFor(method, message, user) /\ Svc!Read(c, message)
        BY <2>0, <2>3, <3>1, <3>2 DEF AnsweredFor
      <3> QED
        BY <2>0, <3>3, ServiceReads
    <2>4. CASE /\ Svc!OwnOrder(o, user)
               /\ orders' = [orders EXCEPT ![o].status = "Canceled"]
               /\ Svc!Reply(c, Svc!Answer([order |-> Svc!OrderOf(o, orders'[o])]))
      <3>1. PICK row : row = orders'[o]
        OBVIOUS
      <3>2. orders[o] \in OrderRow /\ orders[o].userId = user
        BY <2>4 DEF Svc!OwnOrder, Rows
      <3>3. row.userId = user
        BY <2>4, <3>1, <3>2 DEF Rows, OrderRow, Svc!OwnOrder
      <3>4. PICK answer : answer = Answer([order |-> Svc!OrderOf(o, row)])
        OBVIOUS
      <3>5. Reply(c, answer)
        BY <2>4, <3>1, <3>4, SameChannel DEF Svc!Answer, Answer
      <3>6. answer.code = "OK" /\ answer.message.order.userId = user
        BY <3>3, <3>4 DEF Answer, Svc!OrderOf
      <3> QED
        BY <2>0, <3>5, <3>6 DEF Served, AnsweredFor
    <2> QED
      BY <2>2, <2>3, <2>4
  <1>11. CASE Svc!ListOrders(c)
    <2>0. method = "ListOrders"
      BY <1>11 DEF Svc!ListOrders, Svc!Waits
    <2>1. PICK message : message = [orders |->
             {Svc!OrderOf(o, orders[o]) : o \in {x \in OrderIds : Svc!OwnOrder(x, user)}}]
      OBVIOUS
    <2>2. Svc!Read(c, message) \/ Svc!Fail(c)
      BY <1>11, <2>1 DEF Svc!ListOrders
    <2>3. \A order \in message.orders : order.userId = user
      BY <2>1 DEF Svc!OrderOf, Svc!OwnOrder
    <2>4. AnsweredFor(method, message, user)
      BY <2>0, <2>3 DEF AnsweredFor
    <2> QED
      BY <1>2, <2>0, <2>2, <2>4, ServiceReads
  <1>12. CASE Svc!CreatePayment(c)
    <2>0. method = "CreatePayment"
      BY <1>12 DEF Svc!CreatePayment, Svc!Waits
    <2>1. PICK o : o = rpc[c].request.orderId
      OBVIOUS
    <2>2. \/ Served(c, method, user)
          \/ /\ o \in OrderIds /\ ordersSeen[o].payments # "none" /\ orders[o].userId = user
             /\ \/ Svc!Read(c, [created |-> FALSE, payment |-> [id |-> o, orderId |-> o]])
                \/ /\ o \notin payments /\ payments' = payments \cup {o} /\ UNCHANGED orders
                   /\ Svc!Reply(c, Svc!Answer([created |-> TRUE,
                                               payment |-> [id |-> o, orderId |-> o]]))
      BY <1>1, <1>2, <1>3, <1>12, <2>1 DEF Svc!CreatePayment, Svc!validateOrder
    <2>3. ASSUME o \in OrderIds, ordersSeen[o].payments # "none", orders[o].userId = user
          PROVE  OrderFor(o, user)
      BY <2>3 DEF OrderFor, Rows
    <2>4. ASSUME OrderFor(o, user),
                 Svc!Read(c, [created |-> FALSE, payment |-> [id |-> o, orderId |-> o]])
          PROVE  Served(c, method, user)
      <3>1. PICK message : message = [created |-> FALSE, payment |-> [id |-> o, orderId |-> o]]
        OBVIOUS
      <3>2. message.payment.orderId = o /\ ~message.created
        BY <3>1
      <3>3. AnsweredFor(method, message, user) /\ Svc!Read(c, message)
        BY <2>0, <2>4, <3>1, <3>2 DEF AnsweredFor
      <3> QED
        BY <2>0, <3>2, <3>3, ServiceReads
    <2>5. ASSUME OrderFor(o, user), o \notin payments, payments' = payments \cup {o}, UNCHANGED orders,
                 Svc!Reply(c, Svc!Answer([created |-> TRUE, payment |-> [id |-> o, orderId |-> o]]))
          PROVE  Served(c, method, user)
      <3>1. PICK answer : answer = Answer([created |-> TRUE, payment |-> [id |-> o, orderId |-> o]])
        OBVIOUS
      <3>2. Reply(c, answer)
        BY <2>5, <3>1, SameChannel DEF Svc!Answer, Answer
      <3>3. answer.code = "OK" /\ answer.message.created /\ answer.message.payment.orderId = o
        BY <3>1 DEF Answer
      <3>4. OrderFor(answer.message.payment.orderId, user)'
        BY <2>5, <3>3 DEF OrderFor
      <3>5. serviceVars' # serviceVars
        BY <2>5 DEF serviceVars
      <3> QED
        BY <2>0, <3>2, <3>3, <3>4, <3>5 DEF Served, AnsweredFor
    <2> QED
      BY <2>2, <2>3, <2>4, <2>5
  <1> QED
    BY <1>6, <1>7, <1>8, <1>9, <1>10, <1>11, <1>12 DEF Svc!Serve

\* Identity says what is wrong with a request before it has written anything; an error
\* after that is its own.
LEMMA IdentityServes ==
    ASSUME NEW c \in Calls, Id!Handle(c)
    PROVE  \/ \E answer :
                /\ Reply(c, answer)
                /\ answer.code # "OK" => FailureTold(answer)
                /\ answer.code \in ClientCode =>
                     rpc[c].phase = "sent" /\ UNCHANGED <<users, sessions>>
           \/ rpc' = [rpc EXCEPT ![c].phase = "mailing"]
           \/ \E t : rpc' = [rpc EXCEPT ![c].phase = "expiry", ![c].token = t]
  <1> DEFINE Told == \E answer :
                /\ Reply(c, answer)
                /\ answer.code # "OK" => FailureTold(answer)
                /\ answer.code \in ClientCode =>
                     rpc[c].phase = "sent" /\ UNCHANGED <<users, sessions>>
  <1>1. ASSUME NEW message, Id!Reply(c, Id!Answer(message)) PROVE Told
    <2>1. PICK answer : answer = Answer(message)
      OBVIOUS
    <2>2. Reply(c, answer) /\ answer.code = "OK"
      BY <1>1, <2>1, SameChannel DEF Answer
    <2> QED
      BY <2>2 DEF ClientCode
  <1>2. ASSUME NEW code, NEW items, Id!Reply(c, Id!Failure(code, items)), items # {},
               \/ /\ code \in ClientCode /\ items \subseteq ClientItem
                  /\ rpc[c].phase = "sent" /\ UNCHANGED <<users, sessions>>
               \/ code = "INTERNAL" /\ items \subseteq ErrorItem
        PROVE  Told
    <2>1. PICK answer : answer = Failure(code, items)
      OBVIOUS
    <2>2. Reply(c, answer) /\ answer.code = code /\ answer.details = items
      BY <1>2, <2>1, SameChannel DEF Failure
    <2>3. FailureTold(answer)
      BY <1>2, <2>2 DEF FailureTold
    <2>4. answer.code \in ClientCode => rpc[c].phase = "sent" /\ UNCHANGED <<users, sessions>>
      BY <1>2, <2>2 DEF ClientCode
    <2> QED
      BY <2>2, <2>3, <2>4
  <1> HIDE DEF Told
  <1> DEFINE Client == PublicCode \ {"INTERNAL_ERROR", "SERVICE_UNAVAILABLE"}
  <1>3. /\ \A code \in Client : Id!ServiceItem(code) \in ClientItem
        /\ Id!ServiceItem("INTERNAL_ERROR") \in ErrorItem
    BY DEF Id!ServiceItem, Id!toPublicErrorCode, Id!Item, Id!ErrorCode, ErrorCode, PublicCode,
           ClientItem, ErrorItem, Text
  <1>4. /\ {"INVALID_NAME", "INVALID_EMAIL", "INVALID_PASSWORD", "INVALID_ARGUMENT", "ALREADY_EXISTS",
            "EMAIL_NOT_VERIFIED", "INVALID_CREDENTIALS", "UNAUTHENTICATED",
            "INVALID_VERIFICATION_TOKEN"} \subseteq Client
        /\ {"INVALID_ARGUMENT", "ALREADY_EXISTS", "UNAUTHENTICATED"} \subseteq ClientCode
    BY DEF PublicCode, ErrorCode, ClientCode
  <1> HIDE DEF Client
  <1>5. \A field : Id!mapProtovalidateViolation(field) \in ClientItem
    BY <1>3, <1>4 DEF Id!mapProtovalidateViolation
  <1>6. ASSUME NEW error \in Id!BetterAuthError, Id!Reply(c, Id!mapBetterAuthError(error)),
               \/ rpc[c].phase = "sent" /\ UNCHANGED <<users, sessions>>
               \/ error.statusCode = 0
        PROVE  Told
    <2>1. PICK code : code = Id!getGrpcStatusCode(error)
      OBVIOUS
    <2>2. PICK item : item = Id!getErrorItem(error)
      OBVIOUS
    <2>3. /\ error.statusCode \in {0, 400, 409, 422, 500}
          /\ error.code \in {"none", "INVALID_EMAIL", "PASSWORD_TOO_SHORT"}
          /\ error.code # "none" => error.statusCode = 400
      BY DEF Id!BetterAuthError
    <2>4. /\ error.statusCode \in {0, 500} => code = "INTERNAL"
          /\ error.statusCode \in {400, 409, 422} => code \in ClientCode
      BY <1>4, <2>1, <2>3 DEF Id!getGrpcStatusCode
    <2>5. /\ error.statusCode = 0 => item \in ErrorItem
          /\ error.statusCode # 0 => item \in ClientItem
      <3>1. CASE error.statusCode = 0
        <4>1. item = Id!ServiceItem("INTERNAL_ERROR")
          BY <2>2, <2>3, <3>1 DEF Id!getErrorItem, Id!BadPassword
        <4> QED
          BY <1>3, <3>1, <4>1
      <3>2. CASE error.statusCode # 0
        <4>1. \E name \in {"INVALID_EMAIL", "INVALID_PASSWORD", "ALREADY_EXISTS", "INVALID_ARGUMENT"} :
                item = Id!ServiceItem(name)
          BY <2>2, <2>3, <3>2 DEF Id!getErrorItem, Id!BadPassword
        <4> QED
          BY <1>3, <1>4, <3>2, <4>1
      <3> QED
        BY <3>1, <3>2
    <2>6. Id!Reply(c, Id!Failure(code, {item})) /\ {item} # {}
      BY <1>6, <2>1, <2>2 DEF Id!mapBetterAuthError
    <2>7. \/ /\ code \in ClientCode /\ {item} \subseteq ClientItem
             /\ rpc[c].phase = "sent" /\ UNCHANGED <<users, sessions>>
          \/ code = "INTERNAL" /\ {item} \subseteq ErrorItem
      BY <1>6, <2>3, <2>4, <2>5, ItemsAreErrors
    <2> QED
      BY <1>2, <2>6, <2>7
  <1>7. ASSUME NEW name, Id!Reply(c, Id!mapBetterAuthSignInError(name)),
               name \in {"EMAIL_NOT_VERIFIED", "INVALID_EMAIL_OR_PASSWORD"} =>
                   rpc[c].phase = "sent" /\ UNCHANGED <<users, sessions>>
        PROVE  Told
    <2>1. PICK code, item :
            /\ Id!mapBetterAuthSignInError(name) = Id!Failure(code, {item})
            /\ \/ /\ name \in {"EMAIL_NOT_VERIFIED", "INVALID_EMAIL_OR_PASSWORD"}
                  /\ code \in ClientCode /\ item \in ClientItem
               \/ code = "INTERNAL" /\ item \in ErrorItem
      BY <1>3, <1>4 DEF Id!mapBetterAuthSignInError, Id!createEmailNotVerifiedError,
                        Id!createInvalidCredentialsError, Id!createSigninInternalError
    <2> QED
      BY <1>2, <1>7, <2>1
  <1>8. ASSUME NEW name, Id!Reply(c, Id!mapEmailVerificationError(name)),
               rpc[c].phase = "sent" /\ UNCHANGED <<users, sessions>>
        PROVE  Told
    <2>1. PICK code, item :
            /\ Id!mapEmailVerificationError(name) = Id!Failure(code, {item})
            /\ \/ code \in ClientCode /\ item \in ClientItem
               \/ code = "INTERNAL" /\ item \in ErrorItem
      BY <1>3, <1>4 DEF Id!mapEmailVerificationError
    <2> QED
      BY <1>2, <1>8, <2>1
  <1>9. CASE Id!signUp(c)
    <2>0. rpc[c].phase = "sent" /\ UNCHANGED sessions
      BY <1>9 DEF Id!signUp, Id!Waits
    <2>1. ASSUME Id!validateSignUpRequest(rpc[c].request) # {}, UNCHANGED users,
                 Id!Reply(c, Id!Failure("INVALID_ARGUMENT", Id!validateSignUpRequest(rpc[c].request)))
          PROVE  Told
      <3>1. Id!validateSignUpRequest(rpc[c].request) \subseteq ClientItem
        BY <1>5 DEF Id!validateSignUpRequest
      <3> QED
        BY <1>2, <1>4, <2>0, <2>1, <3>1
    <2> QED
      BY <1>1, <1>6, <1>9, <2>0, <2>1 DEF Id!signUp, Told
  <1>10. CASE Id!sendVerificationEmail(c)
    <2>1. [statusCode |-> 0, code |-> "none"] \in Id!BetterAuthError
      BY DEF Id!BetterAuthError
    <2>2. PICK error : error = [statusCode |-> 0, code |-> "none"]
      OBVIOUS
    <2>3. error \in Id!BetterAuthError /\ error.statusCode = 0
      BY <2>1, <2>2
    <2>4. Id!Reply(c, Id!mapBetterAuthError(error)) => Told
      BY <1>6, <2>3
    <2>5. Told
      BY <1>1, <1>10, <2>2, <2>4 DEF Id!sendVerificationEmail
    <2> QED
      BY <2>5 DEF Told
  <1>11. CASE Id!signIn(c)
    <2>0. rpc[c].phase = "sent" /\ UNCHANGED users
      BY <1>11 DEF Id!signIn, Id!Waits
    <2>1. ASSUME Id!validateSignInRequest(rpc[c].request) # {}, UNCHANGED sessions,
                 Id!Reply(c, Id!Failure("INVALID_ARGUMENT", Id!validateSignInRequest(rpc[c].request)))
          PROVE  Told
      <3>1. Id!validateSignInRequest(rpc[c].request) \subseteq ClientItem
        BY <1>5 DEF Id!validateSignInRequest
      <3> QED
        BY <1>2, <1>4, <2>0, <2>1, <3>1
    <2> QED
      BY <1>7, <1>11, <2>0, <2>1 DEF Id!signIn, Told
  <1>12. CASE Id!getSessionExpiry(c)
    <2>1. Told
      BY <1>1, <1>7, <1>12 DEF Id!getSessionExpiry
    <2> QED
      BY <2>1 DEF Told
  <1>13. CASE Id!signOut(c)
    <2>1. Id!mapBetterAuthSignOutError = Id!Failure("INTERNAL", {Id!ServiceItem("INTERNAL_ERROR")})
      BY DEF Id!mapBetterAuthSignOutError
    <2>2. Told
      BY <1>1, <1>2, <1>3, <1>13, <2>1 DEF Id!signOut
    <2> QED
      BY <2>2 DEF Told
  <1>14. CASE Id!currentUser(c)
    <2>0. rpc[c].phase = "sent" /\ UNCHANGED users
      BY <1>14 DEF Id!currentUser, Id!Waits
    <2>1. /\ Id!createCurrentUserUnauthenticatedError \in ClientItem
          /\ Id!createCurrentUserInternalError \in ErrorItem
      BY <1>3, <1>4 DEF Id!createCurrentUserUnauthenticatedError, Id!createCurrentUserInternalError
    <2>2. Told
      BY <1>1, <1>2, <1>4, <1>14, <2>0, <2>1 DEF Id!currentUser
    <2> QED
      BY <2>2 DEF Told
  <1>15. CASE Id!verifyEmail(c)
    <2>0. rpc[c].phase = "sent" /\ UNCHANGED sessions
      BY <1>15 DEF Id!verifyEmail, Id!Waits
    <2>1. Told
      BY <1>1, <1>8, <1>15, <2>0 DEF Id!verifyEmail
    <2> QED
      BY <2>1 DEF Told
  <1> QED
    BY <1>9, <1>10, <1>11, <1>12, <1>13, <1>14, <1>15 DEF Id!Handle

\* An order stays, with the user it was created for.
OrdersStay ==
    /\ Rows'
    /\ \A o \in OrderIds : orders[o] # Missing =>
         orders'[o] # Missing /\ orders'[o].userId = orders[o].userId

\* A step writes one row of the orders table.
LEMMA OrderWritten ==
    ASSUME Rows, NEW o \in OrderIds, NEW row \in OrderRow, orders' = [orders EXCEPT ![o] = row],
           orders[o] # Missing => row.userId = orders[o].userId,
           UNCHANGED <<tickets, ordersSeen>>
    PROVE  OrdersStay
  <1>1. row # Missing
    BY MissingAssumption DEF OrderRow
  <1>2. /\ orders' = [x \in OrderIds |-> orders'[x]]
        /\ orders'[o] = row
        /\ \A x \in OrderIds : x # o => orders'[x] = orders[x]
    BY DEF Rows
  <1> QED
    BY <1>1, <1>2 DEF OrdersStay, Rows

\* A step that changes the status of an order.
LEMMA OrderMoved ==
    ASSUME Rows, NEW o \in OrderIds, orders[o] # Missing,
           NEW status \in {"Created", "AwaitingPayment", "Complete", "Canceled"},
           orders' = [orders EXCEPT ![o].status = status],
           UNCHANGED <<tickets, ordersSeen>>
    PROVE  OrdersStay
  <1>1. orders[o] \in OrderRow
    BY DEF Rows
  <1>2. PICK row : row = [orders[o] EXCEPT !.status = status]
    OBVIOUS
  <1>3. row \in OrderRow /\ row.userId = orders[o].userId /\ orders' = [orders EXCEPT ![o] = row]
    BY <1>1, <1>2 DEF OrderRow
  <1> QED
    BY <1>3, OrderWritten

LEMMA OrdersKept ==
    ASSUME Rows, [Next]_vars
    PROVE  OrdersStay
  <1>1. ASSUME UNCHANGED <<orders, ordersSeen>>, tickets' = [t \in TicketIds |-> tickets'[t]]
        PROVE  OrdersStay
    BY <1>1 DEF Rows, OrdersStay
  <1>2. ASSUME UNCHANGED serviceVars PROVE OrdersStay
    BY <1>1, <1>2 DEF serviceVars, Rows
  <1>3. ASSUME UNCHANGED Svc!tables PROVE OrdersStay
    BY <1>2, <1>3 DEF serviceVars, Svc!tables
  <1>4. ASSUME NEW c \in Calls, Svc!Serve(c) PROVE OrdersStay
    <2>1. \A condition, code, item : Svc!Refuses(c, condition, code, item) => OrdersStay
      BY <1>3 DEF Svc!Refuses
    <2>2. Svc!Fail(c) => OrdersStay
      BY <1>3 DEF Svc!Fail
    <2>3. \A message : Svc!Read(c, message) => OrdersStay
      BY <1>3 DEF Svc!Read
    <2>4. CASE Svc!CreateTicket(c) \/ Svc!UpdateTicket(c)
      <3>1. \/ OrdersStay
            \/ /\ UNCHANGED <<orders, ordersSeen>>
               /\ \E t, row : tickets' = [tickets EXCEPT ![t] = row]
        BY <2>1, <2>2, <2>4 DEF Svc!CreateTicket, Svc!UpdateTicket
      <3> QED
        BY <1>1, <3>1 DEF Rows
    <2>5. CASE Svc!GetTicket(c) \/ Svc!ListTickets(c) \/ Svc!GetOrder(c) \/ Svc!ListOrders(c)
      BY <2>1, <2>2, <2>3, <2>5 DEF Svc!GetTicket, Svc!ListTickets, Svc!GetOrder, Svc!ListOrders
    <2>6. CASE Svc!CreateOrder(c)
      <3>1. PICK t, user : t = rpc[c].request.ticketId /\ user = rpc[c].request.userId
        OBVIOUS
      <3>2. \/ OrdersStay
            \/ /\ Svc!validateTicketReservation(t, user)
               /\ \E o \in OrderIds :
                    /\ orders[o] = Missing
                    /\ orders' = [orders EXCEPT ![o] =
                         [ticketId |-> t, userId |-> user, status |-> "Created"]]
               /\ UNCHANGED <<tickets, ordersSeen>>
        BY <2>1, <2>2, <2>3, <2>6, <3>1 DEF Svc!CreateOrder
      <3>3. ASSUME Svc!validateTicketReservation(t, user), UNCHANGED <<tickets, ordersSeen>>,
                   NEW o \in OrderIds, orders[o] = Missing,
                   orders' = [orders EXCEPT ![o] =
                         [ticketId |-> t, userId |-> user, status |-> "Created"]]
            PROVE  OrdersStay
        <4>1. PICK row : row = [ticketId |-> t, userId |-> user, status |-> "Created"]
          OBVIOUS
        <4>2. row \in OrderRow /\ orders' = [orders EXCEPT ![o] = row]
          BY <3>3, <4>1 DEF OrderRow, Svc!validateTicketReservation
        <4> QED
          BY <3>3, <4>2, OrderWritten
      <3> QED
        BY <3>2, <3>3
    <2>7. CASE Svc!CancelOrder(c)
      <3>1. PICK o : o = rpc[c].request.orderId
        OBVIOUS
      <3>2. \/ OrdersStay
            \/ /\ o \in OrderIds /\ orders[o] # Missing
               /\ orders' = [orders EXCEPT ![o].status = "Canceled"]
               /\ UNCHANGED <<tickets, ordersSeen>>
        BY <2>1, <2>2, <2>3, <2>7, <3>1 DEF Svc!CancelOrder, Svc!OwnOrder
      <3> QED
        BY <3>2, OrderMoved
    <2>8. CASE Svc!CreatePayment(c)
      <3>1. OrdersStay \/ UNCHANGED <<tickets, orders, ordersSeen>>
        BY <2>1, <2>2, <2>3, <2>8 DEF Svc!CreatePayment
      <3> QED
        BY <1>1, <3>1 DEF Rows
    <2> QED
      BY <1>4, <2>4, <2>5, <2>6, <2>7, <2>8 DEF Svc!Serve
  <1>5. ASSUME Svc!Background PROVE OrdersStay
    <2>1. ASSUME NEW t \in TicketIds, Svc!TicketEvent(t) PROVE OrdersStay
      BY <1>1, <2>1 DEF Svc!TicketEvent, Rows
    <2>2. ASSUME NEW o \in OrderIds, NEW service \in {"tickets", "payments"}, Svc!OrderEvent(o, service)
          PROVE  OrdersStay
      <3>1. tickets' = [t \in TicketIds |-> tickets'[t]]
        <4>1. \/ tickets' = tickets
              \/ \E t, row : tickets' = [tickets EXCEPT ![t] = row]
          BY <2>2 DEF Svc!OrderEvent
        <4> QED
          BY <4>1 DEF Rows
      <3>2. orders[o] # Missing /\ UNCHANGED orders
        BY <2>2 DEF Svc!OrderEvent
      <3>3. \E seen : ordersSeen' = [ordersSeen EXCEPT ![o] = seen]
        BY <2>2 DEF Svc!OrderEvent
      <3>4. /\ ordersSeen' = [x \in OrderIds |-> ordersSeen'[x]]
            /\ \A x \in OrderIds : x # o => ordersSeen'[x] = ordersSeen[x]
        BY <3>3 DEF Rows
      <3> QED
        BY <3>1, <3>2, <3>4 DEF Rows, OrdersStay
    <2>3. ASSUME NEW o \in OrderIds, Svc!Lapse(o) PROVE OrdersStay
      BY <1>1, <2>3 DEF Svc!Lapse, Rows
    <2>4. ASSUME NEW o \in OrderIds, NEW status \in {"AwaitingPayment", "Complete", "Canceled"},
                 Svc!OrderMoves(o, status)
          PROVE  OrdersStay
      BY <2>4, OrderMoved DEF Svc!OrderMoves
    <2> QED
      BY <1>5, <2>1, <2>2, <2>3, <2>4 DEF Svc!Background
  <1>6. ASSUME NEW r \in Requests, RequestStep(r) PROVE UNCHANGED serviceVars
    BY <1>6 DEF RequestStep, Ask, Receive, canActivate, Finish, Break, Deliver, Lose
  <1>7. ASSUME NEW c \in Calls, Handle(c) \/ Crash(c) PROVE OrdersStay
    BY <1>2, <1>4, <1>7 DEF Handle, Crash
  <1>8. CASE Tick \/ Event \/ UNCHANGED vars
    BY <1>2, <1>5, <1>8 DEF Tick, Event, vars
  <1> QED
    BY <1>2, <1>6, <1>7, <1>8 DEF Next, Step, RequestStep

\* What an answer shows of the user stays true.
LEMMA ShownStays ==
    ASSUME OrdersStay
    PROVE  /\ \A o, user : OrderFor(o, user) => OrderFor(o, user)'
           /\ \A method, message, user :
                AnsweredFor(method, message, user) => AnsweredFor(method, message, user)'
  BY DEF OrderFor, AnsweredFor, OrdersStay

----------------------------------------------------------------------------
(* Calls and what is known of them: the second inductive invariant. *)

CallFor(call) ==
    call # Idle /\ call.phase = "done" /\ call.reply.code = "OK" /\ call.method \in ServiceMethods =>
        AnsweredFor(call.method, call.reply.message, call.request.userId)

CallTold(call) ==
    call # Idle /\ call.phase = "done" /\ call.reply.code # "OK" => FailureTold(call.reply)

\* What the answer of a call says of its effect is true, while somebody waits for it.
CallDid(call, did) ==
    call # Idle /\ ~call.abandoned =>
        /\ call.phase = "sent" => ~did
        /\ call.phase = "done" =>
            /\ call.reply.code \notin {"OK", "INTERNAL", "UNAVAILABLE"} => ~did
            /\ call.reply.code = "OK" =>
                /\ call.method \in {"CreateOrder", "CreatePayment"} =>
                     (call.reply.message.created <=> did)
                /\ call.method = "CreateTicket" => did

CallsInv ==
    /\ Rows
    /\ \A c \in Calls : CallFor(rpc[c]) /\ CallTold(rpc[c]) /\ CallDid(rpc[c], c \in wrote)

\* A service has answered.
LEMMA AnswerTrue ==
    ASSUME SessionInv, CallsInv, NEW c \in Calls, Handle(c) \/ Crash(c)
    PROVE  (CallFor(rpc[c]) /\ CallTold(rpc[c]) /\ CallDid(rpc[c], c \in wrote))'
  <1>0. /\ rpc[c] # Idle /\ IsCall(rpc[c]) /\ CallDid(rpc[c], c \in wrote) /\ Rows
        /\ rpc = [d \in Calls |-> rpc[d]]
    BY HandledCall DEF SessionInv, Shapes, CallsInv
  <1>1. CASE rpc[c].abandoned /\ rpc'[c] = Idle
    BY <1>1 DEF CallFor, CallTold, CallDid
  <1>2. ASSUME rpc'[c].phase \in {"mailing", "expiry"}
        PROVE  (CallFor(rpc[c]) /\ CallTold(rpc[c]) /\ CallDid(rpc[c], c \in wrote))'
    BY <1>2 DEF CallFor, CallTold, CallDid
  <1>3. ASSUME ~(rpc[c].abandoned /\ rpc'[c] = Idle), NEW answer, Reply(c, answer)
        PROVE  /\ rpc'[c].phase = "done" /\ rpc'[c].reply = answer
               /\ rpc'[c].method = rpc[c].method /\ rpc'[c].request = rpc[c].request
               /\ rpc'[c].abandoned = rpc[c].abandoned
    <2>1. PICK y : /\ rpc' = [rpc EXCEPT ![c] = y]
                   /\ \/ rpc[c].abandoned /\ y = Idle
                      \/ /\ IsCall(y) /\ y.abandoned = rpc[c].abandoned
                         /\ y.method = rpc[c].method /\ y.metadata = rpc[c].metadata
                         /\ y.request = rpc[c].request
                         /\ y.phase = "done" /\ y.reply = answer
      BY <1>0, <1>3, Replied
    <2>2. rpc'[c] = y
      BY <1>0, <2>1
    <2> QED
      BY <1>3, <2>1, <2>2
  <1>4. CASE Crash(c) /\ ~(rpc[c].abandoned /\ rpc'[c] = Idle)
    <2>1. PICK answer : answer = Failure("UNAVAILABLE", {})
      OBVIOUS
    <2>2. Reply(c, answer) /\ answer.code = "UNAVAILABLE" /\ answer.details = {}
      BY <1>4, <2>1 DEF Crash, Drop, Failure
    <2>3. FailureTold(answer)
      BY <2>2 DEF FailureTold
    <2>4. rpc'[c].phase = "done" /\ rpc'[c].reply = answer
      BY <1>3, <1>4, <2>2
    <2> QED
      BY <2>2, <2>3, <2>4 DEF CallFor, CallTold, CallDid
  <1>5. CASE Handle(c) /\ Svc!Serve(c) /\ UNCHANGED identityVars /\ ~(rpc[c].abandoned /\ rpc'[c] = Idle)
    <2>1. PICK method : method = rpc[c].method
      OBVIOUS
    <2>2. PICK user : user = rpc[c].request.userId
      OBVIOUS
    <2>3. Served(c, method, user) /\ rpc[c].phase = "sent"
      BY <1>0, <1>5, <2>1, <2>2, ServicesServe, ServicesReply
    <2>4. PICK answer :
            /\ Reply(c, answer)
            /\ answer.code # "OK" => FailureTold(answer) /\ UNCHANGED serviceVars
            /\ answer.code = "OK" =>
                /\ AnsweredFor(method, answer.message, user)'
                /\ method \in {"CreateOrder", "CreatePayment"} =>
                    (answer.message.created <=> serviceVars' # serviceVars)
                /\ method = "CreateTicket" => serviceVars' # serviceVars
      BY <2>3 DEF Served
    <2>5. /\ rpc'[c].phase = "done" /\ rpc'[c].reply = answer
          /\ rpc'[c].method = method /\ rpc'[c].request.userId = user
          /\ rpc'[c].abandoned = rpc[c].abandoned
      BY <1>3, <1>5, <2>1, <2>2, <2>4
    <2>6. CallFor(rpc[c])'
      <3>1. ASSUME answer.code = "OK" PROVE AnsweredFor(rpc[c].method, rpc[c].reply.message, rpc[c].request.userId)'
        BY <2>4, <2>5, <3>1 DEF AnsweredFor, OrderFor
      <3> QED
        BY <2>5, <3>1 DEF CallFor
    <2>7. CallTold(rpc[c])'
      BY <2>4, <2>5 DEF CallTold
    <2>8. ASSUME ~rpc[c].abandoned PROVE c \in wrote' <=> serviceVars' # serviceVars
      <3>1. c \notin wrote
        BY <1>0, <2>3, <2>8 DEF CallDid
      <3>2. <<users, sessions, serviceVars>>' # <<users, sessions, serviceVars>> <=> serviceVars' # serviceVars
        BY <1>5 DEF identityVars
      <3> QED
        BY <1>5, <2>8, <3>1, <3>2 DEF Handle
    <2>9. CallDid(rpc[c], c \in wrote)'
      BY <2>4, <2>5, <2>8 DEF CallDid
    <2> QED
      BY <2>6, <2>7, <2>9
  <1>6. CASE Handle(c) /\ Id!Handle(c) /\ UNCHANGED serviceVars /\ ~(rpc[c].abandoned /\ rpc'[c] = Idle)
    <2>1. rpc[c].method \notin ServiceMethods
      BY <1>6, SameChannel
         DEF Id!Handle, Id!signUp, Id!sendVerificationEmail, Id!signIn, Id!getSessionExpiry,
             Id!signOut, Id!currentUser, Id!verifyEmail, Waits, ServiceMethods
    <2>2. ASSUME rpc' = [rpc EXCEPT ![c].phase = "mailing"] PROVE rpc'[c].phase = "mailing"
      BY <1>0, <2>2 DEF IsCall, CallFields
    <2>3. ASSUME NEW t, rpc' = [rpc EXCEPT ![c].phase = "expiry", ![c].token = t]
          PROVE  rpc'[c].phase = "expiry"
      BY <1>0, <2>3 DEF IsCall, CallFields
    <2>4. ASSUME NEW answer, Reply(c, answer), answer.code # "OK" => FailureTold(answer),
                 answer.code \in ClientCode => rpc[c].phase = "sent" /\ UNCHANGED <<users, sessions>>
          PROVE  (CallFor(rpc[c]) /\ CallTold(rpc[c]) /\ CallDid(rpc[c], c \in wrote))'
      <3>1. /\ rpc'[c].phase = "done" /\ rpc'[c].reply = answer
            /\ rpc'[c].method \notin ServiceMethods
            /\ rpc'[c].abandoned = rpc[c].abandoned
        BY <1>3, <1>6, <2>1, <2>4
      <3>2. ASSUME ~rpc[c].abandoned, answer.code \notin {"OK", "INTERNAL", "UNAVAILABLE"}
            PROVE  c \notin wrote'
        <4>1. answer.code \in ClientCode
          BY <2>4, <3>2 DEF FailureTold
        <4>2. c \notin wrote
          BY <1>0, <2>4, <3>2, <4>1 DEF CallDid
        <4> QED
          BY <1>6, <2>4, <4>1, <4>2 DEF Handle
      <3> QED
        BY <2>4, <3>1, <3>2 DEF CallFor, CallTold, CallDid, ServiceMethods
    <2> QED
      BY <1>2, <1>6, <2>2, <2>3, <2>4, IdentityServes
  <1> QED
    BY <1>1, <1>4, <1>5, <1>6 DEF Handle

LEMMA CallsInvKept ==
    ASSUME SessionInv, CallsInv, [Next]_vars
    PROVE  CallsInv' /\ OrdersStay
  <1>1. OrdersStay
    BY OrdersKept DEF CallsInv
  <1>2. ASSUME NEW d \in Calls
        PROVE  (CallFor(rpc[d]) /\ CallTold(rpc[d]) /\ CallDid(rpc[d], d \in wrote))'
    <2>1. CASE Handle(d) \/ Crash(d)
      BY <2>1, AnswerTrue
    <2>2. CASE rpc'[d] = rpc[d] /\ (d \in wrote' <=> d \in wrote)
      <3>1. PICK method, message, user :
              method = rpc[d].method /\ message = rpc[d].reply.message /\ user = rpc[d].request.userId
        OBVIOUS
      <3>2. AnsweredFor(method, message, user) => AnsweredFor(method, message, user)'
        BY <1>1, ShownStays
      <3>3. CallFor(rpc[d]) /\ CallTold(rpc[d]) /\ CallDid(rpc[d], d \in wrote)
        BY DEF CallsInv
      <3>4. CallFor(rpc[d])'
        <4>1. ASSUME AnsweredFor(method, message, user)'
              PROVE  AnsweredFor(rpc[d].method, rpc[d].reply.message, rpc[d].request.userId)'
          BY <2>2, <3>1, <4>1 DEF AnsweredFor, OrderFor
        <4> QED
          BY <2>2, <3>1, <3>2, <3>3, <4>1 DEF CallFor
      <3> QED
        BY <2>2, <3>3, <3>4 DEF CallTold, CallDid
    <2>3. CASE rpc'[d] = Idle
      BY <2>3 DEF CallFor, CallTold, CallDid
    <2>4. CASE /\ rpc'[d] # Idle /\ rpc'[d].phase # "done"
               /\ rpc'[d].abandoned \/ (rpc'[d].phase = "sent" /\ d \notin wrote')
      BY <2>4 DEF CallFor, CallTold, CallDid
    <2> QED
      BY <2>1, <2>2, <2>3, <2>4, CallSteps DEF CallKept
  <1> QED
    BY <1>1, <1>2 DEF CallsInv, OrdersStay

----------------------------------------------------------------------------
(* Requests and whom they act for. *)

MethodOf ==
    [createOrder |-> "CreateOrder", cancelOrder |-> "CancelOrder", listOrders |-> "ListOrders",
     getOrder |-> "GetOrder", createPayment |-> "CreatePayment",
     updateTicket |-> "UpdateTicket", createTicket |-> "CreateTicket"]

\* A body that shows nothing but what belongs to the user.
ShownFor(route, body, user) ==
    /\ route \in {"createOrder", "cancelOrder", "getOrder", "createTicket", "updateTicket"} =>
         body.userId = user
    /\ route = "listOrders" => \A order \in body.orders : order.userId = user
    /\ route = "createPayment" => OrderFor(body.orderId, user)

\* A guarded request calls the method of its route for the user of its cookie's session,
\* and shows that user's things only; an error tells whose fault it was.
RequestSound(request, call) ==
    request # Idle =>
        /\ request.phase = "answered" => ErrorTold(request.response)
        /\ request.route \in GuardedRoutes /\ request.phase = "service" =>
            /\ CookieOf(request) # NoToken
            /\ call.method = MethodOf[request.route]
            /\ call.request.userId = sessions[CookieOf(request)].user
        /\ /\ request.route \in GuardedRoutes /\ request.phase = "answered"
           /\ request.response.status < 300
           => /\ CookieOf(request) # NoToken
              /\ ShownFor(request.route, request.response.body, sessions[CookieOf(request)].user)

\* What a guarded route sends carries the user, whom no field of the body can replace:
\* a body that validates has no such field (forbidNonWhitelisted).
LEMMA CallForUser ==
    ASSUME NEW route \in GuardedRoutes, NEW body, NEW headers, NEW user, Invalid(route, body) = {}
    PROVE  \E message, metadata :
             /\ ServiceCall(route, body, headers, user) = Sent(MethodOf[route], message, metadata)
             /\ message.userId = user
  <1>1. /\ DOMAIN AuthController = {"signUp", "signIn", "signOut", "currentUser", "verifyEmail"}
        /\ DOMAIN OrdersController = {"createOrder", "cancelOrder", "listOrders", "getOrder"}
        /\ DOMAIN PaymentsController = {"createPayment"}
        /\ DOMAIN TicketsController = {"listTickets", "getTicket", "updateTicket", "createTicket"}
    BY DEF AuthController, OrdersController, PaymentsController, TicketsController
  <1>2. CASE route \in DOMAIN OrdersController
    <2>1. ServiceCall(route, body, headers, user) = OrdersServiceCall(route, body, user)
      BY <1>1, <1>2 DEF ServiceCall
    <2>2. \E message : /\ OrdersServiceCall(route, body, user) = Sent(MethodOf[route], message, NoMetadata)
                       /\ message.userId = user
      BY <1>1, <1>2 DEF OrdersServiceCall, MethodOf
    <2> QED
      BY <2>1, <2>2
  <1>3. CASE route = "createPayment"
    <2>1. ServiceCall(route, body, headers, user) = PaymentsServiceCall(body, user)
      BY <1>1, <1>3 DEF ServiceCall
    <2> QED
      BY <1>3, <2>1 DEF PaymentsServiceCall, MethodOf
  <1>4. CASE route \in {"updateTicket", "createTicket"}
    <2>1. ServiceCall(route, body, headers, user) =
            Sent(MethodOf[route], With(body, [userId |-> user]), NoMetadata)
      BY <1>1, <1>4 DEF ServiceCall, TicketsServiceCall, MethodOf
    <2>2. "userId" \notin DOMAIN body
      <3>1. CASE route = "createTicket"
        BY <3>1 DEF Invalid, CreateTicketDto, Undeclared
      <3>2. CASE route = "updateTicket"
        <4>1. DOMAIN WithoutId(body) = DOMAIN body \ {"id"}
          BY DEF WithoutId
        <4>2. Undeclared(WithoutId(body), {"title", "price"}) = {}
          BY <3>2 DEF Invalid, CreateTicketDto
        <4> QED
          BY <4>1, <4>2 DEF Undeclared
      <3> QED
        BY <1>4, <3>1, <3>2
    <2>3. With(body, [userId |-> user]).userId = user
      BY <2>2 DEF With
    <2> QED
      BY <2>1, <2>3
  <1> QED
    BY <1>1, <1>2, <1>3, <1>4 DEF GuardedRoutes

\* The body of a success shows what the service answered, converted.
LEMMA SuccessShows ==
    ASSUME NEW route \in GuardedRoutes, NEW message, NEW user,
           AnsweredFor(MethodOf[route], message, user)
    PROVE  ShownFor(route, Success(route, message).body, user)
  <1> DEFINE body == Success(route, message).body
  <1>1. \A order : toOrderResponse(order).userId = order.userId
    BY DEF toOrderResponse
  <1>2. CASE route = "createOrder"
    <2>1. body = toOrderResponse(message)
      BY <1>2 DEF Success, Succeeded, toCreateOrderResponse
    <2>2. message.userId = user
      BY <1>2 DEF AnsweredFor, MethodOf
    <2> QED
      BY <1>1, <1>2, <2>1, <2>2 DEF ShownFor
  <1>3. CASE route \in {"cancelOrder", "getOrder"}
    <2>1. body = toOrderResponse(message.order)
      BY <1>3 DEF Success, Succeeded, toCancelOrderResponse, toGetOrderResponse
    <2>2. message.order.userId = user
      BY <1>3 DEF AnsweredFor, MethodOf
    <2> QED
      BY <1>1, <1>3, <2>1, <2>2 DEF ShownFor
  <1>4. CASE route = "listOrders"
    <2>1. body.orders = {toOrderResponse(order) : order \in message.orders}
      BY <1>4 DEF Success, Succeeded, toListOrdersResponse
    <2>2. \A order \in message.orders : order.userId = user
      BY <1>4 DEF AnsweredFor, MethodOf
    <2>3. \A order \in body.orders : order.userId = user
      BY <1>1, <2>1, <2>2
    <2> QED
      BY <1>4, <2>3 DEF ShownFor
  <1>5. CASE route = "createPayment"
    <2>1. body.orderId = message.payment.orderId
      BY <1>5 DEF Success, Succeeded, toPaymentResponse
    <2>2. OrderFor(message.payment.orderId, user)
      BY <1>5 DEF AnsweredFor, MethodOf
    <2> QED
      BY <1>5, <2>1, <2>2 DEF ShownFor
  <1>6. CASE route = "updateTicket"
    <2>1. body = message.ticket
      BY <1>6 DEF Success, Succeeded
    <2>2. message.ticket.userId = user
      BY <1>6 DEF AnsweredFor, MethodOf
    <2> QED
      BY <1>6, <2>1, <2>2 DEF ShownFor
  <1>7. CASE route = "createTicket"
    <2>1. body = message
      BY <1>7 DEF Success, Succeeded
    <2>2. message.userId = user
      BY <1>7 DEF AnsweredFor, MethodOf
    <2> QED
      BY <1>7, <2>1, <2>2 DEF ShownFor
  <1> QED
    BY <1>2, <1>3, <1>4, <1>5, <1>6, <1>7 DEF GuardedRoutes

RequestsInv == \A r \in Requests : RequestSound(http[r], rpc[http[r].call])

\* A request is answered.
LEMMA RespondSound ==
    ASSUME SessionInv, NEW r \in Requests, NEW request, IsFilled(request), NEW response,
           Respond(r, request, response), ErrorTold(response),
           request.route \in GuardedRoutes /\ response.status < 300 =>
             /\ CookieOf(request) # NoToken
             /\ ShownFor(request.route, response.body, sessions[CookieOf(request)].user)
    PROVE  /\ http'[r].phase = "answered" /\ http'[r].response = response
           /\ \A call : RequestSound(http'[r], call)
  <1>1. PICK x : x = [request EXCEPT !.phase = "answered", !.call = "none", !.body = <<>>,
                                     !.response = response]
    OBVIOUS
  <1>2. /\ x.phase = "answered" /\ x.response = response
        /\ x.route = request.route /\ x.headers = request.headers
    BY <1>1 DEF IsFilled, RequestFields
  <1>3. http'[r] = x
    BY <1>1 DEF Respond, SessionInv, Shapes
  <1>4. CookieOf(x) = CookieOf(request)
    BY <1>2 DEF CookieOf
  <1>5. ASSUME NEW call PROVE RequestSound(x, call)
    BY <1>2, <1>4 DEF RequestSound
  <1> QED
    BY <1>2, <1>3, <1>5

\* The validation pipe and the controller.
LEMMA DispatchSound ==
    ASSUME SessionInv, NEW r \in Requests, NEW request, IsFilled(request), Dispatch(r, request),
           request.route \in GuardedRoutes =>
             /\ CookieOf(request) # NoToken
             /\ request.user.id = sessions[CookieOf(request)].user
    PROVE  RequestSound(http'[r], rpc'[http'[r].call])
  <1> DEFINE invalid == Invalid(request.route, request.body)
             declared == DOMAIN request.body \ {"extra"}
             refusal == Failed(IF invalid # {} THEN createValidationApiError(invalid, declared)
                               ELSE UnauthorizedException)
  <1>1. CASE Respond(r, request, refusal)
    <2>1. PICK response : response = refusal
      OBVIOUS
    <2>2. ErrorTold(response) /\ response.status \in {400, 401}
      <3>1. CASE invalid # {}
        BY <2>1, <3>1, OtherFailures
      <3>2. CASE invalid = {}
        BY <2>1, <3>2, OtherFailures
      <3> QED
        BY <3>1, <3>2
    <2>3. Respond(r, request, response) /\ ~(response.status < 300)
      BY <1>1, <2>1, <2>2
    <2> QED
      BY <2>2, <2>3, RespondSound
  <1>2. ASSUME invalid = {}, NEW c \in Calls,
               Start(r, c, ServiceCall(request.route, request.body, request.headers,
                                      request.user.id)),
               http' = [http EXCEPT ![r] = [request EXCEPT !.phase = "service", !.call = c]]
        PROVE  RequestSound(http'[r], rpc'[http'[r].call])
    <2>1. PICK x : x = [request EXCEPT !.phase = "service", !.call = c]
      OBVIOUS
    <2>2. /\ x.phase = "service" /\ x.call = c
          /\ x.route = request.route /\ x.headers = request.headers
      BY <2>1 DEF IsFilled, RequestFields
    <2>3. PICK call : call = ServiceCall(request.route, request.body, request.headers, request.user.id)
      OBVIOUS
    <2>4. http'[r] = x /\ rpc'[c] = call
      BY <1>2, <2>1, <2>3 DEF Start, SessionInv, Shapes
    <2>5. ASSUME request.route \in GuardedRoutes
          PROVE  call.method = MethodOf[request.route] /\ call.request.userId = request.user.id
      <3>1. PICK message, metadata :
             /\ call = Sent(MethodOf[request.route], message, metadata)
             /\ message.userId = request.user.id
        BY <1>2, <2>3, <2>5, CallForUser
      <3> QED
        BY <3>1 DEF Sent
    <2>6. CookieOf(x) = CookieOf(request)
      BY <2>2 DEF CookieOf
    <2>7. RequestSound(x, call)
      BY <2>2, <2>5, <2>6 DEF RequestSound
    <2> QED
      BY <2>2, <2>4, <2>7
  <1> QED
    BY <1>1, <1>2 DEF Dispatch

LEMMA AskSound ==
    ASSUME SessionInv, NEW r \in Requests, Ask(r)
    PROVE  RequestSound(http'[r], rpc'[http'[r].call])
  <1>1. PICK b \in load.browsers, want \in load.wanted : Receive(r, b, want)
    BY DEF Ask
  <1>2. b \in Browsers /\ want.route \in Route
    BY <1>1, LoadsAssumption DEF SessionInv, Shapes
  <1>3. PICK stale : stale = ~Id!IsLive(createSessionRequestMetadata(HeadersOf(b)).cookie)
    OBVIOUS
  <1>4. stale \in BOOLEAN
    BY <1>3, Zenon
  <1>5. PICK new : new = [phase |-> "received", browser |-> b, route |-> want.route,
                    body |-> want.body, headers |-> HeadersOf(b), user |-> NoUser,
                    call |-> "none", response |-> Failed([kind |-> "other"]),
                    stale |-> ~Id!IsLive(createSessionRequestMetadata(HeadersOf(b)).cookie)]
    OBVIOUS
  <1>6. IsFilled(new) /\ new.route = want.route
    BY <1>2, <1>3, <1>4, <1>5 DEF IsFilled, RequestFields
  <1>7. \/ ~AppModule[want.route].guarded /\ Dispatch(r, new)
        \/ \E c \in Calls : http' = [http EXCEPT ![r] = [new EXCEPT !.phase = "guard", !.call = c]]
    BY <1>1, <1>5 DEF Receive
  <1>8. CASE ~AppModule[want.route].guarded /\ Dispatch(r, new)
    <2>1. new.route \notin GuardedRoutes
      BY <1>2, <1>6, <1>8, Routes
    <2> QED
      BY <1>6, <1>8, <2>1, DispatchSound
  <1>9. ASSUME NEW c \in Calls, http' = [http EXCEPT ![r] = [new EXCEPT !.phase = "guard", !.call = c]]
        PROVE  RequestSound(http'[r], rpc'[http'[r].call])
    <2>1. http'[r].phase = "guard"
      BY <1>6, <1>9 DEF SessionInv, Shapes, IsFilled, RequestFields
    <2> QED
      BY <2>1 DEF RequestSound
  <1> QED
    BY <1>7, <1>8, <1>9

LEMMA GuardSound ==
    ASSUME SessionInv, CallsInv, NEW r \in Requests, canActivate(r)
    PROVE  RequestSound(http'[r], rpc'[http'[r].call])
  <1>0. PICK call : call = rpc[http[r].call]
    OBVIOUS
  <1>1. Calling(r) /\ http[r].phase = "guard" /\ call.phase = "done"
    BY <1>0 DEF canActivate, Calling
  <1>2. /\ http[r] # Idle /\ IsFilled(http[r])
        /\ RequestTrue(http[r], call) /\ CallTrue(call) /\ call # Idle /\ CallTold(call)
    BY <1>0, <1>1, CallingFacts DEF CallsInv
  <1>3. call.method = "CurrentUser" /\ call.metadata.cookie = CookieOf(http[r])
    BY <1>1, <1>2 DEF RequestTrue, CookieOf
  <1>4. CurrentUserTrue(call)
    BY <1>1, <1>2, <1>3 DEF CallTrue
  <1>5. CASE /\ call.reply.code = "OK"
             /\ Dispatch(r, [http[r] EXCEPT !.user = toCurrentUserResponse(call.reply.message).user])
    <2>1. PICK request :
            request = [http[r] EXCEPT !.user = toCurrentUserResponse(call.reply.message).user]
      OBVIOUS
    <2>2. /\ request = [f \in RequestFields |-> request[f]]
          /\ request.route = http[r].route /\ request.headers = http[r].headers
          /\ request.stale = http[r].stale /\ request.browser = http[r].browser
          /\ request.user.id = call.reply.message.userId
      BY <1>2, <2>1 DEF IsFilled, RequestFields, toCurrentUserResponse
    <2>3. call.reply \notin Refusals
      BY <1>5 DEF Refusals, Failure
    <2>4. /\ CookieOf(request) # NoToken
          /\ request.user.id = sessions[CookieOf(request)].user
      BY <1>3, <1>4, <2>2, <2>3 DEF CurrentUserTrue, CookieOf
    <2>5. IsFilled(request) /\ Dispatch(r, request)
      BY <1>2, <1>5, <2>1, <2>2 DEF IsFilled
    <2> QED
      BY <2>4, <2>5, DispatchSound
  <1>6. CASE /\ call.reply.code # "OK"
             /\ Respond(r, http[r], Failed(throwGatewayGrpcError(GrpcError(call.reply), {})))
    <2>1. PICK response : response = Failed(throwGatewayGrpcError(GrpcError(call.reply), {}))
      OBVIOUS
    <2>2. PICK request : request = http[r]
      OBVIOUS
    <2>3. FailureTold(call.reply)
      BY <1>1, <1>2, <1>6 DEF CallTold
    <2>4. ErrorTold(response) /\ ~(response.status < 300)
      BY <2>1, <2>3, GrpcFailure
    <2>5. IsFilled(request) /\ Respond(r, request, response)
      BY <1>2, <1>6, <2>1, <2>2
    <2> QED
      BY <2>4, <2>5, RespondSound
  <1> QED
    BY <1>0, <1>5, <1>6 DEF canActivate

LEMMA FinishSound ==
    ASSUME SessionInv, CallsInv, RequestsInv, NEW r \in Requests, Finish(r)
    PROVE  /\ RequestSound(http'[r], rpc'[http'[r].call])
           /\ http'[r].response = Response(http[r].route, rpc[http[r].call].reply)
  <1>0. PICK call : call = rpc[http[r].call]
    OBVIOUS
  <1>1. Calling(r) /\ http[r].phase = "service" /\ call.phase = "done"
    BY <1>0 DEF Finish, Calling
  <1>2. PICK request : request = http[r]
    OBVIOUS
  <1>3. /\ request # Idle /\ IsFilled(request) /\ request.route \in Route
        /\ call # Idle /\ CallTold(call) /\ CallFor(call) /\ RequestSound(request, call)
    BY <1>0, <1>1, <1>2, CallingFacts DEF CallsInv, RequestsInv, IsFilled
  <1>4. PICK response : response = Response(request.route, call.reply)
    OBVIOUS
  <1>5. call.reply.code # "OK" => FailureTold(call.reply)
    BY <1>1, <1>3 DEF CallTold
  <1>6. /\ ErrorTold(response)
        /\ response.status \in {200, 201, 204, 400, 401, 403, 404, 409, 500, 503}
        /\ response.status < 400 =>
             call.reply.code = "OK" /\ response = Success(request.route, call.reply.message)
    BY <1>3, <1>4, <1>5, ResponseTold
  <1>7. ASSUME request.route \in GuardedRoutes, response.status < 300
        PROVE  /\ CookieOf(request) # NoToken
               /\ ShownFor(request.route, response.body, sessions[CookieOf(request)].user)
    <2>1. /\ CookieOf(request) # NoToken
          /\ call.method = MethodOf[request.route]
          /\ call.request.userId = sessions[CookieOf(request)].user
      BY <1>1, <1>2, <1>3, <1>7 DEF RequestSound
    <2>2. call.reply.code = "OK" /\ response = Success(request.route, call.reply.message)
      BY <1>6, <1>7
    <2>3. call.method \in ServiceMethods
      BY <1>7, <2>1 DEF GuardedRoutes, MethodOf, ServiceMethods
    <2>4. AnsweredFor(MethodOf[request.route], call.reply.message, sessions[CookieOf(request)].user)
      BY <1>1, <1>3, <2>1, <2>2, <2>3 DEF CallFor
    <2> QED
      BY <1>7, <2>1, <2>2, <2>4, SuccessShows
  <1>8. Respond(r, request, response)
    BY <1>0, <1>2, <1>4 DEF Finish
  <1> QED
    BY <1>0, <1>2, <1>3, <1>4, <1>6, <1>7, <1>8, RespondSound

LEMMA BreakSound ==
    ASSUME SessionInv, NEW r \in Requests, Break(r)
    PROVE  /\ RequestSound(http'[r], rpc'[http'[r].call])
           /\ http'[r].response.status = 503
  <1>1. Calling(r)
    BY DEF Break, Calling
  <1>2. PICK request : request = http[r]
    OBVIOUS
  <1>3. IsFilled(request) /\ request.route \in Route
    BY <1>1, <1>2, CallingFacts DEF IsFilled
  <1>4. PICK reply : reply = Failure("UNAVAILABLE", {})
    OBVIOUS
  <1>5. FailureTold(reply)
    BY <1>4 DEF FailureTold, Failure
  <1>6. PICK response : response = Response(request.route, reply)
    OBVIOUS
  <1>7. ErrorTold(response) /\ response.status = 503
    BY <1>3, <1>4, <1>5, <1>6, ResponseTold, FailedStatus
  <1>8. Respond(r, request, response) /\ ~(response.status < 300)
    BY <1>2, <1>4, <1>6, <1>7 DEF Break
  <1> QED
    BY <1>3, <1>7, <1>8, RespondSound

\* What is sound of a request stays so, while sessions keep their users and orders theirs.
LEMMA SoundStays ==
    ASSUME SessionsGrow, OrdersStay, NEW request, NEW call,
           request # Idle => Used(CookieOf(request)), RequestSound(request, call)
    PROVE  RequestSound(request, call)'
  <1>1. PICK cookie : cookie = CookieOf(request)
    OBVIOUS
  <1>2. ASSUME request # Idle, cookie # NoToken PROVE sessions'[cookie].user = sessions[cookie].user
    BY <1>1, <1>2 DEF SessionsGrow, Used
  <1>3. \A route, body, user : ShownFor(route, body, user) => ShownFor(route, body, user)'
    BY ShownStays DEF ShownFor
  <1>4. PICK user : user = sessions[cookie].user
    OBVIOUS
  <1>5. ASSUME request # Idle, request.route \in GuardedRoutes, request.phase = "answered",
               request.response.status < 300
        PROVE  /\ cookie # NoToken
               /\ ShownFor(request.route, request.response.body, sessions[cookie].user)'
    <2>1. cookie # NoToken /\ ShownFor(request.route, request.response.body, user)
      BY <1>1, <1>4, <1>5 DEF RequestSound
    <2>2. ShownFor(request.route, request.response.body, user)'
      BY <1>3, <2>1
    <2>3. sessions'[cookie].user = user
      BY <1>2, <1>4, <1>5, <2>1
    <2> QED
      BY <2>1, <2>2, <2>3 DEF ShownFor, OrderFor
  <1> QED
    BY <1>1, <1>2, <1>5 DEF RequestSound

LEMMA RequestsInvKept ==
    ASSUME SessionInv, CallsInv, RequestsInv, [Next]_vars
    PROVE  RequestsInv'
  <1>0. SessionsGrow /\ OrdersStay
    BY SessionSteps, CallsInvKept
  <1> SUFFICES ASSUME NEW r \in Requests
               PROVE  RequestSound(http[r], rpc[http[r].call])'
    BY DEF RequestsInv
  <1>1. CASE RequestStep(r)
    <2>1. RequestSound(http'[r], rpc'[http'[r].call])
      <3>1. CASE Deliver(r) \/ Lose(r)
        <4>1. http'[r] = Idle
          BY <3>1 DEF Deliver, Lose, SessionInv, Shapes
        <4> QED
          BY <4>1 DEF RequestSound
      <3> QED
        BY <1>1, <3>1, AskSound, GuardSound, FinishSound, BreakSound DEF RequestStep
    <2>2. UNCHANGED <<sessions, orders>>
      BY <1>1 DEF RequestStep, Ask, Receive, canActivate, Finish, Break, Deliver, Lose,
                  identityVars, serviceVars
    <2> QED
      BY <2>1, <2>2 DEF RequestSound, ShownFor, OrderFor
  <1>2. CASE /\ http'[r] = http[r]
             /\ Calling(r) => /\ rpc'[http[r].call].method = rpc[http[r].call].method
                              /\ rpc'[http[r].call].request = rpc[http[r].call].request
    <2>1. PICK request : request = http[r]
      OBVIOUS
    <2>2. PICK call : call = rpc[http[r].call]
      OBVIOUS
    <2>3. PICK new : new = rpc'[http[r].call]
      OBVIOUS
    <2>4. RequestSound(request, call) /\ (request # Idle => Used(CookieOf(request)))
      BY <2>1, <2>2 DEF RequestsInv, SessionInv, RequestTrue, CookieOf
    <2>5. RequestSound(request, new)
      BY <1>2, <2>1, <2>2, <2>3, <2>4 DEF RequestSound, Calling
    <2>6. RequestSound(request, new)'
      BY <1>0, <2>4, <2>5, SoundStays
    <2>7. http'[r] = request /\ rpc'[http'[r].call] = new
      BY <1>2, <2>1, <2>3
    <2> QED
      BY <2>6, <2>7 DEF RequestSound, ShownFor, OrderFor
  <1> QED
    BY <1>1, <1>2, OwnSteps

LEMMA CallsAndRequestsInit == Init => CallsInv /\ RequestsInv
  <1> SUFFICES ASSUME Init PROVE CallsInv /\ RequestsInv
    OBVIOUS
  <1>1. Rows
    BY DEF Init, Svc!TablesInit, Rows
  <1>2. \A c \in Calls : rpc[c] = Idle
    BY DEF Init
  <1>3. \A r \in Requests : http[r] = Idle
    BY DEF Init
  <1> QED
    BY <1>1, <1>2, <1>3 DEF CallsInv, RequestsInv, CallFor, CallTold, CallDid, RequestSound

\* Sessions, calls and requests together.
THEOREM GatewaySound == Spec => [](SessionInv /\ CallsInv /\ RequestsInv)
  <1>1. Init => CallsInv /\ RequestsInv
    BY CallsAndRequestsInit
  <1>2. SessionInv /\ CallsInv /\ RequestsInv /\ [Next]_vars => CallsInv' /\ RequestsInv'
    BY CallsInvKept, RequestsInvKept
  <1> QED
    BY <1>1, <1>2, SessionsSafe, PTL DEF Spec

\* A guarded request acts for the user whose session its cookie names, and shows that
\* user's orders and tickets only (SessionAuthGuard, @CurrentUser).
THEOREM ForSessionUser == Spec => []ActsForSessionUser
  <1>1. SessionInv /\ RequestsInv => ActsForSessionUser
    <2> SUFFICES ASSUME SessionInv, RequestsInv, NEW r \in Requests, Guarded(r)
                 PROVE  /\ http[r].phase = "service" =>
                            /\ Cookie(r) # NoToken
                            /\ rpc[http[r].call].request.userId = sessions[Cookie(r)].user
                        /\ http[r].phase = "answered" /\ http[r].response.status < 300 =>
                            LET body == http[r].response.body
                                shown == CASE http[r].route \in {"createOrder", "cancelOrder", "getOrder"} -> {body}
                                           [] http[r].route = "listOrders" -> body.orders
                                           [] http[r].route = "createPayment" ->
                                                {[userId |-> orders[body.orderId].userId]}
                                           [] OTHER -> {[userId |-> body.userId]} IN
                            \A x \in shown : x.userId = sessions[Cookie(r)].user
      BY DEF ActsForSessionUser
    <2>1. http[r] # Idle
      BY IdlePhase DEF Guarded
    <2>2. RequestSound(http[r], rpc[http[r].call]) /\ IsRequest(http[r])
      BY <2>1 DEF SessionInv, Shapes, RequestsInv
    <2>3. http[r].route \in GuardedRoutes
      BY <2>2, Routes DEF Guarded, IsRequest
    <2>4. CookieOf(http[r]) = Cookie(r)
      BY DEF CookieOf, Cookie
    <2>5. ASSUME http[r].phase = "answered", http[r].response.status < 300
          PROVE  ShownFor(http[r].route, http[r].response.body, sessions[Cookie(r)].user)
      BY <2>1, <2>2, <2>3, <2>4, <2>5 DEF RequestSound
    <2> QED
      BY <2>1, <2>2, <2>3, <2>4, <2>5 DEF RequestSound, ShownFor, OrderFor, GuardedRoutes
  <1> QED
    BY <1>1, GatewaySound, PTL

\* An error tells whose fault it was, and nothing of what a failing service said
\* (ApiErrorFilter, throwGatewayGrpcError).
THEOREM FaultsTold == Spec => []ErrorsTellWhoseFault
  <1>1. RequestsInv => ErrorsTellWhoseFault
    <2> SUFFICES ASSUME RequestsInv, NEW r \in Requests, Answered(r), http[r].response.status >= 400
                 PROVE  IF http[r].response.status < 500
                        THEN http[r].response.errors # {} /\ http[r].response.errors \subseteq ClientItem
                        ELSE http[r].response.errors =
                               {IF http[r].response.status = 503 THEN Unavailable ELSE Unexpected}
      BY DEF ErrorsTellWhoseFault, ClientItem
    <2>1. http[r] # Idle /\ http[r].phase = "answered"
      BY IdlePhase DEF Answered
    <2>2. ErrorTold(http[r].response)
      BY <2>1 DEF RequestsInv, RequestSound
    <2> QED
      BY <2>2 DEF ErrorTold
  <1> QED
    BY <1>1, GatewaySound, PTL

\* The status of a response tells what the call has done: nothing after a 4xx, the
\* creation after a 201, nothing new after a 200 (CreationStatus, structuredError).
THEOREM EffectsTold == Spec => StatusTellsEffect
  <1>1. ASSUME SessionInv, CallsInv, RequestsInv, [Next]_vars,
               NEW r \in Requests, Answers(r), http[r].phase = "service"
        PROVE  LET status == http'[r].response.status
                   did == http[r].call \in wrote IN
               /\ status \in 400 .. 499 => ~did
               /\ status = 201 /\ http[r].route \in {"createOrder", "createPayment", "createTicket"}
                    => did
               /\ status = 200 /\ http[r].route \in {"createOrder", "createPayment"} => ~did
    <2>1. Finish(r) \/ Break(r)
      BY <1>1, OwnSteps DEF RequestStep, Answers, Ask, Receive, canActivate, Deliver, Lose
    <2>2. CASE Break(r)
      <3>1. http'[r].response.status = 503
        BY <1>1, <2>2, BreakSound
      <3> QED
        BY <3>1
    <2>3. CASE Finish(r)
      <3>1. PICK call : call = rpc[http[r].call]
        OBVIOUS
      <3>2. PICK route : route = http[r].route
        OBVIOUS
      <3>3. Calling(r) /\ call.phase = "done"
        BY <1>1, <2>3, <3>1 DEF Finish, Calling
      <3>4. /\ route \in Route /\ call # Idle /\ ~call.abandoned /\ CallTold(call)
            /\ CallDid(call, http[r].call \in wrote)
            /\ route \in GuardedRoutes => call.method = MethodOf[route]
        BY <1>1, <3>1, <3>2, <3>3, CallingFacts
           DEF CallsInv, SessionInv, Owns, IsFilled, RequestsInv, RequestSound
      <3>5. PICK response : response = Response(route, call.reply)
        OBVIOUS
      <3>6. http'[r].response = response
        BY <1>1, <2>3, <3>1, <3>2, <3>5, FinishSound
      <3>7. /\ response.status \in 400 .. 499 => call.reply.code \in ClientCode
            /\ response.status < 400 =>
                 call.reply.code = "OK" /\ response = Success(route, call.reply.message)
        BY <3>3, <3>4, <3>5, ResponseTold DEF CallTold
      <3>8. response.status \in 400 .. 499 => http[r].call \notin wrote
        BY <3>3, <3>4, <3>7 DEF CallDid, ClientCode
      <3>9. ASSUME response.status \in {200, 201}, route \in {"createOrder", "createPayment"}
            PROVE  http[r].call \in wrote <=> response.status = 201
        <4>1. call.reply.code = "OK" /\ response = Success(route, call.reply.message)
          BY <3>7, <3>9
        <4>2. call.method \in {"CreateOrder", "CreatePayment"}
          BY <3>4, <3>9 DEF GuardedRoutes, MethodOf
        <4>3. response.status = CreationStatus(call.reply.message.created)
          BY <3>9, <4>1 DEF Success, Succeeded, toCreateOrderResponse
        <4>4. call.reply.message.created <=> http[r].call \in wrote
          BY <3>3, <3>4, <4>1, <4>2 DEF CallDid
        <4> QED
          BY <3>9, <4>3, <4>4 DEF CreationStatus
      <3>10. ASSUME response.status = 201, route = "createTicket" PROVE http[r].call \in wrote
        BY <3>3, <3>4, <3>7, <3>10 DEF CallDid, GuardedRoutes, MethodOf
      <3> QED
        BY <3>2, <3>6, <3>8, <3>9, <3>10
    <2> QED
      BY <2>1, <2>2, <2>3
  <1>2. SessionInv /\ CallsInv /\ RequestsInv /\ [Next]_vars =>
          [\A r \in Requests : Answers(r) /\ http[r].phase = "service" =>
            LET status == http'[r].response.status
                did == http[r].call \in wrote IN
            /\ status \in 400 .. 499 => ~did
            /\ status = 201 /\ http[r].route \in {"createOrder", "createPayment", "createTicket"} => did
            /\ status = 200 /\ http[r].route \in {"createOrder", "createPayment"} => ~did]_vars
    BY <1>1
  <1> QED
    BY <1>2, GatewaySound, PTL DEF Spec, StatusTellsEffect

----------------------------------------------------------------------------
(* The contracts of the services and what each route declares. *)

Contract(method) ==
    (IF method \in IdentityMethods THEN IdentityService ELSE AllServices)[method]

LEMMA ContractOfMethod ==
    /\ IdentityMethods = {"SignUp", "SignIn", "SignOut", "CurrentUser", "VerifyEmail"}
    /\ Contract("SignUp") = [input |-> SignUpRequest, output |-> SignUpResponse]
    /\ Contract("SignIn") = [input |-> SignInRequest, output |-> SignInResponse]
    /\ Contract("SignOut") = [input |-> SignOutRequest, output |-> SignOutResponse]
    /\ Contract("CurrentUser") = [input |-> CurrentUserRequest, output |-> CurrentUserResponse]
    /\ Contract("VerifyEmail") = [input |-> VerifyEmailRequest, output |-> VerifyEmailResponse]
    /\ Contract("CreateOrder") = [input |-> CreateOrderRequest, output |-> CreateOrderResponse]
    /\ Contract("CancelOrder") = [input |-> CancelOrderRequest, output |-> CancelOrderResponse]
    /\ Contract("GetOrder") = [input |-> GetOrderRequest, output |-> GetOrderResponse]
    /\ Contract("ListOrders") = [input |-> ListOrdersRequest, output |-> ListOrdersResponse]
    /\ Contract("CreateTicket") = [input |-> CreateTicketRequest, output |-> CreateTicketResponse]
    /\ Contract("UpdateTicket") = [input |-> UpdateTicketRequest, output |-> UpdateTicketResponse]
    /\ Contract("GetTicket") = [input |-> GetTicketRequest, output |-> GetTicketResponse]
    /\ Contract("ListTickets") = [input |-> ListTicketsRequest, output |-> ListTicketsResponse]
    /\ Contract("CreatePayment") = [input |-> CreatePaymentRequest, output |-> CreatePaymentResponse]
  <1> DEFINE first == With(OrdersService, TicketsService)
  <1>1. /\ DOMAIN IdentityService = {"SignUp", "SignIn", "SignOut", "CurrentUser", "VerifyEmail"}
        /\ DOMAIN OrdersService = {"CreateOrder", "CancelOrder", "GetOrder", "ListOrders"}
        /\ DOMAIN TicketsService = {"CreateTicket", "UpdateTicket", "GetTicket", "ListTickets"}
        /\ DOMAIN PaymentsService = {"CreatePayment"}
    BY DEF IdentityService, OrdersService, TicketsService, PaymentsService
  <1>2. /\ DOMAIN first = DOMAIN OrdersService \cup DOMAIN TicketsService
        /\ \A method \in DOMAIN OrdersService : first[method] = OrdersService[method]
        /\ \A method \in DOMAIN TicketsService : first[method] = TicketsService[method]
    BY <1>1 DEF With
  <1> HIDE DEF first
  <1>3. AllServices = With(first, PaymentsService)
    BY DEF AllServices, first
  <1>4. /\ \A method \in DOMAIN first : AllServices[method] = first[method]
        /\ AllServices["CreatePayment"] = PaymentsService["CreatePayment"]
    BY <1>1, <1>2, <1>3 DEF With
  <1>5. /\ \A method \in DOMAIN IdentityService : Contract(method) = IdentityService[method]
        /\ \A method \in DOMAIN OrdersService : Contract(method) = OrdersService[method]
        /\ \A method \in DOMAIN TicketsService : Contract(method) = TicketsService[method]
        /\ Contract("CreatePayment") = PaymentsService["CreatePayment"]
    BY <1>1, <1>2, <1>4 DEF Contract, IdentityMethods
  <1>6. /\ Contract("SignUp") = [input |-> SignUpRequest, output |-> SignUpResponse]
        /\ Contract("SignIn") = [input |-> SignInRequest, output |-> SignInResponse]
        /\ Contract("SignOut") = [input |-> SignOutRequest, output |-> SignOutResponse]
        /\ Contract("CurrentUser") = [input |-> CurrentUserRequest, output |-> CurrentUserResponse]
        /\ Contract("VerifyEmail") = [input |-> VerifyEmailRequest, output |-> VerifyEmailResponse]
    BY <1>1, <1>5 DEF IdentityService
  <1>7. /\ Contract("CreateOrder") = [input |-> CreateOrderRequest, output |-> CreateOrderResponse]
        /\ Contract("CancelOrder") = [input |-> CancelOrderRequest, output |-> CancelOrderResponse]
        /\ Contract("GetOrder") = [input |-> GetOrderRequest, output |-> GetOrderResponse]
        /\ Contract("ListOrders") = [input |-> ListOrdersRequest, output |-> ListOrdersResponse]
    BY <1>1, <1>5 DEF OrdersService
  <1>8. /\ Contract("CreateTicket") = [input |-> CreateTicketRequest, output |-> CreateTicketResponse]
        /\ Contract("UpdateTicket") = [input |-> UpdateTicketRequest, output |-> UpdateTicketResponse]
        /\ Contract("GetTicket") = [input |-> GetTicketRequest, output |-> GetTicketResponse]
        /\ Contract("ListTickets") = [input |-> ListTicketsRequest, output |-> ListTicketsResponse]
    BY <1>1, <1>5 DEF TicketsService
  <1>9. Contract("CreatePayment") = [input |-> CreatePaymentRequest, output |-> CreatePaymentResponse]
    BY <1>5 DEF PaymentsService
  <1> QED
    BY <1>1, <1>6, <1>7, <1>8, <1>9 DEF IdentityMethods

\* The method each route calls.
RouteMethod ==
    [signUp |-> "SignUp", signIn |-> "SignIn", signOut |-> "SignOut",
     currentUser |-> "CurrentUser", verifyEmail |-> "VerifyEmail",
     createOrder |-> "CreateOrder", cancelOrder |-> "CancelOrder",
     listOrders |-> "ListOrders", getOrder |-> "GetOrder", createPayment |-> "CreatePayment",
     listTickets |-> "ListTickets", getTicket |-> "GetTicket",
     updateTicket |-> "UpdateTicket", createTicket |-> "CreateTicket"]

LEMMA TypesOfRoute ==
    /\ Types["signUp"].body = SignUpResponse
    /\ Types["signIn"].body = [user : [id : Users, emailVerified : BOOLEAN], session : Nat]
    /\ Types["signOut"].body = SignOutResponse
    /\ Types["currentUser"].body = CurrentUserBody
    /\ Types["verifyEmail"].body = VerifyEmailResponse
    /\ Types["createOrder"].body = OrderResponse
    /\ Types["cancelOrder"].body = OrderResponse
    /\ Types["listOrders"].body = [orders : SUBSET OrderResponse]
    /\ Types["getOrder"].body = OrderResponse
    /\ Types["createPayment"].body = Payment
    /\ Types["createTicket"].body = CreateTicketResponse
    /\ Types["updateTicket"].body = Ticket
    /\ Types["getTicket"].body = Ticket
    /\ Types["listTickets"].body = ListTicketsResponse
    /\ \A route \in Route : Types[route].sent = Contract(RouteMethod[route]).input
  <1> DEFINE sales == With(OrdersTypes, PaymentsTypes)
             first == With(IdentityTypes, TicketsTypes)
  <1>1. /\ DOMAIN IdentityTypes = {"signUp", "signIn", "signOut", "currentUser", "verifyEmail"}
        /\ DOMAIN OrdersTypes = {"createOrder", "cancelOrder", "listOrders", "getOrder"}
        /\ DOMAIN PaymentsTypes = {"createPayment"}
        /\ DOMAIN TicketsTypes = {"listTickets", "getTicket", "updateTicket", "createTicket"}
    BY DEF IdentityTypes, OrdersTypes, PaymentsTypes, TicketsTypes
  <1>2. /\ DOMAIN sales = {"createOrder", "cancelOrder", "listOrders", "getOrder", "createPayment"}
        /\ \A route \in DOMAIN OrdersTypes : sales[route] = OrdersTypes[route]
        /\ sales["createPayment"] = PaymentsTypes["createPayment"]
    BY <1>1 DEF With
  <1>3. /\ DOMAIN first = DOMAIN IdentityTypes \cup DOMAIN TicketsTypes
        /\ \A route \in DOMAIN IdentityTypes : first[route] = IdentityTypes[route]
        /\ \A route \in DOMAIN TicketsTypes : first[route] = TicketsTypes[route]
    BY <1>1 DEF With
  <1> HIDE DEF sales, first
  <1>4. Types = With(first, sales)
    BY DEF Types, first, sales
  <1>5. /\ \A route \in DOMAIN first : Types[route] = first[route]
        /\ \A route \in DOMAIN sales : Types[route] = sales[route]
    BY <1>1, <1>2, <1>3, <1>4 DEF With
  <1>6. /\ \A route \in DOMAIN IdentityTypes : Types[route] = IdentityTypes[route]
        /\ \A route \in DOMAIN OrdersTypes : Types[route] = OrdersTypes[route]
        /\ \A route \in DOMAIN TicketsTypes : Types[route] = TicketsTypes[route]
        /\ Types["createPayment"] = PaymentsTypes["createPayment"]
    BY <1>1, <1>2, <1>3, <1>5
  <1>7. /\ Types["signUp"] = Declared(SignUpRequest, SignUpResponse)
        /\ Types["signOut"] = Declared(SignOutRequest, SignOutResponse)
        /\ Types["currentUser"] = Declared(CurrentUserRequest, CurrentUserBody)
        /\ Types["verifyEmail"] = Declared(VerifyEmailRequest, VerifyEmailResponse)
    BY <1>1, <1>6 DEF IdentityTypes
  <1>8. /\ Types["createOrder"] = Declared(CreateOrderRequest, OrderResponse)
        /\ Types["cancelOrder"] = Declared(CancelOrderRequest, OrderResponse)
        /\ Types["getOrder"] = Declared(GetOrderRequest, OrderResponse)
        /\ Types["createPayment"] = Declared(CreatePaymentRequest, Payment)
    BY <1>1, <1>6 DEF OrdersTypes, PaymentsTypes
  <1>9. /\ Types["createTicket"] = Declared(CreateTicketRequest, CreateTicketResponse)
        /\ Types["updateTicket"] = Declared(UpdateTicketRequest, Ticket)
        /\ Types["getTicket"] = Declared(GetTicketRequest, Ticket)
        /\ Types["listTickets"] = Declared(ListTicketsRequest, ListTicketsResponse)
    BY <1>1, <1>6 DEF TicketsTypes
  <1>10. \A sent, body : Declared(sent, body).sent = sent /\ Declared(sent, body).body = body
    BY DEF Declared
  <1>signIn. /\ Types["signIn"].body = [user : [id : Users, emailVerified : BOOLEAN], session : Nat]
             /\ Types["signIn"].sent = SignInRequest
    <2>1. PICK body : body = [user : [id : Users, emailVerified : BOOLEAN], session : Nat]
      OBVIOUS
    <2>2. Types["signIn"] = Declared(SignInRequest, body)
      BY <1>1, <1>6, <2>1 DEF IdentityTypes
    <2>3. Types["signIn"].body = body /\ Types["signIn"].sent = SignInRequest
      BY <1>10, <2>2
    <2> QED
      BY <2>1, <2>3, Zenon
  <1>listOrders. /\ Types["listOrders"].body = [orders : SUBSET OrderResponse]
                 /\ Types["listOrders"].sent = ListOrdersRequest
    <2>1. PICK body : body = [orders : SUBSET OrderResponse]
      OBVIOUS
    <2>2. Types["listOrders"] = Declared(ListOrdersRequest, body)
      BY <1>1, <1>6, <2>1 DEF OrdersTypes
    <2>3. Types["listOrders"].body = body /\ Types["listOrders"].sent = ListOrdersRequest
      BY <1>10, <2>2
    <2> QED
      BY <2>1, <2>3, Zenon
  <1>11. /\ Types["signUp"].sent = Contract(RouteMethod["signUp"]).input
         /\ Types["signIn"].sent = Contract(RouteMethod["signIn"]).input
         /\ Types["signOut"].sent = Contract(RouteMethod["signOut"]).input
         /\ Types["currentUser"].sent = Contract(RouteMethod["currentUser"]).input
         /\ Types["verifyEmail"].sent = Contract(RouteMethod["verifyEmail"]).input
    BY <1>7, <1>10, <1>signIn, ContractOfMethod DEF RouteMethod
  <1>12. /\ Types["createOrder"].sent = Contract(RouteMethod["createOrder"]).input
         /\ Types["cancelOrder"].sent = Contract(RouteMethod["cancelOrder"]).input
         /\ Types["listOrders"].sent = Contract(RouteMethod["listOrders"]).input
         /\ Types["getOrder"].sent = Contract(RouteMethod["getOrder"]).input
         /\ Types["createPayment"].sent = Contract(RouteMethod["createPayment"]).input
    BY <1>8, <1>10, <1>listOrders, ContractOfMethod DEF RouteMethod
  <1>13. /\ Types["createTicket"].sent = Contract(RouteMethod["createTicket"]).input
         /\ Types["updateTicket"].sent = Contract(RouteMethod["updateTicket"]).input
         /\ Types["getTicket"].sent = Contract(RouteMethod["getTicket"]).input
         /\ Types["listTickets"].sent = Contract(RouteMethod["listTickets"]).input
    BY <1>9, <1>10, ContractOfMethod DEF RouteMethod
  <1>14. \A route \in Route : Types[route].sent = Contract(RouteMethod[route]).input
    <2> SUFFICES ASSUME NEW route \in Route
                 PROVE  Types[route].sent = Contract(RouteMethod[route]).input
      OBVIOUS
    <2>1. \/ route \in {"signUp", "signIn", "signOut", "currentUser", "verifyEmail"}
          \/ route \in {"createOrder", "cancelOrder", "listOrders", "getOrder", "createPayment"}
          \/ route \in {"createTicket", "updateTicket", "getTicket", "listTickets"}
      BY Routes DEF GuardedRoutes, OpenRoutes
    <2>2. CASE route \in {"signUp", "signIn", "signOut", "currentUser", "verifyEmail"}
      BY <1>11, <2>2, Zenon
    <2>3. CASE route \in {"createOrder", "cancelOrder", "listOrders", "getOrder", "createPayment"}
      BY <1>12, <2>3, Zenon
    <2>4. CASE route \in {"createTicket", "updateTicket", "getTicket", "listTickets"}
      BY <1>13, <2>4, Zenon
    <2> QED
      BY <2>1, <2>2, <2>3, <2>4
  <1>15. /\ Types["signUp"].body = SignUpResponse
         /\ Types["signOut"].body = SignOutResponse
         /\ Types["currentUser"].body = CurrentUserBody
         /\ Types["verifyEmail"].body = VerifyEmailResponse
    BY <1>7, <1>10
  <1>16. /\ Types["createOrder"].body = OrderResponse
         /\ Types["cancelOrder"].body = OrderResponse
         /\ Types["getOrder"].body = OrderResponse
         /\ Types["createPayment"].body = Payment
    BY <1>8, <1>10
  <1>17. /\ Types["createTicket"].body = CreateTicketResponse
         /\ Types["updateTicket"].body = Ticket
         /\ Types["getTicket"].body = Ticket
         /\ Types["listTickets"].body = ListTicketsResponse
    BY <1>9 DEF Declared
  <1> QED
    BY <1>14, <1>15, <1>16, <1>17, <1>signIn, <1>listOrders

----------------------------------------------------------------------------
(* What is sent and what is shown has the declared type. *)

\* A call carries a message of its method, and a message of it is answered.
MessageOK(call) ==
    call # Idle =>
        /\ call.request \in Contract(call.method).input
        /\ call.metadata = [cookie |-> call.metadata.cookie, headers |-> call.metadata.headers]
        /\ call.metadata.headers \subseteq FORWARDED_AUTH_HEADERS
        /\ call.metadata.headers # {} => call.method = "SignIn"
        /\ call.metadata.cookie # NoToken => call.method \in {"SignOut", "CurrentUser"}
        /\ call.phase = "mailing" => call.request.email \in Users
        /\ call.phase = "done" /\ call.reply.code = "OK" =>
            call.reply.message \in Contract(call.method).output

LEMMA SentOK ==
    ASSUME NEW method, NEW message, NEW cookie, NEW names,
           message \in Contract(method).input,
           names \subseteq FORWARDED_AUTH_HEADERS,
           names # {} => method = "SignIn",
           cookie # NoToken => method \in {"SignOut", "CurrentUser"}
    PROVE  LET call == Sent(method, message, [cookie |-> cookie, headers |-> names]) IN
           MessageOK(call) /\ call.method = method
  <1>1. PICK metadata : metadata = [cookie |-> cookie, headers |-> names]
    OBVIOUS
  <1>2. PICK call : call = Sent(method, message, metadata)
    OBVIOUS
  <1>3. /\ call.method = method /\ call.request = message /\ call.metadata = metadata
        /\ call.phase = "sent"
    BY <1>2 DEF Sent
  <1>4. /\ metadata.cookie = cookie /\ metadata.headers = names
        /\ metadata = [cookie |-> metadata.cookie, headers |-> metadata.headers]
    BY <1>1
  <1>5. MessageOK(call)
    BY <1>3, <1>4 DEF MessageOK
  <1> QED
    BY <1>1, <1>2, <1>3, <1>5

LEMMA MetadataSent ==
    ASSUME NEW headers
    PROVE  /\ NoMetadata = [cookie |-> NoToken, headers |-> {}]
           /\ createSessionRequestMetadata(headers) =
                [cookie |-> getCookieValue(headers.cookies, SESSION_COOKIE_NAME), headers |-> {}]
           /\ createAuthRequestMetadata(headers) =
                [cookie |-> NoToken, headers |-> headers.names \cap FORWARDED_AUTH_HEADERS]
  BY DEF NoMetadata, createSessionRequestMetadata, createAuthRequestMetadata

\* What the controller of a route sends for a body with the fields of its class.
LEMMA CallTyped ==
    ASSUME NEW route \in Route, NEW body \in Bodies[route], NEW headers, NEW user,
           route \in GuardedRoutes => user \in Users
    PROVE  LET call == ServiceCall(route, body, headers, user) IN
           MessageOK(call) /\ call.method = RouteMethod[route]
  <1> DEFINE call == ServiceCall(route, body, headers, user)
             Good == MessageOK(call) /\ call.method = RouteMethod[route]
  <1> SUFFICES Good
    OBVIOUS
  <1>0. route \in GuardedRoutes \cup OpenRoutes
    BY Routes
  <1>1. /\ DOMAIN AuthController = {"signUp", "signIn", "signOut", "currentUser", "verifyEmail"}
        /\ DOMAIN OrdersController = {"createOrder", "cancelOrder", "listOrders", "getOrder"}
        /\ DOMAIN PaymentsController = {"createPayment"}
        /\ DOMAIN TicketsController = {"listTickets", "getTicket", "updateTicket", "createTicket"}
    BY DEF AuthController, OrdersController, PaymentsController, TicketsController
  <1>2. ASSUME NEW message, message \in Contract(RouteMethod[route]).input,
               call = Sent(RouteMethod[route], message, NoMetadata)
        PROVE  Good
    <2>1. PICK method : method = RouteMethod[route]
      OBVIOUS
    <2>2. call = Sent(method, message, [cookie |-> NoToken, headers |-> {}])
      BY <1>2, <2>1, MetadataSent
    <2>3. MessageOK(call) /\ call.method = method
      BY <1>2, <2>1, <2>2, SentOK
    <2> QED
      BY <2>1, <2>3
  <1>3. CASE route \in {"signUp", "verifyEmail"}
    <2>1. call = Sent(RouteMethod[route], body, NoMetadata)
      BY <1>1, <1>3 DEF ServiceCall, AuthServiceCall, RouteMethod
    <2>2. body \in Contract(RouteMethod[route]).input
      BY <1>3, ContractOfMethod DEF RouteMethod, Bodies
    <2> QED
      BY <1>2, <2>1, <2>2
  <1>4. CASE route = "signIn"
    <2>1. call = Sent("SignIn", body, createAuthRequestMetadata(headers))
      BY <1>1, <1>4 DEF ServiceCall, AuthServiceCall
    <2>2. body \in Contract("SignIn").input /\ RouteMethod[route] = "SignIn"
      BY <1>4, ContractOfMethod DEF RouteMethod, Bodies
    <2>3. PICK names : names = headers.names \cap FORWARDED_AUTH_HEADERS
      OBVIOUS
    <2>4. names \subseteq FORWARDED_AUTH_HEADERS
      BY <2>3
    <2>5. call = Sent("SignIn", body, [cookie |-> NoToken, headers |-> names])
      BY <2>1, <2>3, MetadataSent
    <2> QED
      BY <2>2, <2>4, <2>5, SentOK
  <1>5. CASE route \in {"signOut", "currentUser"}
    <2>1. call = Sent(RouteMethod[route], <<>>, createSessionRequestMetadata(headers))
      BY <1>1, <1>5 DEF ServiceCall, AuthServiceCall, RouteMethod
    <2>2. /\ <<>> \in Contract(RouteMethod[route]).input
          /\ RouteMethod[route] \in {"SignOut", "CurrentUser"}
      BY <1>5, ContractOfMethod DEF RouteMethod, SignOutRequest, CurrentUserRequest
    <2>3. PICK cookie : cookie = getCookieValue(headers.cookies, SESSION_COOKIE_NAME)
      OBVIOUS
    <2>4. call = Sent(RouteMethod[route], <<>>, [cookie |-> cookie, headers |-> {}])
      BY <2>1, <2>3, MetadataSent
    <2> QED
      BY <2>2, <2>4, SentOK
  <1>6. CASE route = "createOrder"
    <2>1. PICK message : message = [ticketId |-> body.ticketId, userId |-> user]
      OBVIOUS
    <2>2. call = Sent(RouteMethod[route], message, NoMetadata)
      BY <1>1, <1>6, <2>1 DEF ServiceCall, OrdersServiceCall, RouteMethod
    <2>3. body \in [ticketId : TicketId] /\ user \in Users
      BY <1>6 DEF Bodies, GuardedRoutes
    <2>4. message \in CreateOrderRequest
      BY <2>1, <2>3 DEF CreateOrderRequest
    <2>5. message \in Contract(RouteMethod[route]).input
      BY <1>6, <2>4, ContractOfMethod DEF RouteMethod
    <2> QED
      BY <1>2, <2>2, <2>5
  <1>7. CASE route \in {"cancelOrder", "getOrder"}
    <2>1. PICK message : message = [orderId |-> body.id, userId |-> user]
      OBVIOUS
    <2>2. call = Sent(RouteMethod[route], message, NoMetadata)
      BY <1>1, <1>7, <2>1 DEF ServiceCall, OrdersServiceCall, RouteMethod
    <2>3. body \in [id : OrderId] /\ user \in Users
      <3>1. Bodies["cancelOrder"] = [id : OrderId] /\ Bodies["getOrder"] = [id : OrderId]
        BY DEF Bodies
      <3> QED
        BY <1>7, <3>1 DEF GuardedRoutes
    <2>4. message \in CancelOrderRequest /\ message \in GetOrderRequest
      <3>1. body.id \in OrderId
        BY <2>3
      <3> QED
        BY <2>1, <2>3, <3>1 DEF CancelOrderRequest, GetOrderRequest
    <2>5. message \in Contract(RouteMethod[route]).input
      BY <1>7, <2>4, ContractOfMethod DEF RouteMethod
    <2> QED
      BY <1>2, <2>2, <2>5
  <1>8. CASE route = "listOrders"
    <2>1. PICK message : message = [userId |-> user]
      OBVIOUS
    <2>2. call = Sent(RouteMethod[route], message, NoMetadata)
      BY <1>1, <1>8, <2>1 DEF ServiceCall, OrdersServiceCall, RouteMethod
    <2>3. message \in ListOrdersRequest
      BY <1>8, <2>1 DEF ListOrdersRequest, GuardedRoutes
    <2>4. message \in Contract(RouteMethod[route]).input
      BY <1>8, <2>3, ContractOfMethod DEF RouteMethod
    <2> QED
      BY <1>2, <2>2, <2>4
  <1>9. CASE route = "createPayment"
    <2>1. PICK message : message = [orderId |-> body.orderId, userId |-> user]
      OBVIOUS
    <2>2. call = Sent(RouteMethod[route], message, NoMetadata)
      BY <1>1, <1>9, <2>1 DEF ServiceCall, PaymentsServiceCall, RouteMethod
    <2>3. body \in [orderId : OrderId] /\ user \in Users
      BY <1>9 DEF Bodies, GuardedRoutes
    <2>4. message \in CreatePaymentRequest
      BY <2>1, <2>3 DEF CreatePaymentRequest
    <2>5. message \in Contract(RouteMethod[route]).input
      BY <1>9, <2>4, ContractOfMethod DEF RouteMethod
    <2> QED
      BY <1>2, <2>2, <2>5
  <1>10. CASE route = "createTicket"
    <2>1. PICK message : message = With(body, [userId |-> user])
      OBVIOUS
    <2>2. call = Sent(RouteMethod[route], message, NoMetadata)
      BY <1>1, <1>10, <2>1 DEF ServiceCall, TicketsServiceCall, RouteMethod
    <2>3. body \in [title : Title, price : Price] /\ user \in Users
      BY <1>10 DEF Bodies, GuardedRoutes
    <2>4. message = [title |-> body.title, price |-> body.price, userId |-> user]
      BY <2>1, <2>3 DEF With
    <2>5. message \in CreateTicketRequest
      BY <2>3, <2>4 DEF CreateTicketRequest
    <2>6. message \in Contract(RouteMethod[route]).input
      BY <1>10, <2>5, ContractOfMethod DEF RouteMethod
    <2> QED
      BY <1>2, <2>2, <2>6
  <1>11. CASE route = "updateTicket"
    <2>1. PICK message : message = With(body, [userId |-> user])
      OBVIOUS
    <2>2. call = Sent(RouteMethod[route], message, NoMetadata)
      BY <1>1, <1>11, <2>1 DEF ServiceCall, TicketsServiceCall, RouteMethod
    <2>3. body \in [id : TicketId, title : Title, price : Price] /\ user \in Users
      BY <1>11 DEF Bodies, GuardedRoutes
    <2>4. message = [id |-> body.id, title |-> body.title, price |-> body.price, userId |-> user]
      BY <2>1, <2>3 DEF With
    <2>5. message \in UpdateTicketRequest
      BY <2>3, <2>4 DEF UpdateTicketRequest
    <2>6. message \in Contract(RouteMethod[route]).input
      BY <1>11, <2>5, ContractOfMethod DEF RouteMethod
    <2> QED
      BY <1>2, <2>2, <2>6
  <1>12. CASE route = "getTicket"
    <2>1. PICK message : message = [id |-> body.id]
      OBVIOUS
    <2>2. call = Sent(RouteMethod[route], message, NoMetadata)
      BY <1>1, <1>12, <2>1 DEF ServiceCall, TicketsServiceCall, RouteMethod
    <2>3. body \in [id : TicketId]
      BY <1>12 DEF Bodies
    <2>4. message \in GetTicketRequest
      BY <2>1, <2>3 DEF GetTicketRequest
    <2>5. message \in Contract(RouteMethod[route]).input
      BY <1>12, <2>4, ContractOfMethod DEF RouteMethod
    <2> QED
      BY <1>2, <2>2, <2>5
  <1>13. CASE route = "listTickets"
    <2>1. call = Sent(RouteMethod[route], <<>>, NoMetadata)
      BY <1>1, <1>13 DEF ServiceCall, TicketsServiceCall, RouteMethod
    <2>2. <<>> \in Contract(RouteMethod[route]).input
      BY <1>13, ContractOfMethod DEF RouteMethod, ListTicketsRequest
    <2> QED
      BY <1>2, <2>1, <2>2
  <1> HIDE DEF Good
  <1>14. \/ route \in {"signUp", "verifyEmail", "signIn", "signOut", "currentUser"}
         \/ route \in {"createOrder", "cancelOrder", "getOrder", "listOrders", "createPayment"}
         \/ route \in {"createTicket", "updateTicket", "getTicket", "listTickets"}
    BY <1>0 DEF GuardedRoutes, OpenRoutes
  <1> QED
    BY <1>3, <1>4, <1>5, <1>6, <1>7, <1>8, <1>9, <1>10, <1>11, <1>12, <1>13, <1>14

LEMMA GuardCallTyped ==
    ASSUME NEW headers
    PROVE  LET call == AuthServiceCall("currentUser", <<>>, headers) IN
           MessageOK(call) /\ call.method = "CurrentUser"
  <1>1. PICK cookie : cookie = getCookieValue(headers.cookies, SESSION_COOKIE_NAME)
    OBVIOUS
  <1>2. AuthServiceCall("currentUser", <<>>, headers) =
          Sent("CurrentUser", <<>>, [cookie |-> cookie, headers |-> {}])
    BY <1>1, MetadataSent DEF AuthServiceCall
  <1>3. <<>> \in Contract("CurrentUser").input
    BY ContractOfMethod DEF CurrentUserRequest
  <1> QED
    BY <1>2, <1>3, SentOK

\* The status of a response tells whether it is an error; what is shown has the type the
\* gateway declares for the route.
ResponseTyped(route, response) ==
    /\ response.status \in {200, 201, 204, 400, 401, 403, 404, 409, 500, 503}
    /\ response.status >= 400 <=> response.errors # {}
    /\ response.status < 400 => response.body \in Types[route].body

LEMMA ErrorTyped ==
    ASSUME NEW route, NEW response, ErrorTold(response),
           response.status \in {400, 401, 403, 404, 409, 500, 503}
    PROVE  ResponseTyped(route, response)
  <1>1. response.errors # {}
    BY DEF ErrorTold
  <1> QED
    BY <1>1 DEF ResponseTyped

LEMMA OrderShown ==
    ASSUME NEW order, order.id \in OrderIds, order.ticketId \in TicketIds, order.userId \in Users,
           toOrderResponse(order).status # "throws"
    PROVE  toOrderResponse(order) \in OrderResponse
  <1>1. PICK status : status = toOrderStatus(order.status)
    OBVIOUS
  <1>2. toOrderResponse(order) =
          [id |-> order.id, ticketId |-> order.ticketId, userId |-> order.userId, status |-> status]
    BY <1>1 DEF toOrderResponse
  <1>3. status # "throws"
    BY <1>2
  <1>4. status \in {"AwaitingPayment", "Canceled", "Complete", "Created"}
    BY <1>1, <1>3 DEF toOrderStatus
  <1> QED
    BY <1>2, <1>4 DEF OrderResponse

LEMMA OrdersShown ==
    ASSUME NEW message
    PROVE  /\ OrdersIn("createOrder", message) = {toOrderResponse(message)}
           /\ OrdersIn("cancelOrder", message) = {toOrderResponse(message.order)}
           /\ OrdersIn("listOrders", message) = {toOrderResponse(order) : order \in message.orders}
           /\ OrdersIn("getOrder", message) = {toOrderResponse(message.order)}
           /\ Success("createOrder", message).body = toOrderResponse(message)
           /\ Success("cancelOrder", message).body = toOrderResponse(message.order)
           /\ Success("listOrders", message).body =
                [orders |-> {toOrderResponse(order) : order \in message.orders}]
           /\ Success("getOrder", message).body = toOrderResponse(message.order)
  <1>1. /\ toCreateOrderResponse(message).order = toOrderResponse(message)
        /\ toCancelOrderResponse(message) = toOrderResponse(message.order)
        /\ toGetOrderResponse(message) = toOrderResponse(message.order)
    BY DEF toCreateOrderResponse, toCancelOrderResponse, toGetOrderResponse
  <1>2. PICK all : all = {toOrderResponse(order) : order \in message.orders}
    OBVIOUS
  <1>3. toListOrdersResponse(message) = all
    BY <1>2 DEF toListOrdersResponse
  <1>4. /\ OrdersIn("createOrder", message) = {toOrderResponse(message)}
        /\ OrdersIn("cancelOrder", message) = {toOrderResponse(message.order)}
        /\ OrdersIn("listOrders", message) = all
        /\ OrdersIn("getOrder", message) = {toOrderResponse(message.order)}
    BY <1>1, <1>3 DEF OrdersIn
  <1>5. /\ Success("createOrder", message).body = toOrderResponse(message)
        /\ Success("cancelOrder", message).body = toOrderResponse(message.order)
        /\ Success("listOrders", message).body = [orders |-> all]
        /\ Success("getOrder", message).body = toOrderResponse(message.order)
    BY <1>1, <1>3 DEF Success, Succeeded
  <1> QED
    BY <1>2, <1>4, <1>5

\* What a client is shown of an answer has the type the gateway declares.
LEMMA SuccessTyped ==
    ASSUME NEW route \in Route, NEW message \in Contract(RouteMethod[route]).output,
           \A order \in OrdersIn(route, message) : order.status # "throws"
    PROVE  Success(route, message).errors = {} /\ Success(route, message).body \in Types[route].body
  <1>0. route \in GuardedRoutes \cup OpenRoutes
    BY Routes
  <1>1. Success(route, message).errors = {}
    BY <1>0 DEF Success, Succeeded, GuardedRoutes, OpenRoutes
  <1> DEFINE Good == Success(route, message).body \in Types[route].body
  <1> SUFFICES Good
    BY <1>1
  <1>2. CASE route \in {"signUp", "verifyEmail", "createTicket", "listTickets"}
    <2>1. Success(route, message).body = message
      BY <1>2 DEF Success, Succeeded
    <2>2. CASE route = "signUp"
      BY <2>1, <2>2, ContractOfMethod, TypesOfRoute DEF RouteMethod
    <2>3. CASE route = "verifyEmail"
      BY <2>1, <2>3, ContractOfMethod, TypesOfRoute DEF RouteMethod
    <2>4. CASE route = "createTicket"
      BY <2>1, <2>4, ContractOfMethod, TypesOfRoute DEF RouteMethod
    <2>5. CASE route = "listTickets"
      BY <2>1, <2>5, ContractOfMethod, TypesOfRoute DEF RouteMethod
    <2> QED
      BY <1>2, <2>2, <2>3, <2>4, <2>5
  <1>3. CASE route = "signIn"
    <2>1. message \in SignInResponse
      BY <1>3, ContractOfMethod DEF RouteMethod
    <2>2. PICK time : time = toDate(message.sessionExpiresAt)
      OBVIOUS
    <2>3. time \in Nat
      <3>1. PICK stamp : stamp = message.sessionExpiresAt
        OBVIOUS
      <3>2. stamp \in Timestamp
        BY <2>1, <3>1 DEF SignInResponse
      <3>3. stamp.seconds \in Nat /\ stamp.nanos \in Nat
        <4>1. NanosPerSecond - 1 \in Nat
          BY DEF NanosPerSecond
        <4> QED
          BY <3>2, <4>1 DEF Timestamp
      <3>4. stamp.nanos \div 1000000 \in Nat
        BY <3>3
      <3> QED
        BY <2>2, <3>1, <3>3, <3>4 DEF toDate
    <2>4. PICK user : user = [id |-> message.userId, emailVerified |-> message.emailVerified]
      OBVIOUS
    <2>5. user \in [id : Users, emailVerified : BOOLEAN]
      BY <2>1, <2>4 DEF SignInResponse
    <2>6. Success(route, message).body = With([session |-> time], [user |-> user])
      BY <1>3, <2>2, <2>4 DEF Success, Succeeded, toCurrentUserResponse
    <2>7. With([session |-> time], [user |-> user]) = [user |-> user, session |-> time]
      BY DEF With
    <2>8. [user |-> user, session |-> time]
            \in [user : [id : Users, emailVerified : BOOLEAN], session : Nat]
      BY <2>3, <2>5
    <2>9. Types[route].body = [user : [id : Users, emailVerified : BOOLEAN], session : Nat]
      BY <1>3, TypesOfRoute, Zenon
    <2> QED
      BY <2>6, <2>7, <2>8, <2>9, Zenon
  <1>4. CASE route = "signOut"
    <2>1. Success(route, message).body = <<>>
      BY <1>4 DEF Success, Succeeded
    <2>2. Types[route].body = {<<>>}
      BY <1>4, TypesOfRoute DEF SignOutResponse
    <2> QED
      BY <2>1, <2>2
  <1>5. CASE route = "currentUser"
    <2>1. message \in CurrentUserResponse
      BY <1>5, ContractOfMethod DEF RouteMethod
    <2>2. Success(route, message).body =
            [user |-> [id |-> message.userId, emailVerified |-> message.emailVerified]]
      BY <1>5 DEF Success, Succeeded, toCurrentUserResponse
    <2>3. Types[route].body = CurrentUserBody
      BY <1>5, TypesOfRoute
    <2> QED
      BY <2>1, <2>2, <2>3 DEF CurrentUserResponse, CurrentUserBody
  <1>6. CASE route = "createOrder"
    <2>1. message \in CreateOrderResponse
      BY <1>6, ContractOfMethod DEF RouteMethod
    <2>2. toOrderResponse(message).status # "throws"
      BY <1>6, OrdersShown
    <2>3. toOrderResponse(message) \in OrderResponse
      BY <2>1, <2>2, OrderShown DEF CreateOrderResponse
    <2>4. Success(route, message).body = toOrderResponse(message)
      BY <1>6, OrdersShown
    <2>5. Types[route].body = OrderResponse
      BY <1>6, TypesOfRoute
    <2> QED
      BY <2>3, <2>4, <2>5
  <1>7. CASE route \in {"cancelOrder", "getOrder"}
    <2>1. message \in CancelOrderResponse \/ message \in GetOrderResponse
      BY <1>7, ContractOfMethod DEF RouteMethod
    <2>2. toOrderResponse(message.order).status # "throws"
      BY <1>7, OrdersShown
    <2>3. message.order \in Order
      BY <2>1 DEF CancelOrderResponse, GetOrderResponse
    <2>4. toOrderResponse(message.order) \in OrderResponse
      BY <2>2, <2>3, OrderShown DEF Order
    <2>5. Success(route, message).body = toOrderResponse(message.order)
      BY <1>7, OrdersShown
    <2>6. Types[route].body = OrderResponse
      BY <1>7, TypesOfRoute
    <2> QED
      BY <2>4, <2>5, <2>6
  <1>8. CASE route = "listOrders"
    <2>1. message \in ListOrdersResponse
      BY <1>8, ContractOfMethod DEF RouteMethod
    <2>2. PICK all : all = {toOrderResponse(order) : order \in message.orders}
      OBVIOUS
    <2>3. \A order \in all : order.status # "throws"
      BY <1>8, <2>2, OrdersShown
    <2>4. ASSUME NEW order \in message.orders PROVE toOrderResponse(order) \in OrderResponse
      <3>1. order \in Order
        BY <2>1 DEF ListOrdersResponse
      <3>2. toOrderResponse(order).status # "throws"
        BY <2>2, <2>3
      <3> QED
        BY <3>1, <3>2, OrderShown DEF Order
    <2>5. all \in SUBSET OrderResponse
      BY <2>2, <2>4
    <2>6. Success(route, message).body = [orders |-> all]
      BY <1>8, <2>2, OrdersShown
    <2>7. Types[route].body = [orders : SUBSET OrderResponse]
      BY <1>8, TypesOfRoute, Zenon
    <2>8. [orders |-> all] \in [orders : SUBSET OrderResponse]
      BY <2>5
    <2> QED
      BY <2>6, <2>7, <2>8, Zenon
  <1>9. CASE route = "createPayment"
    <2>1. message \in CreatePaymentResponse
      BY <1>9, ContractOfMethod DEF RouteMethod
    <2>2. Success(route, message).body = [id |-> message.payment.id, orderId |-> message.payment.orderId]
      BY <1>9 DEF Success, Succeeded, toPaymentResponse
    <2>3. Types[route].body = Payment
      BY <1>9, TypesOfRoute
    <2>4. message.payment \in Payment
      BY <2>1 DEF CreatePaymentResponse
    <2> QED
      BY <2>2, <2>3, <2>4 DEF Payment
  <1>10. CASE route \in {"updateTicket", "getTicket"}
    <2>1. message \in UpdateTicketResponse \/ message \in GetTicketResponse
      BY <1>10, ContractOfMethod DEF RouteMethod
    <2>2. Success(route, message).body = message.ticket
      BY <1>10 DEF Success, Succeeded
    <2>3. Types[route].body = Ticket
      BY <1>10, TypesOfRoute
    <2> QED
      BY <2>1, <2>2, <2>3 DEF UpdateTicketResponse, GetTicketResponse
  <1> HIDE DEF Good
  <1>11. \/ route \in {"signUp", "verifyEmail", "signIn", "signOut", "currentUser"}
         \/ route \in {"createOrder", "cancelOrder", "getOrder", "listOrders", "createPayment"}
         \/ route \in {"createTicket", "updateTicket", "getTicket", "listTickets"}
    BY <1>0 DEF GuardedRoutes, OpenRoutes
  <1> QED
    BY <1>2, <1>3, <1>4, <1>5, <1>6, <1>7, <1>8, <1>9, <1>10, <1>11

LEMMA ResponseOK ==
    ASSUME NEW route \in Route, NEW reply,
           reply.code # "OK" => FailureTold(reply),
           reply.code = "OK" => reply.message \in Contract(RouteMethod[route]).output
    PROVE  ResponseTyped(route, Response(route, reply))
  <1>1. PICK response : response = Response(route, reply)
    OBVIOUS
  <1>2. /\ ErrorTold(response)
        /\ response.status \in {200, 201, 204, 400, 401, 403, 404, 409, 500, 503}
        /\ response.status < 400 => reply.code = "OK" /\ response = Success(route, reply.message)
    BY <1>1, ResponseTold
  <1>3. CASE response.status < 400
    <2>1. PICK message : message = reply.message
      OBVIOUS
    <2>2. message \in Contract(RouteMethod[route]).output /\ response = Success(route, message)
      BY <1>2, <1>3, <2>1
    <2>3. ASSUME \E order \in OrdersIn(route, message) : order.status = "throws" PROVE FALSE
      <3>1. response = Failed(throwGatewayGrpcError([kind |-> "other"], Fallback(route)))
        BY <1>1, <1>2, <1>3, <2>1, <2>3 DEF Response
      <3> QED
        BY <1>3, <3>1, OtherFailures
    <2>4. response.errors = {} /\ response.body \in Types[route].body
      BY <2>2, <2>3, SuccessTyped
    <2>5. ResponseTyped(route, response)
      BY <1>2, <1>3, <2>4 DEF ResponseTyped
    <2> QED
      BY <1>1, <2>5
  <1>4. CASE ~(response.status < 400)
    <2>1. response.status \in {400, 401, 403, 404, 409, 500, 503}
      BY <1>2, <1>4
    <2> QED
      BY <1>1, <1>2, <2>1, ErrorTyped
  <1> QED
    BY <1>3, <1>4

----------------------------------------------------------------------------
(* The tables of the services. *)

TicketRow == [price : Prices, userId : Users, reservedBy : OrderIds \cup {NoOrder}]

\* What an order or the copy of the orders service names is there, so that an event
\* that writes its reservation finds a row.
TablesTyped ==
    /\ \A t \in TicketIds : tickets[t] = Missing \/ tickets[t] \in TicketRow
    /\ \A t \in ticketsSeen : t \in TicketIds /\ tickets[t] # Missing
    /\ \A o \in OrderIds : orders[o] # Missing => tickets[orders[o].ticketId] # Missing
    /\ lapsed \subseteq OrderIds /\ payments \subseteq OrderIds
    /\ ordersSeen \in [OrderIds -> [{"tickets", "payments"} -> {"none", "Created", "Canceled"}]]

LEMMA TicketWritten ==
    ASSUME Rows, TablesTyped, NEW t \in TicketIds, NEW row \in TicketRow,
           tickets' = [tickets EXCEPT ![t] = row],
           UNCHANGED <<ticketsSeen, orders, lapsed, payments>>,
           (ordersSeen \in [OrderIds -> [{"tickets", "payments"} -> {"none", "Created", "Canceled"}]])'
    PROVE  TablesTyped'
  <1>1. row # Missing
    BY MissingAssumption DEF TicketRow
  <1>2. /\ tickets'[t] = row
        /\ \A x \in TicketIds : x # t => tickets'[x] = tickets[x]
    BY DEF Rows
  <1>3. \A x \in TicketIds : tickets[x] # Missing => tickets'[x] # Missing
    BY <1>1, <1>2
  <1>4. \A o \in OrderIds : orders[o] # Missing => orders[o].ticketId \in TicketIds
    BY DEF Rows, OrderRow
  <1> QED
    BY <1>2, <1>3, <1>4 DEF TablesTyped

LEMMA OrderRowWritten ==
    ASSUME Rows, TablesTyped, NEW o \in OrderIds, NEW row \in OrderRow,
           orders' = [orders EXCEPT ![o] = row], tickets[row.ticketId] # Missing,
           UNCHANGED <<tickets, ticketsSeen, lapsed, ordersSeen, payments>>
    PROVE  TablesTyped'
  <1>1. orders'[o] = row /\ \A x \in OrderIds : x # o => orders'[x] = orders[x]
    BY DEF Rows
  <1> QED
    BY <1>1 DEF TablesTyped

LEMMA OrderStatusWritten ==
    ASSUME Rows, TablesTyped, NEW o \in OrderIds, orders[o] # Missing,
           NEW status \in {"Created", "AwaitingPayment", "Complete", "Canceled"},
           orders' = [orders EXCEPT ![o].status = status],
           UNCHANGED <<tickets, ticketsSeen, lapsed, ordersSeen, payments>>
    PROVE  TablesTyped' /\ orders'[o] \in OrderRow
  <1>1. orders[o] \in OrderRow
    BY DEF Rows
  <1>2. PICK row : row = [orders[o] EXCEPT !.status = status]
    OBVIOUS
  <1>3. row \in OrderRow /\ row.ticketId = orders[o].ticketId /\ orders' = [orders EXCEPT ![o] = row]
    BY <1>1, <1>2 DEF OrderRow
  <1>4. tickets[row.ticketId] # Missing
    BY <1>3 DEF TablesTyped
  <1>5. orders'[o] = row
    BY <1>3 DEF Rows
  <1> QED
    BY <1>3, <1>4, <1>5, OrderRowWritten

LEMMA TablesSame ==
    ASSUME TablesTyped, UNCHANGED serviceVars
    PROVE  TablesTyped'
  BY DEF TablesTyped, serviceVars

----------------------------------------------------------------------------
(* What the services answer. *)

AnswersTyped(c, method) ==
    \E answer :
        /\ Reply(c, answer)
        /\ answer.code = "OK" => answer.message \in Contract(method).output

LEMMA OrderAnswered ==
    ASSUME NEW o \in OrderIds, NEW row \in OrderRow
    PROVE  /\ Svc!OrderOf(o, row) \in Order
           /\ \A created \in BOOLEAN : Svc!toCreateOrderResponse(o, row, created) \in CreateOrderResponse
  <1>1. PICK status : status = Svc!toOrderStatus(row.status)
    OBVIOUS
  <1>2. status \in OrderStatus
    BY <1>1 DEF Svc!toOrderStatus, OrderStatus
  <1>3. row.ticketId \in TicketIds /\ row.userId \in Users
    BY DEF OrderRow
  <1>4. Svc!OrderOf(o, row) =
          [id |-> o, ticketId |-> row.ticketId, userId |-> row.userId, status |-> status]
    BY <1>1 DEF Svc!OrderOf
  <1>5. \A created : Svc!toCreateOrderResponse(o, row, created) =
          [created |-> created, id |-> o, ticketId |-> row.ticketId, userId |-> row.userId,
           status |-> status]
    BY <1>1 DEF Svc!toCreateOrderResponse
  <1> QED
    BY <1>2, <1>3, <1>4, <1>5 DEF Order, CreateOrderResponse

LEMMA TicketAnswered ==
    ASSUME TablesTyped, NEW t \in TicketIds, tickets[t] # Missing
    PROVE  Svc!toTicketResponse(t) \in Ticket
  <1>1. tickets[t] \in TicketRow
    BY DEF TablesTyped
  <1> QED
    BY <1>1 DEF TicketRow, Ticket, Svc!toTicketResponse

\* Every handler of a service answers with the message its method declares, and leaves
\* the tables well formed.
LEMMA ServicesTyped ==
    ASSUME Rows, TablesTyped, NEW c \in Calls, Svc!Serve(c), NEW method, method = rpc[c].method,
           NEW request, request = rpc[c].request, request \in Contract(method).input
    PROVE  TablesTyped' /\ AnswersTyped(c, method)
  <1> DEFINE Good == TablesTyped' /\ AnswersTyped(c, method)
  <1> SUFFICES Good
    OBVIOUS
  <1>1. ASSUME NEW message \in Contract(method).output, Svc!Reply(c, Svc!Answer(message))
        PROVE  AnswersTyped(c, method)
    <2>1. PICK answer : answer = Answer(message)
      OBVIOUS
    <2>2. Reply(c, answer) /\ answer.message = message
      BY <1>1, <2>1, SameChannel DEF Svc!Answer, Answer
    <2> QED
      BY <2>2 DEF AnswersTyped
  <1>2. ASSUME NEW code, NEW item, code # "OK", Svc!Refuse(c, code, item)
        PROVE  AnswersTyped(c, method)
    <2>1. PICK answer : answer = Failure(code, {Item(item, "service")})
      OBVIOUS
    <2>2. Reply(c, answer) /\ answer.code = code
      BY <1>2, <2>1, SameChannel DEF Svc!Refuse, Svc!Failure, Failure, Svc!Item, Item
    <2> QED
      BY <1>2, <2>2 DEF AnswersTyped
  <1>3. UNCHANGED Svc!tables => TablesTyped'
    BY TablesSame DEF Svc!tables, serviceVars
  <1>4. ASSUME NEW condition, NEW code, NEW item, code # "OK", Svc!Refuses(c, condition, code, item)
        PROVE  Good
    BY <1>2, <1>3, <1>4 DEF Svc!Refuses
  <1>5. ASSUME Svc!Fail(c) PROVE Good
    BY <1>2, <1>3, <1>5 DEF Svc!Fail
  <1>6. ASSUME NEW message \in Contract(method).output, Svc!Read(c, message) PROVE Good
    BY <1>1, <1>3, <1>6 DEF Svc!Read
  <1> HIDE DEF Good
  <1>7. CASE Svc!CreateTicket(c)
    <2>0. method = "CreateTicket"
      BY <1>7 DEF Svc!CreateTicket, Svc!Waits
    <2>1. \/ Good
          \/ /\ Svc!validateMutation(request) = ""
             /\ \E t \in TicketIds :
                /\ tickets' = [tickets EXCEPT ![t] =
                     [price |-> request.price, userId |-> request.userId, reservedBy |-> NoOrder]]
                /\ Svc!Reply(c, Svc!Answer([id |-> t, price |-> request.price,
                                            userId |-> request.userId]))
             /\ UNCHANGED <<ticketsSeen, orders, lapsed, ordersSeen, payments>>
      BY <1>4, <1>5, <1>7 DEF Svc!CreateTicket
    <2>2. ASSUME Svc!validateMutation(request) = "", NEW t \in TicketIds,
                 tickets' = [tickets EXCEPT ![t] =
                     [price |-> request.price, userId |-> request.userId, reservedBy |-> NoOrder]],
                 Svc!Reply(c, Svc!Answer([id |-> t, price |-> request.price,
                                          userId |-> request.userId])),
                 UNCHANGED <<ticketsSeen, orders, lapsed, ordersSeen, payments>>
          PROVE  Good
      <3>1. request.price \in Prices /\ request.userId \in Users
        BY <2>2 DEF Svc!validateMutation
      <3>2. PICK row : row = [price |-> request.price, userId |-> request.userId, reservedBy |-> NoOrder]
        OBVIOUS
      <3>3. row \in TicketRow /\ tickets' = [tickets EXCEPT ![t] = row]
        BY <2>2, <3>1, <3>2 DEF TicketRow
      <3>4. TablesTyped'
        BY <2>2, <3>3, TicketWritten DEF TablesTyped
      <3>5. PICK message : message = [id |-> t, price |-> request.price, userId |-> request.userId]
        OBVIOUS
      <3>6. message \in CreateTicketResponse
        BY <3>1, <3>5 DEF CreateTicketResponse, Ticket
      <3>7. message \in Contract(method).output
        BY <2>0, <3>6, ContractOfMethod
      <3> QED
        BY <1>1, <2>2, <3>4, <3>5, <3>7 DEF Good
    <2> QED
      BY <2>1, <2>2
  <1>8. CASE Svc!UpdateTicket(c)
    <2>0. method = "UpdateTicket"
      BY <1>8 DEF Svc!UpdateTicket, Svc!Waits
    <2>1. PICK t : t = request.id
      OBVIOUS
    <2>2. \/ Good
          \/ /\ Svc!validateMutation(request) = "" /\ t \in TicketIds /\ tickets[t] # Missing
             /\ tickets' = [tickets EXCEPT ![t].price = request.price]
             /\ Svc!Reply(c, Svc!Answer([ticket |-> [id |-> t, price |-> request.price,
                                                     userId |-> request.userId]]))
             /\ UNCHANGED <<ticketsSeen, orders, lapsed, ordersSeen, payments>>
      BY <1>4, <1>5, <1>8, <2>1 DEF Svc!UpdateTicket
    <2>3. ASSUME Svc!validateMutation(request) = "", t \in TicketIds, tickets[t] # Missing,
                 tickets' = [tickets EXCEPT ![t].price = request.price],
                 Svc!Reply(c, Svc!Answer([ticket |-> [id |-> t, price |-> request.price,
                                                      userId |-> request.userId]])),
                 UNCHANGED <<ticketsSeen, orders, lapsed, ordersSeen, payments>>
          PROVE  Good
      <3>1. request.price \in Prices /\ request.userId \in Users
        BY <2>3 DEF Svc!validateMutation
      <3>2. PICK row : row = [tickets[t] EXCEPT !.price = request.price]
        OBVIOUS
      <3>3. tickets[t] \in TicketRow
        BY <2>3 DEF TablesTyped
      <3>4. row \in TicketRow
        BY <3>1, <3>2, <3>3 DEF TicketRow
      <3>5. tickets' = [tickets EXCEPT ![t] = row]
        BY <2>3, <3>2
      <3>6. TablesTyped'
        BY <2>3, <3>4, <3>5, TicketWritten DEF TablesTyped
      <3>7. PICK message : message = [ticket |-> [id |-> t, price |-> request.price,
                                                  userId |-> request.userId]]
        OBVIOUS
      <3>8. message \in UpdateTicketResponse
        BY <2>3, <3>1, <3>7 DEF UpdateTicketResponse, Ticket
      <3>9. message \in Contract(method).output
        BY <2>0, <3>8, ContractOfMethod
      <3> QED
        BY <1>1, <2>3, <3>6, <3>7, <3>9 DEF Good
    <2> QED
      BY <2>2, <2>3
  <1>9. CASE Svc!GetTicket(c)
    <2>0. method = "GetTicket"
      BY <1>9 DEF Svc!GetTicket, Svc!Waits
    <2>1. PICK t : t = request.id
      OBVIOUS
    <2>2. \/ Good
          \/ /\ t \in TicketIds /\ tickets[t] # Missing
             /\ Svc!Read(c, [ticket |-> Svc!toTicketResponse(t)])
      BY <1>4, <1>5, <1>9, <2>1 DEF Svc!GetTicket
    <2>3. ASSUME t \in TicketIds, tickets[t] # Missing,
                 Svc!Read(c, [ticket |-> Svc!toTicketResponse(t)])
          PROVE  Good
      <3>1. PICK message : message = [ticket |-> Svc!toTicketResponse(t)]
        OBVIOUS
      <3>2. message \in GetTicketResponse
        BY <2>3, <3>1, TicketAnswered DEF GetTicketResponse
      <3>3. message \in Contract(method).output
        BY <2>0, <3>2, ContractOfMethod
      <3> QED
        BY <1>6, <2>3, <3>1, <3>3
    <2> QED
      BY <2>2, <2>3
  <1>10. CASE Svc!ListTickets(c)
    <2>0. method = "ListTickets"
      BY <1>10 DEF Svc!ListTickets, Svc!Waits
    <2>1. PICK all : all = {Svc!toTicketResponse(t) : t \in {x \in TicketIds : tickets[x] # Missing}}
      OBVIOUS
    <2>2. Good \/ Svc!Read(c, [tickets |-> all])
      BY <1>5, <1>10, <2>1 DEF Svc!ListTickets
    <2>3. all \in SUBSET Ticket
      BY <2>1, TicketAnswered
    <2>4. PICK message : message = [tickets |-> all]
      OBVIOUS
    <2>5. message \in ListTicketsResponse
      BY <2>3, <2>4 DEF ListTicketsResponse
    <2>6. message \in Contract(method).output
      BY <2>0, <2>5, ContractOfMethod
    <2> QED
      BY <1>6, <2>2, <2>4, <2>6
  <1>11. CASE Svc!CreateOrder(c)
    <2>0. method = "CreateOrder"
      BY <1>11 DEF Svc!CreateOrder, Svc!Waits
    <2>1. PICK t, user : t = request.ticketId /\ user = request.userId
      OBVIOUS
    <2>2. \/ Good
          \/ \E o \in Svc!Reusable(Svc!findBlockingOrder(t), user) :
                Svc!Read(c, Svc!toCreateOrderResponse(o, orders[o], FALSE))
          \/ /\ Svc!validateTicketReservation(t, user) /\ t \in ticketsSeen
             /\ \E o \in OrderIds :
                    /\ orders' = [orders EXCEPT ![o] =
                         [ticketId |-> t, userId |-> user, status |-> "Created"]]
                    /\ Svc!Reply(c, Svc!Answer(Svc!toCreateOrderResponse(o, orders'[o], TRUE)))
             /\ UNCHANGED <<tickets, ticketsSeen, lapsed, ordersSeen, payments>>
      BY <1>4, <1>5, <1>11, <2>1 DEF Svc!CreateOrder
    <2>3. ASSUME NEW o \in Svc!Reusable(Svc!findBlockingOrder(t), user),
                 Svc!Read(c, Svc!toCreateOrderResponse(o, orders[o], FALSE))
          PROVE  Good
      <3>1. o \in OrderIds /\ orders[o] # Missing
        BY DEF Svc!Reusable, Svc!findBlockingOrder
      <3>2. orders[o] \in OrderRow
        BY <3>1 DEF Rows
      <3>3. PICK message : message = Svc!toCreateOrderResponse(o, orders[o], FALSE)
        OBVIOUS
      <3>4. message \in CreateOrderResponse
        BY <3>1, <3>2, <3>3, OrderAnswered
      <3>5. message \in Contract(method).output
        BY <2>0, <3>4, ContractOfMethod
      <3> QED
        BY <1>6, <2>3, <3>3, <3>5
    <2>4. ASSUME Svc!validateTicketReservation(t, user), t \in ticketsSeen, NEW o \in OrderIds,
                 orders' = [orders EXCEPT ![o] =
                         [ticketId |-> t, userId |-> user, status |-> "Created"]],
                 Svc!Reply(c, Svc!Answer(Svc!toCreateOrderResponse(o, orders'[o], TRUE))),
                 UNCHANGED <<tickets, ticketsSeen, lapsed, ordersSeen, payments>>
          PROVE  Good
      <3>1. PICK row : row = [ticketId |-> t, userId |-> user, status |-> "Created"]
        OBVIOUS
      <3>2. row \in OrderRow /\ row.ticketId = t /\ orders' = [orders EXCEPT ![o] = row]
        BY <2>4, <3>1 DEF OrderRow, Svc!validateTicketReservation
      <3>3. orders'[o] = row /\ tickets[row.ticketId] # Missing
        BY <2>4, <3>2 DEF Rows, TablesTyped
      <3>4. TablesTyped'
        BY <2>4, <3>2, <3>3, OrderRowWritten
      <3>5. PICK message : message = Svc!toCreateOrderResponse(o, row, TRUE)
        OBVIOUS
      <3>6. message \in CreateOrderResponse
        BY <3>2, <3>5, OrderAnswered
      <3>7. message \in Contract(method).output
        BY <2>0, <3>6, ContractOfMethod
      <3> QED
        BY <1>1, <2>4, <3>3, <3>4, <3>5, <3>7 DEF Good
    <2> QED
      BY <2>2, <2>3, <2>4
  <1>12. CASE Svc!CancelOrder(c) \/ Svc!GetOrder(c)
    <2>0. method \in {"CancelOrder", "GetOrder"}
      BY <1>12 DEF Svc!CancelOrder, Svc!GetOrder, Svc!Waits
    <2>1. PICK o, user : o = request.orderId /\ user = request.userId
      OBVIOUS
    <2>2. \/ Good
          \/ Svc!OwnOrder(o, user) /\ Svc!Read(c, [order |-> Svc!OrderOf(o, orders[o])])
          \/ /\ Svc!OwnOrder(o, user)
             /\ orders' = [orders EXCEPT ![o].status = "Canceled"]
             /\ Svc!Reply(c, Svc!Answer([order |-> Svc!OrderOf(o, orders'[o])]))
             /\ UNCHANGED <<tickets, ticketsSeen, lapsed, ordersSeen, payments>>
      <3>1. CASE Svc!CancelOrder(c)
        BY <1>4, <1>5, <2>1, <3>1 DEF Svc!CancelOrder
      <3>2. CASE Svc!GetOrder(c)
        BY <1>4, <1>5, <2>1, <3>2 DEF Svc!GetOrder
      <3> QED
        BY <1>12, <3>1, <3>2
    <2>3. ASSUME NEW row \in OrderRow, o \in OrderIds
          PROVE  [order |-> Svc!OrderOf(o, row)] \in Contract(method).output
      <3>1. PICK order : order = Svc!OrderOf(o, row)
        OBVIOUS
      <3>2. order \in Order
        BY <2>3, <3>1, OrderAnswered
      <3>3. [order |-> order] \in CancelOrderResponse /\ [order |-> order] \in GetOrderResponse
        BY <3>2 DEF CancelOrderResponse, GetOrderResponse
      <3> QED
        BY <2>0, <3>1, <3>3, ContractOfMethod
    <2>4. CASE Svc!OwnOrder(o, user) /\ Svc!Read(c, [order |-> Svc!OrderOf(o, orders[o])])
      <3>1. o \in OrderIds /\ orders[o] \in OrderRow
        BY <2>4 DEF Svc!OwnOrder, Rows
      <3>2. PICK message : message = [order |-> Svc!OrderOf(o, orders[o])]
        OBVIOUS
      <3>3. message \in Contract(method).output
        BY <2>3, <3>1, <3>2
      <3> QED
        BY <1>6, <2>4, <3>2, <3>3
    <2>5. CASE /\ Svc!OwnOrder(o, user)
               /\ orders' = [orders EXCEPT ![o].status = "Canceled"]
               /\ Svc!Reply(c, Svc!Answer([order |-> Svc!OrderOf(o, orders'[o])]))
               /\ UNCHANGED <<tickets, ticketsSeen, lapsed, ordersSeen, payments>>
      <3>1. o \in OrderIds /\ orders[o] # Missing
        BY <2>5 DEF Svc!OwnOrder
      <3>2. PICK status : status = "Canceled"
        OBVIOUS
      <3>3. TablesTyped' /\ orders'[o] \in OrderRow
        BY <2>5, <3>1, <3>2, OrderStatusWritten
      <3>4. PICK row : row = orders'[o]
        OBVIOUS
      <3>5. PICK message : message = [order |-> Svc!OrderOf(o, row)]
        OBVIOUS
      <3>6. message \in Contract(method).output
        BY <2>3, <3>1, <3>3, <3>4, <3>5
      <3>7. Svc!Reply(c, Svc!Answer(message))
        BY <2>5, <3>4, <3>5
      <3> QED
        BY <1>1, <3>3, <3>6, <3>7 DEF Good
    <2> QED
      BY <2>2, <2>4, <2>5
  <1>13. CASE Svc!ListOrders(c)
    <2>0. method = "ListOrders"
      BY <1>13 DEF Svc!ListOrders, Svc!Waits
    <2>1. PICK all : all = {Svc!OrderOf(o, orders[o]) :
                              o \in {x \in OrderIds : Svc!OwnOrder(x, request.userId)}}
      OBVIOUS
    <2>2. Good \/ Svc!Read(c, [orders |-> all])
      BY <1>5, <1>13, <2>1 DEF Svc!ListOrders
    <2>3. ASSUME NEW o \in OrderIds, Svc!OwnOrder(o, request.userId)
          PROVE  Svc!OrderOf(o, orders[o]) \in Order
      <3>1. orders[o] \in OrderRow
        BY <2>3 DEF Svc!OwnOrder, Rows
      <3> QED
        BY <3>1, OrderAnswered
    <2>4. all \in SUBSET Order
      BY <2>1, <2>3
    <2>5. PICK message : message = [orders |-> all]
      OBVIOUS
    <2>6. message \in ListOrdersResponse
      BY <2>4, <2>5 DEF ListOrdersResponse
    <2>7. message \in Contract(method).output
      BY <2>0, <2>6, ContractOfMethod
    <2> QED
      BY <1>6, <2>2, <2>5, <2>7
  <1>14. CASE Svc!CreatePayment(c)
    <2>0. method = "CreatePayment"
      BY <1>14 DEF Svc!CreatePayment, Svc!Waits
    <2>1. PICK o : o = request.orderId
      OBVIOUS
    <2>2. \/ Good
          \/ /\ o \in OrderIds
             /\ \/ Svc!Read(c, [created |-> FALSE, payment |-> [id |-> o, orderId |-> o]])
                \/ /\ payments' = payments \cup {o}
                   /\ UNCHANGED <<tickets, ticketsSeen, orders, lapsed, ordersSeen>>
                   /\ Svc!Reply(c, Svc!Answer([created |-> TRUE,
                                               payment |-> [id |-> o, orderId |-> o]]))
      BY <1>4, <1>5, <1>14, <2>1 DEF Svc!CreatePayment, Svc!validateOrder
    <2>3. ASSUME o \in OrderIds, NEW created \in BOOLEAN
          PROVE  [created |-> created, payment |-> [id |-> o, orderId |-> o]] \in Contract(method).output
      <3>1. PICK message : message = [created |-> created, payment |-> [id |-> o, orderId |-> o]]
        OBVIOUS
      <3>2. message \in CreatePaymentResponse
        BY <2>3, <3>1 DEF CreatePaymentResponse, Payment
      <3> QED
        BY <2>0, <3>1, <3>2, ContractOfMethod
    <2>4. CASE /\ o \in OrderIds
               /\ Svc!Read(c, [created |-> FALSE, payment |-> [id |-> o, orderId |-> o]])
      BY <1>6, <2>3, <2>4
    <2>5. CASE /\ o \in OrderIds /\ payments' = payments \cup {o}
               /\ UNCHANGED <<tickets, ticketsSeen, orders, lapsed, ordersSeen>>
               /\ Svc!Reply(c, Svc!Answer([created |-> TRUE, payment |-> [id |-> o, orderId |-> o]]))
      <3>1. TablesTyped'
        BY <2>5 DEF TablesTyped
      <3>2. AnswersTyped(c, method)
        BY <1>1, <2>3, <2>5
      <3> QED
        BY <3>1, <3>2 DEF Good
    <2> QED
      BY <2>2, <2>4, <2>5
  <1> QED
    BY <1>7, <1>8, <1>9, <1>10, <1>11, <1>12, <1>13, <1>14 DEF Svc!Serve

\* Events and time leave the tables well formed.
LEMMA EventsTyped ==
    ASSUME Rows, TablesTyped, Svc!Background
    PROVE  TablesTyped'
  <1>1. ASSUME NEW t \in TicketIds, Svc!TicketEvent(t) PROVE TablesTyped'
    BY <1>1 DEF Svc!TicketEvent, TablesTyped
  <1>2. ASSUME NEW o \in OrderIds, NEW service \in {"tickets", "payments"}, Svc!OrderEvent(o, service)
        PROVE  TablesTyped'
    <2>1. PICK t : t = orders[o].ticketId
      OBVIOUS
    <2>2. /\ orders[o] # Missing /\ t \in TicketIds /\ tickets[t] # Missing
          /\ UNCHANGED <<ticketsSeen, orders, lapsed, payments>>
      BY <1>2, <2>1 DEF Svc!OrderEvent, Rows, OrderRow, TablesTyped
    <2>3. tickets[t] \in TicketRow
      BY <2>2 DEF TablesTyped
    <2>4. (ordersSeen \in [OrderIds -> [{"tickets", "payments"} -> {"none", "Created", "Canceled"}]])'
      <3>1. \E status \in {"Created", "Canceled"} :
              ordersSeen' = [ordersSeen EXCEPT ![o][service] = status]
        BY <1>2 DEF Svc!OrderEvent
      <3>2. PICK status \in {"Created", "Canceled"} :
              ordersSeen' = [ordersSeen EXCEPT ![o][service] = status]
        BY <3>1
      <3>3. PICK seen : seen = [ordersSeen[o] EXCEPT ![service] = status]
        OBVIOUS
      <3>4. seen \in [{"tickets", "payments"} -> {"none", "Created", "Canceled"}]
        BY <3>3 DEF TablesTyped
      <3>5. ordersSeen' = [ordersSeen EXCEPT ![o] = seen]
        BY <3>2, <3>3
      <3> QED
        BY <3>4, <3>5 DEF TablesTyped
    <2>5. \/ tickets' = tickets
          \/ tickets' = [tickets EXCEPT ![t].reservedBy = o]
          \/ tickets' = [tickets EXCEPT ![t].reservedBy = NoOrder]
      BY <1>2, <2>1 DEF Svc!OrderEvent
    <2>6. CASE tickets' = tickets
      BY <2>2, <2>4, <2>6 DEF TablesTyped
    <2>7. ASSUME NEW by \in OrderIds \cup {NoOrder}, tickets' = [tickets EXCEPT ![t].reservedBy = by]
          PROVE  TablesTyped'
      <3>1. PICK row : row = [tickets[t] EXCEPT !.reservedBy = by]
        OBVIOUS
      <3>2. row \in TicketRow /\ tickets' = [tickets EXCEPT ![t] = row]
        BY <2>3, <2>7, <3>1 DEF TicketRow
      <3> QED
        BY <2>2, <2>4, <3>2, TicketWritten
    <2> QED
      BY <2>5, <2>6, <2>7
  <1>3. ASSUME NEW o \in OrderIds, Svc!Lapse(o) PROVE TablesTyped'
    BY <1>3 DEF Svc!Lapse, TablesTyped
  <1>4. ASSUME NEW o \in OrderIds, NEW status \in {"AwaitingPayment", "Complete", "Canceled"},
               Svc!OrderMoves(o, status)
        PROVE  TablesTyped'
    BY <1>4, OrderStatusWritten DEF Svc!OrderMoves
  <1> QED
    BY <1>1, <1>2, <1>3, <1>4 DEF Svc!Background

----------------------------------------------------------------------------
(* The tables of identity and what it answers. *)

IdentityTyped ==
    /\ users \in [Users -> {"none", "unverified", "verified"}]
    /\ mails \in [Users -> Nat]
    /\ \A t \in SessionTokens : sessions[t] # Id!Unused => sessions[t].user \in Users
    /\ now \in 0 .. MaxNow

\* An expiry is a timestamp: its nanoseconds are whole milliseconds within the second.
LEMMA ExpiryTyped ==
    ASSUME NEW m \in Nat
    PROVE  Id!toTimestamp(m) \in Timestamp
  <1>1. PICK seconds, part : seconds = m \div 1000 /\ part = m % 1000
    OBVIOUS
  <1>2. seconds \in Nat /\ part \in 0 .. 999
    BY <1>1
  <1>3. PICK nanos : nanos = part * 1000000
    OBVIOUS
  <1>4. nanos \in Int /\ 0 <= nanos /\ nanos <= 999000000
    BY <1>2, <1>3
  <1>5. NanosPerSecond \in Int /\ 999000000 <= NanosPerSecond - 1
    BY DEF NanosPerSecond
  <1>6. nanos \in 0 .. NanosPerSecond - 1
    BY <1>4, <1>5
  <1>7. Id!toTimestamp(m) = [seconds |-> seconds, nanos |-> nanos]
    BY <1>1, <1>3 DEF Id!toTimestamp
  <1> QED
    BY <1>2, <1>6, <1>7 DEF Timestamp

LEMMA UsersWritten ==
    ASSUME IdentityTyped, NEW user \in Users, NEW state \in {"unverified", "verified"},
           users' = [users EXCEPT ![user] = state], UNCHANGED <<mails, sessions, now>>
    PROVE  IdentityTyped'
  BY DEF IdentityTyped

LEMMA SessionsWritten ==
    ASSUME SessionsTyped, IdentityTyped, NEW t \in SessionTokens, NEW row, row.user \in Users,
           sessions' = [sessions EXCEPT ![t] = row], UNCHANGED <<users, mails, now>>
    PROVE  IdentityTyped'
  <1>1. sessions'[t] = row /\ \A x \in SessionTokens : x # t => sessions'[x] = sessions[x]
    BY DEF SessionsTyped
  <1> QED
    BY <1>1 DEF IdentityTyped

LEMMA IdentitySame ==
    ASSUME IdentityTyped, UNCHANGED <<users, mails, sessions, now>>
    PROVE  IdentityTyped'
  BY DEF IdentityTyped

\* An address that passes the validation is that of an account there may be.
LEMMA AddressValid ==
    ASSUME NEW request, "email" \in DOMAIN request, request.email \in Email,
           {Id!mapProtovalidateViolation(f) : f \in Id!Violations(request)} = {}
    PROVE  request.email \in Users
  <1>1. "email" \notin Id!Violations(request)
    OBVIOUS
  <1>2. request.email # "malformed"
    BY <1>1 DEF Id!Violations
  <1> QED
    BY <1>2 DEF Email

\* Every handler of identity answers with the message its method declares, or goes on
\* with what it needs for that, and leaves the tables well formed.
LEMMA IdentityAnswers ==
    ASSUME SessionsTyped, IdentityTyped, NEW c \in Calls, Id!Handle(c),
           NEW method, method = rpc[c].method,
           NEW request, request = rpc[c].request, request \in Contract(method).input,
           NEW cookie, cookie = rpc[c].metadata.cookie, Used(cookie),
           rpc[c].phase = "mailing" => request.email \in Users
    PROVE  /\ IdentityTyped'
           /\ \/ AnswersTyped(c, method)
              \/ rpc' = [rpc EXCEPT ![c].phase = "mailing"] /\ request.email \in Users
              \/ \E t : rpc' = [rpc EXCEPT ![c].phase = "expiry", ![c].token = t]
  <1> DEFINE Good == /\ IdentityTyped'
                     /\ \/ AnswersTyped(c, method)
                        \/ rpc' = [rpc EXCEPT ![c].phase = "mailing"] /\ request.email \in Users
                        \/ \E t : rpc' = [rpc EXCEPT ![c].phase = "expiry", ![c].token = t]
  <1> SUFFICES Good
    OBVIOUS
  <1>1. ASSUME IdentityTyped', AnswersTyped(c, method) PROVE Good
    BY <1>1
  <1>2. ASSUME IdentityTyped', rpc' = [rpc EXCEPT ![c].phase = "mailing"], request.email \in Users
        PROVE  Good
    BY <1>2
  <1>3. ASSUME IdentityTyped', NEW t, rpc' = [rpc EXCEPT ![c].phase = "expiry", ![c].token = t]
        PROVE  Good
    BY <1>3
  <1> HIDE DEF Good
  <1>4. ASSUME NEW message \in Contract(method).output, Id!Reply(c, Id!Answer(message))
        PROVE  AnswersTyped(c, method)
    <2>1. PICK answer : answer = Answer(message)
      OBVIOUS
    <2>2. Reply(c, answer) /\ answer.message = message
      BY <1>4, <2>1, SameChannel DEF Answer
    <2> QED
      BY <2>2 DEF AnswersTyped
  <1>5. ASSUME NEW code, NEW items, code # "OK", Id!Reply(c, Id!Failure(code, items))
        PROVE  AnswersTyped(c, method)
    <2>1. PICK answer : answer = Failure(code, items)
      OBVIOUS
    <2>2. Reply(c, answer) /\ answer.code = code
      BY <1>5, <2>1, SameChannel DEF Failure
    <2> QED
      BY <1>5, <2>2 DEF AnswersTyped
  <1>6. ASSUME NEW error, Id!Reply(c, Id!mapBetterAuthError(error)) PROVE AnswersTyped(c, method)
    <2>1. PICK code, items : code = Id!getGrpcStatusCode(error) /\ items = {Id!getErrorItem(error)}
      OBVIOUS
    <2>2. code # "OK"
      BY <2>1 DEF Id!getGrpcStatusCode
    <2>3. Id!Reply(c, Id!Failure(code, items))
      BY <1>6, <2>1 DEF Id!mapBetterAuthError
    <2> QED
      BY <1>5, <2>2, <2>3
  <1>7. ASSUME NEW name, Id!Reply(c, Id!mapBetterAuthSignInError(name)) PROVE AnswersTyped(c, method)
    <2>1. PICK code, items :
            code # "OK" /\ Id!mapBetterAuthSignInError(name) = Id!Failure(code, items)
      BY DEF Id!mapBetterAuthSignInError
    <2> QED
      BY <1>5, <1>7, <2>1
  <1>8. ASSUME NEW name, Id!Reply(c, Id!mapEmailVerificationError(name)) PROVE AnswersTyped(c, method)
    <2>1. PICK code, items :
            code # "OK" /\ Id!mapEmailVerificationError(name) = Id!Failure(code, items)
      BY DEF Id!mapEmailVerificationError
    <2> QED
      BY <1>5, <1>8, <2>1
  <1>9. CASE Id!signUp(c)
    <2>0. method = "SignUp" /\ UNCHANGED <<mails, sessions, now>>
      BY <1>9 DEF Id!signUp, Id!Waits
    <2>1. request \in SignUpRequest
      BY <2>0, ContractOfMethod
    <2>2. "email" \in DOMAIN request /\ request.email \in Email
      BY <2>1 DEF SignUpRequest
    <2>3. Id!validateSignUpRequest(request) = {} => request.email \in Users
      BY <2>2, AddressValid DEF Id!validateSignUpRequest
    <2>4. \/ /\ UNCHANGED users
             /\ Id!Reply(c, Id!Failure("INVALID_ARGUMENT", Id!validateSignUpRequest(request)))
          \/ /\ request.email \in Users
             /\ users' = [users EXCEPT ![request.email] = "unverified"]
             /\ rpc' = [rpc EXCEPT ![c].phase = "mailing"]
          \/ /\ UNCHANGED users /\ request.email \in Users
             /\ Id!Reply(c, Id!Answer([userId |-> request.email]))
          \/ UNCHANGED users /\ \E error : Id!Reply(c, Id!mapBetterAuthError(error))
      BY <1>9, <2>3 DEF Id!signUp
    <2>5. CASE UNCHANGED users
      <3>1. IdentityTyped'
        BY <2>0, <2>5, IdentitySame
      <3>2. ASSUME request.email \in Users, Id!Reply(c, Id!Answer([userId |-> request.email]))
            PROVE  AnswersTyped(c, method)
        <4>1. PICK message : message = [userId |-> request.email]
          OBVIOUS
        <4>2. message \in SignUpResponse
          BY <3>2, <4>1 DEF SignUpResponse
        <4>3. message \in Contract(method).output
          BY <2>0, <4>2, ContractOfMethod
        <4> QED
          BY <1>4, <3>2, <4>1, <4>3
      <3>3. ASSUME Id!Reply(c, Id!Failure("INVALID_ARGUMENT", Id!validateSignUpRequest(request)))
            PROVE  AnswersTyped(c, method)
        BY <1>5, <3>3
      <3>4. \/ AnswersTyped(c, method)
            \/ rpc' = [rpc EXCEPT ![c].phase = "mailing"] /\ request.email \in Users
        BY <1>6, <2>4, <3>2, <3>3
      <3> QED
        BY <1>1, <1>2, <3>1, <3>4
    <2>6. CASE /\ request.email \in Users
               /\ users' = [users EXCEPT ![request.email] = "unverified"]
               /\ rpc' = [rpc EXCEPT ![c].phase = "mailing"]
      <3>1. PICK user \in Users : user = request.email
        BY <2>6
      <3>2. PICK state \in {"unverified", "verified"} : state = "unverified"
        OBVIOUS
      <3>3. users' = [users EXCEPT ![user] = state]
        BY <2>6, <3>1, <3>2
      <3>4. IdentityTyped'
        BY <2>0, <3>3, UsersWritten
      <3> QED
        BY <1>2, <2>6, <3>4
    <2> QED
      BY <2>4, <2>5, <2>6
  <1>10. CASE Id!sendVerificationEmail(c)
    <2>0. method = "SignUp" /\ UNCHANGED <<users, sessions, now>> /\ request.email \in Users
      BY <1>10 DEF Id!sendVerificationEmail, Id!Waits
    <2>1. IdentityTyped'
      <3>1. PICK user \in Users : user = request.email
        BY <2>0
      <3>2. UNCHANGED mails \/ mails' = [mails EXCEPT ![user] = @ + 1]
        BY <1>10, <3>1 DEF Id!sendVerificationEmail
      <3>3. mails' \in [Users -> Nat]
        BY <3>2 DEF IdentityTyped
      <3> QED
        BY <2>0, <3>3 DEF IdentityTyped
    <2>2. PICK message : message = [userId |-> request.email]
      OBVIOUS
    <2>3. message \in SignUpResponse
      BY <2>0, <2>2 DEF SignUpResponse
    <2>4. message \in Contract(method).output
      BY <2>0, <2>3, ContractOfMethod
    <2>5. Id!Reply(c, Id!Answer(message)) \/ \E error : Id!Reply(c, Id!mapBetterAuthError(error))
      BY <1>10, <2>2 DEF Id!sendVerificationEmail
    <2>6. AnswersTyped(c, method)
      BY <1>4, <1>6, <2>4, <2>5
    <2> QED
      BY <1>1, <2>1, <2>6
  <1>11. CASE Id!signIn(c)
    <2>0. method = "SignIn" /\ UNCHANGED <<users, mails, now>>
      BY <1>11 DEF Id!signIn, Id!Waits
    <2>1. request \in SignInRequest
      BY <2>0, ContractOfMethod
    <2>2. "email" \in DOMAIN request /\ request.email \in Email
      BY <2>1 DEF SignInRequest
    <2>3. Id!validateSignInRequest(request) = {} => request.email \in Users
      BY <2>2, AddressValid DEF Id!validateSignInRequest
    <2>4. \/ /\ UNCHANGED sessions
             /\ \/ Id!Reply(c, Id!Failure("INVALID_ARGUMENT", Id!validateSignInRequest(request)))
                \/ \E name : Id!Reply(c, Id!mapBetterAuthSignInError(name))
          \/ \E t \in SessionTokens :
                /\ request.email \in Users
                /\ sessions' = [sessions EXCEPT ![t] =
                     [state |-> "live", user |-> request.email,
                      expiresAt |-> Id!Milliseconds + SessionAge]]
                /\ rpc' = [rpc EXCEPT ![c].phase = "expiry", ![c].token = t]
      BY <1>11, <2>3 DEF Id!signIn
    <2>5. CASE /\ UNCHANGED sessions
               /\ \/ Id!Reply(c, Id!Failure("INVALID_ARGUMENT", Id!validateSignInRequest(request)))
                  \/ \E name : Id!Reply(c, Id!mapBetterAuthSignInError(name))
      <3>1. IdentityTyped'
        BY <2>0, <2>5, IdentitySame
      <3>2. AnswersTyped(c, method)
        BY <1>5, <1>7, <2>5
      <3> QED
        BY <1>1, <3>1, <3>2
    <2>6. ASSUME NEW t \in SessionTokens, request.email \in Users,
                 sessions' = [sessions EXCEPT ![t] =
                     [state |-> "live", user |-> request.email,
                      expiresAt |-> Id!Milliseconds + SessionAge]],
                 rpc' = [rpc EXCEPT ![c].phase = "expiry", ![c].token = t]
          PROVE  Good
      <3>1. PICK row : row = [state |-> "live", user |-> request.email,
                              expiresAt |-> Id!Milliseconds + SessionAge]
        OBVIOUS
      <3>2. row.user \in Users /\ sessions' = [sessions EXCEPT ![t] = row]
        BY <2>6, <3>1
      <3>3. IdentityTyped'
        BY <2>0, <3>2, SessionsWritten
      <3> QED
        BY <1>3, <2>6, <3>3
    <2> QED
      BY <2>4, <2>5, <2>6
  <1>12. CASE Id!getSessionExpiry(c)
    <2>0. method = "SignIn" /\ UNCHANGED <<users, mails, sessions, now>>
      BY <1>12 DEF Id!getSessionExpiry, Id!Waits, Id!tables
    <2>1. IdentityTyped'
      BY <2>0, IdentitySame
    <2>2. PICK user, token : user = request.email /\ token = rpc[c].token
      OBVIOUS
    <2>3. \/ \E name : Id!Reply(c, Id!mapBetterAuthSignInError(name))
          \/ \E t \in Id!SessionRows(token, user) :
               Id!Reply(c, Id!Answer([userId |-> user, emailVerified |-> users[user] = "verified",
                             sessionToken |-> token,
                             sessionExpiresAt |-> Id!toTimestamp(sessions[t].expiresAt)]))
      BY <1>12, <2>2 DEF Id!getSessionExpiry
    <2>4. ASSUME NEW t \in Id!SessionRows(token, user),
                 Id!Reply(c, Id!Answer([userId |-> user, emailVerified |-> users[user] = "verified",
                             sessionToken |-> token,
                             sessionExpiresAt |-> Id!toTimestamp(sessions[t].expiresAt)]))
          PROVE  AnswersTyped(c, method)
      <3>1. token \in SessionTokens /\ t = token /\ sessions[t].state = "live" /\ sessions[t].user = user
        BY DEF Id!SessionRows
      <3>2. sessions[t] # Id!Unused
        BY <3>1 DEF Id!Unused
      <3>3. user \in Users /\ sessions[t].expiresAt \in Nat
        BY <3>1, <3>2 DEF IdentityTyped, SessionsTyped, IsSession
      <3>4. PICK verified : verified = (users[user] = "verified")
        OBVIOUS
      <3>5. verified \in BOOLEAN
        BY <3>4, Zenon
      <3>6. PICK expiry : expiry = Id!toTimestamp(sessions[t].expiresAt)
        OBVIOUS
      <3>7. expiry \in Timestamp
        BY <3>3, <3>6, ExpiryTyped
      <3>8. PICK message : message = [userId |-> user, emailVerified |-> verified,
                                      sessionToken |-> token, sessionExpiresAt |-> expiry]
        OBVIOUS
      <3>9. message \in SignInResponse
        BY <3>1, <3>3, <3>5, <3>7, <3>8 DEF SignInResponse
      <3>10. message \in Contract(method).output
        BY <2>0, <3>9, ContractOfMethod
      <3>11. Id!Reply(c, Id!Answer(message))
        BY <2>4, <3>4, <3>6, <3>8, Zenon
      <3> QED
        BY <1>4, <3>10, <3>11
    <2>5. AnswersTyped(c, method)
      BY <1>7, <2>3, <2>4
    <2> QED
      BY <1>1, <2>1, <2>5
  <1>13. CASE Id!signOut(c)
    <2>0. method = "SignOut" /\ UNCHANGED <<users, mails, now>>
      BY <1>13 DEF Id!signOut, Id!Waits
    <2>1. /\ \/ Id!Reply(c, Id!Answer(<<>>))
             \/ Id!Reply(c, Id!Failure("INTERNAL", {Id!ServiceItem("INTERNAL_ERROR")}))
          /\ \/ UNCHANGED sessions
             \/ /\ cookie # NoToken
                /\ sessions' = [sessions EXCEPT ![cookie].state = "revoked"]
      BY <1>13 DEF Id!signOut, Id!createSessionRequestHeaders, Id!mapBetterAuthSignOutError
    <2>2. <<>> \in Contract(method).output
      BY <2>0, ContractOfMethod DEF SignOutResponse
    <2>3. AnswersTyped(c, method)
      BY <1>4, <1>5, <2>1, <2>2
    <2>4. CASE UNCHANGED sessions
      <3>1. IdentityTyped'
        BY <2>0, <2>4, IdentitySame
      <3> QED
        BY <1>1, <2>3, <3>1
    <2>5. CASE cookie # NoToken /\ sessions' = [sessions EXCEPT ![cookie].state = "revoked"]
      <3>1. cookie \in SessionTokens /\ sessions[cookie] # Id!Unused
        BY <2>5 DEF Used
      <3>2. IsSession(sessions[cookie]) /\ sessions[cookie].user \in Users
        BY <3>1 DEF SessionsTyped, IdentityTyped
      <3>3. PICK row : row = [sessions[cookie] EXCEPT !.state = "revoked"]
        OBVIOUS
      <3>4. row.user \in Users /\ sessions' = [sessions EXCEPT ![cookie] = row]
        BY <2>5, <3>2, <3>3 DEF IsSession
      <3>5. IdentityTyped'
        BY <2>0, <3>1, <3>4, SessionsWritten
      <3> QED
        BY <1>1, <2>3, <3>5
    <2> QED
      BY <2>1, <2>4, <2>5
  <1>14. CASE Id!currentUser(c)
    <2>0. method = "CurrentUser" /\ UNCHANGED <<users, mails, now>>
      BY <1>14 DEF Id!currentUser, Id!Waits
    <2>1. PICK user : user = sessions[cookie].user
      OBVIOUS
    <2>2. \/ /\ Id!IsLive(cookie)
             /\ Id!Reply(c, Id!Answer([userId |-> user, emailVerified |-> users[user] = "verified"]))
             /\ \/ UNCHANGED sessions
                \/ sessions' = [sessions EXCEPT ![cookie].expiresAt = Id!Milliseconds + SessionAge]
          \/ /\ UNCHANGED sessions
             /\ \/ Id!Reply(c, Id!Failure("UNAUTHENTICATED", {Id!createCurrentUserUnauthenticatedError}))
                \/ Id!Reply(c, Id!Failure("INTERNAL", {Id!createCurrentUserInternalError}))
      BY <1>14, <2>1 DEF Id!currentUser, Id!createSessionRequestHeaders
    <2>3. CASE /\ UNCHANGED sessions
               /\ \/ Id!Reply(c, Id!Failure("UNAUTHENTICATED", {Id!createCurrentUserUnauthenticatedError}))
                  \/ Id!Reply(c, Id!Failure("INTERNAL", {Id!createCurrentUserInternalError}))
      <3>1. IdentityTyped'
        BY <2>0, <2>3, IdentitySame
      <3>2. AnswersTyped(c, method)
        BY <1>5, <2>3
      <3> QED
        BY <1>1, <3>1, <3>2
    <2>4. CASE /\ Id!IsLive(cookie)
               /\ Id!Reply(c, Id!Answer([userId |-> user, emailVerified |-> users[user] = "verified"]))
               /\ \/ UNCHANGED sessions
                  \/ sessions' = [sessions EXCEPT ![cookie].expiresAt = Id!Milliseconds + SessionAge]
      <3>1. cookie \in SessionTokens /\ sessions[cookie] # Id!Unused
        BY <2>4 DEF Used, Id!IsLive
      <3>2. IsSession(sessions[cookie]) /\ user \in Users
        BY <2>1, <3>1 DEF SessionsTyped, IdentityTyped
      <3>3. PICK verified : verified = (users[user] = "verified")
        OBVIOUS
      <3>4. verified \in BOOLEAN
        BY <3>3, Zenon
      <3>5. PICK message : message = [userId |-> user, emailVerified |-> verified]
        OBVIOUS
      <3>6. message \in CurrentUserResponse
        BY <3>2, <3>4, <3>5 DEF CurrentUserResponse
      <3>7. message \in Contract(method).output
        BY <2>0, <3>6, ContractOfMethod
      <3>8. Id!Reply(c, Id!Answer(message))
        BY <2>4, <3>3, <3>5, Zenon
      <3>9. AnswersTyped(c, method)
        BY <1>4, <3>7, <3>8
      <3>10. CASE UNCHANGED sessions
        <4>1. IdentityTyped'
          BY <2>0, <3>10, IdentitySame
        <4> QED
          BY <1>1, <3>9, <4>1
      <3>11. CASE sessions' = [sessions EXCEPT ![cookie].expiresAt = Id!Milliseconds + SessionAge]
        <4>1. PICK row : row = [sessions[cookie] EXCEPT !.expiresAt = Id!Milliseconds + SessionAge]
          OBVIOUS
        <4>2. row.user \in Users /\ sessions' = [sessions EXCEPT ![cookie] = row]
          BY <2>1, <3>2, <3>11, <4>1 DEF IsSession
        <4>3. IdentityTyped'
          BY <2>0, <3>1, <4>2, SessionsWritten
        <4> QED
          BY <1>1, <3>9, <4>3
      <3> QED
        BY <2>4, <3>10, <3>11
    <2> QED
      BY <2>2, <2>3, <2>4
  <1>15. CASE Id!verifyEmail(c)
    <2>0. method = "VerifyEmail" /\ UNCHANGED <<mails, sessions, now>>
      BY <1>15 DEF Id!verifyEmail, Id!Waits
    <2>1. \/ \E user \in Users :
               /\ users' = [users EXCEPT ![user] = "verified"]
               /\ Id!Reply(c, Id!Answer([verified |-> TRUE]))
          \/ UNCHANGED users /\ \E name : Id!Reply(c, Id!mapEmailVerificationError(name))
      BY <1>15 DEF Id!verifyEmail
    <2>2. CASE UNCHANGED users /\ \E name : Id!Reply(c, Id!mapEmailVerificationError(name))
      <3>1. IdentityTyped'
        BY <2>0, <2>2, IdentitySame
      <3>2. AnswersTyped(c, method)
        BY <1>8, <2>2
      <3> QED
        BY <1>1, <3>1, <3>2
    <2>3. ASSUME NEW user \in Users, users' = [users EXCEPT ![user] = "verified"],
                 Id!Reply(c, Id!Answer([verified |-> TRUE]))
          PROVE  Good
      <3>1. PICK state \in {"unverified", "verified"} : state = "verified"
        OBVIOUS
      <3>2. users' = [users EXCEPT ![user] = state]
        BY <2>3, <3>1
      <3>3. IdentityTyped'
        BY <2>0, <3>2, UsersWritten
      <3>4. PICK message : message = [verified |-> TRUE]
        OBVIOUS
      <3>5. message \in VerifyEmailResponse
        BY <3>4 DEF VerifyEmailResponse
      <3>6. message \in Contract(method).output
        BY <2>0, <3>5, ContractOfMethod
      <3>7. AnswersTyped(c, method)
        BY <1>4, <2>3, <3>4, <3>6
      <3> QED
        BY <1>1, <3>3, <3>7
    <2> QED
      BY <2>1, <2>2, <2>3
  <1> QED
    BY <1>9, <1>10, <1>11, <1>12, <1>13, <1>14, <1>15 DEF Id!Handle

----------------------------------------------------------------------------
(* Types of the calls and the requests. *)

\* A request that waits for its guard has a body to act on once it is validated, one
\* that waits for a service has called the method of its route.
RequestTyped(request, call) ==
    request # Idle =>
        /\ request.phase = "guard" =>
            (Invalid(request.route, request.body) = {} => request.body \in Bodies[request.route])
        /\ request.phase = "service" => call.method = RouteMethod[request.route]
        /\ request.phase = "answered" => ResponseTyped(request.route, request.response)

TypesInv ==
    /\ TablesTyped
    /\ IdentityTyped
    /\ wrote \subseteq Calls
    /\ \A c \in Calls : MessageOK(rpc[c])
    /\ \A r \in Requests : RequestTyped(http[r], rpc[http[r].call])

\* A call that is answered, or goes on, still carries its message.
LEMMA HandledTyped ==
    ASSUME SessionInv, CallsInv, TypesInv, NEW c \in Calls, Handle(c) \/ Crash(c)
    PROVE  TablesTyped' /\ IdentityTyped' /\ MessageOK(rpc'[c])
  <1>0. PICK call : call = rpc[c]
    OBVIOUS
  <1>1. /\ call # Idle /\ IsCall(call) /\ MessageOK(call) /\ Used(call.metadata.cookie)
        /\ SessionsTyped /\ Rows /\ TablesTyped /\ IdentityTyped
        /\ rpc = [d \in Calls |-> rpc[d]]
    BY <1>0, HandledCall DEF SessionInv, Shapes, CallTrue, CallsInv, TypesInv
  <1>2. PICK method, request, cookie :
          method = call.method /\ request = call.request /\ cookie = call.metadata.cookie
    OBVIOUS
  <1>3. request \in Contract(method).input /\ (call.phase = "mailing" => request.email \in Users)
    BY <1>1, <1>2 DEF MessageOK
  <1>4. MessageOK(Idle)
    BY DEF MessageOK
  <1>5. ASSUME NEW answer, Reply(c, answer),
               answer.code = "OK" => answer.message \in Contract(method).output
        PROVE  MessageOK(rpc'[c])
    <2>1. PICK y : /\ rpc' = [rpc EXCEPT ![c] = y]
                   /\ \/ call.abandoned /\ y = Idle
                      \/ /\ IsCall(y) /\ y.abandoned = call.abandoned
                         /\ y.method = call.method /\ y.metadata = call.metadata
                         /\ y.request = call.request
                         /\ y.phase = "done" /\ y.reply = answer
      BY <1>0, <1>1, <1>5, Replied
    <2>2. rpc'[c] = y
      BY <1>1, <2>1
    <2>3. CASE y # Idle
      BY <1>1, <1>2, <1>5, <2>1, <2>2, <2>3 DEF MessageOK
    <2> QED
      BY <1>4, <2>2, <2>3
  <1>6. AnswersTyped(c, method) => MessageOK(rpc'[c])
    BY <1>5 DEF AnswersTyped
  <1>7. ASSUME NEW y, rpc' = [rpc EXCEPT ![c] = y],
               y.method = call.method, y.metadata = call.metadata, y.request = call.request,
               y.phase # "done", y.phase = "mailing" => request.email \in Users
        PROVE  MessageOK(rpc'[c])
    <2>1. rpc'[c] = y
      BY <1>1, <1>7
    <2>2. MessageOK(y)
      BY <1>1, <1>2, <1>7 DEF MessageOK
    <2> QED
      BY <2>1, <2>2
  <1>8. CASE Crash(c)
    <2>1. PICK answer : answer = Failure("UNAVAILABLE", {})
      OBVIOUS
    <2>2. Reply(c, answer) /\ answer.code # "OK"
      BY <1>8, <2>1 DEF Crash, Drop, Failure
    <2>3. TablesTyped' /\ IdentityTyped'
      BY <1>1, <1>8, TablesSame, IdentitySame DEF Crash, identityVars
    <2> QED
      BY <1>5, <2>2, <2>3
  <1>9. CASE Svc!Serve(c) /\ UNCHANGED identityVars
    <2>1. TablesTyped' /\ AnswersTyped(c, method)
      BY <1>0, <1>1, <1>2, <1>3, <1>9, ServicesTyped
    <2>2. IdentityTyped'
      BY <1>1, <1>9, IdentitySame DEF identityVars
    <2> QED
      BY <1>6, <2>1, <2>2
  <1>10. CASE Id!Handle(c) /\ UNCHANGED serviceVars
    <2>1. /\ method = rpc[c].method /\ request = rpc[c].request /\ cookie = rpc[c].metadata.cookie
          /\ Used(cookie) /\ (rpc[c].phase = "mailing" => request.email \in Users)
      BY <1>0, <1>1, <1>2, <1>3
    <2>2. /\ IdentityTyped'
          /\ \/ AnswersTyped(c, method)
             \/ rpc' = [rpc EXCEPT ![c].phase = "mailing"] /\ request.email \in Users
             \/ \E t : rpc' = [rpc EXCEPT ![c].phase = "expiry", ![c].token = t]
      BY <1>1, <1>3, <1>10, <2>1, IdentityAnswers
    <2>3. TablesTyped'
      BY <1>1, <1>10, TablesSame
    <2>4. ASSUME rpc' = [rpc EXCEPT ![c].phase = "mailing"], request.email \in Users
          PROVE  MessageOK(rpc'[c])
      <3>1. PICK y : y = [call EXCEPT !.phase = "mailing"]
        OBVIOUS
      <3>2. /\ rpc' = [rpc EXCEPT ![c] = y] /\ y.phase = "mailing"
            /\ y.method = call.method /\ y.metadata = call.metadata /\ y.request = call.request
        BY <1>0, <1>1, <2>4, <3>1 DEF IsCall, CallFields
      <3> QED
        BY <1>7, <2>4, <3>2
    <2>5. ASSUME NEW t, rpc' = [rpc EXCEPT ![c].phase = "expiry", ![c].token = t]
          PROVE  MessageOK(rpc'[c])
      <3>1. PICK y : y = [call EXCEPT !.phase = "expiry", !.token = t]
        OBVIOUS
      <3>2. rpc' = [rpc EXCEPT ![c] = y]
        BY <1>0, <1>1, <2>5, <3>1
      <3>3. /\ y.phase = "expiry"
            /\ y.method = call.method /\ y.metadata = call.metadata /\ y.request = call.request
        BY <1>1, <3>1 DEF IsCall, CallFields
      <3> QED
        BY <1>7, <3>2, <3>3
    <2> QED
      BY <1>6, <2>2, <2>3, <2>4, <2>5
  <1> QED
    BY <1>8, <1>9, <1>10 DEF Handle

\* One call is begun, freed or left to itself.
LEMMA MessagesAfter ==
    ASSUME SessionInv, TypesInv, NEW c, NEW y, MessageOK(y), rpc' = [rpc EXCEPT ![c] = y]
    PROVE  \A d \in Calls : MessageOK(rpc'[d])
  <1> SUFFICES ASSUME NEW d \in Calls PROVE MessageOK(rpc'[d])
    OBVIOUS
  <1>1. rpc'[d] = IF d = c THEN y ELSE rpc[d]
    BY DEF SessionInv, Shapes
  <1> QED
    BY <1>1 DEF TypesInv

\* A request is answered.
LEMMA RespondTyped ==
    ASSUME SessionInv, NEW r \in Requests, NEW request, IsFilled(request), NEW response,
           Respond(r, request, response), ResponseTyped(request.route, response)
    PROVE  \A call : RequestTyped(http'[r], call)
  <1>1. PICK x : x = [request EXCEPT !.phase = "answered", !.call = "none", !.body = <<>>,
                                     !.response = response]
    OBVIOUS
  <1>2. x.phase = "answered" /\ x.response = response /\ x.route = request.route
    BY <1>1 DEF IsFilled, RequestFields
  <1>3. http'[r] = x
    BY <1>1 DEF Respond, SessionInv, Shapes
  <1> QED
    BY <1>2, <1>3 DEF RequestTyped

LEMMA ReleaseTyped ==
    ASSUME SessionInv, TypesInv, NEW r \in Requests, Release(r)
    PROVE  \A d \in Calls : MessageOK(rpc'[d])
  <1>1. PICK c, y : c = http[r].call /\ y = Idle
    OBVIOUS
  <1>2. rpc' = [rpc EXCEPT ![c] = y] /\ MessageOK(y)
    BY <1>1 DEF Release, MessageOK
  <1> QED
    BY <1>2, MessagesAfter

\* The validation pipe and the controller.
LEMMA DispatchTyped ==
    ASSUME SessionInv, TypesInv, NEW r \in Requests, NEW request, IsFilled(request),
           Dispatch(r, request),
           Invalid(request.route, request.body) = {} => request.body \in Bodies[request.route],
           request.route \in GuardedRoutes => request.user.id \in Users
    PROVE  /\ RequestTyped(http'[r], rpc'[http'[r].call])
           /\ \A d \in Calls : MessageOK(rpc'[d])
  <1> DEFINE invalid == Invalid(request.route, request.body)
             declared == DOMAIN request.body \ {"extra"}
             refusal == Failed(IF invalid # {} THEN createValidationApiError(invalid, declared)
                               ELSE UnauthorizedException)
  <1>1. CASE Respond(r, request, refusal) /\ (Release(r) \/ UNCHANGED rpc)
    <2>1. PICK response : response = refusal
      OBVIOUS
    <2>2. ErrorTold(response) /\ response.status \in {400, 401}
      <3>1. CASE invalid # {}
        BY <2>1, <3>1, OtherFailures
      <3>2. CASE invalid = {}
        BY <2>1, <3>2, OtherFailures
      <3> QED
        BY <3>1, <3>2
    <2>3. PICK route : route = request.route
      OBVIOUS
    <2>4. ResponseTyped(route, response)
      BY <2>2, ErrorTyped
    <2>5. \A call : RequestTyped(http'[r], call)
      BY <1>1, <2>1, <2>3, <2>4, RespondTyped
    <2>6. \A d \in Calls : MessageOK(rpc'[d])
      BY <1>1, ReleaseTyped DEF TypesInv
    <2> QED
      BY <2>5, <2>6
  <1>2. ASSUME invalid = {}, NEW c \in Calls,
               Start(r, c, ServiceCall(request.route, request.body, request.headers,
                                      request.user.id)),
               http' = [http EXCEPT ![r] = [request EXCEPT !.phase = "service", !.call = c]]
        PROVE  /\ RequestTyped(http'[r], rpc'[http'[r].call])
               /\ \A d \in Calls : MessageOK(rpc'[d])
    <2>1. PICK x : x = [request EXCEPT !.phase = "service", !.call = c]
      OBVIOUS
    <2>2. x.phase = "service" /\ x.call = c /\ x.route = request.route
      BY <2>1 DEF IsFilled, RequestFields
    <2>3. PICK call : call = ServiceCall(request.route, request.body, request.headers, request.user.id)
      OBVIOUS
    <2>4. http'[r] = x /\ rpc'[c] = call /\ rpc' = [rpc EXCEPT ![c] = call]
      BY <1>2, <2>1, <2>3 DEF Start, SessionInv, Shapes
    <2>5. MessageOK(call) /\ call.method = RouteMethod[request.route]
      <3>1. PICK route, body, headers, user :
              /\ route = request.route /\ body = request.body
              /\ headers = request.headers /\ user = request.user.id
        OBVIOUS
      <3>2. /\ route \in Route /\ body \in Bodies[route] /\ (route \in GuardedRoutes => user \in Users)
            /\ call = ServiceCall(route, body, headers, user)
        BY <1>2, <2>3, <3>1 DEF IsFilled
      <3>3. MessageOK(call) /\ call.method = RouteMethod[route]
        BY <3>2, CallTyped
      <3> QED
        BY <3>1, <3>3
    <2>6. RequestTyped(x, call)
      BY <2>2, <2>5 DEF RequestTyped
    <2>7. \A d \in Calls : MessageOK(rpc'[d])
      BY <2>4, <2>5, MessagesAfter
    <2> QED
      BY <2>2, <2>4, <2>6, <2>7
  <1>3. \/ Respond(r, request, refusal) /\ (Release(r) \/ UNCHANGED rpc)
        \/ /\ invalid = {}
           /\ \E c \in Calls :
                /\ Start(r, c, ServiceCall(request.route, request.body, request.headers,
                                      request.user.id))
                /\ http' = [http EXCEPT ![r] = [request EXCEPT !.phase = "service", !.call = c]]
    BY DEF Dispatch
  <1> QED
    BY <1>1, <1>2, <1>3

LEMMA AskTyped ==
    ASSUME SessionInv, TypesInv, NEW r \in Requests, Ask(r)
    PROVE  /\ RequestTyped(http'[r], rpc'[http'[r].call])
           /\ \A d \in Calls : MessageOK(rpc'[d])
  <1>1. PICK b \in load.browsers, want \in load.wanted : Receive(r, b, want)
    BY DEF Ask
  <1>2. /\ b \in Browsers /\ want.route \in Route
        /\ Invalid(want.route, want.body) = {} => want.body \in Bodies[want.route]
    BY <1>1, LoadsAssumption DEF SessionInv, Shapes
  <1>3. PICK stale : stale = ~Id!IsLive(createSessionRequestMetadata(HeadersOf(b)).cookie)
    OBVIOUS
  <1>4. stale \in BOOLEAN
    BY <1>3, Zenon
  <1>5. PICK new : new = [phase |-> "received", browser |-> b, route |-> want.route,
                    body |-> want.body, headers |-> HeadersOf(b), user |-> NoUser,
                    call |-> "none", response |-> Failed([kind |-> "other"]),
                    stale |-> ~Id!IsLive(createSessionRequestMetadata(HeadersOf(b)).cookie)]
    OBVIOUS
  <1>6. IsFilled(new) /\ new.route = want.route /\ new.body = want.body
    BY <1>2, <1>3, <1>4, <1>5 DEF IsFilled, RequestFields
  <1>7. Invalid(new.route, new.body) = {} => new.body \in Bodies[new.route]
    BY <1>2, <1>6
  <1>8. \/ ~AppModule[want.route].guarded /\ Dispatch(r, new)
        \/ \E c \in Calls :
             /\ Start(r, c, AuthServiceCall("currentUser", <<>>, HeadersOf(b)))
             /\ http' = [http EXCEPT ![r] = [new EXCEPT !.phase = "guard", !.call = c]]
    BY <1>1, <1>5 DEF Receive
  <1>9. CASE ~AppModule[want.route].guarded /\ Dispatch(r, new)
    <2>1. new.route \notin GuardedRoutes
      BY <1>2, <1>6, <1>9, Routes
    <2> QED
      BY <1>6, <1>7, <1>9, <2>1, DispatchTyped
  <1>10. ASSUME NEW c \in Calls, Start(r, c, AuthServiceCall("currentUser", <<>>, HeadersOf(b))),
                http' = [http EXCEPT ![r] = [new EXCEPT !.phase = "guard", !.call = c]]
        PROVE  /\ RequestTyped(http'[r], rpc'[http'[r].call])
               /\ \A d \in Calls : MessageOK(rpc'[d])
    <2>1. PICK x : x = [new EXCEPT !.phase = "guard", !.call = c]
      OBVIOUS
    <2>2. x.phase = "guard" /\ x.route = new.route /\ x.body = new.body
      BY <1>6, <2>1 DEF IsFilled, RequestFields
    <2>3. http'[r] = x
      BY <1>10, <2>1 DEF SessionInv, Shapes
    <2>4. RequestTyped(http'[r], rpc'[http'[r].call])
      BY <1>7, <2>2, <2>3 DEF RequestTyped
    <2>5. PICK headers : headers = HeadersOf(b)
      OBVIOUS
    <2>6. PICK y : y = AuthServiceCall("currentUser", <<>>, headers)
      OBVIOUS
    <2>7. MessageOK(y) /\ rpc' = [rpc EXCEPT ![c] = y]
      BY <1>10, <2>5, <2>6, GuardCallTyped DEF Start
    <2> QED
      BY <2>4, <2>7, MessagesAfter
  <1> QED
    BY <1>8, <1>9, <1>10

LEMMA GuardTyped ==
    ASSUME SessionInv, CallsInv, TypesInv, NEW r \in Requests, canActivate(r)
    PROVE  /\ RequestTyped(http'[r], rpc'[http'[r].call])
           /\ \A d \in Calls : MessageOK(rpc'[d])
  <1>0. PICK call : call = rpc[http[r].call]
    OBVIOUS
  <1>1. Calling(r) /\ http[r].phase = "guard" /\ call.phase = "done"
    BY <1>0 DEF canActivate, Calling
  <1>2. /\ http[r] # Idle /\ IsFilled(http[r])
        /\ RequestTrue(http[r], call) /\ call # Idle /\ CallTold(call) /\ MessageOK(call)
        /\ RequestTyped(http[r], call)
    BY <1>0, <1>1, CallingFacts DEF CallsInv, TypesInv
  <1>3. call.method = "CurrentUser"
    BY <1>1, <1>2 DEF RequestTrue
  <1>4. CASE /\ call.reply.code = "OK"
             /\ Dispatch(r, [http[r] EXCEPT !.user = toCurrentUserResponse(call.reply.message).user])
    <2>1. PICK request :
            request = [http[r] EXCEPT !.user = toCurrentUserResponse(call.reply.message).user]
      OBVIOUS
    <2>2. /\ request = [f \in RequestFields |-> request[f]]
          /\ request.route = http[r].route /\ request.body = http[r].body
          /\ request.stale = http[r].stale /\ request.browser = http[r].browser
          /\ request.user.id = call.reply.message.userId
      BY <1>2, <2>1 DEF IsFilled, RequestFields, toCurrentUserResponse
    <2>3. call.reply.message \in CurrentUserResponse
      BY <1>1, <1>2, <1>3, <1>4, ContractOfMethod DEF MessageOK
    <2>4. request.user.id \in Users
      BY <2>2, <2>3 DEF CurrentUserResponse
    <2>5. Invalid(request.route, request.body) = {} => request.body \in Bodies[request.route]
      BY <1>1, <1>2, <2>2 DEF RequestTyped
    <2>6. IsFilled(request) /\ Dispatch(r, request)
      BY <1>2, <1>4, <2>1, <2>2 DEF IsFilled
    <2> QED
      BY <2>4, <2>5, <2>6, DispatchTyped
  <1>5. CASE /\ call.reply.code # "OK" /\ Release(r)
             /\ Respond(r, http[r], Failed(throwGatewayGrpcError(GrpcError(call.reply), {})))
    <2>1. PICK response : response = Failed(throwGatewayGrpcError(GrpcError(call.reply), {}))
      OBVIOUS
    <2>2. PICK request, route : request = http[r] /\ route = http[r].route
      OBVIOUS
    <2>3. FailureTold(call.reply)
      BY <1>1, <1>2, <1>5 DEF CallTold
    <2>4. ErrorTold(response) /\ response.status \in {400, 401, 403, 404, 409, 500, 503}
      BY <2>1, <2>3, GrpcFailure
    <2>5. ResponseTyped(route, response)
      BY <2>4, ErrorTyped
    <2>6. IsFilled(request) /\ Respond(r, request, response) /\ ResponseTyped(request.route, response)
      BY <1>2, <1>5, <2>1, <2>2, <2>5
    <2> QED
      BY <1>5, <2>6, RespondTyped, ReleaseTyped
  <1> QED
    BY <1>0, <1>4, <1>5 DEF canActivate

LEMMA FinishTyped ==
    ASSUME SessionInv, CallsInv, TypesInv, NEW r \in Requests, Finish(r)
    PROVE  /\ RequestTyped(http'[r], rpc'[http'[r].call])
           /\ \A d \in Calls : MessageOK(rpc'[d])
  <1>0. PICK call, request, route :
          call = rpc[http[r].call] /\ request = http[r] /\ route = http[r].route
    OBVIOUS
  <1>1. Calling(r) /\ request.phase = "service" /\ call.phase = "done"
    BY <1>0 DEF Finish, Calling
  <1>2. /\ request # Idle /\ IsFilled(request) /\ route \in Route /\ route = request.route
        /\ call # Idle /\ CallTold(call) /\ MessageOK(call) /\ RequestTyped(request, call)
    BY <1>0, <1>1, CallingFacts DEF CallsInv, TypesInv, IsFilled
  <1>3. PICK reply : reply = call.reply
    OBVIOUS
  <1>4. reply.code # "OK" => FailureTold(reply)
    BY <1>1, <1>2, <1>3 DEF CallTold
  <1>5. call.method = RouteMethod[route]
    BY <1>1, <1>2 DEF RequestTyped
  <1>6. reply.code = "OK" => reply.message \in Contract(RouteMethod[route]).output
    BY <1>1, <1>2, <1>3, <1>5 DEF MessageOK
  <1>7. PICK response : response = Response(route, reply)
    OBVIOUS
  <1>8. ResponseTyped(request.route, response)
    BY <1>2, <1>4, <1>6, <1>7, ResponseOK
  <1>9. Respond(r, request, response) /\ Release(r)
    BY <1>0, <1>3, <1>7 DEF Finish
  <1> QED
    BY <1>2, <1>8, <1>9, RespondTyped, ReleaseTyped

LEMMA BreakTyped ==
    ASSUME SessionInv, CallsInv, TypesInv, NEW r \in Requests, Break(r)
    PROVE  /\ RequestTyped(http'[r], rpc'[http'[r].call])
           /\ \A d \in Calls : MessageOK(rpc'[d])
  <1>0. PICK c, request, route : c = http[r].call /\ request = http[r] /\ route = http[r].route
    OBVIOUS
  <1>1. Calling(r)
    BY DEF Break, Calling
  <1>2. PICK call : call = rpc[c]
    OBVIOUS
  <1>3. /\ IsFilled(request) /\ route \in Route /\ route = request.route
        /\ c \in Calls /\ call # Idle /\ IsCall(call) /\ MessageOK(call)
    BY <1>0, <1>1, <1>2, CallingFacts DEF TypesInv, IsFilled, SessionInv, Shapes
  <1>4. PICK reply : reply = Failure("UNAVAILABLE", {})
    OBVIOUS
  <1>5. FailureTold(reply) /\ reply.code # "OK"
    BY <1>4 DEF FailureTold, Failure
  <1>6. PICK response : response = Response(route, reply)
    OBVIOUS
  <1>7. ResponseTyped(request.route, response)
    BY <1>3, <1>5, <1>6, ResponseOK
  <1>8. Respond(r, request, response)
    BY <1>0, <1>4, <1>6 DEF Break
  <1>9. \A x : RequestTyped(http'[r], x)
    BY <1>3, <1>7, <1>8, RespondTyped
  <1>10. \A d \in Calls : MessageOK(rpc'[d])
    <2>1. CASE call.phase = "done"
      <3>1. rpc' = [rpc EXCEPT ![c] = Idle] /\ MessageOK(Idle)
        BY <1>0, <1>2, <2>1 DEF Break, Abandon, MessageOK
      <3> QED
        BY <3>1, MessagesAfter
    <2>2. CASE call.phase # "done"
      <3>1. PICK y : y = [call EXCEPT !.abandoned = TRUE]
        OBVIOUS
      <3>2. rpc' = [rpc EXCEPT ![c] = y]
        BY <1>0, <1>2, <2>2, <3>1 DEF Break, Abandon
      <3>3. /\ y.phase = call.phase /\ y.method = call.method /\ y.metadata = call.metadata
            /\ y.request = call.request
        BY <1>3, <3>1 DEF IsCall, CallFields
      <3>4. MessageOK(y)
        BY <1>3, <2>2, <3>3 DEF MessageOK
      <3> QED
        BY <3>2, <3>4, MessagesAfter
    <2> QED
      BY <2>1, <2>2
  <1> QED
    BY <1>9, <1>10

----------------------------------------------------------------------------
(* Every step keeps the types. *)

LEMMA TypesInvKept ==
    ASSUME SessionInv, CallsInv, TypesInv, [Next]_vars
    PROVE  TypesInv'
  <1>0. Shapes /\ SessionsTyped /\ Rows
    BY DEF SessionInv, Shapes, CallsInv
  <1> DEFINE Kept == /\ TablesTyped' /\ IdentityTyped' /\ wrote' \subseteq Calls
                     /\ \A c \in Calls : MessageOK(rpc'[c])
  <1>1. ASSUME NEW r \in Requests, RequestStep(r)
        PROVE  Kept /\ RequestTyped(http'[r], rpc'[http'[r].call])
    <2>1. TablesTyped' /\ IdentityTyped'
      <3>1. UNCHANGED serviceVars /\ UNCHANGED <<users, mails, sessions, now>>
        BY <1>1 DEF RequestStep, Ask, Receive, canActivate, Finish, Break, Deliver, Lose, identityVars
      <3> QED
        BY <3>1, TablesSame, IdentitySame DEF TypesInv
    <2>2. wrote' \subseteq Calls
      <3>1. wrote' \subseteq wrote
        <4>1. \A request : Dispatch(r, request) => wrote' \subseteq wrote
          BY DEF Dispatch, Start, Release
        <4> QED
          BY <1>1, <4>1 DEF RequestStep, Ask, Receive, canActivate, Finish, Break, Deliver, Lose,
                            Start, Release
      <3> QED
        BY <3>1 DEF TypesInv
    <2>3. CASE Deliver(r) \/ Lose(r)
      <3>1. http'[r] = Idle /\ UNCHANGED rpc
        BY <2>3 DEF Deliver, Lose, SessionInv, Shapes
      <3>2. \A c \in Calls : MessageOK(rpc'[c])
        BY <3>1 DEF TypesInv
      <3> QED
        BY <2>1, <2>2, <3>1, <3>2 DEF RequestTyped
    <2>4. CASE ~(Deliver(r) \/ Lose(r))
      <3>1. /\ RequestTyped(http'[r], rpc'[http'[r].call])
            /\ \A c \in Calls : MessageOK(rpc'[c])
        BY <1>1, <2>4, AskTyped, GuardTyped, FinishTyped, BreakTyped DEF RequestStep
      <3> QED
        BY <2>1, <2>2, <3>1
    <2> QED
      BY <2>3, <2>4
  <1>2. ASSUME NEW c \in Calls, Handle(c) \/ Crash(c) PROVE Kept
    <2>1. TablesTyped' /\ IdentityTyped' /\ MessageOK(rpc'[c])
      BY <1>2, HandledTyped
    <2>2. wrote' \subseteq wrote \cup {c}
      BY <1>2 DEF Handle, Crash
    <2>3. ASSUME NEW d \in Calls PROVE MessageOK(rpc'[d])
      <3>1. d # c => rpc'[d] = rpc[d]
        BY <1>2, HandledCall
      <3> QED
        BY <2>1, <3>1 DEF TypesInv
    <2> QED
      BY <2>1, <2>2, <2>3 DEF TypesInv
  <1>3. ASSUME Tick PROVE Kept
    <2>1. now' \in 0 .. MaxNow
      BY <1>3, TimeAssumption DEF Tick, Id!Tick, TypesInv, IdentityTyped
    <2>2. UNCHANGED serviceVars /\ UNCHANGED <<users, mails, sessions, rpc, wrote>>
      BY <1>3 DEF Tick, Id!Tick, Id!tables
    <2>3. IdentityTyped'
      BY <2>1, <2>2 DEF TypesInv, IdentityTyped
    <2>4. TablesTyped'
      BY <2>2, TablesSame DEF TypesInv
    <2>5. rpc' = rpc /\ wrote' = wrote
      BY <2>2
    <2> QED
      BY <2>3, <2>4, <2>5 DEF TypesInv
  <1>4. ASSUME Event PROVE Kept
    <2>1. TablesTyped'
      BY <1>0, <1>4, EventsTyped DEF Event, TypesInv
    <2>2. UNCHANGED <<users, mails, sessions, now, rpc, wrote>>
      BY <1>4 DEF Event, identityVars
    <2>3. IdentityTyped'
      BY <2>2, IdentitySame DEF TypesInv
    <2>4. rpc' = rpc /\ wrote' = wrote
      BY <2>2
    <2> QED
      BY <2>1, <2>3, <2>4 DEF TypesInv
  <1>5. ASSUME UNCHANGED vars PROVE Kept
    <2>1. UNCHANGED serviceVars /\ UNCHANGED <<users, mails, sessions, now, rpc, wrote>>
      BY <1>5 DEF vars, identityVars
    <2>2. TablesTyped' /\ IdentityTyped'
      BY <2>1, TablesSame, IdentitySame DEF TypesInv
    <2>3. rpc' = rpc /\ wrote' = wrote
      BY <2>1
    <2> QED
      BY <2>2, <2>3 DEF TypesInv
  <1> HIDE DEF Kept
  <1>6. Kept
    BY <1>1, <1>2, <1>3, <1>4, <1>5 DEF Next, Step, RequestStep
  <1>7. ASSUME NEW r \in Requests PROVE RequestTyped(http'[r], rpc'[http'[r].call])
    <2>1. CASE /\ http'[r] = http[r]
               /\ Calling(r) => rpc'[http[r].call].method = rpc[http[r].call].method
      <3>1. PICK request, call, new :
              request = http[r] /\ call = rpc[http[r].call] /\ new = rpc'[http[r].call]
        OBVIOUS
      <3>2. RequestTyped(request, call)
        BY <3>1 DEF TypesInv
      <3>3. RequestTyped(request, new)
        BY <2>1, <3>1, <3>2 DEF RequestTyped, Calling
      <3> QED
        BY <2>1, <3>1, <3>3
    <2> QED
      BY <1>1, <2>1, OwnSteps
  <1>8. /\ (\A c \in Calls : MessageOK(rpc[c]))'
        /\ (\A r \in Requests : RequestTyped(http[r], rpc[http[r].call]))'
    BY <1>6, <1>7 DEF Kept
  <1> QED
    BY <1>6, <1>8 DEF Kept, TypesInv

LEMMA TypesInvInit == Init => TypesInv
  <1> SUFFICES ASSUME Init PROVE TypesInv
    OBVIOUS
  <1>1. PICK l \in Loads : l = load
    BY DEF Init
  <1>2. /\ \A s \in l.signedIn : s.user \in Users
        /\ l.onSale \subseteq Ticket
    BY LoadsAssumption
  <1>3. TablesTyped
    <2>0. Svc!TablesInit(l.onSale)
      BY <1>1 DEF Init
    <2>1. \A x \in l.onSale : x.id \in TicketIds /\ x.price \in Prices /\ x.userId \in Users
      BY <1>2 DEF Ticket
    <2>2. ASSUME NEW t \in TicketIds
          PROVE  /\ tickets[t] = Missing \/ tickets[t] \in TicketRow
                 /\ (\E x \in l.onSale : x.id = t) => tickets[t] # Missing
      <3>1. CASE \E x \in l.onSale : x.id = t
        <4>1. PICK x : x = CHOOSE y \in l.onSale : y.id = t
          OBVIOUS
        <4>2. x \in l.onSale
          BY <3>1, <4>1
        <4>3. PICK row : row = [price |-> x.price, userId |-> x.userId, reservedBy |-> NoOrder]
          OBVIOUS
        <4>4. tickets[t] = row
          BY <2>0, <3>1, <4>1, <4>3 DEF Svc!TablesInit
        <4>5. row \in TicketRow
          BY <2>1, <4>2, <4>3 DEF TicketRow
        <4>6. row # Missing
          BY <4>5, MissingAssumption DEF TicketRow
        <4> QED
          BY <4>4, <4>5, <4>6
      <3>2. CASE ~ \E x \in l.onSale : x.id = t
        BY <2>0, <3>2 DEF Svc!TablesInit
      <3> QED
        BY <3>1, <3>2
    <2>3. ASSUME NEW t \in ticketsSeen PROVE t \in TicketIds /\ tickets[t] # Missing
      <3>1. \E x \in l.onSale : x.id = t
        BY <2>0 DEF Svc!TablesInit
      <3> QED
        BY <2>1, <2>2, <3>1
    <2>4. /\ \A o \in OrderIds : orders[o] = Missing
          /\ lapsed = {} /\ payments = {}
      BY <2>0 DEF Svc!TablesInit
    <2>5. ordersSeen \in [OrderIds -> [{"tickets", "payments"} -> {"none", "Created", "Canceled"}]]
      <3>1. PICK none : none = [tickets |-> "none", payments |-> "none"]
        OBVIOUS
      <3>2. none \in [{"tickets", "payments"} -> {"none", "Created", "Canceled"}]
        BY <3>1
      <3>3. ordersSeen = [o \in OrderIds |-> none]
        BY <2>0, <3>1 DEF Svc!TablesInit
      <3> QED
        BY <3>2, <3>3
    <2> QED
      BY <2>2, <2>3, <2>4, <2>5 DEF TablesTyped
  <1>4. IdentityTyped
    <2>1. users \in [Users -> {"none", "unverified", "verified"}] /\ mails \in [Users -> Nat]
      BY DEF Init
    <2>2. now \in 0 .. MaxNow
      BY TimeAssumption DEF Init
    <2>3. ASSUME NEW t \in SessionTokens, sessions[t] # Id!Unused PROVE sessions[t].user \in Users
      <3>1. \E s \in l.signedIn : s.token = t
        BY <1>1, <2>3 DEF Init
      <3>2. PICK s : s = CHOOSE y \in l.signedIn : y.token = t
        OBVIOUS
      <3>3. s \in l.signedIn
        BY <3>1, <3>2
      <3>4. sessions[t] = [state |-> "live", expiresAt |-> SessionAge, user |-> s.user]
        BY <1>1, <3>1, <3>2 DEF Init
      <3> QED
        BY <1>2, <3>3, <3>4
    <2> QED
      BY <2>1, <2>2, <2>3 DEF IdentityTyped
  <1>5. /\ \A c \in Calls : rpc[c] = Idle
        /\ \A r \in Requests : http[r] = Idle
        /\ wrote = {}
    BY DEF Init
  <1> QED
    BY <1>3, <1>4, <1>5 DEF TypesInv, MessageOK, RequestTyped

\* What is kept of the tables, the calls and the requests makes them well typed.
LEMMA TypesFollow ==
    ASSUME SessionInv, CallsInv, TypesInv
    PROVE  TypeOK
  <1>1. Svc!TablesOK
    <2>1. ticketsSeen \subseteq TicketIds
      BY DEF TypesInv, TablesTyped
    <2> QED
      BY <2>1 DEF TypesInv, TablesTyped, TicketRow, CallsInv, Rows, OrderRow, Svc!TablesOK
  <1>2. Id!TablesOK
    <2>1. ASSUME NEW t \in SessionTokens PROVE sessions[t] \in Id!Session \cup {Id!Unused}
      <3>1. CASE sessions[t] # Id!Unused
        <4>1. IsSession(sessions[t]) /\ sessions[t].user \in Users
          BY <3>1 DEF SessionInv, Shapes, SessionsTyped, TypesInv, IdentityTyped
        <4>2. sessions[t] \in Id!Session
          BY <4>1 DEF IsSession, Id!Session
        <4> QED
          BY <4>2
      <3> QED
        BY <3>1
    <2> QED
      BY <2>1 DEF TypesInv, IdentityTyped, Id!TablesOK
  <1>3. load \in Loads /\ wrote \subseteq Calls
    BY DEF SessionInv, Shapes, TypesInv
  <1>4. \A b \in Browsers : jar[b].token \in SessionTokens \cup {NoToken}
    BY DEF SessionInv, GoodCookie, Used
  <1>5. ASSUME NEW r \in Requests
        PROVE  /\ http[r].phase \in {"idle", "guard", "service", "answered"}
               /\ http[r].phase = "answered" =>
                   /\ http[r].response.status \in {200, 201, 204, 400, 401, 403, 404, 409, 500, 503}
                   /\ http[r].response.status >= 400 <=> http[r].response.errors # {}
                   /\ http[r].response.status < 400 => http[r].response.body \in Types[http[r].route].body
               /\ http[r].phase = "service" =>
                   rpc[http[r].call].request \in Types[http[r].route].sent
    <2>1. PICK request, call : request = http[r] /\ call = rpc[http[r].call]
      OBVIOUS
    <2>2. (request = Idle \/ IsRequest(request)) /\ RequestTyped(request, call)
      BY <2>1 DEF SessionInv, Shapes, TypesInv
    <2>3. request.phase \in {"idle", "guard", "service", "answered"}
      BY <2>2 DEF IsRequest, Idle
    <2>4. ASSUME request.phase = "answered" PROVE ResponseTyped(request.route, request.response)
      BY <2>2, <2>4, IdlePhase DEF RequestTyped
    <2>5. ASSUME request.phase = "service" PROVE call.request \in Types[request.route].sent
      <3>1. Calling(r) /\ request # Idle
        BY <2>1, <2>5, IdlePhase DEF Calling
      <3>2. call # Idle /\ MessageOK(call) /\ request.route \in Route
        BY <2>1, <2>2, <3>1, CallingFacts DEF TypesInv, IsRequest
      <3>3. call.method = RouteMethod[request.route]
        BY <2>2, <2>5, <3>1 DEF RequestTyped
      <3>4. call.request \in Contract(RouteMethod[request.route]).input
        BY <3>2, <3>3 DEF MessageOK
      <3> QED
        BY <3>2, <3>4, TypesOfRoute
    <2> QED
      BY <2>1, <2>3, <2>4, <2>5 DEF ResponseTyped
  <1>6. ASSUME NEW c \in Calls, rpc[c] # Idle
        PROVE  /\ WellFormed(c, IF rpc[c].method \in IdentityMethods
                                THEN IdentityService ELSE AllServices)
               /\ Id!createAuthRequestHeaders(rpc[c].metadata) = rpc[c].metadata.headers
               /\ rpc[c].metadata.headers # {} => rpc[c].method = "SignIn"
               /\ Id!createSessionRequestHeaders(rpc[c].metadata) # NoToken =>
                   rpc[c].method \in {"SignOut", "CurrentUser"}
    <2>1. PICK call, metadata : call = rpc[c] /\ metadata = rpc[c].metadata
      OBVIOUS
    <2>2. MessageOK(call) /\ CallTold(call) /\ Used(metadata.cookie)
      BY <1>6, <2>1 DEF TypesInv, CallsInv, SessionInv, CallTrue
    <2>3. /\ metadata = [cookie |-> metadata.cookie, headers |-> metadata.headers]
          /\ metadata.headers \subseteq FORWARDED_AUTH_HEADERS
          /\ metadata.headers # {} => call.method = "SignIn"
          /\ metadata.cookie # NoToken => call.method \in {"SignOut", "CurrentUser"}
      BY <1>6, <2>1, <2>2 DEF MessageOK
    <2>4. FORWARDED_AUTH_HEADERS \subseteq Headers /\ FORWARDED_AUTH_HEADERS = Id!FORWARDED_AUTH_HEADERS
      BY DEF FORWARDED_AUTH_HEADERS, Headers, Id!FORWARDED_AUTH_HEADERS
    <2>5. metadata \in Metadata
      <3>1. PICK cookie, names : cookie = metadata.cookie /\ names = metadata.headers
        OBVIOUS
      <3>2. metadata = [cookie |-> cookie, headers |-> names]
        BY <2>3, <3>1
      <3>3. cookie \in SessionTokens \cup {NoToken} /\ names \in SUBSET Headers
        BY <2>2, <2>3, <2>4, <3>1 DEF Used
      <3> QED
        BY <3>2, <3>3 DEF Metadata
    <2>6. Id!createAuthRequestHeaders(metadata) = metadata.headers
      BY <2>3, <2>4 DEF Id!createAuthRequestHeaders
    <2>7. PICK service : service = IF call.method \in IdentityMethods THEN IdentityService ELSE AllServices
      OBVIOUS
    <2>8. Contract(call.method) = service[call.method]
      BY <2>7 DEF Contract
    <2>9. call.request \in service[call.method].input
      BY <1>6, <2>1, <2>2, <2>8 DEF MessageOK
    <2>10. ASSUME call.phase = "done", call.reply.code = "OK"
           PROVE  call.reply.message \in service[call.method].output
      BY <1>6, <2>1, <2>2, <2>8, <2>10 DEF MessageOK
    <2>11. ASSUME call.phase = "done", call.reply.code # "OK"
           PROVE  call.reply.code \in GrpcCode /\ call.reply.details \subseteq ErrorItem
      <3>1. FailureTold(call.reply)
        BY <1>6, <2>1, <2>2, <2>11 DEF CallTold
      <3> QED
        BY <3>1, ItemsAreErrors DEF FailureTold, ClientCode, GrpcCode
    <2>12. WellFormed(c, service)
      BY <2>1, <2>5, <2>9, <2>10, <2>11 DEF WellFormed
    <2> QED
      BY <2>1, <2>3, <2>6, <2>7, <2>12 DEF Id!createSessionRequestHeaders
  <1> QED
    BY <1>1, <1>2, <1>3, <1>4, <1>5, <1>6 DEF TypeOK

\* Every call carries and gets a message its method declares, and every response has the
\* body the gateway declares for its route: the hand-written declarations of the gateway
\* and the generated ones of the services agree (identity.types.ts, orders.types.ts,
\* payments.types.ts, tickets.types.ts), whatever is lost, refused or interleaved.
THEOREM TypesKept == Spec => []TypeOK
  <1>1. Init => TypesInv
    BY TypesInvInit
  <1>2. SessionInv /\ CallsInv /\ TypesInv /\ [Next]_vars => TypesInv'
    BY TypesInvKept
  <1>3. SessionInv /\ CallsInv /\ TypesInv => TypeOK
    BY TypesFollow
  <1> QED
    BY <1>1, <1>2, <1>3, GatewaySound, PTL DEF Spec
=============================================================================
