------------------------------ MODULE Identity ------------------------------
(***************************************************************************)
(* The identity service: accounts, email verification and sessions.  The   *)
(* service keeps them in its database through Better Auth, a library that  *)
(* is modelled from the calls the service makes and the errors it maps.    *)
(*                                                                         *)
(* rpc holds the gRPC calls.  A call that awaits something in between has  *)
(* a phase of its own there: the new account before its email is sent      *)
(* ("mailing"), the new session before its expiry is read ("expiry").      *)
(* Gateway is its only client, and lets it die at any of these points.     *)
(***************************************************************************)
EXTENDS Channel, Integers

CONSTANTS
    SessionAge,  \* lifetime of a session in milliseconds
    TickLength,  \* milliseconds between two readings of the clock
    MaxNow       \* bound of the clock

VARIABLES
    users,     \* table "user": whether the account exists and is verified
    mails,     \* verification emails sent to each address
    sessions,  \* table "session" by token; a deleted row is kept as revoked
    now        \* the clock

tables == <<users, mails, sessions>>

Session == [state : {"live", "revoked"}, user : Users, expiresAt : Nat]
Unused == [state |-> "unused"]

\* The headers Better Auth checks a browser's sign-in with.
FORWARDED_AUTH_HEADERS ==
    {"origin", "referer", "sec-fetch-dest", "sec-fetch-mode", "sec-fetch-site",
     "user-agent"}

Milliseconds == now * TickLength

-----------------------------------------------------------------------------
(* Validation and errors *)

\* A code that is unknown, or unspecified, is made public as an internal error.
toPublicErrorCode(code) ==
    IF code \in ErrorCode \ {"UNSPECIFIED"} THEN code ELSE "INTERNAL_ERROR"

ServiceItem(code) == Item(toPublicErrorCode(code), "service")

\* The fields of a request that break a rule of its message.
Violations(request) ==
    {f \in DOMAIN request :
        \/ f = "name" /\ request[f] \in {"blank", "empty"}
        \/ f = "email" /\ request[f] = "malformed"
        \/ f = "password" /\ request[f] = "short"}

mapProtovalidateViolation(field) ==
    ServiceItem(CASE field = "name" -> "INVALID_NAME"
                  [] field = "email" -> "INVALID_EMAIL"
                  [] field = "password" -> "INVALID_PASSWORD"
                  [] OTHER -> "INVALID_ARGUMENT")

validateSignUpRequest(request) ==
    {mapProtovalidateViolation(f) : f \in Violations(request)}

validateSignInRequest(request) ==
    {mapProtovalidateViolation(f) : f \in Violations(request)}

\* What Better Auth throws: an APIError with an HTTP status and a code, or any
\* other error (statusCode 0, no code).
BetterAuthError ==
    {[statusCode |-> 0, code |-> "none"],
     [statusCode |-> 400, code |-> "INVALID_EMAIL"],
     [statusCode |-> 400, code |-> "PASSWORD_TOO_SHORT"],
     [statusCode |-> 409, code |-> "none"],
     [statusCode |-> 422, code |-> "none"],
     [statusCode |-> 500, code |-> "none"]}

getGrpcStatusCode(error) ==
    CASE error.statusCode = 409 -> "ALREADY_EXISTS"
      [] error.statusCode \in 400 .. 499 \ {409} -> "INVALID_ARGUMENT"
      [] OTHER -> "INTERNAL"

BadPassword == {"INVALID_PASSWORD", "PASSWORD_TOO_SHORT", "PASSWORD_TOO_LONG"}

\* The code of the library comes first, then its status.
getErrorItem(error) ==
    LET named == error.code \in BadPassword \cup {"INVALID_EMAIL"} IN
    ServiceItem(CASE error.code = "INVALID_EMAIL" -> "INVALID_EMAIL"
                  [] error.code \in BadPassword -> "INVALID_PASSWORD"
                  [] ~named /\ error.statusCode = 409 -> "ALREADY_EXISTS"
                  [] ~named /\ error.statusCode \notin {0, 409} -> "INVALID_ARGUMENT"
                  [] ~named /\ error.statusCode = 0 -> "INTERNAL_ERROR")

mapBetterAuthError(error) == Failure(getGrpcStatusCode(error), {getErrorItem(error)})

createEmailNotVerifiedError == ServiceItem("EMAIL_NOT_VERIFIED")

createInvalidCredentialsError == ServiceItem("INVALID_CREDENTIALS")

createSigninInternalError == ServiceItem("INTERNAL_ERROR")

mapBetterAuthSignInError(code) ==
    CASE code = "EMAIL_NOT_VERIFIED" ->
            Failure("UNAUTHENTICATED", {createEmailNotVerifiedError})
      [] code = "INVALID_EMAIL_OR_PASSWORD" ->
            Failure("UNAUTHENTICATED", {createInvalidCredentialsError})
      [] OTHER -> Failure("INTERNAL", {createSigninInternalError})

mapBetterAuthSignOutError == Failure("INTERNAL", {ServiceItem("INTERNAL_ERROR")})

createCurrentUserUnauthenticatedError == ServiceItem("UNAUTHENTICATED")

createCurrentUserInternalError == ServiceItem("INTERNAL_ERROR")

hasVerificationErrorCode(code) == code \in {"INVALID_TOKEN", "TOKEN_EXPIRED"}

mapEmailVerificationError(code) ==
    IF hasVerificationErrorCode(code)
    THEN Failure("UNAUTHENTICATED", {ServiceItem("INVALID_VERIFICATION_TOKEN")})
    ELSE Failure("INTERNAL", {ServiceItem("INTERNAL_ERROR")})

\* Milliseconds as seconds and nanoseconds.
toTimestamp(milliseconds) ==
    [seconds |-> milliseconds \div 1000, nanos |-> (milliseconds % 1000) * 1000000]

-----------------------------------------------------------------------------
(* Calls *)

\* Only the session cookie, and only when there is one.
createSessionRequestHeaders(metadata) == metadata.cookie

createAuthRequestHeaders(metadata) == metadata.headers \cap FORWARDED_AUTH_HEADERS

\* The options of Better Auth: no sign-in before the address is verified, no
\* session from the sign-up itself, no email from a sign-in.
requireEmailVerification == TRUE

\* signUp: a request that breaks a rule is refused.  For a new address Better
\* Auth stores an unverified account and goes on to send the email; for a known
\* one it gives the same answer and does nothing.
signUp(c) ==
    LET request == rpc[c].request
        errors == validateSignUpRequest(request) IN
    /\ Waits(c, "sent", "SignUp")
    /\ UNCHANGED <<mails, sessions, now>>
    /\ \/ /\ errors # {}
          /\ Reply(c, Failure("INVALID_ARGUMENT", errors))
          /\ UNCHANGED users
       \/ /\ errors = {}
          /\ users[request.email] = "none"
          /\ users' = [users EXCEPT ![request.email] = "unverified"]
          /\ rpc' = [rpc EXCEPT ![c].phase = "mailing"]
       \/ /\ errors = {}
          /\ users[request.email] # "none"
          /\ Reply(c, Answer([userId |-> request.email]))
          /\ UNCHANGED users
       \/ /\ errors = {}
          /\ \E error \in BetterAuthError : Reply(c, mapBetterAuthError(error))
          /\ UNCHANGED users

\* The email goes out, or the mail server fails; Better Auth may let that
\* failure through or only log it.
sendVerificationEmail(c) ==
    LET user == rpc[c].request.email IN
    /\ Waits(c, "mailing", "SignUp")
    /\ UNCHANGED <<users, sessions, now>>
    /\ \/ /\ mails' = [mails EXCEPT ![user] = @ + 1]
          /\ Reply(c, Answer([userId |-> user]))
       \/ /\ UNCHANGED mails
          /\ \/ Reply(c, Answer([userId |-> user]))
             \/ Reply(c, mapBetterAuthError([statusCode |-> 0, code |-> "none"]))

\* signInEmail of Better Auth: no session without the right password of a
\* verified account.
signIn(c) ==
    LET request == rpc[c].request
        errors == validateSignInRequest(request) IN
    /\ Waits(c, "sent", "SignIn")
    /\ UNCHANGED <<users, mails, now>>
    /\ \/ /\ errors # {}
          /\ Reply(c, Failure("INVALID_ARGUMENT", errors))
          /\ UNCHANGED sessions
       \/ /\ errors = {}
          /\ users[request.email] = "none" \/ request.password = "wrong"
          /\ Reply(c, mapBetterAuthSignInError("INVALID_EMAIL_OR_PASSWORD"))
          /\ UNCHANGED sessions
       \/ /\ errors = {}
          /\ users[request.email] = "unverified" /\ request.password = "right"
          /\ requireEmailVerification
          /\ Reply(c, mapBetterAuthSignInError("EMAIL_NOT_VERIFIED"))
          /\ UNCHANGED sessions
       \/ /\ errors = {}
          /\ \/ users[request.email] = "verified"
             \/ users[request.email] = "unverified" /\ ~requireEmailVerification
          /\ request.password = "right"
          /\ \E t \in SessionTokens :
                /\ sessions[t] = Unused
                /\ sessions' = [sessions EXCEPT ![t] =
                     [state |-> "live", user |-> request.email,
                      expiresAt |-> Milliseconds + SessionAge]]
                /\ rpc' = [rpc EXCEPT ![c].phase = "expiry", ![c].token = t]
       \/ /\ errors = {}
          /\ Reply(c, mapBetterAuthSignInError("none"))
          /\ UNCHANGED sessions

\* Mutant: the SELECT looks for the user only.
SessionRowsOfUser(token, user) ==
    {t \in SessionTokens : sessions[t].state = "live" /\ sessions[t].user = user}

\* The rows of the SELECT for the expiry of the session just created.
SessionRows(token, user) ==
    {t \in SessionTokens : t = token /\ sessions[t].state = "live" /\ sessions[t].user = user}

\* signIn goes on: the session row may be gone, or the database fail, and the
\* caller is told of an error although the session was created.
getSessionExpiry(c) ==
    LET user == rpc[c].request.email
        rows == SessionRows(rpc[c].token, user) IN
    /\ Waits(c, "expiry", "SignIn")
    /\ UNCHANGED <<tables, now>>
    /\ \/ \E t \in rows :
            Reply(c, Answer([userId |-> user, emailVerified |-> users[user] = "verified",
                             sessionToken |-> rpc[c].token,
                             sessionExpiresAt |-> toTimestamp(sessions[t].expiresAt)]))
       \/ Reply(c, mapBetterAuthSignInError("none"))

IsLive(t) ==
    t # NoToken /\ sessions[t].state = "live" /\ Milliseconds < sessions[t].expiresAt

\* signOut deletes the session of the cookie, if there is one. Better Auth is
\* assumed to throw when the deletion fails: catch is all that tells identity.
signOut(c) ==
    LET t == createSessionRequestHeaders(rpc[c].metadata) IN
    /\ Waits(c, "sent", "SignOut")
    /\ UNCHANGED <<users, mails, now>>
    /\ \/ /\ Reply(c, Answer(<<>>))
          /\ IF t # NoToken /\ sessions[t].state = "live"
             THEN sessions' = [sessions EXCEPT ![t].state = "revoked"]
             ELSE UNCHANGED sessions
       \/ /\ Reply(c, mapBetterAuthSignOutError)
          /\ UNCHANGED sessions

\* currentUser: Better Auth finds the session of the cookie unless it is
\* expired, and may put off its expiry.
currentUser(c) ==
    LET t == createSessionRequestHeaders(rpc[c].metadata) IN
    /\ Waits(c, "sent", "CurrentUser")
    /\ UNCHANGED <<users, mails, now>>
    /\ \/ /\ IsLive(t)
          /\ Reply(c, Answer([userId |-> sessions[t].user,
                              emailVerified |-> users[sessions[t].user] = "verified"]))
          /\ \/ UNCHANGED sessions
             \/ sessions' = [sessions EXCEPT ![t].expiresAt = Milliseconds + SessionAge]
       \/ /\ ~IsLive(t)
          /\ Reply(c, Failure("UNAUTHENTICATED", {createCurrentUserUnauthenticatedError}))
          /\ UNCHANGED sessions
       \/ /\ Reply(c, Failure("INTERNAL", {createCurrentUserInternalError}))
          /\ UNCHANGED sessions

\* verifyEmail: the token proves that its address received an email.
verifyEmail(c) ==
    LET token == rpc[c].request.token IN
    /\ Waits(c, "sent", "VerifyEmail")
    /\ UNCHANGED <<mails, sessions, now>>
    /\ \/ /\ token \in Users /\ users[token] # "none"
          /\ users' = [users EXCEPT ![token] = "verified"]
          /\ Reply(c, Answer([verified |-> TRUE]))
       \/ /\ token \notin Users
          /\ Reply(c, mapEmailVerificationError("INVALID_TOKEN"))
          /\ UNCHANGED users
       \/ /\ token \in Users
          /\ Reply(c, mapEmailVerificationError("TOKEN_EXPIRED"))
          /\ UNCHANGED users
       \/ /\ Reply(c, mapEmailVerificationError("none"))
          /\ UNCHANGED users

Tick ==
    /\ now < MaxNow
    /\ now' = now + 1
    /\ UNCHANGED <<tables, rpc>>

Handle(c) ==
    \/ signUp(c) \/ sendVerificationEmail(c) \/ signIn(c) \/ getSessionExpiry(c)
    \/ signOut(c) \/ currentUser(c) \/ verifyEmail(c)

\* A verification token is in the hands of whoever got the email.
Mailed(token) == token \in Users => mails[token] > 0

-----------------------------------------------------------------------------
(* Properties *)

\* The tables are well formed.
TablesOK ==
    /\ users \in [Users -> {"none", "unverified", "verified"}]
    /\ mails \in [Users -> Nat]
    /\ \A t \in SessionTokens : sessions[t] \in Session \cup {Unused}
    /\ now \in 0 .. MaxNow

=============================================================================
