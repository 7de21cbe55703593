----------------------------- MODULE Contracts -----------------------------
(***************************************************************************)
(* The messages of the gRPC services, as the code generated from proto/    *)
(* declares them (protogen/ts).  A message is a record with the fields of  *)
(* the declared type; text that no component looks at (names of users,     *)
(* titles) is left out, and so is the expiry of an order, which the        *)
(* gateway only reformats.                                                 *)
(*                                                                         *)
(* A user is named by the email of the account; the identifier Better Auth *)
(* generates is one to one with it.                                        *)
(***************************************************************************)
EXTENDS Naturals

CONSTANTS
    Users,          \* accounts, named by their email address
    SessionTokens,  \* session tokens Better Auth may generate
    TicketIds,
    OrderIds,
    Prices,         \* prices in the supported range
    NoToken         \* no session cookie was sent

ASSUME NoTokenAssumption == NoToken \notin SessionTokens

-----------------------------------------------------------------------------
(* common.v1 *)

\* The values of common.v1.ErrorCode.
ErrorCode ==
    {"UNSPECIFIED", "INVALID_ARGUMENT", "INVALID_NAME", "INVALID_EMAIL",
     "INVALID_PASSWORD", "INVALID_CREDENTIALS", "EMAIL_NOT_VERIFIED",
     "INVALID_VERIFICATION_TOKEN", "ALREADY_EXISTS", "UNAUTHENTICATED",
     "FORBIDDEN", "NOT_FOUND", "RATE_LIMITED", "SERVICE_UNAVAILABLE",
     "INTERNAL_ERROR", "INVALID_TITLE", "INVALID_PRICE"}

\* Whose words an error message is made of: those of the service that failed,
\* those the gateway has for the request, or the two fixed sentences for
\* failures of the server side.
Text == {"service", "gateway", "generic"}

\* common.v1.Error; its field name is left out.
ErrorItem == [code : ErrorCode, text : Text]

Item(code, text) == [code |-> code, text |-> text]

\* The status codes of gRPC the code tells apart; OK is success.
GrpcCode ==
    {"OK", "INVALID_ARGUMENT", "NOT_FOUND", "ALREADY_EXISTS",
     "PERMISSION_DENIED", "RESOURCE_EXHAUSTED", "INTERNAL", "UNAVAILABLE",
     "UNAUTHENTICATED"}

\* The answer to a call: a message, or a status with the items of
\* common.v1.ErrorResponse in its details ({} when there are none).
Answer(message) == [code |-> "OK", message |-> message, details |-> {}]
Failure(code, items) == [code |-> code, message |-> <<>>, details |-> items]

-----------------------------------------------------------------------------
(* identity.v1 *)

Name == {"name", "blank", "empty"}
Email == Users \cup {"malformed"}
\* A password is right or wrong for the account, or outside 8..128 characters.
Password == {"right", "wrong", "short"}
\* A verification token is a signed statement of the address it was sent to.
VerificationToken == Users \cup {"forged", ""}
NanosPerSecond == 1000000000
Timestamp == [seconds : Nat, nanos : 0 .. NanosPerSecond - 1]

SignUpRequest == [name : Name, email : Email, password : Password]
SignUpResponse == [userId : Users]
SignInRequest == [email : Email, password : Password]
SignInResponse ==
    [userId : Users, emailVerified : BOOLEAN, sessionToken : SessionTokens,
     sessionExpiresAt : Timestamp]
SignOutRequest == {<<>>}
SignOutResponse == {<<>>}
CurrentUserRequest == {<<>>}
CurrentUserResponse == [userId : Users, emailVerified : BOOLEAN]
VerifyEmailRequest == [token : VerificationToken]
VerifyEmailResponse == [verified : {TRUE}]

\* identity.v1.IdentityService: what each method takes and answers.
IdentityService ==
    [SignUp      |-> [input |-> SignUpRequest, output |-> SignUpResponse],
     SignIn      |-> [input |-> SignInRequest, output |-> SignInResponse],
     SignOut     |-> [input |-> SignOutRequest, output |-> SignOutResponse],
     CurrentUser |-> [input |-> CurrentUserRequest, output |-> CurrentUserResponse],
     VerifyEmail |-> [input |-> VerifyEmailRequest, output |-> VerifyEmailResponse]]

-----------------------------------------------------------------------------
(* orders.v1 *)

\* The named values of orders.v1.OrderStatus.
OrderStatus == {"UNSPECIFIED", "CREATED", "CANCELED", "AWAITING_PAYMENT", "COMPLETE"}

OrderId == OrderIds \cup {"malformed"}
TicketId == TicketIds \cup {"malformed"}

Order == [id : OrderIds, ticketId : TicketIds, userId : Users, status : OrderStatus]
CreateOrderRequest == [ticketId : TicketId, userId : Users]
CreateOrderResponse ==
    [created : BOOLEAN, id : OrderIds, ticketId : TicketIds, userId : Users,
     status : OrderStatus]
CancelOrderRequest == [orderId : OrderId, userId : Users]
CancelOrderResponse == [order : Order]
GetOrderRequest == [orderId : OrderId, userId : Users]
GetOrderResponse == [order : Order]
ListOrdersRequest == [userId : Users]
ListOrdersResponse == [orders : SUBSET Order]

OrdersService ==
    [CreateOrder |-> [input |-> CreateOrderRequest, output |-> CreateOrderResponse],
     CancelOrder |-> [input |-> CancelOrderRequest, output |-> CancelOrderResponse],
     GetOrder    |-> [input |-> GetOrderRequest, output |-> GetOrderResponse],
     ListOrders  |-> [input |-> ListOrdersRequest, output |-> ListOrdersResponse]]

-----------------------------------------------------------------------------
(* tickets.v1 and payments.v1 *)

\* A price is in range, or not; the title likewise.  "blank" is not empty.
Title == {"title", "blank", "empty"}
Price == Prices \cup {"zero", "excess"}

Ticket == [id : TicketIds, price : Prices, userId : Users]
CreateTicketRequest == [title : Title, price : Price, userId : Users]
CreateTicketResponse == Ticket
UpdateTicketRequest == [id : TicketId, title : Title, price : Price, userId : Users]
UpdateTicketResponse == [ticket : Ticket]
GetTicketRequest == [id : TicketId]
GetTicketResponse == [ticket : Ticket]
ListTicketsRequest == {<<>>}
ListTicketsResponse == [tickets : SUBSET Ticket]

TicketsService ==
    [CreateTicket |-> [input |-> CreateTicketRequest, output |-> CreateTicketResponse],
     UpdateTicket |-> [input |-> UpdateTicketRequest, output |-> UpdateTicketResponse],
     GetTicket    |-> [input |-> GetTicketRequest, output |-> GetTicketResponse],
     ListTickets  |-> [input |-> ListTicketsRequest, output |-> ListTicketsResponse]]

\* An order has at most one payment, which is named by the order here.
Payment == [id : OrderIds, orderId : OrderIds]
CreatePaymentRequest == [orderId : OrderId, userId : Users]
CreatePaymentResponse == [created : BOOLEAN, payment : Payment]

PaymentsService ==
    [CreatePayment |-> [input |-> CreatePaymentRequest, output |-> CreatePaymentResponse]]
=============================================================================
