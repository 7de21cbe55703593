--------------------------- MODULE GatewayErrors ---------------------------
(***************************************************************************)
(* The error boundary of the gateway: what a failed gRPC call, a request   *)
(* that does not validate, or any other exception becomes for the client.  *)
(* All of it is computation without state.                                 *)
(*                                                                         *)
(* An exception is a record of its kind: a gRPC status ("grpc"), an        *)
(* HttpException of NestJS or the gateway's own ApiError ("http"), or      *)
(* anything else ("other").                                                *)
(***************************************************************************)
EXTENDS Contracts

toPublicErrorCode(errorCode) ==
    IF errorCode \in ErrorCode \ {"UNSPECIFIED"} THEN errorCode ELSE "INTERNAL_ERROR"

PublicCode == ErrorCode \ {"UNSPECIFIED"}

\* The two sentences for failures behind the gateway.
Unavailable == Item(toPublicErrorCode("SERVICE_UNAVAILABLE"), "generic")
Unexpected == Item(toPublicErrorCode("INTERNAL_ERROR"), "generic")

\* The failure of a call as the gRPC client throws it.
GrpcError(reply) ==
    [kind |-> "grpc", code |-> reply.code,
     details |-> [json |-> reply.details # {}, errors |-> reply.details]]

isErrorItem(value) == "code" \in DOMAIN value /\ "text" \in DOMAIN value

hasErrorItems(value) == value.errors # {} /\ \A item \in value.errors : isErrorItem(item)

isGrpcStatusError(error) == error.kind = "grpc"

\* {} stands for undefined.
getGrpcErrorResponse(error) ==
    IF error.details.json /\ hasErrorItems(error.details) THEN error.details.errors ELSE {}

\* Mutant: what is not known is the client's fault.
httpStatusFromGrpcCodeLax(code) ==
    CASE code = "UNAUTHENTICATED" -> 401
      [] code = "NOT_FOUND"       -> 404
      [] code = "UNAVAILABLE"     -> 503
      [] OTHER                    -> 400

httpStatusFromGrpcCode(code) ==
    CASE code = "INVALID_ARGUMENT"   -> 400
      [] code = "UNAUTHENTICATED"    -> 401
      [] code = "PERMISSION_DENIED"  -> 403
      [] code = "NOT_FOUND"          -> 404
      [] code = "ALREADY_EXISTS"     -> 409
      [] code = "RESOURCE_EXHAUSTED" -> 429
      [] code = "UNAVAILABLE"        -> 503
      [] OTHER                       -> 500

\* The body of an HttpException: items, messages (NestJS's own exceptions), or
\* neither.
ApiError(status, errors) ==
    [kind |-> "http", status |-> status,
     response |-> [form |-> "errors", errors |-> errors, messages |-> {}]]

\* invalidArgumentError is the item for a refusal that explains nothing, or {}
\* when the caller has none.
throwGatewayGrpcError(error, invalidArgumentError) ==
    LET items == IF isGrpcStatusError(error) THEN getGrpcErrorResponse(error) ELSE {} IN
    CASE items # {} -> ApiError(httpStatusFromGrpcCode(error.code), items)
      [] /\ items = {} /\ isGrpcStatusError(error)
         /\ error.code = "INVALID_ARGUMENT" /\ invalidArgumentError # {} ->
            ApiError(400, invalidArgumentError)
      [] OTHER -> ApiError(503, {Unavailable})

-----------------------------------------------------------------------------
(* Requests that do not validate *)

getValidationCode(field) ==
    toPublicErrorCode(CASE field = "name"     -> "INVALID_NAME"
                        [] field = "email"    -> "INVALID_EMAIL"
                        [] field = "password" -> "INVALID_PASSWORD"
                        [] field = "title"    -> "INVALID_TITLE"
                        [] field = "price"    -> "INVALID_PRICE"
                        [] OTHER              -> "INVALID_ARGUMENT")

\* A field the DTO does not declare is reported as such, whatever its name.
toErrorItem(field, declared) ==
    Item(IF field \in declared
         THEN getValidationCode(field) ELSE toPublicErrorCode("INVALID_ARGUMENT"),
         "gateway")

createValidationApiError(fields, declared) ==
    ApiError(400, {toErrorItem(f, declared) : f \in fields})

-----------------------------------------------------------------------------
(* ApiErrorFilter, which every exception passes *)

getHttpStatus(exception) == IF exception.kind = "http" THEN exception.status ELSE 500

getStructuredResponse(response) ==
    IF /\ response.form = "errors" /\ response.errors # {}
       /\ \A item \in response.errors : isErrorItem(item)
    THEN response.errors ELSE {}

\* One text per message that is a string.
getMessages(response) ==
    IF response.form \in {"string", "message", "messages"}
    THEN response.messages ELSE {"gateway"}

getCodeForStatus(status) ==
    toPublicErrorCode(CASE status = 400 -> "INVALID_ARGUMENT"
                        [] status = 401 -> "UNAUTHENTICATED"
                        [] status = 403 -> "FORBIDDEN"
                        [] status = 404 -> "NOT_FOUND"
                        [] status = 409 -> "ALREADY_EXISTS"
                        [] status = 429 -> "RATE_LIMITED"
                        [] OTHER        -> "INTERNAL_ERROR")

\* Below 500 the client gets the items, or one per message; from 500 on it gets
\* one of the two sentences.
getErrorResponse(exception, status) ==
    IF exception.kind = "http" /\ status < 500
    THEN LET items == getStructuredResponse(exception.response) IN
         IF items # {} THEN items
         ELSE {Item(getCodeForStatus(status), text) : text \in getMessages(exception.response)}
    ELSE {IF status \in {502, 503} THEN Unavailable ELSE Unexpected}

\* Catch: the filter is the last thing before the response.
Catch(exception) ==
    [status |-> getHttpStatus(exception),
     errors |-> getErrorResponse(exception, getHttpStatus(exception))]
=============================================================================
