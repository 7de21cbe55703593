------------------------------ MODULE Channel ------------------------------
(***************************************************************************)
(* The gRPC calls between the gateway and the services.  A call is in one  *)
(* of the phases "sent", a phase of its handler's own, and "done"; the     *)
(* caller may have stopped waiting for a call that goes on.                *)
(***************************************************************************)
EXTENDS Contracts

CONSTANT Calls  \* slots for calls in flight

VARIABLE rpc    \* the calls

Headers == {"origin", "referer", "sec-fetch-dest", "sec-fetch-mode",
            "sec-fetch-site", "user-agent", "authorization"}

\* What travels beside the message: the session cookie and forwarded headers.
Metadata == [cookie : SessionTokens \cup {NoToken}, headers : SUBSET Headers]

NoMetadata == [cookie |-> NoToken, headers |-> {}]

Idle == [phase |-> "idle"]

Sent(method, request, metadata) ==
    [phase |-> "sent", method |-> method, request |-> request, metadata |-> metadata,
     token |-> NoToken, reply |-> Answer(<<>>), abandoned |-> FALSE]

Waits(c, phase, method) == rpc[c].phase = phase /\ rpc[c].method = method

\* Nobody reads the answer to a call whose caller has stopped waiting.
Reply(c, answer) ==
    rpc' = [rpc EXCEPT ![c] = IF @.abandoned THEN Idle
                              ELSE [@ EXCEPT !.phase = "done", !.reply = answer]]

Abandon(c) ==
    rpc' = [rpc EXCEPT ![c] = IF @.phase = "done" THEN Idle ELSE [@ EXCEPT !.abandoned = TRUE]]

\* The process dies, or the connection is gone, before the call was handled.
Drop(c) ==
    /\ rpc[c].phase \notin {"idle", "done"}
    /\ Reply(c, Failure("UNAVAILABLE", {}))

\* A call takes and answers the messages that service declares for its method.
WellFormed(c, service) ==
    /\ rpc[c].request \in service[rpc[c].method].input
    /\ rpc[c].metadata \in Metadata
    /\ rpc[c].phase = "done" =>
        IF rpc[c].reply.code = "OK"
        THEN rpc[c].reply.message \in service[rpc[c].method].output
        ELSE rpc[c].reply.code \in GrpcCode /\ rpc[c].reply.details \subseteq ErrorItem
=============================================================================
