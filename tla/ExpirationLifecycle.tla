------------------------ MODULE ExpirationLifecycle -------------------------
(***************************************************************************)
(* How the processes of Expiration start, subscribe and stop: replicas of  *)
(* the service, and the command that replays a dead letter, which starts   *)
(* the same JetStreamService. Every await is a step; during an outage the  *)
(* broker may fail a request, with or without having done it, and a        *)
(* process may be killed between two steps. What is done with a message is *)
(* in Consumers.                                                           *)
(***************************************************************************)
EXTENDS Naturals, FiniteSets

CONSTANTS
    Replicas,     \* processes of the service
    Commands,     \* runs of the replay command
    MaxOpen       \* bound on the connections of a process that are counted

Processes == Replicas \cup Commands

ASSUME ProcessesAssumption ==
    /\ IsFiniteSet(Processes)
    /\ Replicas \cap Commands = {}
    /\ MaxOpen \in Nat \ {0, 1}

VARIABLES
    events,    \* whether the stream EXPIRATION_EVENTS exists
    dlq,       \* EXPIRATION_DLQ: "missing", "other subjects" or "complete"
    orders,    \* whether Orders has created ORDERS_EVENTS
    durable,   \* whether the durable expiration-order-created-v1 exists
    outage,    \* whether requests may fail
    pc,        \* the await each process is at
    link,      \* this.connection: "none", "open", "draining" or "closed"
    open,      \* connections of the process the broker sees
    stopping,  \* this.stopping
    messages   \* the iterator: "none", "running", or "ended" by stopMessages

broker == <<events, dlq, orders, durable, outage>>
process == <<pc, link, open, stopping, messages>>
vars == <<broker, process>>

\* The awaits of onModuleInit, of consume, and of the command.
Starting == {"connect", "manager", "events info", "events add", "events again",
             "dlq info", "dlq update", "dlq add", "dlq again"}

Consuming == {"loop", "consumer info", "consumer add", "subscribe", "fetch", "handle", "wait"}

Others == {"down", "retry", "replay", "finally", "stopped"}

Init ==
    /\ events \in BOOLEAN
    /\ dlq \in {"missing", "other subjects", "complete"}
    /\ orders = FALSE
    /\ durable = FALSE
    /\ outage \in BOOLEAN
    /\ pc = [p \in Processes |-> "down"]
    /\ link = [p \in Processes |-> "none"]
    /\ open = [p \in Processes |-> 0]
    /\ stopping = [p \in Processes |-> FALSE]
    /\ messages = [p \in Processes |-> "none"]

Goto(p, await) == pc' = [pc EXCEPT ![p] = await]

----------------------------------------------------------------------------
(* JetStreamService.onModuleInit *)

\* The process is launched; the command first wants a sequence number and is
\* not started without one (requiredSequence).
Launch(p) ==
    /\ pc[p] = "down"
    /\ Goto(p, "connect")
    /\ UNCHANGED <<broker, link, open, stopping, messages>>

Connect(p) ==
    /\ pc[p] = "connect"
    /\ link' = [link EXCEPT ![p] = "open"]
    /\ open' = [open EXCEPT ![p] = IF @ < MaxOpen THEN @ + 1 ELSE @]
    /\ Goto(p, "manager")
    /\ UNCHANGED <<broker, stopping, messages>>

\* A request that is answered and changes nothing at the broker.
Answered(p, await, next) ==
    /\ pc[p] = await
    /\ link[p] = "open"
    /\ Goto(p, next)
    /\ UNCHANGED <<broker, link, open, stopping, messages>>

ensureExpirationEventStream(p) ==
    \/ events /\ Answered(p, "events info", "dlq info")
    \/ ~events /\ Answered(p, "events info", "events add")
    \/ /\ pc[p] = "events add"
       /\ link[p] = "open"
       /\ events' = TRUE
       /\ Goto(p, "dlq info")
       /\ UNCHANGED <<dlq, orders, durable, outage, link, open, stopping, messages>>
    \/ events /\ Answered(p, "events again", "dlq info")

\* Where onModuleInit of the process leads.
Started(p) == IF p \in Replicas THEN "loop" ELSE "replay"

\* Mutant: a stream that is there is taken to have the subject.
ensureWithoutUpdate(p) ==
    \/ dlq # "missing" /\ Answered(p, "dlq info", Started(p))
    \/ dlq = "missing" /\ Answered(p, "dlq info", "dlq add")
    \/ /\ pc[p] = "dlq add"
       /\ link[p] = "open"
       /\ dlq' = "complete"
       /\ Goto(p, Started(p))
       /\ UNCHANGED <<events, orders, durable, outage, link, open, stopping, messages>>
    \/ dlq # "missing" /\ Answered(p, "dlq again", Started(p))

ensureExpirationDeadLetterStream(p) ==
    \/ dlq = "complete" /\ Answered(p, "dlq info", Started(p))
    \/ dlq = "other subjects" /\ Answered(p, "dlq info", "dlq update")
    \/ dlq = "missing" /\ Answered(p, "dlq info", "dlq add")
    \/ /\ pc[p] \in {"dlq update", "dlq add"}
       /\ link[p] = "open"
       /\ dlq' = "complete"
       /\ Goto(p, Started(p))
       /\ UNCHANGED <<events, orders, durable, outage, link, open, stopping, messages>>
    \/ dlq # "missing" /\ Answered(p, "dlq again", Started(p))

\* A request fails although the broker may have done it; the creation of a
\* stream is looked up once more, as another process may have been faster.
AddFails(p) ==
    /\ \/ /\ pc[p] = "events add" /\ (outage \/ events)
          /\ events' \in {events, TRUE}
          /\ Goto(p, "events again")
          /\ UNCHANGED dlq
       \/ /\ pc[p] = "dlq add" /\ (outage \/ dlq # "missing")
          /\ dlq' \in {dlq, "complete"}
          /\ Goto(p, "dlq again")
          /\ UNCHANGED events
    /\ UNCHANGED <<orders, durable, outage, link, open, stopping, messages>>

\* The stream is still missing after its creation failed.
LookedUpInVain(p) ==
    \/ pc[p] = "events again" /\ ~events
    \/ pc[p] = "dlq again" /\ dlq = "missing"

\* Mutant: the connection of a failed start is forgotten.
startFailsUnclosed(p) ==
    /\ \/ outage /\ pc[p] \in Starting \ {"events add", "dlq add"}
       \/ LookedUpInVain(p)
    /\ dlq' \in IF pc[p] = "dlq update" THEN {dlq, "complete"} ELSE {dlq}
    /\ link' = [link EXCEPT ![p] = "none"]
    /\ Goto(p, "retry")
    /\ UNCHANGED <<events, orders, durable, outage, open, stopping, messages>>

\* The catch of onModuleInit: the connection is closed and forgotten.
StartFails(p) ==
    /\ \/ outage /\ pc[p] \in Starting \ {"events add", "dlq add"}
       \/ LookedUpInVain(p)
    /\ dlq' \in IF pc[p] = "dlq update" THEN {dlq, "complete"} ELSE {dlq}
    /\ open' = [open EXCEPT ![p] = IF link[p] = "open" THEN @ - 1 ELSE @]
    /\ link' = [link EXCEPT ![p] = "none"]
    /\ Goto(p, "retry")
    /\ UNCHANGED <<events, orders, durable, outage, stopping, messages>>

waitForNatsRetry(p) ==
    /\ pc[p] = "retry"
    /\ Goto(p, "connect")
    /\ UNCHANGED <<broker, link, open, stopping, messages>>

onModuleInit(p) ==
    \/ Connect(p)
    \/ Answered(p, "manager", "events info")
    \/ ensureExpirationEventStream(p)
    \/ ensureExpirationDeadLetterStream(p)

----------------------------------------------------------------------------
(* OrderCreatedConsumer.consume *)

Loop(p) ==
    /\ pc[p] = "loop"
    /\ Goto(p, IF stopping[p] THEN "stopped" ELSE "consumer info")
    /\ UNCHANGED <<broker, link, open, stopping, messages>>

\* Mutant: the durable is expected to be there.
consumerExpected(p) == orders /\ durable /\ Answered(p, "consumer info", "subscribe")

\* A missing durable is created; anything else, a missing stream too, throws.
orderCreatedConsumer(p) ==
    \/ orders /\ durable /\ Answered(p, "consumer info", "subscribe")
    \/ orders /\ ~durable /\ Answered(p, "consumer info", "consumer add")
    \/ /\ pc[p] = "consumer add"
       /\ link[p] = "open"
       /\ durable' = TRUE
       /\ Goto(p, "subscribe")
       /\ UNCHANGED <<events, dlq, orders, outage, link, open, stopping, messages>>

\* consumer.consume(); from here on there is something to stop.
Subscribe(p) ==
    /\ pc[p] = "subscribe"
    /\ link[p] = "open"
    /\ messages' = [messages EXCEPT ![p] = "running"]
    /\ Goto(p, "fetch")
    /\ UNCHANGED <<broker, link, open, stopping>>

handleDelivery(p) ==
    /\ \/ pc[p] = "fetch" /\ messages[p] = "running" /\ link[p] = "open" /\ Goto(p, "handle")
       \/ pc[p] = "handle" /\ link[p] # "closed" /\ Goto(p, "fetch")
    /\ UNCHANGED <<broker, link, open, stopping, messages>>

\* The iterator ends when it was stopped or its connection is drained.
MessagesEnd(p) ==
    /\ pc[p] = "fetch"
    /\ messages[p] = "ended" \/ link[p] = "closed"
    /\ messages' = [messages EXCEPT ![p] = "none"]
    /\ Goto(p, "loop")
    /\ UNCHANGED <<broker, link, open, stopping>>

\* A request fails, as it does once the connection is draining, or an
\* acknowledgement on a closed connection does: after a pause, or at once when
\* stopping, the loop goes on.
ConsumeFails(p) ==
    /\ \/ /\ pc[p] \in {"consumer info", "consumer add", "subscribe"}
          /\ outage \/ ~orders \/ link[p] # "open"
       \/ pc[p] = "handle" /\ link[p] = "closed"
    /\ durable' \in IF pc[p] = "consumer add" /\ orders THEN {durable, TRUE} ELSE {durable}
    /\ messages' = [messages EXCEPT ![p] = "none"]
    /\ Goto(p, IF stopping[p] THEN "loop" ELSE "wait")
    /\ UNCHANGED <<events, dlq, orders, outage, link, open, stopping>>

waitForRetry(p) ==
    /\ pc[p] = "wait"
    /\ Goto(p, "loop")
    /\ UNCHANGED <<broker, link, open, stopping, messages>>

----------------------------------------------------------------------------
(* Stopping, and the replay command *)

\* Mutant: only the consumer is told to stop.
shutdownWithoutDrain(p) ==
    /\ p \in Replicas /\ pc[p] \in Consuming /\ ~stopping[p]
    /\ stopping' = [stopping EXCEPT ![p] = TRUE]
    /\ messages' = [messages EXCEPT ![p] = IF @ = "running" THEN "ended" ELSE @]
    /\ UNCHANGED <<broker, pc, link, open>>

\* A signal runs the hooks of both providers at once: the consumer stops what
\* there is to stop and JetStreamService drains the connection.
onApplicationShutdown(p) ==
    /\ p \in Replicas /\ pc[p] \in Consuming /\ ~stopping[p]
    /\ stopping' = [stopping EXCEPT ![p] = TRUE]
    /\ messages' = [messages EXCEPT ![p] = IF @ = "running" THEN "ended" ELSE @]
    /\ link' = [link EXCEPT ![p] = "draining"]
    /\ UNCHANGED <<broker, pc, open>>

\* drain() is done: what was delivered is handed over and the connection closed.
Drained(p) ==
    /\ link[p] = "draining"
    /\ link' = [link EXCEPT ![p] = "closed"]
    /\ open' = [open EXCEPT ![p] = @ - 1]
    /\ UNCHANGED <<broker, pc, stopping, messages>>

\* The command republishes, or fails, and drains in both cases.
replayExpirationDeadLetter(p) ==
    \/ /\ pc[p] = "replay"
       /\ Goto(p, "finally")
       /\ link' = [link EXCEPT ![p] = "draining"]
       /\ UNCHANGED <<broker, open, stopping, messages>>
    \/ /\ pc[p] = "finally" /\ link[p] = "closed"
       /\ Goto(p, "stopped")
       /\ UNCHANGED <<broker, link, open, stopping, messages>>

\* The process is gone, as it has finished or as it was killed.
Exit(p) ==
    /\ pc' = [pc EXCEPT ![p] = "down"]
    /\ link' = [link EXCEPT ![p] = "none"]
    /\ open' = [open EXCEPT ![p] = 0]
    /\ stopping' = [stopping EXCEPT ![p] = FALSE]
    /\ messages' = [messages EXCEPT ![p] = "none"]
    /\ UNCHANGED broker

\* Both hooks have been awaited.
Finish(p) == pc[p] = "stopped" /\ link[p] # "draining" /\ Exit(p)

Kill(p) == pc[p] # "down" /\ Exit(p)

\* The publisher of Orders creates its stream.
CreateOrdersStream ==
    /\ ~orders
    /\ orders' = TRUE
    /\ UNCHANGED <<events, dlq, durable, outage, process>>

Outage ==
    /\ outage' = ~outage
    /\ UNCHANGED <<events, dlq, orders, durable, process>>

----------------------------------------------------------------------------
\* What the process does next of its own.
Consume(p) == Loop(p) \/ handleDelivery(p) \/ MessagesEnd(p) \/ waitForRetry(p)

Step(p) ==
    \/ onModuleInit(p) \/ AddFails(p) \/ StartFails(p) \/ waitForNatsRetry(p)
    \/ Consume(p) \/ orderCreatedConsumer(p) \/ Subscribe(p) \/ ConsumeFails(p)
    \/ replayExpirationDeadLetter(p) \/ Drained(p) \/ Finish(p)

Next ==
    \/ \E p \in Processes : Launch(p) \/ Step(p) \/ onApplicationShutdown(p) \/ Kill(p)
    \/ CreateOrdersStream
    \/ Outage

Spec == Init /\ [][Next]_vars

\* A process goes on, a connection drains while a handler runs, and the broker
\* is at last available.
FairSpec ==
    /\ Spec
    /\ WF_vars(CreateOrdersStream)
    /\ \A p \in Processes : WF_vars(Step(p)) /\ WF_vars(Drained(p))
    /\ <>[](~outage)

----------------------------------------------------------------------------
\* What the variables may hold.
TypeOK ==
    /\ outage \in BOOLEAN /\ events \in BOOLEAN /\ orders \in BOOLEAN /\ durable \in BOOLEAN
    /\ dlq \in {"missing", "other subjects", "complete"}
    /\ pc \in [Processes -> Starting \cup Consuming \cup Others]
    /\ link \in [Processes -> {"none", "open", "draining", "closed"}]
    /\ open \in [Processes -> 0 .. MaxOpen]
    /\ stopping \in [Processes -> BOOLEAN]
    /\ messages \in [Processes -> {"none", "running", "ended"}]

\* However often a start fails half way and is tried again (onModuleInit), a
\* process has one connection, and none that it has lost sight of.
NoConnectionLeaks ==
    \A p \in Processes : open[p] = IF link[p] \in {"open", "draining"} THEN 1 ELSE 0

\* A process that consumes or replays has both streams to publish to, with the
\* subject of its dead letters, whoever created them and whatever creation
\* failed (ensureExpirationEventStream, ensureExpirationDeadLetterStream): an
\* event it has to park is not refused for want of a stream.
ServingHasStreams ==
    \A p \in Processes :
        pc[p] \in Consuming \cup {"replay"} => events /\ dlq = "complete"

\* A replica that is running comes to read its messages unless it is stopped,
\* through failures of its start, of its durable and of its stream.
ComesToConsume ==
    \A p \in Replicas :
        pc[p] \in Starting \cup Consuming \cup {"retry"}
            ~> pc[p] \in {"fetch", "down"} \/ stopping[p]

\* A replica that is told to stop does, also when the signal comes while
\* consume() is still being awaited and there is no iterator to stop yet
\* (stopMessages is undefined).
ShutdownEnds == \A p \in Replicas : stopping[p] ~> ~stopping[p]
=============================================================================
