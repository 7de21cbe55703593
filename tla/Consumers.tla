----------------------------- MODULE Consumers ------------------------------
(***************************************************************************)
(* How the services consume JetStream (the consumer packages of orders,    *)
(* tickets and payments, and the order-created consumer of expiration):    *)
(* durables with explicit acknowledgement, retries, dead letters and their *)
(* replay. All of them follow one protocol; they differ in what they are   *)
(* bound to and in what their handler needs (module Durables).             *)
(*                                                                         *)
(* A consumer may stop between any two steps, an acknowledgement may be    *)
(* lost, and a delivery that takes too long is made again while the first  *)
(* one is still being handled. A handler is a transaction that first       *)
(* inserts the event id into processed_events, then does what the event    *)
(* asks for, and commits.                                                  *)
(***************************************************************************)
EXTENDS Integers, Sequences, FiniteSets

CONSTANTS
    Durables,     \* records [stream, service, accepts, after]: see Durables
    Malformed,    \* events that the handlers find invalid
    MaxRetries,   \* orderEventMaxRetries, orderCreatedMaxRetries
    MaxMessages,  \* bound on the messages of all the streams
    MaxInFlight   \* bound on the deliveries handled at a time

VARIABLES
    streams,    \* per stream: its messages; they are never removed
    delivered,  \* per durable and message: NumDelivered
    state,      \* per durable and message: to be delivered, out, acked
    inflight,   \* the deliveries the consumers are dealing with
    effects,    \* per service and event: how often its effect was applied
    dlq         \* per service: the records of its dead letter stream

vars == <<streams, delivered, state, inflight, effects, dlq>>

Streams == {d.stream : d \in Durables}

Services == {d.service : d \in Durables}

Events == UNION {d.accepts : d \in Durables}

Seqs == 1 .. MaxMessages

\* Beyond the retries, two deliveries of a message are told apart, and so are two
\* effects of an event.
MaxDelivered == MaxRetries + 2

MaxEffects == 2

Capped(n, max) == IF n < max THEN n ELSE max

Delivery == [durable : Durables, seq : Seqs, count : 1 .. MaxDelivered,
             phase : {"fetched", "recorded", "parking", "done"}]

DeadLetter == [id : Streams \X Seqs, stream : Streams, event : Events]

ASSUME ConstantsAssumption ==
    /\ Malformed \subseteq Events
    /\ \A d \in Durables : \A e \in d.accepts : e.stream = d.stream /\ d.after[e] \subseteq Events
    /\ {MaxRetries, MaxMessages, MaxInFlight} \subseteq Nat \ {0}

----------------------------------------------------------------------------
Init ==
    /\ streams = [s \in Streams |-> <<>>]
    /\ delivered = [d \in Durables |-> [i \in Seqs |-> 0]]
    /\ state = [d \in Durables |-> [i \in Seqs |-> "due"]]
    /\ inflight = {}
    /\ effects = [s \in Services |-> [e \in Events |-> 0]]
    /\ dlq = [s \in Services |-> {}]

\* Where the streams have a message.
Stored == {m \in Streams \X Seqs : m[2] \in DOMAIN streams[m[1]]}

Message(f) == streams[f.durable.stream][f.seq]

Subscribed(d, i) == i \in DOMAIN streams[d.stream] /\ streams[d.stream][i] \in d.accepts

\* A message appears in a stream: from an outbox, at least once, or replayed.
Publish(s, e) ==
    /\ Cardinality(Stored) < MaxMessages
    /\ streams' = [streams EXCEPT ![s] = Append(@, e)]
    /\ UNCHANGED <<delivered, state, inflight, effects, dlq>>

\* Fetch(1) by one of the instances of the service. Of the deliveries that are
\* not told apart one is handled at a time.
Fetch(d, i) ==
    /\ Subscribed(d, i) /\ state[d][i] = "due"
    /\ Cardinality(inflight) < MaxInFlight
    /\ LET count == Capped(delivered[d][i] + 1, MaxDelivered)
       IN  /\ \A f \in inflight : f.durable = d /\ f.seq = i => f.count # count
           /\ delivered' = [delivered EXCEPT ![d][i] = count]
           /\ inflight' = inflight \cup {[durable |-> d, seq |-> i, count |-> count,
                                          phase |-> "fetched"]}
    /\ state' = [state EXCEPT ![d][i] = "out"]
    /\ UNCHANGED <<streams, effects, dlq>>

\* The consumer does not answer in time: the message is delivered again.
AckWaitExpires(d, i) ==
    /\ state[d][i] = "out"
    /\ state' = [state EXCEPT ![d][i] = "due"]
    /\ UNCHANGED <<streams, delivered, inflight, effects, dlq>>

Enter(f, phase) == inflight' = (inflight \ {f}) \cup {[f EXCEPT !.phase = phase]}

Leave(f) == inflight' = inflight \ {f}

\* The id of e is in processed_events, which is written with the effect of e.
Processed(service, e) == effects[service][e] > 0

\* The transactions that have inserted the id of e and have not ended.
Recording(service, e) ==
    {g \in inflight : g.phase = "recorded" /\ g.durable.service = service /\ Message(g) = e}

\* Mutant: the id is looked up, and inserted without regard to others.
RecordWithoutWaiting(f) ==
    /\ f.phase = "fetched" /\ Message(f) \notin Malformed
    /\ Enter(f, IF Processed(f.durable.service, Message(f)) THEN "done" ELSE "recorded")
    /\ UNCHANGED <<streams, delivered, state, effects, dlq>>

\* INSERT INTO processed_events ... ON CONFLICT DO NOTHING waits for a transaction
\* that holds the same id. An id that is there already ends the handler.
RecordProcessedEvent(f) ==
    /\ f.phase = "fetched" /\ Message(f) \notin Malformed
    /\ Recording(f.durable.service, Message(f)) = {}
    /\ Enter(f, IF Processed(f.durable.service, Message(f)) THEN "done" ELSE "recorded")
    /\ UNCHANGED <<streams, delivered, state, effects, dlq>>

\* The rest of the transaction. An event of which the service lacks what comes
\* before it (a version gap, a pending reservation) is an error.
Commit(f) ==
    /\ f.phase = "recorded"
    /\ \A e \in f.durable.after[Message(f)] : Processed(f.durable.service, e)
    /\ effects' = [effects EXCEPT ![f.durable.service][Message(f)] = Capped(@ + 1, MaxEffects)]

\* Nak and NakWithDelay: the message is due again, unless it was acknowledged
\* in another delivery.
Nak(f) ==
    /\ Leave(f)
    /\ state' = [state EXCEPT ![f.durable][f.seq] = IF @ = "out" THEN "due" ELSE @]

\* handler.Handle returned an error.
Refuse(f) ==
    IF Message(f) \in Malformed \/ f.count > MaxRetries
      THEN Enter(f, "parking") /\ UNCHANGED state
      ELSE Nak(f)

HandleSucceeds(f) ==
    /\ Commit(f)
    /\ Enter(f, "done")
    /\ UNCHANGED <<streams, delivered, state, dlq>>

\* The transaction is committed and its handler told of an error.
CommitUnanswered(f) ==
    /\ Commit(f)
    /\ Refuse(f)
    /\ UNCHANGED <<streams, delivered, dlq>>

\* Mutant: the last retry is parked instead of tried.
ParkOneTooEarly(f) ==
    /\ f.phase \in {"fetched", "recorded"}
    /\ IF Message(f) \in Malformed \/ f.count >= MaxRetries
         THEN Enter(f, "parking") /\ UNCHANGED state
         ELSE Nak(f)
    /\ UNCHANGED <<streams, delivered, effects, dlq>>

\* Mutant: an event is retried for as long as its handler fails.
RetryForEver(f) ==
    /\ f.phase \in {"fetched", "recorded"}
    /\ Nak(f)
    /\ UNCHANGED <<streams, delivered, effects, dlq>>

\* An error before the commit, which a failure of the database may cause at any
\* time: the transaction is rolled back.
HandleFails(f) ==
    /\ f.phase \in {"fetched", "recorded"}
    /\ Refuse(f)
    /\ UNCHANGED <<streams, delivered, effects, dlq>>

\* Nats-Msg-Id of a dead letter, "<service>-dlq-v1:<stream>:<sequence>".
DeadLetterId(d, i) == <<d.stream, i>>

\* Park: the dead letter stream keeps one record per id, for as long as it
\* keeps records.
ParkSucceeds(f) ==
    /\ f.phase = "parking"
    /\ LET id == DeadLetterId(f.durable, f.seq)
       IN  dlq' = [dlq EXCEPT ![f.durable.service] =
                     IF \E r \in @ : r.id = id THEN @
                     ELSE @ \cup {[id |-> id, stream |-> f.durable.stream, event |-> Message(f)]}]
    /\ Enter(f, "done")
    /\ UNCHANGED <<streams, delivered, state, effects>>

\* Mutant: a message is given up although it could not be parked.
ParkFailureAcks(f) ==
    /\ f.phase = "parking"
    /\ Enter(f, "done")
    /\ UNCHANGED <<streams, delivered, state, effects, dlq>>

ParkFails(f) ==
    /\ f.phase = "parking"
    /\ Nak(f)
    /\ UNCHANGED <<streams, delivered, effects, dlq>>

Ack(f) ==
    /\ f.phase = "done"
    /\ Leave(f)
    /\ state' = [state EXCEPT ![f.durable][f.seq] = "acked"]
    /\ UNCHANGED <<streams, delivered, effects, dlq>>

\* The consumer stops, which ends its transaction, or its answer to the broker is
\* lost.
Lose(f) ==
    /\ Leave(f)
    /\ UNCHANGED <<streams, delivered, state, effects, dlq>>

\* An operator replays a record: the event is published once more, for every
\* durable of the stream and under a new message id. The record stays.
ReplayDeadLetter(service, r) == Publish(r.stream, r.event)

----------------------------------------------------------------------------
HandleDelivery(f) ==
    RecordProcessedEvent(f) \/ HandleSucceeds(f) \/ CommitUnanswered(f) \/ HandleFails(f)

Park(f) == ParkSucceeds(f) \/ ParkFails(f)

Next ==
    \/ \E e \in Events : Publish(e.stream, e)
    \/ \E d \in Durables, i \in Seqs : Fetch(d, i) \/ AckWaitExpires(d, i)
    \/ \E f \in inflight : HandleDelivery(f) \/ Park(f) \/ Ack(f) \/ Lose(f)
    \/ \E service \in Services : \E r \in dlq[service] : ReplayDeadLetter(service, r)

Spec == Init /\ [][Next]_vars

\* What goes wrong outside the handlers: a consumer stops, an answer to the
\* broker or a record for the dead letter stream is lost.
Fault(f) == Lose(f) \/ ParkFails(f)

\* The consumers run as long as their services and go on with every message.
\* They may stop and answers may be lost any number of times, but not for ever.
\* Handling may fail for ever.
FairSpec ==
    /\ Spec
    /\ \A d \in Durables, i \in Seqs :
         /\ WF_vars(Fetch(d, i))
         /\ WF_vars(AckWaitExpires(d, i))
         /\ WF_vars(\E f \in inflight : f.durable = d /\ f.seq = i
                                        /\ (HandleDelivery(f) \/ ParkSucceeds(f) \/ Ack(f)))
    /\ <>[][\A f \in inflight : ~Fault(f)]_vars

----------------------------------------------------------------------------
\* Every message, delivery and record has the shape of its type.
TypeOK ==
    /\ streams \in [Streams -> Seq(Events)]
    /\ delivered \in [Durables -> [Seqs -> 0 .. MaxDelivered]]
    /\ state \in [Durables -> [Seqs -> {"due", "out", "acked"}]]
    /\ inflight \subseteq Delivery
    /\ effects \in [Services -> [Events -> 0 .. MaxEffects]]
    /\ dlq \in [Services -> SUBSET DeadLetter]

\* "The source event is acknowledged only after parking succeeds" (SPEC.md): a
\* durable is done with a message only when its service has applied the event
\* or has it in its dead letter stream, whatever deliveries overlapped.
NothingIsLost ==
    \A d \in Durables, i \in Seqs : state[d][i] = "acked" =>
        \/ Processed(d.service, streams[d.stream][i])
        \/ \E r \in dlq[d.service] : r.event = streams[d.stream][i]

\* Redelivered, republished and replayed events have one effect in a service,
\* although their handlers run at the same time: none of them looks at
\* processed_events again when it commits, and only the uncommitted id keeps two
\* of them apart, until its transaction commits, fails or is lost.
EffectsOnce ==
    \A s \in Services, e \in Events : effects[s][e] <= 1

\* "Retry transient failures five times after the initial delivery and park
\* the sixth delivery" (SPEC.md): a well-formed event is not parked earlier.
ParkedAfterAllRetries ==
    \A s \in Services : \A r \in dlq[s] :
        r.event \in Malformed \/ \E d \in Durables :
            d.service = s /\ d.stream = r.id[1] /\ delivered[d][r.id[2]] > MaxRetries

\* Every durable gets done with every message, however often consumers stop.
MessagesAreSettled ==
    \A d \in Durables, i \in Seqs : Subscribed(d, i) ~> state[d][i] = "acked"
=============================================================================
