--------------------------- MODULE ConsumersProofs --------------------------
(***************************************************************************)
(* Theorems about how events travel: about Consumers, for any durables,    *)
(* streams and events and any number of retries, messages and overlapping  *)
(* deliveries, and about Outbox (named O below), for any rows, publishers, *)
(* batch sizes, leases, backoffs and duplicate windows.                    *)
(***************************************************************************)
EXTENDS Consumers, FiniteSetTheorems, TLAPS

----------------------------------------------------------------------------
(* Types. *)

\* The event of a durable's stream belongs to a stream, and a durable to a service.
LEMMA Kinds ==
    /\ \A e \in Events : e.stream \in Streams
    /\ \A d \in Durables : d.stream \in Streams /\ d.service \in Services
  <1>1. \A d \in Durables : d.stream \in Streams /\ d.service \in Services
    BY DEF Streams, Services
  <1>2. \A e \in Events : \E d \in Durables : e \in d.accepts
    BY DEF Events
  <1>3. \A e \in Events : e.stream \in Streams
    BY <1>1, <1>2, ConstantsAssumption
  <1> QED
    BY <1>1, <1>3

\* The numbers of deliveries and of effects stay within their caps.
LEMMA CappedType ==
    /\ MaxDelivered \in Nat /\ MaxRetries \in Nat
    /\ \A n \in 0 .. MaxDelivered : /\ Capped(n + 1, MaxDelivered) \in 1 .. MaxDelivered
                                    /\ n <= Capped(n + 1, MaxDelivered)
    /\ \A n \in 0 .. MaxEffects : Capped(n + 1, MaxEffects) \in 1 .. MaxEffects
    /\ Capped(1, MaxEffects) = 1
  BY ConstantsAssumption DEF Capped, MaxDelivered, MaxEffects

\* The inductive form of TypeOK: what is being handled is in its stream and is for
\* its durable, so that it has an event.
TypeInv == TypeOK /\ \A f \in inflight : Subscribed(f.durable, f.seq)

\* A delivery being handled: its durable, place and event.
LEMMA InFlight ==
    ASSUME TypeInv, NEW f \in inflight
    PROVE  /\ f \in Delivery /\ f.durable \in Durables /\ f.seq \in Seqs
           /\ f.durable.stream \in Streams /\ f.durable.service \in Services
           /\ Message(f) \in Events
           /\ f.count \in 1 .. MaxDelivered
  <1>1. f \in Delivery /\ f.durable \in Durables /\ f.seq \in Seqs /\ f.count \in 1 .. MaxDelivered
    BY DEF TypeInv, TypeOK, Delivery
  <1>2. f.durable.stream \in Streams /\ f.durable.service \in Services
    BY <1>1, Kinds
  <1>3. Message(f) \in f.durable.accepts
    BY DEF TypeInv, Subscribed, Message
  <1>4. Message(f) \in Events
    BY <1>1, <1>3 DEF Events
  <1> QED
    BY <1>1, <1>2, <1>4

\* What a step with a delivery leaves of it: the same delivery in another phase.
Moves(f, phase) ==
    \E g \in Delivery :
        /\ inflight' \subseteq (inflight \ {f}) \cup {g}
        /\ g.durable = f.durable /\ g.seq = f.seq /\ g.count = f.count /\ g.phase = phase

\* That is what Enter does; Leave adds nothing.
LEMMA Phases ==
    ASSUME TypeInv, NEW f \in inflight
    PROVE  /\ Leave(f) => inflight' \subseteq inflight \ {f}
           /\ \A phase \in {"recorded", "parking", "done"} : Enter(f, phase) => Moves(f, phase)
  <1>1. f \in Delivery
    BY InFlight
  <1>2. ASSUME NEW phase \in {"recorded", "parking", "done"}, Enter(f, phase)
        PROVE  Moves(f, phase)
    <2> DEFINE g == [f EXCEPT !.phase = phase]
    <2>1. /\ g \in Delivery /\ g.durable = f.durable /\ g.seq = f.seq
          /\ g.count = f.count /\ g.phase = phase
      BY <1>1 DEF Delivery
    <2>2. inflight' \subseteq (inflight \ {f}) \cup {g}
      BY <1>2 DEF Enter
    <2> QED
      BY <2>1, <2>2 DEF Moves
  <1> QED
    BY <1>2 DEF Leave

\* A new message leaves the ones before it as they are.
LEMMA PublishKeeps ==
    ASSUME TypeOK, NEW s \in Streams, NEW e \in Events, Publish(s, e)
    PROVE  /\ streams' \in [Streams -> Seq(Events)]
           /\ \A t \in Streams : \A i \in DOMAIN streams[t] :
                 i \in DOMAIN streams'[t] /\ streams'[t][i] = streams[t][i]
  <1>1. streams' \in [Streams -> Seq(Events)]
    BY DEF Publish, TypeOK
  <1>2. ASSUME NEW t \in Streams, NEW i \in DOMAIN streams[t]
        PROVE  i \in DOMAIN streams'[t] /\ streams'[t][i] = streams[t][i]
    <2>1. streams[t] \in Seq(Events)
      BY DEF TypeOK
    <2>2. CASE t = s
      <3>1. streams'[t] = Append(streams[t], e)
        BY <2>2 DEF Publish, TypeOK
      <3> QED
        BY <2>1, <3>1
    <2>3. CASE t # s
      BY <2>3 DEF Publish, TypeOK
    <2> QED
      BY <2>2, <2>3
  <1> QED
    BY <1>1, <1>2

\* What no step takes back: messages, effects, records and delivery counts.
Grows ==
    /\ \A t \in Streams : \A i \in DOMAIN streams[t] :
          i \in DOMAIN streams'[t] /\ streams'[t][i] = streams[t][i]
    /\ \A s \in Services, e \in Events : effects[s][e] > 0 => effects'[s][e] > 0
    /\ \A s \in Services : dlq[s] \subseteq dlq'[s]
    /\ \A d \in Durables, i \in Seqs : delivered[d][i] <= delivered'[d][i]

\* What a durable is subscribed to it stays subscribed to.
LEMMA SubscribedStays ==
    ASSUME \A t \in Streams : \A i \in DOMAIN streams[t] :
              i \in DOMAIN streams'[t] /\ streams'[t][i] = streams[t][i],
           NEW d \in Durables, NEW i \in Seqs, Subscribed(d, i)
    PROVE  Subscribed(d, i)' /\ streams'[d.stream][i] = streams[d.stream][i]
  BY Kinds DEF Subscribed

\* A publication, be it a replay, changes the streams alone.
LEMMA PublishStep ==
    ASSUME TypeInv, NEW s \in Streams, NEW e \in Events, Publish(s, e)
    PROVE  TypeInv' /\ Grows /\ UNCHANGED <<delivered, state, inflight, effects, dlq>>
  <1>1. UNCHANGED <<delivered, state, inflight, effects, dlq>>
    BY DEF Publish
  <1>2. TypeOK'
    BY <1>1, PublishKeeps DEF TypeInv, TypeOK
  <1>3. \A f \in inflight' : Subscribed(f.durable, f.seq)'
    BY <1>1, PublishKeeps, SubscribedStays, InFlight DEF TypeInv
  <1>4. \A d \in Durables, i \in Seqs : delivered[d][i] <= delivered'[d][i]
    BY <1>1, CappedType DEF TypeInv, TypeOK
  <1> QED
    BY <1>1, <1>2, <1>3, <1>4, PublishKeeps DEF TypeInv, Grows

\* A step that leaves the counts of deliveries alone.
LEMMA SameDelivered ==
    ASSUME TypeInv, UNCHANGED delivered
    PROVE  \A d \in Durables, i \in Seqs : delivered[d][i] <= delivered'[d][i]
  BY CappedType DEF TypeInv, TypeOK

\* A fetch counts the delivery and starts to handle it.
LEMMA FetchStep ==
    ASSUME TypeInv, NEW d \in Durables, NEW i \in Seqs, Fetch(d, i)
    PROVE  /\ TypeInv' /\ Grows /\ UNCHANGED <<streams, effects, dlq>>
           /\ \E f \in Delivery :
                 /\ inflight' = inflight \cup {f}
                 /\ f.phase = "fetched" /\ f.durable = d /\ f.seq = i
                 /\ f.count = delivered'[d][i]
  <1> DEFINE count == Capped(delivered[d][i] + 1, MaxDelivered)
             f == [durable |-> d, seq |-> i, count |-> count, phase |-> "fetched"]
  <1>1. delivered[d][i] \in 0 .. MaxDelivered
    BY DEF TypeInv, TypeOK
  <1>2. count \in 1 .. MaxDelivered /\ count \in 0 .. MaxDelivered /\ delivered[d][i] <= count
    BY <1>1, CappedType
  <1>3. f \in Delivery
    BY <1>2 DEF Delivery
  <1> HIDE DEF count
  <1>4. /\ delivered' = [delivered EXCEPT ![d][i] = count]
        /\ inflight' = inflight \cup {f}
        /\ state' = [state EXCEPT ![d][i] = "out"]
        /\ UNCHANGED <<streams, effects, dlq>>
        /\ Subscribed(d, i)
    BY DEF Fetch, count
  <1>5. /\ delivered' \in [Durables -> [Seqs -> 0 .. MaxDelivered]]
        /\ delivered'[d][i] = count
    BY <1>2, <1>4 DEF TypeInv, TypeOK
  <1>6. state' \in [Durables -> [Seqs -> {"due", "out", "acked"}]]
    BY <1>4 DEF TypeInv, TypeOK
  <1>7. TypeOK'
    BY <1>3, <1>4, <1>5, <1>6 DEF TypeInv, TypeOK
  <1>8. \A g \in inflight' : Subscribed(g.durable, g.seq)'
    BY <1>4, InFlight DEF TypeInv, Subscribed
  <1>9. \A k \in Durables, j \in Seqs : delivered[k][j] <= delivered'[k][j]
    <2> SUFFICES ASSUME NEW k \in Durables, NEW j \in Seqs
                 PROVE  delivered[k][j] <= delivered'[k][j]
      OBVIOUS
    <2>1. CASE k = d /\ j = i
      BY <1>2, <1>5, <2>1
    <2>2. CASE ~ (k = d /\ j = i)
      <3>1. delivered'[k][j] = delivered[k][j]
        BY <1>4, <2>2 DEF TypeInv, TypeOK
      <3>2. delivered[k][j] \in 0 .. MaxDelivered
        BY DEF TypeInv, TypeOK
      <3> QED
        BY <3>1, <3>2, CappedType
    <2> QED
      BY <2>1, <2>2
  <1>10. Grows
    BY <1>4, <1>9 DEF Grows
  <1> QED
    BY <1>3, <1>4, <1>5, <1>7, <1>8, <1>10 DEF TypeInv

\* A step with a delivery keeps the types if what it writes has them.
LEMMA MoveKeeps ==
    ASSUME TypeInv, NEW f \in inflight, UNCHANGED <<streams, delivered>>,
           \/ inflight' \subseteq inflight
           \/ \E phase \in {"recorded", "parking", "done"} : Moves(f, phase),
           state' \in [Durables -> [Seqs -> {"due", "out", "acked"}]],
           effects' \in [Services -> [Events -> 0 .. MaxEffects]],
           dlq' \in [Services -> SUBSET DeadLetter]
    PROVE  TypeInv'
  <1>1. /\ inflight' \subseteq Delivery
        /\ \A g \in inflight' : Subscribed(g.durable, g.seq)
    BY DEF Moves, TypeInv, TypeOK
  <1>2. TypeOK'
    BY <1>1 DEF TypeInv, TypeOK
  <1>3. \A g \in inflight' : Subscribed(g.durable, g.seq)'
    BY <1>1 DEF Subscribed
  <1> QED
    BY <1>2, <1>3 DEF TypeInv

\* The first statement of a handler: no other transaction of the event is open, and
\* its own is open afterwards unless the event was applied before.
LEMMA RecordStep ==
    ASSUME TypeInv, NEW f \in inflight, RecordProcessedEvent(f)
    PROVE  /\ TypeInv' /\ Grows /\ UNCHANGED <<streams, delivered, state, effects, dlq>>
           /\ Recording(f.durable.service, Message(f)) = {}
           /\ \/ Processed(f.durable.service, Message(f)) /\ Moves(f, "done")
              \/ ~ Processed(f.durable.service, Message(f)) /\ Moves(f, "recorded")
  <1>1. /\ UNCHANGED <<streams, delivered, state, effects, dlq>>
        /\ Recording(f.durable.service, Message(f)) = {}
        /\ \/ Processed(f.durable.service, Message(f)) /\ Enter(f, "done")
           \/ ~ Processed(f.durable.service, Message(f)) /\ Enter(f, "recorded")
    BY DEF RecordProcessedEvent
  <1>2. \/ Processed(f.durable.service, Message(f)) /\ Moves(f, "done")
        \/ ~ Processed(f.durable.service, Message(f)) /\ Moves(f, "recorded")
    BY <1>1, Phases
  <1>3. TypeInv'
    BY <1>1, <1>2, MoveKeeps DEF TypeInv, TypeOK
  <1>4. Grows
    BY <1>1, SameDelivered DEF Grows
  <1> QED
    BY <1>1, <1>2, <1>3, <1>4

\* A delivery whose handler failed is given up, to be made again, or is being parked.
Refused(f) ==
    \/ inflight' \subseteq inflight \ {f}
    \/ Moves(f, "parking") /\ (Message(f) \in Malformed \/ f.count > MaxRetries)

\* It acknowledges nothing.
LEMMA RefuseStep ==
    ASSUME TypeInv, NEW f \in inflight, Refuse(f)
    PROVE  /\ Refused(f)
           /\ state' \in [Durables -> [Seqs -> {"due", "out", "acked"}]]
           /\ \A d \in Durables, i \in Seqs : state'[d][i] = "acked" => state[d][i] = "acked"
  <1>1. f.durable \in Durables /\ f.seq \in Seqs
    BY InFlight
  <1>2. Refused(f)
    BY Phases DEF Refuse, Refused, Nak
  <1>3. \/ UNCHANGED state
        \/ state' = [state EXCEPT ![f.durable][f.seq] = IF @ = "out" THEN "due" ELSE @]
    BY DEF Refuse, Nak
  <1>4. /\ state' \in [Durables -> [Seqs -> {"due", "out", "acked"}]]
        /\ \A d \in Durables, i \in Seqs : state'[d][i] = "acked" => state[d][i] = "acked"
    <2>1. CASE UNCHANGED state
      BY <2>1 DEF TypeInv, TypeOK
    <2>2. CASE state' = [state EXCEPT ![f.durable][f.seq] = IF @ = "out" THEN "due" ELSE @]
      BY <1>1, <2>2 DEF TypeInv, TypeOK
    <2> QED
      BY <1>3, <2>1, <2>2
  <1> QED
    BY <1>2, <1>4

\* A commit adds one effect, of the event whose transaction was open and is open no
\* more, whether or not the handler is told.
LEMMA CommitStep ==
    ASSUME TypeInv, NEW f \in inflight, HandleSucceeds(f) \/ CommitUnanswered(f)
    PROVE  /\ TypeInv' /\ Grows /\ UNCHANGED <<streams, delivered, dlq>>
           /\ f.phase = "recorded"
           /\ Moves(f, "done") \/ Refused(f)
           /\ effects'[f.durable.service][Message(f)] > 0
           /\ \A s \in Services, e \in Events :
                 \/ effects'[s][e] = effects[s][e]
                 \/ /\ s = f.durable.service /\ e = Message(f)
                    /\ effects[s][e] = 0 => effects'[s][e] = 1
           /\ \A d \in Durables, i \in Seqs : state'[d][i] = "acked" => state[d][i] = "acked"
  <1> DEFINE service == f.durable.service
             event == Message(f)
  <1>1. service \in Services /\ event \in Events
    BY InFlight
  <1>2. /\ UNCHANGED <<streams, delivered, dlq>> /\ f.phase = "recorded"
        /\ effects' = [effects EXCEPT ![service][event] = Capped(@ + 1, MaxEffects)]
    BY DEF HandleSucceeds, CommitUnanswered, Commit
  <1>3. /\ Moves(f, "done") \/ Refused(f)
        /\ state' \in [Durables -> [Seqs -> {"due", "out", "acked"}]]
        /\ \A d \in Durables, i \in Seqs : state'[d][i] = "acked" => state[d][i] = "acked"
    <2>1. CASE HandleSucceeds(f)
      BY <2>1, Phases DEF HandleSucceeds, TypeInv, TypeOK
    <2>2. CASE CommitUnanswered(f)
      BY <2>2, RefuseStep DEF CommitUnanswered
    <2> QED
      BY <2>1, <2>2
  <1> HIDE DEF service, event
  <1>4. \A s \in Services, e \in Events : effects[s][e] \in 0 .. MaxEffects
    BY DEF TypeInv, TypeOK
  <1> DEFINE new == Capped(effects[service][event] + 1, MaxEffects)
  <1>5. /\ new \in 1 .. MaxEffects /\ new > 0 /\ new \in 0 .. MaxEffects
        /\ effects[service][event] = 0 => new = 1
    BY <1>1, <1>4, CappedType DEF MaxEffects
  <1> HIDE DEF new
  <1>6. effects' = [effects EXCEPT ![service][event] = new]
    BY <1>1, <1>2 DEF new, TypeInv, TypeOK
  <1>7. /\ effects' \in [Services -> [Events -> 0 .. MaxEffects]]
        /\ effects'[service][event] = new
        /\ \A s \in Services, e \in Events :
              effects'[s][e] = effects[s][e] \/ (s = service /\ e = event)
    BY <1>1, <1>5, <1>6 DEF TypeInv, TypeOK
  <1>8. TypeInv'
    BY <1>2, <1>3, <1>7, MoveKeeps DEF Refused, TypeInv, TypeOK
  <1>9. \A s \in Services, e \in Events : effects[s][e] > 0 => effects'[s][e] > 0
    BY <1>5, <1>7
  <1>10. Grows
    BY <1>2, <1>9, SameDelivered DEF Grows
  <1> QED
    BY <1>2, <1>3, <1>5, <1>7, <1>8, <1>10 DEF service, event

\* Parking leaves a record of the event, under the id of its message.
LEMMA ParkStep ==
    ASSUME TypeInv, NEW f \in inflight, ParkSucceeds(f)
    PROVE  /\ TypeInv' /\ Grows /\ UNCHANGED <<streams, delivered, state, effects>>
           /\ Moves(f, "done") /\ f.phase = "parking"
           /\ \A s \in Services : \A r \in dlq'[s] :
                 \/ r \in dlq[s]
                 \/ s = f.durable.service /\ r.id = <<f.durable.stream, f.seq>> /\ r.event = Message(f)
           /\ \E r \in dlq'[f.durable.service] : r.id = <<f.durable.stream, f.seq>>
  <1> DEFINE service == f.durable.service
             id == DeadLetterId(f.durable, f.seq)
             new == [id |-> id, stream |-> f.durable.stream, event |-> Message(f)]
  <1>1. /\ service \in Services /\ f.durable.stream \in Streams /\ f.seq \in Seqs
        /\ Message(f) \in Events
    BY InFlight
  <1>2. /\ Moves(f, "done") /\ f.phase = "parking" /\ UNCHANGED <<streams, delivered, state, effects>>
        /\ dlq' = [dlq EXCEPT ![service] = IF \E r \in @ : r.id = id THEN @ ELSE @ \cup {new}]
    BY Phases DEF ParkSucceeds
  <1>3. new \in DeadLetter /\ new.id = <<f.durable.stream, f.seq>> /\ new.event = Message(f)
        /\ id = <<f.durable.stream, f.seq>>
    BY <1>1 DEF DeadLetter, DeadLetterId
  <1> HIDE DEF service, id, new
  <1>4. \/ dlq' = dlq /\ \E r \in dlq[service] : r.id = id
        \/ dlq' = [dlq EXCEPT ![service] = @ \cup {new}]
    BY <1>1, <1>2 DEF TypeInv, TypeOK
  <1>5. /\ dlq' \in [Services -> SUBSET DeadLetter]
        /\ \A s \in Services : dlq[s] \subseteq dlq'[s]
        /\ \A s \in Services : \A r \in dlq'[s] : r \in dlq[s] \/ (s = service /\ r = new)
        /\ \E r \in dlq'[service] : r.id = id
    BY <1>1, <1>3, <1>4 DEF TypeInv, TypeOK
  <1>6. TypeInv'
    BY <1>2, <1>5, MoveKeeps DEF TypeInv, TypeOK
  <1>7. Grows
    BY <1>2, <1>5, SameDelivered DEF Grows
  <1> QED
    BY <1>2, <1>3, <1>5, <1>6, <1>7 DEF service

\* The other steps change neither messages nor counts, effects or records, and only
\* an acknowledgement makes a message acknowledged.
LEMMA RestStep ==
    ASSUME TypeInv, NEW f \in inflight, HandleFails(f) \/ ParkFails(f) \/ Ack(f) \/ Lose(f)
    PROVE  /\ TypeInv' /\ Grows /\ UNCHANGED <<streams, delivered, effects, dlq>>
           /\ Refused(f)
           /\ \A d \in Durables, i \in Seqs : state'[d][i] = "acked" =>
                 state[d][i] = "acked" \/ (f.phase = "done" /\ d = f.durable /\ i = f.seq)
  <1>1. f.durable \in Durables /\ f.seq \in Seqs
    BY InFlight
  <1>2. UNCHANGED <<streams, delivered, effects, dlq>>
    BY DEF HandleFails, ParkFails, Ack, Lose
  <1>3. /\ Refused(f)
        /\ state' \in [Durables -> [Seqs -> {"due", "out", "acked"}]]
        /\ \A d \in Durables, i \in Seqs : state'[d][i] = "acked" =>
              state[d][i] = "acked" \/ (f.phase = "done" /\ d = f.durable /\ i = f.seq)
    <2>1. CASE HandleFails(f)
      BY <2>1, RefuseStep DEF HandleFails
    <2>2. CASE ParkFails(f)
      BY <1>1, <2>2, Phases DEF ParkFails, Nak, Refused, TypeInv, TypeOK
    <2>3. CASE Ack(f)
      BY <1>1, <2>3, Phases DEF Ack, Refused, TypeInv, TypeOK
    <2>4. CASE Lose(f)
      BY <2>4, Phases DEF Lose, Refused, TypeInv, TypeOK
    <2> QED
      BY <2>1, <2>2, <2>3, <2>4
  <1>4. TypeInv'
    BY <1>2, <1>3, MoveKeeps DEF Refused, TypeInv, TypeOK
  <1>5. Grows
    BY <1>2, SameDelivered DEF Grows
  <1> QED
    BY <1>2, <1>3, <1>4, <1>5

\* The acknowledgement wait of a message ends.
LEMMA ExpireStep ==
    ASSUME TypeInv, NEW d \in Durables, NEW i \in Seqs, AckWaitExpires(d, i)
    PROVE  /\ TypeInv' /\ Grows /\ UNCHANGED <<streams, delivered, inflight, effects, dlq>>
           /\ \A k \in Durables, j \in Seqs : state'[k][j] = "acked" => state[k][j] = "acked"
  <1>1. /\ UNCHANGED <<streams, delivered, inflight, effects, dlq>>
        /\ state' = [state EXCEPT ![d][i] = "due"]
    BY DEF AckWaitExpires
  <1>2. /\ state' \in [Durables -> [Seqs -> {"due", "out", "acked"}]]
        /\ \A k \in Durables, j \in Seqs : state'[k][j] = "acked" => state[k][j] = "acked"
    BY <1>1 DEF TypeInv, TypeOK
  <1>3. TypeInv'
    BY <1>1, <1>2 DEF TypeInv, TypeOK, Subscribed
  <1>4. Grows
    BY <1>1, SameDelivered DEF Grows
  <1> QED
    BY <1>1, <1>2, <1>3, <1>4

\* Every publication is of an event to a stream.
LEMMA Publication ==
    ASSUME TypeInv,
           \/ \E e \in Events : Publish(e.stream, e)
           \/ \E service \in Services : \E r \in dlq[service] : ReplayDeadLetter(service, r)
    PROVE  \E s \in Streams, e \in Events : Publish(s, e)
  BY Kinds DEF ReplayDeadLetter, TypeInv, TypeOK, DeadLetter

\* TypeInv holds in every reachable state.
LEMMA TypeInvariant == Spec => []TypeInv
  <1>1. Init => TypeInv
    <2> SUFFICES ASSUME Init PROVE TypeInv
      OBVIOUS
    <2>1. <<>> \in Seq(Events) /\ 0 \in 0 .. MaxDelivered /\ 0 \in 0 .. MaxEffects
      BY CappedType DEF MaxEffects
    <2> QED
      BY <2>1 DEF Init, TypeInv, TypeOK
  <1>2. TypeInv /\ [Next]_vars => TypeInv'
    <2> SUFFICES ASSUME TypeInv, [Next]_vars PROVE TypeInv'
      OBVIOUS
    <2>1. CASE UNCHANGED vars
      BY <2>1 DEF vars, TypeInv, TypeOK, Subscribed
    <2>2. CASE Next
      BY <2>2, Publication, PublishStep, FetchStep, ExpireStep, RecordStep, CommitStep, ParkStep,
         RestStep
         DEF Next, HandleDelivery, Park
    <2> QED
      BY <2>1, <2>2
  <1> QED
    BY <1>1, <1>2, PTL DEF Spec

\* Every stream, count, delivery and record has the shape of its type.
THEOREM TypeCorrect == Spec => []TypeOK
  BY TypeInvariant, PTL DEF TypeInv

----------------------------------------------------------------------------
(* Effects. *)

\* The inductive invariant for EffectsOnce: the uncommitted id of an event excludes
\* every other transaction of that event, and the event was not applied before. So
\* the commit, which does not look again, adds the first effect.
EffectInv ==
    /\ EffectsOnce
    /\ \A f \in inflight : f.phase = "recorded" =>
          /\ effects[f.durable.service][Message(f)] = 0
          /\ \A g \in Recording(f.durable.service, Message(f)) : g = f

\* A step that leaves the effects alone and opens no transaction keeps it.
LEMMA EffectKeeps ==
    ASSUME TypeInv, EffectInv, Grows, UNCHANGED effects,
           \A g \in inflight' : g \in inflight \/ g.phase # "recorded"
    PROVE  EffectInv'
  <1>1. \A g \in inflight : Message(g)' = Message(g)
    BY InFlight, SubscribedStays DEF Message, Grows, TypeInv
  <1>2. EffectsOnce'
    BY DEF EffectInv, EffectsOnce
  <1>3. ASSUME NEW f \in inflight', f.phase = "recorded"
        PROVE  /\ effects'[f.durable.service][Message(f)'] = 0
               /\ \A g \in inflight' : g.phase = "recorded" /\ g.durable.service = f.durable.service
                                        /\ Message(g)' = Message(f)' => g = f
    BY <1>1, <1>3 DEF EffectInv, Recording
  <1> QED
    BY <1>2, <1>3 DEF EffectInv, Recording

\* No event has a second effect in a service, however many transactions of it are
\* open at a time and however often it is published or replayed.
THEOREM OneEffect == Spec => []EffectsOnce
  <1>1. Init => EffectInv
    BY DEF Init, EffectInv, EffectsOnce
  <1>2. TypeInv /\ TypeInv' /\ EffectInv /\ [Next]_vars => EffectInv'
    <2> SUFFICES ASSUME TypeInv, TypeInv', EffectInv, [Next]_vars PROVE EffectInv'
      OBVIOUS
    <2>1. ASSUME NEW s \in Streams, NEW e \in Events, Publish(s, e)
          PROVE  EffectInv'
      BY <2>1, PublishStep, EffectKeeps
    <2>2. ASSUME NEW d \in Durables, NEW i \in Seqs, Fetch(d, i)
          PROVE  EffectInv'
      BY <2>2, FetchStep, EffectKeeps
    <2>3. ASSUME NEW d \in Durables, NEW i \in Seqs, AckWaitExpires(d, i)
          PROVE  EffectInv'
      BY <2>3, ExpireStep, EffectKeeps
    <2>4. ASSUME NEW f \in inflight, RecordProcessedEvent(f)
          PROVE  EffectInv'
      <3>1. CASE Moves(f, "done")
        BY <2>4, <3>1, RecordStep, EffectKeeps DEF Moves
      <3>2. CASE ~ Processed(f.durable.service, Message(f)) /\ Moves(f, "recorded")
        <4>1. PICK h \in Delivery :
                 /\ inflight' \subseteq (inflight \ {f}) \cup {h}
                 /\ h.durable = f.durable /\ h.seq = f.seq /\ h.phase = "recorded"
          BY <3>2 DEF Moves
        <4>2. UNCHANGED <<streams, effects>> /\ Recording(f.durable.service, Message(f)) = {}
          BY <2>4, RecordStep
        <4>3. effects[f.durable.service][Message(f)] = 0
          <5>1. f.durable.service \in Services /\ Message(f) \in Events
            BY InFlight
          <5>2. effects[f.durable.service][Message(f)] \in 0 .. MaxEffects
            BY <5>1 DEF TypeInv, TypeOK
          <5> QED
            BY <3>2, <5>2 DEF Processed, MaxEffects
        <4>4. EffectsOnce'
          BY <4>2 DEF EffectInv, EffectsOnce
        <4>5. Message(h) = Message(f) /\ \A g : Message(g)' = Message(g)
          BY <4>1, <4>2 DEF Message
        <4>6. \A g \in inflight : g.phase = "recorded" =>
                 ~ (g.durable.service = h.durable.service /\ Message(g) = Message(h))
          BY <4>1, <4>2, <4>5 DEF Recording
        <4>7. ASSUME NEW g \in inflight', g.phase = "recorded"
              PROVE  /\ effects[g.durable.service][Message(g)] = 0
                     /\ \A k \in inflight' : k.phase = "recorded" /\ Message(k) = Message(g)
                            /\ k.durable.service = g.durable.service => k = g
          BY <4>1, <4>3, <4>5, <4>6, <4>7 DEF EffectInv, Recording
        <4> QED
          BY <4>2, <4>4, <4>5, <4>7 DEF EffectInv, Recording
      <3> QED
        BY <2>4, <3>1, <3>2, RecordStep
    <2>5. ASSUME NEW f \in inflight, HandleSucceeds(f) \/ CommitUnanswered(f)
          PROVE  EffectInv'
      <3>1. f.phase = "recorded" /\ UNCHANGED streams
        BY <2>5, CommitStep
      <3>2. /\ f.durable.service \in Services /\ Message(f) \in Events
            /\ effects[f.durable.service][Message(f)] = 0
            /\ \A g \in inflight : g.phase = "recorded" /\ g # f =>
                  ~ (g.durable.service = f.durable.service /\ Message(g) = Message(f))
        BY <3>1, InFlight DEF EffectInv, Recording
      <3>3. EffectsOnce'
        BY <2>5, <3>2, CommitStep DEF EffectInv, EffectsOnce
      <3>4. \A g \in inflight' : g.phase = "recorded" => g \in inflight \ {f}
        BY <2>5, <3>1, CommitStep DEF Moves, Refused
      <3>5. \A g : Message(g)' = Message(g)
        BY <3>1 DEF Message
      <3>6. ASSUME NEW g \in inflight', g.phase = "recorded"
            PROVE  /\ effects'[g.durable.service][Message(g)] = 0
                   /\ \A k \in inflight' : k.phase = "recorded" /\ Message(k) = Message(g)
                          /\ k.durable.service = g.durable.service => k = g
        <4>1. g \in inflight /\ g # f /\ g.durable.service \in Services /\ Message(g) \in Events
          BY <3>4, <3>6, InFlight
        <4>2. effects'[g.durable.service][Message(g)] = effects[g.durable.service][Message(g)]
          BY <2>5, <3>2, <3>6, <4>1, CommitStep
        <4> QED
          BY <3>4, <3>6, <4>1, <4>2 DEF EffectInv, Recording
      <3> QED
        BY <3>3, <3>5, <3>6 DEF EffectInv, Recording
    <2>6. ASSUME NEW f \in inflight, ParkSucceeds(f)
          PROVE  EffectInv'
      BY <2>6, ParkStep, EffectKeeps DEF Moves
    <2>7. ASSUME NEW f \in inflight, HandleFails(f) \/ ParkFails(f) \/ Ack(f) \/ Lose(f)
          PROVE  EffectInv'
      BY <2>7, RestStep, EffectKeeps DEF Moves, Refused
    <2>8. CASE UNCHANGED vars
      BY <2>8 DEF vars, EffectInv, EffectsOnce, Recording, Message
    <2> QED
      BY <2>1, <2>2, <2>3, <2>4, <2>5, <2>6, <2>7, <2>8, Publication DEF Next, HandleDelivery, Park
  <1> QED
    BY <1>1, <1>2, TypeInvariant, PTL DEF Spec, EffectInv

----------------------------------------------------------------------------
(* Messages. *)

\* The event was applied or is in the dead letter stream.
Settled(d, i) ==
    \/ effects[d.service][streams[d.stream][i]] > 0
    \/ \E r \in dlq[d.service] : r.event = streams[d.stream][i]

\* A record holds the event of the message its id names. So a message that finds a
\* record with its id there, and is not parked again, is the one that was parked.
RecordOK(r) ==
    r.id[2] \in DOMAIN streams[r.id[1]] /\ r.event = streams[r.id[1]][r.id[2]]

\* The inductive invariant for NothingIsLost: a delivery is done, which is when it
\* may be acknowledged, only when its message is settled. The acknowledgement may
\* come much later, after other deliveries of the message.
LossInv ==
    /\ \A s \in Services : \A r \in dlq[s] : RecordOK(r)
    /\ \A f \in inflight : f.phase = "done" => Settled(f.durable, f.seq)
    /\ \A d \in Durables, i \in Seqs :
          state[d][i] = "acked" => Subscribed(d, i) /\ Settled(d, i)

\* What is settled stays settled.
LEMMA SettledStays ==
    ASSUME TypeInv, Grows, NEW d \in Durables, NEW i \in Seqs, Subscribed(d, i), Settled(d, i)
    PROVE  Settled(d, i)'
  <1>1. d.service \in Services /\ streams[d.stream][i] \in Events
    BY Kinds DEF Subscribed, Events
  <1>2. streams'[d.stream][i] = streams[d.stream][i]
    BY SubscribedStays DEF Grows
  <1> QED
    BY <1>1, <1>2 DEF Settled, Grows

\* It is enough to look at what a step adds.
LEMMA LossKeeps ==
    ASSUME TypeInv, TypeInv', LossInv, Grows,
           \A s \in Services : \A r \in dlq'[s] : r \in dlq[s] \/ RecordOK(r)',
           \A f \in inflight' : f \in inflight \/ (f.phase = "done" => Settled(f.durable, f.seq)'),
           \A d \in Durables, i \in Seqs : state'[d][i] = "acked" =>
               state[d][i] = "acked" \/ (Subscribed(d, i) /\ Settled(d, i))
    PROVE  LossInv'
  <1>1. ASSUME NEW s \in Services, NEW r \in dlq'[s]
        PROVE  RecordOK(r)'
    <2>1. CASE RecordOK(r)'
      BY <2>1
    <2>2. CASE r \in dlq[s]
      <3>1. r \in DeadLetter /\ RecordOK(r)
        BY <2>2 DEF TypeInv, TypeOK, LossInv
      <3>2. r.id[1] \in Streams
        BY <3>1 DEF DeadLetter
      <3> QED
        BY <3>1, <3>2 DEF RecordOK, Grows
    <2> QED
      BY <2>1, <2>2
  <1>2. ASSUME NEW f \in inflight', f.phase = "done"
        PROVE  Settled(f.durable, f.seq)'
    <2>1. CASE f \in inflight
      <3>1. f.durable \in Durables /\ f.seq \in Seqs /\ Subscribed(f.durable, f.seq)
        BY <2>1, InFlight DEF TypeInv
      <3>2. Settled(f.durable, f.seq)
        BY <1>2, <2>1 DEF LossInv
      <3> QED
        BY <3>1, <3>2, SettledStays
    <2> QED
      BY <1>2, <2>1
  <1>3. ASSUME NEW d \in Durables, NEW i \in Seqs, state'[d][i] = "acked"
        PROVE  Subscribed(d, i)' /\ Settled(d, i)'
    <2>1. Subscribed(d, i) /\ Settled(d, i)
      BY <1>3 DEF LossInv
    <2> QED
      BY <2>1, SettledStays, SubscribedStays DEF Grows
  <1> QED
    BY <1>1, <1>2, <1>3 DEF LossInv

\* A durable is done with a message only when its service has applied the event or
\* has parked it, for any overlap of deliveries, lost answers and failed parkings.
THEOREM NothingLost == Spec => []NothingIsLost
  <1>1. Init => LossInv
    BY DEF Init, LossInv
  <1>2. TypeInv /\ TypeInv' /\ LossInv /\ [Next]_vars => LossInv'
    <2> SUFFICES ASSUME TypeInv, TypeInv', LossInv, [Next]_vars PROVE LossInv'
      OBVIOUS
    <2>1. ASSUME NEW s \in Streams, NEW e \in Events, Publish(s, e)
          PROVE  LossInv'
      BY <2>1, PublishStep, LossKeeps
    <2>2. ASSUME NEW d \in Durables, NEW i \in Seqs, Fetch(d, i)
          PROVE  LossInv'
      <3>1. \A k \in Durables, j \in Seqs : state'[k][j] = "acked" => state[k][j] = "acked"
        BY <2>2 DEF Fetch, TypeInv, TypeOK
      <3> QED
        BY <2>2, <3>1, FetchStep, LossKeeps
    <2>3. ASSUME NEW d \in Durables, NEW i \in Seqs, AckWaitExpires(d, i)
          PROVE  LossInv'
      BY <2>3, ExpireStep, LossKeeps
    <2>4. ASSUME NEW f \in inflight, RecordProcessedEvent(f)
          PROVE  LossInv'
      <3>1. Processed(f.durable.service, Message(f)) => Settled(f.durable, f.seq)'
        BY <2>4, RecordStep DEF Processed, Settled, Message
      <3>2. \A g \in inflight' : g \in inflight \/ (g.phase = "done" => Settled(g.durable, g.seq)')
        BY <2>4, <3>1, RecordStep DEF Moves
      <3> QED
        BY <2>4, <3>2, RecordStep, LossKeeps
    <2>5. ASSUME NEW f \in inflight, HandleSucceeds(f) \/ CommitUnanswered(f)
          PROVE  LossInv'
      <3>1. Settled(f.durable, f.seq)'
        BY <2>5, CommitStep DEF Settled, Message
      <3>2. \A g \in inflight' : g \in inflight \/ Settled(g.durable, g.seq)'
        BY <2>5, <3>1, CommitStep DEF Moves, Refused
      <3> QED
        BY <2>5, <3>2, CommitStep, LossKeeps
    <2>6. ASSUME NEW f \in inflight, ParkSucceeds(f)
          PROVE  LossInv'
      <3>1. /\ f.durable \in Durables /\ f.durable.service \in Services
            /\ f.durable.stream \in Streams /\ f.seq \in Seqs /\ Subscribed(f.durable, f.seq)
        BY InFlight DEF TypeInv
      <3>2. \A s \in Services : \A r \in dlq'[s] : r \in dlq[s] \/ RecordOK(r)'
        BY <2>6, <3>1, ParkStep DEF RecordOK, Message, Subscribed
      <3>3. \A s \in Services : \A r \in dlq'[s] : RecordOK(r)'
        BY <2>6, <3>2, ParkStep DEF LossInv, RecordOK
      <3>4. Settled(f.durable, f.seq)'
        BY <2>6, <3>1, <3>3, ParkStep DEF Settled, RecordOK
      <3>5. \A g \in inflight' : g \in inflight \/ Settled(g.durable, g.seq)'
        BY <2>6, <3>4, ParkStep DEF Moves
      <3> QED
        BY <2>6, <3>2, <3>5, ParkStep, LossKeeps
    <2>7. ASSUME NEW f \in inflight, HandleFails(f) \/ ParkFails(f) \/ Ack(f) \/ Lose(f)
          PROVE  LossInv'
      <3>1. f.phase = "done" => Subscribed(f.durable, f.seq) /\ Settled(f.durable, f.seq)
        BY DEF LossInv, TypeInv
      <3>2. \A g \in inflight' : g \in inflight \/ g.phase # "done"
        BY <2>7, RestStep DEF Moves, Refused
      <3> QED
        BY <2>7, <3>1, <3>2, RestStep, LossKeeps
    <2>8. CASE UNCHANGED vars
      BY <2>8 DEF vars, LossInv, RecordOK, Settled, Subscribed
    <2> QED
      BY <2>1, <2>2, <2>3, <2>4, <2>6, <2>7, <2>8, <2>5, Publication DEF Next, HandleDelivery, Park
  <1>3. LossInv => NothingIsLost
    BY DEF LossInv, NothingIsLost, Settled, Processed
  <1> QED
    BY <1>1, <1>2, <1>3, TypeInvariant, PTL DEF Spec

----------------------------------------------------------------------------
(* Retries. *)

\* Message i of stream s was delivered as often as it is retried, to a durable of
\* the service.
Exhausted(service, s, i) ==
    \E d \in Durables : d.service = service /\ d.stream = s /\ delivered[d][i] > MaxRetries

\* The inductive invariant for ParkedAfterAllRetries: a delivery that is being
\* parked was the last, and the broker has counted at least that many.
RetryInv ==
    /\ ParkedAfterAllRetries
    /\ \A f \in inflight :
          /\ f.count <= delivered[f.durable][f.seq]
          /\ f.phase = "parking" => Message(f) \in Malformed \/ f.count > MaxRetries

\* It is enough to look at what a step adds.
LEMMA RetryKeeps ==
    ASSUME TypeInv, TypeInv', RetryInv, Grows,
           \A s \in Services : \A r \in dlq'[s] :
               r \in dlq[s] \/ r.event \in Malformed \/ Exhausted(s, r.id[1], r.id[2])',
           \A f \in inflight' : f \in inflight \/
               /\ f.count <= delivered'[f.durable][f.seq]
               /\ f.phase = "parking" => Message(f)' \in Malformed \/ f.count > MaxRetries
    PROVE  RetryInv'
  <1>1. \A d \in Durables, i \in Seqs :
           delivered[d][i] \in Nat /\ delivered'[d][i] \in Nat /\ delivered[d][i] <= delivered'[d][i]
    BY CappedType DEF Grows, TypeInv, TypeOK
  <1>2. ASSUME NEW s \in Services, NEW r \in dlq'[s]
        PROVE  r.event \in Malformed \/ Exhausted(s, r.id[1], r.id[2])'
    <2>1. CASE r \in dlq[s]
      <3>1. r.event \in Malformed \/ Exhausted(s, r.id[1], r.id[2])
        BY <2>1 DEF RetryInv, ParkedAfterAllRetries, Exhausted
      <3>2. r.id[2] \in Seqs
        BY <2>1 DEF TypeInv, TypeOK, DeadLetter
      <3> QED
        BY <1>1, <3>1, <3>2, CappedType DEF Exhausted
    <2> QED
      BY <2>1
  <1>3. ASSUME NEW f \in inflight'
        PROVE  /\ f.count <= delivered'[f.durable][f.seq]
               /\ f.phase = "parking" => Message(f)' \in Malformed \/ f.count > MaxRetries
    <2>1. CASE f \in inflight
      <3>1. f.durable \in Durables /\ f.seq \in Seqs /\ Subscribed(f.durable, f.seq)
            /\ f.count \in 1 .. MaxDelivered
        BY <2>1, InFlight DEF TypeInv
      <3>2. Message(f)' = Message(f)
        BY <3>1, SubscribedStays DEF Message, Grows
      <3> QED
        BY <1>1, <2>1, <3>1, <3>2, CappedType DEF RetryInv
    <2> QED
      BY <2>1
  <1>4. ParkedAfterAllRetries'
    BY <1>2 DEF ParkedAfterAllRetries, Exhausted
  <1> QED
    BY <1>3, <1>4 DEF RetryInv

\* A well-formed event is parked only after a durable of the service got it as often
\* as it is to be retried, for every number of retries.
THEOREM ParkedLast == Spec => []ParkedAfterAllRetries
  <1>1. Init => RetryInv
    BY DEF Init, RetryInv, ParkedAfterAllRetries
  <1>2. TypeInv /\ TypeInv' /\ RetryInv /\ [Next]_vars => RetryInv'
    <2> SUFFICES ASSUME TypeInv, TypeInv', RetryInv, [Next]_vars PROVE RetryInv'
      OBVIOUS
    <2>1. ASSUME NEW s \in Streams, NEW e \in Events, Publish(s, e)
          PROVE  RetryInv'
      BY <2>1, PublishStep, RetryKeeps
    <2>2. ASSUME NEW d \in Durables, NEW i \in Seqs, Fetch(d, i)
          PROVE  RetryInv'
      <3>1. delivered'[d][i] <= delivered'[d][i]
        BY CappedType DEF TypeInv, TypeOK
      <3> QED
        BY <2>2, <3>1, FetchStep, RetryKeeps
    <2>3. ASSUME NEW d \in Durables, NEW i \in Seqs, AckWaitExpires(d, i)
          PROVE  RetryInv'
      BY <2>3, ExpireStep, RetryKeeps
    <2>4. ASSUME NEW f \in inflight, RecordProcessedEvent(f)
          PROVE  RetryInv'
      <3>1. \A g \in inflight' : g \in inflight \/
               (g.count <= delivered'[g.durable][g.seq] /\ g.phase # "parking")
        BY <2>4, RecordStep DEF Moves, RetryInv
      <3> QED
        BY <2>4, <3>1, RecordStep, RetryKeeps
    <2>5. ASSUME NEW f \in inflight, HandleSucceeds(f) \/ CommitUnanswered(f)
          PROVE  RetryInv'
      <3>1. \A g \in inflight' : g \in inflight \/
               /\ g.count <= delivered'[g.durable][g.seq]
               /\ g.phase = "parking" => Message(g)' \in Malformed \/ g.count > MaxRetries
        BY <2>5, CommitStep DEF Moves, Refused, RetryInv, Message
      <3> QED
        BY <2>5, <3>1, CommitStep, RetryKeeps
    <2>6. ASSUME NEW f \in inflight, ParkSucceeds(f)
          PROVE  RetryInv'
      <3>1. \A g \in inflight' : g \in inflight \/
               (g.count <= delivered'[g.durable][g.seq] /\ g.phase # "parking")
        BY <2>6, ParkStep DEF Moves, RetryInv
      <3>2. f.durable \in Durables /\ f.seq \in Seqs /\ f.count \in 1 .. MaxDelivered
        BY InFlight
      <3>3. delivered[f.durable][f.seq] \in Nat /\ f.count <= delivered[f.durable][f.seq]
        BY <3>2, CappedType DEF TypeInv, TypeOK, RetryInv
      <3>4. Message(f) \in Malformed \/ delivered'[f.durable][f.seq] > MaxRetries
        BY <2>6, <3>2, <3>3, CappedType, ParkStep DEF RetryInv
      <3>5. \A s \in Services : \A r \in dlq'[s] :
               r \in dlq[s] \/ r.event \in Malformed \/ Exhausted(s, r.id[1], r.id[2])'
        BY <2>6, <3>2, <3>4, ParkStep DEF Exhausted
      <3> QED
        BY <2>6, <3>1, <3>5, ParkStep, RetryKeeps
    <2>7. ASSUME NEW f \in inflight, HandleFails(f) \/ ParkFails(f) \/ Ack(f) \/ Lose(f)
          PROVE  RetryInv'
      <3>1. \A g \in inflight' : g \in inflight \/
               /\ g.count <= delivered'[g.durable][g.seq]
               /\ Message(g)' \in Malformed \/ g.count > MaxRetries
        BY <2>7, RestStep DEF Moves, Refused, RetryInv, Message
      <3> QED
        BY <2>7, <3>1, RestStep, RetryKeeps
    <2>8. CASE UNCHANGED vars
      BY <2>8 DEF vars, RetryInv, ParkedAfterAllRetries, Message
    <2> QED
      BY <2>1, <2>2, <2>3, <2>4, <2>6, <2>7, <2>8, <2>5, Publication DEF Next, HandleDelivery, Park
  <1>3. RetryInv => ParkedAfterAllRetries
    BY DEF RetryInv
  <1> QED
    BY <1>1, <1>2, <1>3, TypeInvariant, PTL DEF Spec

----------------------------------------------------------------------------
(* The publishers that fill the streams: Outbox. *)

CONSTANTS
    Sequence, Publishers, BatchSize, LeaseDuration, MaxExponent, MaxBackoff, DuplicateWindow, None

VARIABLES rows, stream, batch, sent

O == INSTANCE Outbox

----------------------------------------------------------------------------
(* Types. *)

\* A power of two is a natural number, as it counts the subsets of a set.
LEMMA PowerOfTwo ==
    ASSUME NEW n \in Nat
    PROVE  2 ^ n \in Nat
  <1>1. IsFiniteSet(1 .. n) /\ Cardinality(1 .. n) = n
    BY FS_Interval
  <1>2. Cardinality(SUBSET (1 .. n)) = 2 ^ n /\ IsFiniteSet(SUBSET (1 .. n))
    BY <1>1, FS_SUBSET
  <1> QED
    BY <1>2, FS_CardinalityType

\* The backoff is at most its limit, for every number of attempts.
LEMMA BackoffType ==
    ASSUME O!ConstantsAssumption, O!NoneAssumption,
           NEW n \in Nat
    PROVE  O!Backoff(n) \in 0 .. MaxBackoff
  <1>1. O!Smaller(n + 1, MaxExponent) \in Nat /\ MaxBackoff \in Nat
    BY O!ConstantsAssumption DEF O!Smaller
  <1>2. 2 ^ O!Smaller(n + 1, MaxExponent) \in Nat
    BY <1>1, PowerOfTwo
  <1> QED
    BY <1>1, <1>2 DEF O!Backoff, O!Smaller

\* What a step makes of one row of the table and, with it, of a message. Every
\* field but published is of no account to the relay.
RowKept(i) == IF O!Committed(i) THEN O!Committed(i)' /\ rows'[i].published = rows[i].published
                              ELSE ~ O!Committed(i)'

\* A committed row is a row.
LEMMA RowFacts ==
    ASSUME O!TypeOK, NEW i \in Sequence, O!Committed(i)
    PROVE  /\ rows[i] \in O!Row /\ rows[i].published \in BOOLEAN
           /\ rows[i].attempts \in 0 .. MaxExponent
           /\ rows[i].lease \in 0 .. LeaseDuration + 1 /\ rows[i].retry \in 0 .. MaxBackoff
  <1>1. rows[i] \in O!Row
    BY DEF O!TypeOK, O!Committed
  <1> QED
    BY <1>1 DEF O!Row

\* The stream after a message was stored or recognised.
LEMMA StoreType ==
    ASSUME O!ConstantsAssumption, O!NoneAssumption,
           O!TypeOK, NEW i \in Sequence, O!Store(i)
    PROVE  /\ stream' \in [Sequence -> O!Stored]
           /\ \A j \in Sequence : j # i => stream'[j] = stream[j]
           /\ stream[i].window > 0 => stream'[i] = stream[i]
           /\ ~ (stream[i].window > 0) => stream'[i].copies > 0
  <1>1. stream[i] \in O!Stored
    BY DEF O!TypeOK
  <1> DEFINE new == [copies |-> O!Smaller(stream[i].copies + 1, O!MaxCopies), window |-> DuplicateWindow]
  <1>2. new \in O!Stored /\ new.copies > 0
    BY <1>1, O!ConstantsAssumption DEF O!Stored, O!Smaller, O!MaxCopies
  <1>3. IF stream[i].window > 0 THEN stream' = stream ELSE stream' = [stream EXCEPT ![i] = new]
    BY DEF O!Store, O!TypeOK
  <1> HIDE DEF new
  <1> QED
    BY <1>2, <1>3 DEF O!TypeOK

\* A step that writes one committed row, published stays or becomes true.
LEMMA MarkPublishedWrites ==
    ASSUME O!ConstantsAssumption, O!NoneAssumption,
           O!TypeOK, NEW i \in Sequence, O!Committed(i),
           rows' = [rows EXCEPT ![i] = [@ EXCEPT !.published = TRUE, !.lease = 0, !.retry = 0]]
    PROVE  /\ rows' \in [Sequence -> O!Row \cup {None}]
           /\ O!Committed(i)' /\ rows'[i].published
           /\ \A j \in Sequence : j # i => rows'[j] = rows[j]
  <1> DEFINE new == [rows[i] EXCEPT !.published = TRUE, !.lease = 0, !.retry = 0]
  <1>0. 0 \in 0 .. LeaseDuration + 1 /\ 0 \in 0 .. MaxBackoff
    BY O!ConstantsAssumption
  <1>1. new \in O!Row /\ new.published
    BY <1>0, RowFacts DEF O!Row
  <1>2. rows' = [rows EXCEPT ![i] = new]
    BY DEF O!TypeOK
  <1> HIDE DEF new
  <1> QED
    BY <1>1, <1>2, O!NoneAssumption DEF O!TypeOK, O!Committed

\* A failure changes when the row is tried again and nothing else.
LEMMA MarkFailedWrites ==
    ASSUME O!ConstantsAssumption, O!NoneAssumption,
           O!TypeOK, NEW i \in Sequence, O!Committed(i),
           rows' = [rows EXCEPT ![i].attempts = O!Smaller(@ + 1, MaxExponent), ![i].lease = 0,
                                ![i].retry = O!Backoff(rows[i].attempts)]
    PROVE  /\ rows' \in [Sequence -> O!Row \cup {None}]
           /\ \A j \in Sequence : RowKept(j)
  <1> DEFINE attempts == O!Smaller(rows[i].attempts + 1, MaxExponent)
             retry == O!Backoff(rows[i].attempts)
             new == [rows[i] EXCEPT !.attempts = attempts, !.lease = 0, !.retry = retry]
  <1>1. rows[i] \in O!Row /\ rows[i].attempts \in 0 .. MaxExponent
    BY RowFacts
  <1>2. attempts \in 0 .. MaxExponent /\ 0 \in 0 .. LeaseDuration + 1
    BY <1>1, O!ConstantsAssumption DEF O!Smaller
  <1>3. retry \in 0 .. MaxBackoff
    BY <1>1, BackoffType, O!ConstantsAssumption
  <1>4. rows' = [rows EXCEPT ![i] = new]
    BY <1>1 DEF O!TypeOK, O!Row
  <1> HIDE DEF attempts, retry
  <1>5. new \in O!Row /\ new.published = rows[i].published
    BY <1>1, <1>2, <1>3 DEF O!Row
  <1> HIDE DEF new
  <1>6. rows \in [Sequence -> O!Row \cup {None}] /\ new # None
    BY <1>5, O!NoneAssumption DEF O!TypeOK
  <1>7. /\ rows' \in [Sequence -> O!Row \cup {None}] /\ rows'[i] = new
        /\ \A j \in Sequence : j # i => rows'[j] = rows[j]
    BY <1>4, <1>5, <1>6
  <1>8. RowKept(i)
    BY <1>5, <1>6, <1>7 DEF RowKept, O!Committed
  <1>9. \A j \in Sequence : j # i => RowKept(j)
    BY <1>7 DEF RowKept, O!Committed
  <1> QED
    BY <1>7, <1>8, <1>9

\* A claim only leases rows.
LEMMA ClaimWrites ==
    ASSUME O!ConstantsAssumption, O!NoneAssumption,
           O!TypeOK, NEW claimed \in SUBSET O!Pending,
           rows' = [i \in Sequence |->
                      IF i \in claimed THEN [rows[i] EXCEPT !.lease = LeaseDuration + 1]
                                       ELSE rows[i]]
    PROVE  /\ rows' \in [Sequence -> O!Row \cup {None}]
           /\ \A i \in Sequence : RowKept(i)
  <1>1. ASSUME NEW i \in Sequence
        PROVE  rows'[i] \in O!Row \cup {None} /\ RowKept(i)
    <2>1. CASE i \in claimed
      <3>1. O!Committed(i)
        BY <2>1 DEF O!Pending
      <3> DEFINE new == [rows[i] EXCEPT !.lease = LeaseDuration + 1]
      <3>2. LeaseDuration + 1 \in 0 .. LeaseDuration + 1
        BY O!ConstantsAssumption
      <3>3. new \in O!Row /\ new.published = rows[i].published
        BY <3>1, <3>2, RowFacts DEF O!Row
      <3>4. rows'[i] = new
        BY <2>1
      <3> HIDE DEF new
      <3> QED
        BY <3>1, <3>3, <3>4, O!NoneAssumption DEF RowKept, O!Committed
    <2>2. CASE i \notin claimed
      BY <2>2 DEF O!TypeOK, RowKept, O!Committed
    <2> QED
      BY <2>1, <2>2
  <1>2. rows' = [i \in Sequence |-> rows'[i]]
    OBVIOUS
  <1> QED
    BY <1>1, <1>2

\* Time counts the timers down and nothing else.
LEMMA TickWrites ==
    ASSUME O!ConstantsAssumption, O!NoneAssumption,
           O!TypeOK, O!Tick
    PROVE  /\ O!TypeOK' /\ UNCHANGED <<batch, sent>>
           /\ \A i \in Sequence : /\ RowKept(i) /\ stream'[i].copies = stream[i].copies
                                  /\ stream'[i].window > 0 => stream[i].window > 0
  <1>1. \A n \in Nat : O!Down(n) \in Nat /\ O!Down(n) <= n /\ (O!Down(n) > 0 => n > 0)
    BY DEF O!Down
  <1>2. ASSUME NEW i \in Sequence
        PROVE  rows'[i] \in O!Row \cup {None} /\ RowKept(i)
    <2>1. CASE O!Committed(i)
      <3> DEFINE lease == O!Down(rows[i].lease)
                 retry == O!Down(rows[i].retry)
                 new == [rows[i] EXCEPT !.lease = lease, !.retry = retry]
      <3>1. lease \in 0 .. LeaseDuration + 1 /\ retry \in 0 .. MaxBackoff
        BY <2>1, RowFacts, O!ConstantsAssumption DEF O!Down
      <3>2. rows'[i] = new
        <4>1. rows'[i] = [rows[i] EXCEPT !.lease = O!Down(@), !.retry = O!Down(@)]
          BY <2>1 DEF O!Tick
        <4> QED
          BY <2>1, <4>1, RowFacts DEF O!Row
      <3> HIDE DEF lease, retry
      <3>3. new \in O!Row /\ new.published = rows[i].published
        BY <2>1, <3>1, RowFacts DEF O!Row
      <3> HIDE DEF new
      <3> QED
        BY <2>1, <3>2, <3>3, O!NoneAssumption DEF RowKept, O!Committed
    <2>2. CASE ~ O!Committed(i)
      BY <2>2 DEF O!Tick, RowKept, O!Committed
    <2> QED
      BY <2>1, <2>2
  <1>3. ASSUME NEW i \in Sequence
        PROVE  /\ stream'[i] \in O!Stored /\ stream'[i].copies = stream[i].copies
               /\ stream'[i].window > 0 => stream[i].window > 0
    <2> DEFINE window == O!Down(stream[i].window)
    <2>1. stream[i] \in O!Stored
      BY DEF O!TypeOK
    <2>2. window \in 0 .. DuplicateWindow /\ (window > 0 => stream[i].window > 0)
      BY <2>1, O!ConstantsAssumption DEF O!Stored, O!Down
    <2>3. stream'[i] = [stream[i] EXCEPT !.window = window]
      <3>1. stream'[i] = [stream[i] EXCEPT !.window = O!Down(@)]
        BY DEF O!Tick
      <3> QED
        BY <2>1, <3>1 DEF O!Stored
    <2> HIDE DEF window
    <2> QED
      BY <2>1, <2>2, <2>3 DEF O!Stored
  <1>4. /\ rows' = [i \in Sequence |-> rows'[i]] /\ stream' = [i \in Sequence |-> stream'[i]]
        /\ UNCHANGED <<batch, sent>>
    BY DEF O!Tick
  <1> QED
    BY <1>2, <1>3, <1>4 DEF O!TypeOK

\* The inductive form of TypeOK: only committed rows are claimed, so that a mark
\* finds its row.
OutboxTypeInv == O!TypeOK /\ \A p \in Publishers : \A i \in batch[p] : O!Committed(i)

\* OutboxTypeInv holds in every reachable state.
LEMMA OutboxTypeInvariant ==
    ASSUME O!ConstantsAssumption, O!NoneAssumption
    PROVE  O!Spec => []OutboxTypeInv
  <1>1. O!Init => OutboxTypeInv
    <2>1. [copies |-> 0, window |-> 0] \in O!Stored
      BY O!ConstantsAssumption DEF O!Stored, O!MaxCopies
    <2> QED
      BY <2>1 DEF O!Init, OutboxTypeInv, O!TypeOK
  <1>2. OutboxTypeInv /\ [O!Next]_O!vars => OutboxTypeInv'
    <2> SUFFICES ASSUME OutboxTypeInv, [O!Next]_O!vars PROVE OutboxTypeInv'
      OBVIOUS
    <2> USE DEF OutboxTypeInv
    <2>1. ASSUME NEW i \in Sequence, O!Commit(i)
          PROVE  OutboxTypeInv'
      <3> DEFINE new == [published |-> FALSE, attempts |-> 0, lease |-> 0, retry |-> 0]
      <3>1. new \in O!Row
        BY O!ConstantsAssumption DEF O!Row
      <3>2. rows' = [rows EXCEPT ![i] = new] /\ UNCHANGED <<stream, batch, sent>>
        BY <2>1 DEF O!Commit
      <3> HIDE DEF new
      <3> QED
        BY <3>1, <3>2, O!NoneAssumption DEF O!TypeOK, O!Committed
    <2>2. ASSUME NEW p \in Publishers, O!ClaimPending(p)
          PROVE  OutboxTypeInv'
      <3> DEFINE claimed == {i \in O!Pending : O!Cardinality({j \in O!Pending : j < i}) < BatchSize}
      <3>1. claimed \subseteq O!Pending /\ O!Pending \subseteq Sequence
            /\ \A i \in O!Pending : O!Committed(i)
        BY DEF O!Pending
      <3>2. /\ rows' = [i \in Sequence |->
                          IF i \in claimed THEN [rows[i] EXCEPT !.lease = LeaseDuration + 1]
                                           ELSE rows[i]]
            /\ batch' = [batch EXCEPT ![p] = claimed]
            /\ UNCHANGED <<stream, sent>>
        BY <2>2 DEF O!ClaimPending
      <3> HIDE DEF claimed
      <3>3. rows' \in [Sequence -> O!Row \cup {None}] /\ \A i \in Sequence : RowKept(i)
        BY <3>1, <3>2, ClaimWrites
      <3>4. batch' \in [Publishers -> SUBSET Sequence]
            /\ \A q \in Publishers : \A i \in batch'[q] : O!Committed(i)
        BY <3>1, <3>2 DEF O!TypeOK
      <3> QED
        BY <3>2, <3>3, <3>4 DEF O!TypeOK, RowKept
    <2>3. ASSUME NEW p \in Publishers, O!PublishAcked(p) \/ O!PublishTimesOut(p)
          PROVE  OutboxTypeInv'
      <3>1. stream' \in [Sequence -> O!Stored]
        BY <2>3, StoreType DEF O!PublishAcked, O!PublishTimesOut, O!TypeOK
      <3> QED
        BY <2>3, <3>1 DEF O!PublishAcked, O!PublishTimesOut, O!TypeOK, O!Committed
    <2>4. ASSUME NEW p \in Publishers, O!MarkPublished(p)
          PROVE  OutboxTypeInv'
      <3>1. PICK i \in Sequence :
              /\ O!Current(p, i)
              /\ rows' = [rows EXCEPT ![i] = [@ EXCEPT !.published = TRUE, !.lease = 0, !.retry = 0]]
              /\ batch' = [batch EXCEPT ![p] = @ \ {i}]
        BY <2>4 DEF O!MarkPublished
      <3>2. O!Committed(i)
        BY <3>1 DEF O!Current
      <3>3. /\ rows' \in [Sequence -> O!Row \cup {None}] /\ O!Committed(i)'
            /\ \A j \in Sequence : j # i => rows'[j] = rows[j]
        BY <3>1, <3>2, MarkPublishedWrites
      <3>4. /\ batch' \in [Publishers -> SUBSET Sequence]
            /\ \A q \in Publishers : batch'[q] \subseteq batch[q]
        BY <3>1 DEF O!TypeOK
      <3>5. \A q \in Publishers : \A j \in batch'[q] : O!Committed(j)'
        BY <3>3, <3>4 DEF O!Committed, O!TypeOK
      <3> QED
        BY <2>4, <3>3, <3>4, <3>5 DEF O!MarkPublished, O!TypeOK
    <2>5. ASSUME NEW p \in Publishers, O!MarkFailed(p)
          PROVE  OutboxTypeInv'
      <3>1. PICK i \in Sequence :
              /\ O!Current(p, i)
              /\ rows' = [rows EXCEPT ![i].attempts = O!Smaller(@ + 1, MaxExponent), ![i].lease = 0,
                                      ![i].retry = O!Backoff(rows[i].attempts)]
        BY <2>5 DEF O!MarkFailed
      <3>2. rows' \in [Sequence -> O!Row \cup {None}] /\ \A j \in Sequence : RowKept(j)
        BY <3>1, MarkFailedWrites DEF O!Current
      <3>3. /\ batch' \in [Publishers -> SUBSET Sequence]
            /\ \A q \in Publishers : batch'[q] \subseteq batch[q]
        BY <2>5 DEF O!MarkFailed, O!TypeOK
      <3> QED
        BY <2>5, <3>2, <3>3 DEF O!MarkFailed, O!TypeOK, RowKept
    <2>6. ASSUME NEW p \in Publishers, O!Abandon(p)
          PROVE  OutboxTypeInv'
      BY <2>6 DEF O!Abandon, O!TypeOK, O!Committed
    <2>7. ASSUME O!Tick
          PROVE  OutboxTypeInv'
      BY <2>7, TickWrites DEF O!TypeOK, RowKept
    <2>8. CASE UNCHANGED O!vars
      BY <2>8 DEF O!vars, O!TypeOK, O!Committed
    <2> QED
      BY <2>1, <2>2, <2>3, <2>4, <2>5, <2>6, <2>7, <2>8 DEF O!Next
  <1> QED
    BY <1>1, <1>2, PTL DEF O!Spec

\* Every row, message and batch has the shape of its type: no timer is ever set
\* beyond its limit.
THEOREM OutboxTypeCorrect ==
    ASSUME O!ConstantsAssumption, O!NoneAssumption
    PROVE  O!Spec => []O!TypeOK
  BY OutboxTypeInvariant, PTL DEF OutboxTypeInv

----------------------------------------------------------------------------
(* The relay. *)

\* The inductive invariant for the refinement: what the broker acknowledged to a
\* publisher is in the stream for as long as the publisher deals with it, and so
\* is every event whose id the broker recognises. An answer is about a claimed
\* event, so a new claim starts without one.
RelayInv ==
    /\ \A i \in Sequence : stream[i].window > 0 => stream[i].copies > 0
    /\ \A p \in Publishers, i \in Sequence :
          sent[p] = "acked" /\ O!Current(p, i) => stream[i].copies > 0
    /\ \A p \in Publishers : batch[p] = {} => sent[p] = "no"

\* No step takes a message from the stream.
StreamGrows ==
    \A i \in Sequence : /\ stream[i].copies > 0 => stream'[i].copies > 0
                        /\ stream'[i].window > 0 => stream'[i].copies > 0

\* The answer a publisher has, and what it is dealing with, stay or are given up.
AnswersStay ==
    \A p \in Publishers : \/ sent'[p] = sent[p] /\ batch'[p] = batch[p]
                          \/ sent'[p] = "no"

\* It is enough that the stream grows and the answers stay.
LEMMA RelayKeeps ==
    ASSUME RelayInv, StreamGrows, AnswersStay
    PROVE  RelayInv'
  <1>1. \A p \in Publishers, i \in Sequence :
           sent'[p] = "acked" /\ O!Current(p, i)' => stream'[i].copies > 0
    BY DEF RelayInv, StreamGrows, AnswersStay, O!Current
  <1>2. \A p \in Publishers : batch'[p] = {} => sent'[p] = "no"
    BY DEF RelayInv, AnswersStay
  <1> QED
    BY <1>1, <1>2 DEF RelayInv, StreamGrows

\* Storing a message is a growth of the stream, by a committed event or by none.
LEMMA StoreGrows ==
    ASSUME O!ConstantsAssumption, O!NoneAssumption,
           OutboxTypeInv, RelayInv, NEW i \in Sequence, O!Store(i)
    PROVE  /\ StreamGrows /\ stream'[i].copies > 0
           /\ \A j \in Sequence : j # i => stream'[j] = stream[j]
  BY StoreType DEF OutboxTypeInv, RelayInv, StreamGrows

\* Without a message the stream is as it was.
LEMMA SameStream ==
    ASSUME RelayInv, UNCHANGED stream
    PROVE  StreamGrows
  BY DEF RelayInv, StreamGrows

\* RelayInv holds in every reachable state.
LEMMA RelayInvariant ==
    ASSUME O!ConstantsAssumption, O!NoneAssumption
    PROVE  O!Spec => []RelayInv
  <1>1. O!Init => RelayInv
    <2> SUFFICES ASSUME O!Init PROVE RelayInv
      OBVIOUS
    <2>1. \A i \in Sequence : stream[i].window = 0
      BY DEF O!Init
    <2> QED
      BY <2>1 DEF O!Init, RelayInv, O!Current
  <1>2. OutboxTypeInv /\ RelayInv /\ [O!Next]_O!vars => RelayInv'
    <2> SUFFICES ASSUME OutboxTypeInv, RelayInv, [O!Next]_O!vars PROVE RelayInv'
      OBVIOUS
    <2>1. ASSUME NEW i \in Sequence, O!Commit(i)
          PROVE  RelayInv'
      BY <2>1, SameStream, RelayKeeps DEF O!Commit, AnswersStay
    <2>2. ASSUME NEW p \in Publishers, O!ClaimPending(p)
          PROVE  RelayInv'
      <3>1. AnswersStay
        BY <2>2 DEF O!ClaimPending, AnswersStay, RelayInv, OutboxTypeInv, O!TypeOK
      <3> QED
        BY <2>2, <3>1, SameStream, RelayKeeps DEF O!ClaimPending
    <2>3. ASSUME NEW p \in Publishers, O!PublishAcked(p)
          PROVE  RelayInv'
      <3>1. PICK i \in Sequence : O!Current(p, i) /\ O!Store(i)
        BY <2>3 DEF O!PublishAcked
      <3>2. StreamGrows /\ stream'[i].copies > 0
        BY <3>1, StoreGrows
      <3>3. sent' = [sent EXCEPT ![p] = "acked"] /\ UNCHANGED batch
        BY <2>3 DEF O!PublishAcked
      <3>4. \A j \in Sequence : O!Current(p, j) => j = i
        <4>1. Sequence \subseteq Nat
          BY O!ConstantsAssumption
        <4> QED
          BY <3>1, <4>1 DEF O!Current
      <3>5. ASSUME NEW q \in Publishers, NEW j \in Sequence, sent'[q] = "acked", O!Current(q, j)'
            PROVE  stream'[j].copies > 0
        <4>1. O!Current(q, j)
          BY <3>3, <3>5 DEF O!Current
        <4>2. CASE q = p
          BY <3>2, <3>4, <4>1, <4>2
        <4>3. CASE q # p
          BY <3>2, <3>3, <3>5, <4>1, <4>3 DEF RelayInv, StreamGrows, OutboxTypeInv, O!TypeOK
        <4> QED
          BY <4>2, <4>3
      <3>6. \A q \in Publishers : batch'[q] = {} => sent'[q] = "no"
        BY <3>1, <3>3 DEF RelayInv, O!Current, OutboxTypeInv, O!TypeOK
      <3> QED
        BY <3>2, <3>5, <3>6 DEF RelayInv, StreamGrows
    <2>4. ASSUME NEW p \in Publishers, O!PublishTimesOut(p)
          PROVE  RelayInv'
      <3>1. PICK i \in Sequence : O!Current(p, i) /\ (O!Store(i) \/ UNCHANGED stream)
        BY <2>4 DEF O!PublishTimesOut
      <3>2. StreamGrows
        BY <3>1, StoreGrows, SameStream
      <3>3. sent' = [sent EXCEPT ![p] = "failed"] /\ UNCHANGED batch
        BY <2>4 DEF O!PublishTimesOut
      <3>4. \A q \in Publishers, j \in Sequence :
               sent'[q] = "acked" /\ O!Current(q, j)' => stream'[j].copies > 0
        BY <3>2, <3>3 DEF RelayInv, StreamGrows, O!Current, OutboxTypeInv, O!TypeOK
      <3>5. \A q \in Publishers : batch'[q] = {} => sent'[q] = "no"
        BY <3>1, <3>3 DEF RelayInv, O!Current, OutboxTypeInv, O!TypeOK
      <3> QED
        BY <3>2, <3>4, <3>5 DEF RelayInv, StreamGrows
    <2>5. ASSUME NEW p \in Publishers, O!MarkPublished(p) \/ O!MarkFailed(p) \/ O!Abandon(p)
          PROVE  RelayInv'
      <3>1. AnswersStay
        BY <2>5 DEF O!MarkPublished, O!MarkFailed, O!Abandon, AnswersStay, OutboxTypeInv, O!TypeOK
      <3> QED
        BY <2>5, <3>1, SameStream, RelayKeeps DEF O!MarkPublished, O!MarkFailed, O!Abandon
    <2>6. ASSUME O!Tick
          PROVE  RelayInv'
      BY <2>6, TickWrites, RelayKeeps DEF RelayInv, StreamGrows, AnswersStay, OutboxTypeInv
    <2>7. CASE UNCHANGED O!vars
      BY <2>7, SameStream, RelayKeeps DEF O!vars, AnswersStay
    <2> QED
      BY <2>1, <2>2, <2>3, <2>4, <2>5, <2>6, <2>7 DEF O!Next
  <1> QED
    BY <1>1, <1>2, OutboxTypeInvariant, PTL DEF O!Spec

\* The sets that the relay knows of: the substitution of AtLeastOnce.
committedBar == {i \in Sequence : O!Committed(i)}
streamBar == {i \in Sequence : stream[i].copies > 0}
settledBar == {i \in Sequence : O!Committed(i) /\ rows[i].published}

\* Rows that are kept are committed and settled as before.
LEMMA SameRows ==
    ASSUME \A i \in Sequence : RowKept(i)
    PROVE  UNCHANGED <<committedBar, settledBar>>
  BY DEF RowKept, committedBar, settledBar

\* Storing an event of the batch publishes it, or stutters.
LEMMA StorePublishes ==
    ASSUME O!ConstantsAssumption, O!NoneAssumption, OutboxTypeInv, RelayInv,
           NEW i \in Sequence, O!Committed(i), O!Store(i) \/ UNCHANGED stream
    PROVE  streamBar' = streamBar \/ (i \in committedBar \ streamBar /\ streamBar' = streamBar \cup {i})
  <1>1. CASE UNCHANGED stream
    BY <1>1 DEF streamBar
  <1>2. CASE O!Store(i)
    <2>1. streamBar' = streamBar \cup {i}
      BY <1>2, StoreGrows DEF streamBar
    <2> QED
      BY <2>1 DEF committedBar
  <1> QED
    BY <1>1, <1>2

\* The outbox implements the relay, whatever publishers, leases and lost answers:
\* the part of ImplementsRelay without fairness.
THEOREM RelaySafe ==
    ASSUME O!ConstantsAssumption, O!NoneAssumption
    PROVE  O!Spec => O!AtLeastOnce!Init /\ [][O!AtLeastOnce!Next]_(O!AtLeastOnce!vars)
  <1> DEFINE Same == UNCHANGED <<committedBar, streamBar, settledBar>>
             Commits(i) == /\ i \notin committedBar /\ committedBar' = committedBar \cup {i}
                           /\ UNCHANGED <<streamBar, settledBar>>
             Publishes(i) == /\ i \in committedBar \ streamBar /\ streamBar' = streamBar \cup {i}
                             /\ UNCHANGED <<committedBar, settledBar>>
             Settles(i) == /\ i \in streamBar \ settledBar /\ settledBar' = settledBar \cup {i}
                           /\ UNCHANGED <<committedBar, streamBar>>
             RelayStep == Same \/ \E i \in Sequence : Commits(i) \/ Publishes(i) \/ Settles(i)
  <1>1. O!Init => O!AtLeastOnce!Init
    <2> SUFFICES ASSUME O!Init PROVE O!AtLeastOnce!Init
      OBVIOUS
    <2>1. \A i \in Sequence : ~ O!Committed(i)
      BY DEF O!Init, O!Committed
    <2>2. committedBar = {} /\ settledBar = {}
      BY <2>1 DEF committedBar, settledBar
    <2>3. streamBar = {}
      BY DEF O!Init, streamBar
    <2> QED
      BY <2>2, <2>3 DEF O!AtLeastOnce!Init, committedBar, streamBar, settledBar
  <1>2. OutboxTypeInv /\ RelayInv /\ [O!Next]_O!vars => RelayStep
    <2> SUFFICES ASSUME OutboxTypeInv, RelayInv, [O!Next]_O!vars PROVE RelayStep
      OBVIOUS
    <2>1. ASSUME NEW i \in Sequence, O!Commit(i)
          PROVE  RelayStep
      <3>1. /\ ~ O!Committed(i) /\ O!Committed(i)' /\ ~ rows'[i].published
            /\ \A j \in Sequence : j # i => rows'[j] = rows[j]
            /\ UNCHANGED stream
        <4>1. [published |-> FALSE, attempts |-> 0, lease |-> 0, retry |-> 0] # None
          <5>1. [published |-> FALSE, attempts |-> 0, lease |-> 0, retry |-> 0] \in O!Row
            BY O!ConstantsAssumption DEF O!Row
          <5> QED
            BY <5>1, O!NoneAssumption
        <4> QED
          BY <2>1, <4>1 DEF O!Commit, O!Committed, OutboxTypeInv, O!TypeOK
      <3>2. Commits(i)
        BY <3>1 DEF committedBar, streamBar, settledBar, O!Committed
      <3> QED
        BY <3>2
    <2>2. ASSUME NEW p \in Publishers, O!ClaimPending(p)
          PROVE  RelayStep
      <3> DEFINE claimed == {i \in O!Pending : O!Cardinality({j \in O!Pending : j < i}) < BatchSize}
      <3>1. claimed \subseteq O!Pending
        OBVIOUS
      <3>2. /\ rows' = [i \in Sequence |->
                          IF i \in claimed THEN [rows[i] EXCEPT !.lease = LeaseDuration + 1]
                                           ELSE rows[i]]
            /\ UNCHANGED stream
        BY <2>2 DEF O!ClaimPending
      <3> HIDE DEF claimed
      <3>3. \A i \in Sequence : RowKept(i)
        BY <3>1, <3>2, ClaimWrites DEF OutboxTypeInv
      <3> QED
        BY <3>2, <3>3, SameRows DEF streamBar
    <2>3. ASSUME NEW p \in Publishers, O!PublishAcked(p) \/ O!PublishTimesOut(p)
          PROVE  RelayStep
      <3>1. PICK i \in Sequence : O!Current(p, i) /\ (O!Store(i) \/ UNCHANGED stream)
        BY <2>3 DEF O!PublishAcked, O!PublishTimesOut
      <3>2. O!Committed(i)
        BY <3>1 DEF OutboxTypeInv, O!Current
      <3>3. UNCHANGED <<committedBar, settledBar>>
        BY <2>3 DEF O!PublishAcked, O!PublishTimesOut, committedBar, settledBar, O!Committed
      <3>4. Same \/ Publishes(i)
        BY <3>1, <3>2, <3>3, StorePublishes
      <3> QED
        BY <3>4
    <2>4. ASSUME NEW p \in Publishers, O!MarkPublished(p)
          PROVE  RelayStep
      <3>1. PICK i \in Sequence :
              /\ O!Current(p, i)
              /\ rows' = [rows EXCEPT ![i] = [@ EXCEPT !.published = TRUE, !.lease = 0, !.retry = 0]]
        BY <2>4 DEF O!MarkPublished
      <3>2. O!Committed(i) /\ i \in streamBar /\ UNCHANGED stream
        BY <2>4, <3>1 DEF OutboxTypeInv, RelayInv, O!Current, O!MarkPublished, streamBar
      <3>3. /\ O!Committed(i)' /\ rows'[i].published
            /\ \A j \in Sequence : j # i => rows'[j] = rows[j]
        BY <3>1, <3>2, MarkPublishedWrites DEF OutboxTypeInv
      <3>4. UNCHANGED <<committedBar, streamBar>> /\ settledBar' = settledBar \cup {i}
        BY <3>2, <3>3 DEF committedBar, streamBar, settledBar, O!Committed
      <3>5. Same \/ Settles(i)
        BY <3>2, <3>4
      <3> QED
        BY <3>5
    <2>5. ASSUME NEW p \in Publishers, O!MarkFailed(p)
          PROVE  RelayStep
      <3>1. PICK i \in Sequence :
              /\ O!Current(p, i)
              /\ rows' = [rows EXCEPT ![i].attempts = O!Smaller(@ + 1, MaxExponent), ![i].lease = 0,
                                      ![i].retry = O!Backoff(rows[i].attempts)]
        BY <2>5 DEF O!MarkFailed
      <3>2. \A j \in Sequence : RowKept(j)
        BY <3>1, MarkFailedWrites DEF OutboxTypeInv, O!Current
      <3> QED
        BY <2>5, <3>2, SameRows DEF O!MarkFailed, streamBar
    <2>6. ASSUME NEW p \in Publishers, O!Abandon(p)
          PROVE  RelayStep
      BY <2>6 DEF O!Abandon, committedBar, streamBar, settledBar, O!Committed
    <2>7. ASSUME O!Tick
          PROVE  RelayStep
      BY <2>7, TickWrites, SameRows DEF OutboxTypeInv, streamBar
    <2>8. CASE UNCHANGED O!vars
      BY <2>8 DEF O!vars, committedBar, streamBar, settledBar, O!Committed
    <2> HIDE DEF RelayStep
    <2> QED
      BY <2>1, <2>2, <2>3, <2>4, <2>5, <2>6, <2>7, <2>8 DEF O!Next
  <1>3. RelayStep => [O!AtLeastOnce!Next]_(O!AtLeastOnce!vars)
    BY DEF O!AtLeastOnce!Next, O!AtLeastOnce!Commit, O!AtLeastOnce!Publish, O!AtLeastOnce!Settle,
           O!AtLeastOnce!vars, committedBar, streamBar, settledBar
  <1> QED
    <2> HIDE DEF RelayStep
    <2>1. OutboxTypeInv /\ RelayInv /\ [O!Next]_O!vars => [O!AtLeastOnce!Next]_(O!AtLeastOnce!vars)
      BY <1>2, <1>3
    <2> QED
      BY <1>1, <2>1, OutboxTypeInvariant, RelayInvariant, PTL DEF O!Spec
=============================================================================
