--------------------- MODULE ExpirationLifecycleProofs ----------------------
(***************************************************************************)
(* Theorems about ExpirationLifecycle, for any number of replicas and of   *)
(* replay commands.                                                        *)
(***************************************************************************)
EXTENDS ExpirationLifecycle, TLAPS

\* Where a process is and whether it has a connection go together: onModuleInit
\* leaves its loop with one, and only the end of a process gives it up. So
\* Connect never overwrites a connection that is still open.
LinkFollowsPc ==
    \A p \in Processes :
        /\ pc[p] \in {"down", "connect", "retry"} => link[p] = "none"
        /\ pc[p] \in Starting \ {"connect"} => link[p] = "open"
        /\ pc[p] = "replay" => link[p] = "open"
        /\ pc[p] \in Consuming => link[p] # "none"
        /\ pc[p] \in Consuming /\ ~stopping[p] => link[p] = "open"

\* The inductive invariant for NoConnectionLeaks. MaxOpen does not cut the
\* count off, as it never gets past one.
ConnectionInv == TypeOK /\ LinkFollowsPc /\ NoConnectionLeaks

----------------------------------------------------------------------------
(* Connections. *)

\* The steps of a process that leave its connection alone, and where they lead
\* within one part of its life.
StaysLinked(p) ==
    /\ UNCHANGED <<link, open, stopping>>
    /\ \E await \in Starting \cup Consuming \cup Others :
         /\ Goto(p, await)
         /\ \/ pc[p] \in {"down", "connect", "retry"} /\ await \in {"down", "connect", "retry"}
            \/ pc[p] \in Starting \ {"connect"} /\ link[p] = "open"
                 /\ await \in (Starting \ {"connect"}) \cup Consuming \cup {"replay"}
            \/ pc[p] \in Consuming /\ await \in Consuming \cup {"stopped"}
            \/ pc[p] = "finally" /\ await = "stopped"

\* Such a step keeps the connection invariant.
LEMMA StaysLinkedKeeps ==
    ASSUME ConnectionInv, NEW p \in Processes, StaysLinked(p)
    PROVE  /\ pc' \in [Processes -> Starting \cup Consuming \cup Others]
           /\ LinkFollowsPc' /\ NoConnectionLeaks'
  <1>1. PICK await \in Starting \cup Consuming \cup Others :
          /\ Goto(p, await)
          /\ \/ pc[p] \in {"down", "connect", "retry"} /\ await \in {"down", "connect", "retry"}
             \/ pc[p] \in Starting \ {"connect"} /\ link[p] = "open"
                  /\ await \in (Starting \ {"connect"}) \cup Consuming \cup {"replay"}
             \/ pc[p] \in Consuming /\ await \in Consuming \cup {"stopped"}
             \/ pc[p] = "finally" /\ await = "stopped"
    BY DEF StaysLinked
  <1>2. pc' \in [Processes -> Starting \cup Consuming \cup Others]
    BY <1>1 DEF Goto, ConnectionInv, TypeOK
  <1>3. NoConnectionLeaks'
    BY DEF StaysLinked, ConnectionInv, NoConnectionLeaks
  <1>4. ASSUME NEW q \in Processes
        PROVE  /\ pc'[q] \in {"down", "connect", "retry"} => link[q] = "none"
               /\ pc'[q] \in Starting \ {"connect"} => link[q] = "open"
               /\ pc'[q] = "replay" => link[q] = "open"
               /\ pc'[q] \in Consuming => link[q] # "none"
               /\ pc'[q] \in Consuming /\ ~stopping[q] => link[q] = "open"
    <2>1. CASE q # p
      BY <1>1, <2>1 DEF Goto, ConnectionInv, LinkFollowsPc, TypeOK
    <2>2. CASE q = p
      BY <1>1, <2>2 DEF Goto, ConnectionInv, LinkFollowsPc, TypeOK, Starting, Consuming,
                        Others
    <2> QED
      BY <2>1, <2>2
  <1>5. LinkFollowsPc'
    BY <1>4 DEF LinkFollowsPc, StaysLinked
  <1> QED
    BY <1>2, <1>3, <1>5

\* The other variables have their types after every such step.
OthersTyped ==
    /\ outage' \in BOOLEAN /\ events' \in BOOLEAN /\ orders' \in BOOLEAN /\ durable' \in BOOLEAN
    /\ dlq' \in {"missing", "other subjects", "complete"}
    /\ messages' \in [Processes -> {"none", "running", "ended"}]

\* The steps of a start between connecting and consuming are such steps.
LEMMA StartingStep ==
    ASSUME ConnectionInv, NEW p \in Processes,
           \/ Launch(p) \/ waitForNatsRetry(p) \/ AddFails(p)
           \/ Answered(p, "manager", "events info")
           \/ ensureExpirationEventStream(p) \/ ensureExpirationDeadLetterStream(p)
    PROVE  StaysLinked(p) /\ OthersTyped
  <1> USE DEF ConnectionInv
  <1>1. Started(p) \in {"loop", "replay"}
    BY DEF Started
  <1>2. ASSUME Launch(p) \/ waitForNatsRetry(p)
        PROVE  StaysLinked(p) /\ OthersTyped
    BY <1>2 DEF Launch, waitForNatsRetry, StaysLinked, OthersTyped, Goto, broker,
                TypeOK, Starting
  <1>3. ASSUME AddFails(p)
        PROVE  StaysLinked(p) /\ OthersTyped
    <2>1. link[p] = "open"
      BY <1>3 DEF AddFails, LinkFollowsPc, Starting
    <2> QED
      BY <1>3, <2>1 DEF AddFails, StaysLinked, OthersTyped, Goto, TypeOK, Starting
  <1>4. ASSUME NEW await \in Starting \ {"connect"},
               NEW next \in (Starting \ {"connect"}) \cup {"loop", "replay"},
               Answered(p, await, next)
        PROVE  StaysLinked(p) /\ OthersTyped
    BY <1>4 DEF Answered, StaysLinked, OthersTyped, Goto, broker, TypeOK, Consuming,
                Others
  <1>5. ASSUME NEW next \in {"dlq info", "loop", "replay"}, Goto(p, next), link[p] = "open",
               pc[p] \in {"events add", "dlq update", "dlq add"},
               events' \in {events, TRUE}, dlq' \in {dlq, "complete"},
               UNCHANGED <<orders, durable, outage, link, open, stopping, messages>>
        PROVE  StaysLinked(p) /\ OthersTyped
    BY <1>5 DEF StaysLinked, OthersTyped, TypeOK, Starting, Consuming, Others
  <1>6. ASSUME ensureExpirationEventStream(p)
        PROVE  StaysLinked(p) /\ OthersTyped
    BY <1>4, <1>5, <1>6 DEF ensureExpirationEventStream, Starting
  <1>7. ASSUME ensureExpirationDeadLetterStream(p)
        PROVE  StaysLinked(p) /\ OthersTyped
    BY <1>1, <1>4, <1>5, <1>7 DEF ensureExpirationDeadLetterStream, Starting
  <1> QED
    BY <1>2, <1>3, <1>4, <1>6, <1>7 DEF Starting

\* The steps of the consumer loop are such steps.
LEMMA ConsumingStep ==
    ASSUME ConnectionInv, NEW p \in Processes,
           Consume(p) \/ orderCreatedConsumer(p) \/ Subscribe(p) \/ ConsumeFails(p)
    PROVE  StaysLinked(p) /\ OthersTyped
  <1> USE DEF ConnectionInv
  <1>1. ASSUME NEW next \in Consuming \cup {"stopped"}, Goto(p, next), pc[p] \in Consuming,
               UNCHANGED <<events, dlq, orders, outage, link, open, stopping>>,
               durable' \in {durable, TRUE},
               messages' \in [Processes -> {"none", "running", "ended"}]
        PROVE  StaysLinked(p) /\ OthersTyped
    BY <1>1 DEF StaysLinked, OthersTyped, TypeOK, Others
  <1>2. UNCHANGED messages => messages' \in [Processes -> {"none", "running", "ended"}]
    BY DEF TypeOK
  <1>3. ASSUME Loop(p) \/ waitForRetry(p) \/ handleDelivery(p)
        PROVE  StaysLinked(p) /\ OthersTyped
    BY <1>1, <1>2, <1>3 DEF Loop, waitForRetry, handleDelivery, broker, Consuming
  <1>4. ASSUME MessagesEnd(p) \/ Subscribe(p)
        PROVE  StaysLinked(p) /\ OthersTyped
    <2>1. messages' \in [Processes -> {"none", "running", "ended"}]
      BY <1>4 DEF MessagesEnd, Subscribe, TypeOK
    <2> QED
      BY <1>1, <1>4, <2>1 DEF MessagesEnd, Subscribe, broker, Consuming
  <1>5. ASSUME ConsumeFails(p)
        PROVE  StaysLinked(p) /\ OthersTyped
    <2>1. messages' \in [Processes -> {"none", "running", "ended"}]
      BY <1>5 DEF ConsumeFails, TypeOK
    <2>2. durable' \in {durable, TRUE} /\ pc[p] \in Consuming
      BY <1>5 DEF ConsumeFails, Consuming
    <2> QED
      BY <1>1, <1>5, <2>1, <2>2 DEF ConsumeFails, Consuming
  <1>6. ASSUME orderCreatedConsumer(p)
        PROVE  StaysLinked(p) /\ OthersTyped
    BY <1>1, <1>2, <1>6 DEF orderCreatedConsumer, Answered, broker, Consuming
  <1> QED
    BY <1>3, <1>4, <1>5, <1>6 DEF Consume

\* The steps that open, drain or close the connection of a process: what they make
\* of its part of the invariant, and that they leave the others alone.
LinkStep(p) ==
    \E await \in Starting \cup Consuming \cup Others,
       new \in {"none", "open", "draining", "closed"}, stop \in BOOLEAN :
        /\ pc' = [pc EXCEPT ![p] = await]
        /\ link' = [link EXCEPT ![p] = new]
        /\ stopping' = [stopping EXCEPT ![p] = stop]
        /\ open' = [open EXCEPT ![p] = IF new \in {"open", "draining"} THEN 1 ELSE 0]
        /\ await \in {"down", "connect", "retry"} => new = "none"
        /\ await \in Starting \ {"connect"} => new = "open"
        /\ await = "replay" => new = "open"
        /\ await \in Consuming => new # "none"
        /\ await \in Consuming /\ ~stop => new = "open"

\* Such a step keeps the connection invariant, too.
LEMMA LinkStepKeeps ==
    ASSUME ConnectionInv, NEW p \in Processes, LinkStep(p), OthersTyped
    PROVE  ConnectionInv'
  <1>1. PICK await \in Starting \cup Consuming \cup Others,
             new \in {"none", "open", "draining", "closed"}, stop \in BOOLEAN :
          /\ pc' = [pc EXCEPT ![p] = await]
          /\ link' = [link EXCEPT ![p] = new]
          /\ stopping' = [stopping EXCEPT ![p] = stop]
          /\ open' = [open EXCEPT ![p] = IF new \in {"open", "draining"} THEN 1 ELSE 0]
          /\ await \in {"down", "connect", "retry"} => new = "none"
          /\ await \in Starting \ {"connect"} => new = "open"
          /\ await = "replay" => new = "open"
          /\ await \in Consuming => new # "none"
          /\ await \in Consuming /\ ~stop => new = "open"
    BY DEF LinkStep
  <1>2. 0 \in 0 .. MaxOpen /\ 1 \in 0 .. MaxOpen
    BY ProcessesAssumption
  <1>3. TypeOK'
    BY <1>1, <1>2 DEF OthersTyped, ConnectionInv, TypeOK
  <1>4. LinkFollowsPc'
    BY <1>1 DEF LinkFollowsPc, ConnectionInv, TypeOK
  <1>5. NoConnectionLeaks'
    BY <1>1 DEF NoConnectionLeaks, ConnectionInv, TypeOK
  <1> QED
    BY <1>3, <1>4, <1>5 DEF ConnectionInv

\* Connecting, a failed start, a shutdown, the end of a drain, a replay and an exit
\* are steps of one of the two kinds.
LEMMA ConnectionStep ==
    ASSUME ConnectionInv, NEW p \in Processes,
           \/ Connect(p) \/ StartFails(p) \/ onApplicationShutdown(p) \/ Drained(p)
           \/ replayExpirationDeadLetter(p) \/ Exit(p)
    PROVE  (StaysLinked(p) \/ LinkStep(p)) /\ OthersTyped
  <1> USE DEF ConnectionInv
  <1>1. /\ pc[p] \in Starting \cup Consuming \cup Others
        /\ stopping[p] \in BOOLEAN
        /\ pc = [pc EXCEPT ![p] = pc[p]]
        /\ stopping = [stopping EXCEPT ![p] = stopping[p]]
        /\ open = [open EXCEPT ![p] = open[p]]
        /\ open[p] = IF link[p] \in {"open", "draining"} THEN 1 ELSE 0
    BY DEF TypeOK, NoConnectionLeaks
  <1>2. /\ UNCHANGED messages => messages' \in [Processes -> {"none", "running", "ended"}]
        /\ UNCHANGED broker =>
              /\ outage' \in BOOLEAN /\ events' \in BOOLEAN /\ orders' \in BOOLEAN
              /\ durable' \in BOOLEAN /\ dlq' \in {"missing", "other subjects", "complete"}
    BY DEF TypeOK, broker
  <1>3. ASSUME Connect(p)
        PROVE  LinkStep(p) /\ OthersTyped
    <2>1. open' = [open EXCEPT ![p] = 1]
      <3>1. open[p] = 0
        BY <1>1, <1>3 DEF Connect, LinkFollowsPc
      <3>2. (IF open[p] < MaxOpen THEN open[p] + 1 ELSE open[p]) = 1
        BY <3>1, ProcessesAssumption
      <3> QED
        BY <1>3, <3>2 DEF Connect
    <2>2. LinkStep(p)
      BY <1>1, <1>3, <2>1 DEF Connect, LinkStep, Goto, Starting, Consuming
    <2> QED
      BY <1>2, <1>3, <2>2 DEF Connect, OthersTyped
  <1>4. ASSUME StartFails(p)
        PROVE  LinkStep(p) /\ OthersTyped
    <2>1. open' = [open EXCEPT ![p] = 0]
      <3>1. link[p] \in {"none", "open"}
        BY <1>4 DEF StartFails, LookedUpInVain, LinkFollowsPc, Starting
      <3>2. (IF link[p] = "open" THEN open[p] - 1 ELSE open[p]) = 0
        BY <1>1, <3>1
      <3> QED
        BY <1>4, <3>2 DEF StartFails
    <2>2. LinkStep(p)
      BY <1>1, <1>4, <2>1 DEF StartFails, LinkStep, Goto, Starting, Consuming, Others
    <2> QED
      BY <1>4, <2>2 DEF StartFails, OthersTyped, TypeOK
  <1>5. ASSUME onApplicationShutdown(p)
        PROVE  LinkStep(p) /\ OthersTyped
    <2>1. link[p] = "open"
      BY <1>5 DEF onApplicationShutdown, LinkFollowsPc
    <2>2. open' = [open EXCEPT ![p] = 1]
      BY <1>1, <1>5, <2>1 DEF onApplicationShutdown
    <2>3. LinkStep(p)
      BY <1>1, <1>5, <2>2 DEF onApplicationShutdown, LinkStep, Starting, Consuming
    <2>4. messages' \in [Processes -> {"none", "running", "ended"}]
      BY <1>5 DEF onApplicationShutdown, TypeOK
    <2> QED
      BY <1>2, <1>5, <2>3, <2>4 DEF onApplicationShutdown, OthersTyped
  <1>6. ASSUME Drained(p)
        PROVE  LinkStep(p) /\ OthersTyped
    <2>1. open' = [open EXCEPT ![p] = 0]
      <3>1. open[p] - 1 = 0
        BY <1>1, <1>6 DEF Drained
      <3> QED
        BY <1>6, <3>1 DEF Drained
    <2>2. LinkStep(p)
      BY <1>1, <1>6, <2>1 DEF Drained, LinkStep, LinkFollowsPc
    <2> QED
      BY <1>2, <1>6, <2>2 DEF Drained, OthersTyped
  <1>7. ASSUME replayExpirationDeadLetter(p)
        PROVE  (StaysLinked(p) \/ LinkStep(p)) /\ OthersTyped
    <2>1. OthersTyped
      BY <1>2, <1>7 DEF replayExpirationDeadLetter, OthersTyped
    <2>2. CASE pc[p] = "replay"
      <3>1. open' = [open EXCEPT ![p] = 1]
        BY <1>1, <1>7, <2>2 DEF replayExpirationDeadLetter, LinkFollowsPc
      <3>2. LinkStep(p)
        BY <1>1, <1>7, <2>2, <3>1 DEF replayExpirationDeadLetter, LinkStep, Goto, Starting,
                                      Consuming, Others
      <3> QED
        BY <2>1, <3>2
    <2>3. CASE pc[p] = "finally"
      BY <1>7, <2>1, <2>3 DEF replayExpirationDeadLetter, StaysLinked, Others
    <2> QED
      BY <1>7, <2>2, <2>3 DEF replayExpirationDeadLetter
  <1>8. ASSUME Exit(p)
        PROVE  LinkStep(p) /\ OthersTyped
    <2>1. messages' \in [Processes -> {"none", "running", "ended"}]
      BY <1>8 DEF Exit, TypeOK
    <2>2. LinkStep(p)
      <3>1. /\ "down" \in Others /\ "down" \notin Starting \cup Consuming
            /\ "none" \notin {"open", "draining"}
        BY DEF Starting, Consuming, Others
      <3> QED
        BY <1>8, <3>1 DEF Exit, LinkStep
    <2> QED
      BY <1>2, <1>8, <2>1, <2>2 DEF Exit, OthersTyped
  <1> QED
    BY <1>3, <1>4, <1>5, <1>6, <1>7, <1>8

\* The connection invariant holds in every reachable state.
LEMMA ConnectionInvariant == Spec => []ConnectionInv
  <1>1. Init => ConnectionInv
    <2> SUFFICES ASSUME Init PROVE ConnectionInv
      OBVIOUS
    <2>1. TypeOK
      <3>1. 0 \in 0 .. MaxOpen
        BY ProcessesAssumption
      <3> QED
        BY <3>1 DEF Init, TypeOK, Others
    <2>2. LinkFollowsPc /\ NoConnectionLeaks
      BY DEF Init, LinkFollowsPc, NoConnectionLeaks, Starting, Consuming
    <2> QED
      BY <2>1, <2>2 DEF ConnectionInv
  <1>2. ConnectionInv /\ [Next]_vars => ConnectionInv'
    <2> SUFFICES ASSUME ConnectionInv, [Next]_vars PROVE ConnectionInv'
      OBVIOUS
    <2>1. ASSUME NEW p \in Processes, StaysLinked(p), OthersTyped
          PROVE  ConnectionInv'
      <3>1. UNCHANGED <<link, open, stopping>>
        BY <2>1 DEF StaysLinked
      <3> QED
        BY <2>1, <3>1, StaysLinkedKeeps DEF ConnectionInv, TypeOK, OthersTyped
    <2>2. ASSUME NEW p \in Processes,
                 Launch(p) \/ Step(p) \/ onApplicationShutdown(p) \/ Kill(p)
          PROVE  ConnectionInv'
      BY <2>1, <2>2, StartingStep, ConsumingStep, ConnectionStep, LinkStepKeeps
         DEF Step, onModuleInit, Finish, Kill
    <2>3. ASSUME UNCHANGED process, orders' \in BOOLEAN, outage' \in BOOLEAN,
                 UNCHANGED <<events, dlq, durable>>
          PROVE  ConnectionInv'
      BY <2>3 DEF process, ConnectionInv, TypeOK, LinkFollowsPc, NoConnectionLeaks
    <2>4. CASE CreateOrdersStream
      BY <2>3, <2>4 DEF CreateOrdersStream, ConnectionInv, TypeOK
    <2>5. CASE Outage
      BY <2>3, <2>5 DEF Outage, ConnectionInv, TypeOK
    <2>6. CASE UNCHANGED vars
      BY <2>3, <2>6 DEF vars, broker, ConnectionInv, TypeOK
    <2> QED
      BY <2>2, <2>4, <2>5, <2>6 DEF Next
  <1> QED
    BY <1>1, <1>2, PTL DEF Spec

\* Every variable of the processes and of the broker has its type; the count of
\* connections never reaches its bound MaxOpen.
THEOREM TypeCorrect == Spec => []TypeOK
  BY ConnectionInvariant, PTL DEF ConnectionInv

\* Whatever fails during a start, the broker sees exactly the connection a process
\* knows of, for any number of processes and of tries.
THEOREM NoLeaks == Spec => []NoConnectionLeaks
  BY ConnectionInvariant, PTL DEF ConnectionInv

----------------------------------------------------------------------------
(* Streams. *)

\* Where a process has passed the first ensure.
PastEvents == {"dlq info", "dlq update", "dlq add", "dlq again"}

\* The part of a process in the inductive invariant for ServingHasStreams: past the
\* first ensure the events stream is there, past the second the other one. A
\* process that found no dead letter stream will not meet one without the subject:
\* all that create one create it complete.
FoundStreams(p) ==
    /\ pc[p] \in PastEvents => events
    /\ pc[p] \in {"dlq add", "dlq again"} => dlq # "other subjects"
    /\ pc[p] \in Consuming \cup {"replay"} => events /\ dlq = "complete"

StreamsInv == TypeOK /\ \A p \in Processes : FoundStreams(p)

\* No step takes a stream or a subject away.
StreamsStay == events' \in {events, TRUE} /\ dlq' \in {dlq, "complete"}

\* What one step of a process needs to show: the streams stay, and if it goes on to
\* another await it has found what that one relies on.
Finds(p) ==
    /\ StreamsStay
    /\ \E await \in Starting \cup Consuming \cup Others :
         /\ pc' = [pc EXCEPT ![p] = await]
         /\ \/ await = pc[p]
            \/ /\ await \in PastEvents => events'
               /\ await \in {"dlq add", "dlq again"} => dlq' # "other subjects"
               /\ await \in Consuming \cup {"replay"} => events' /\ dlq' = "complete"

\* A start goes past a stream only when it is there, whoever created it.
LEMMA StartFinds ==
    ASSUME StreamsInv, NEW p \in Processes,
           \/ onModuleInit(p) \/ AddFails(p) \/ StartFails(p)
           \/ waitForNatsRetry(p) \/ Launch(p)
    PROVE  Finds(p)
  <1> USE DEF StreamsInv, FoundStreams
  <1>1. Started(p) \in {"loop", "replay"}
    BY DEF Started
  <1>2. events \in BOOLEAN /\ dlq \in {"missing", "other subjects", "complete"}
    BY DEF TypeOK
  <1>3. ASSUME Connect(p) \/ waitForNatsRetry(p) \/ Launch(p)
                 \/ Answered(p, "manager", "events info")
        PROVE  Finds(p)
    BY <1>3 DEF Connect, waitForNatsRetry, Launch, Answered, Goto, broker, Finds,
                StreamsStay,
                PastEvents, Starting, Consuming, Others
  <1>4. ASSUME ensureExpirationEventStream(p)
        PROVE  Finds(p)
    BY <1>2, <1>4 DEF ensureExpirationEventStream, Answered, Goto, broker, Finds,
                      StreamsStay,
                      PastEvents, Starting, Consuming, Others
  <1>5. ASSUME ensureExpirationDeadLetterStream(p)
        PROVE  Finds(p)
    BY <1>1, <1>2, <1>5 DEF ensureExpirationDeadLetterStream, Answered, Goto, broker,
                            Finds,
                            StreamsStay, PastEvents, Starting, Consuming, Others
  <1>6. ASSUME AddFails(p)
        PROVE  Finds(p)
    BY <1>2, <1>6 DEF AddFails, Goto, Finds, StreamsStay, PastEvents, Starting, Consuming,
                      Others
  <1>7. ASSUME StartFails(p)
        PROVE  Finds(p)
    <2>1. StreamsStay
      <3>1. events' \in {events, TRUE}
        BY <1>7 DEF StartFails
      <3>2. dlq' \in {dlq, "complete"}
        <4>1. dlq' \in IF pc[p] = "dlq update" THEN {dlq, "complete"} ELSE {dlq}
          BY <1>7 DEF StartFails
        <4> QED
          BY <4>1
      <3> QED
        BY <3>1, <3>2 DEF StreamsStay
    <2>2. pc' = [pc EXCEPT ![p] = "retry"]
      BY <1>7 DEF StartFails, Goto
    <2>3. /\ "retry" \in Others
          /\ "retry" \notin PastEvents \cup Consuming \cup {"dlq add", "dlq again", "replay"}
      BY DEF PastEvents, Consuming, Others
    <2> QED
      BY <2>1, <2>2, <2>3 DEF Finds
  <1> QED
    BY <1>3, <1>4, <1>5, <1>6, <1>7 DEF onModuleInit

\* What a process does after its start relies on no stream it had not found.
LEMMA ServeFinds ==
    ASSUME StreamsInv, NEW p \in Processes,
           \/ Consume(p) \/ orderCreatedConsumer(p) \/ Subscribe(p) \/ ConsumeFails(p)
           \/ replayExpirationDeadLetter(p)
    PROVE  Finds(p)
  <1> USE DEF StreamsInv, FoundStreams
  <1>1. ASSUME NEW await \in Consuming \cup {"stopped", "finally"}, Goto(p, await),
               pc[p] \in Consuming \cup {"replay"}, UNCHANGED <<events, dlq>>
        PROVE  Finds(p)
    BY <1>1 DEF Goto, Finds, StreamsStay, PastEvents, Starting, Consuming, Others
  <1>2. ASSUME Consume(p)
        PROVE  Finds(p)
    BY <1>1, <1>2 DEF Consume, Loop, handleDelivery, MessagesEnd, waitForRetry,
                      broker, Consuming
  <1>3. ASSUME orderCreatedConsumer(p) \/ Subscribe(p) \/ ConsumeFails(p)
        PROVE  Finds(p)
    BY <1>1, <1>3 DEF orderCreatedConsumer, Answered, Subscribe, ConsumeFails, broker,
                      Consuming
  <1>4. ASSUME replayExpirationDeadLetter(p)
        PROVE  Finds(p)
    BY <1>4 DEF replayExpirationDeadLetter, Goto, broker, Finds, StreamsStay, PastEvents,
                Starting, Consuming, Others
  <1> QED
    BY <1>2, <1>3, <1>4

\* A process that consumes or replays has both streams, with the subject of its dead
\* letters, whichever of any number of processes created them and whatever creation
\* failed or was done in vain.
THEOREM StreamsReady == Spec => []ServingHasStreams
  <1>1. TypeOK /\ Init => StreamsInv
    BY DEF Init, StreamsInv, FoundStreams, PastEvents, Consuming
  <1>2. TypeOK' /\ StreamsInv /\ [Next]_vars => StreamsInv'
    <2> SUFFICES ASSUME TypeOK', StreamsInv, [Next]_vars PROVE StreamsInv'
      OBVIOUS
    <2>1. ASSUME NEW p \in Processes, Finds(p)
          PROVE  StreamsInv'
      <3>1. PICK await \in Starting \cup Consuming \cup Others :
              /\ pc' = [pc EXCEPT ![p] = await]
              /\ \/ await = pc[p]
                 \/ /\ await \in PastEvents => events'
                    /\ await \in {"dlq add", "dlq again"} => dlq' # "other subjects"
                    /\ await \in Consuming \cup {"replay"} => events' /\ dlq' = "complete"
        BY <2>1 DEF Finds
      <3>2. ASSUME NEW q \in Processes PROVE FoundStreams(q)'
        <4>1. CASE pc'[q] = pc[q]
          <5>1. /\ events => events'
                /\ dlq = "complete" => dlq' = "complete"
                /\ dlq # "other subjects" => dlq' # "other subjects"
            <6>1. events => events'
              BY <2>1 DEF Finds, StreamsStay
            <6>2. dlq' \in {dlq, "complete"}
              BY <2>1 DEF Finds, StreamsStay
            <6> QED
              BY <6>1, <6>2
          <5> QED
            BY <4>1, <5>1 DEF StreamsInv, FoundStreams
        <4>2. CASE pc'[q] # pc[q]
          BY <3>1, <4>2 DEF StreamsInv, FoundStreams, TypeOK
        <4> QED
          BY <4>1, <4>2
      <3> QED
        BY <3>2 DEF StreamsInv
    <2>2. ASSUME NEW p \in Processes, onApplicationShutdown(p) \/ Drained(p) \/ Exit(p)
          PROVE  Finds(p)
      <3>1. StreamsStay
        BY <2>2 DEF onApplicationShutdown, Drained, Exit, broker, StreamsStay
      <3>2. pc[p] \in Starting \cup Consuming \cup Others /\ pc = [pc EXCEPT ![p] = pc[p]]
        BY DEF StreamsInv, TypeOK
      <3>3. pc' = pc \/ pc' = [pc EXCEPT ![p] = "down"]
        BY <2>2 DEF onApplicationShutdown, Drained, Exit
      <3>4. CASE pc' = pc
        BY <3>1, <3>2, <3>4 DEF Finds
      <3>5. CASE pc' = [pc EXCEPT ![p] = "down"]
        <4>1. /\ "down" \in Others
              /\ "down" \notin PastEvents \cup Consuming \cup {"dlq add", "dlq again", "replay"}
          BY DEF PastEvents, Consuming, Others
        <4> QED
          BY <3>1, <3>5, <4>1 DEF Finds
      <3> QED
        BY <3>3, <3>4, <3>5
    <2>3. ASSUME NEW p \in Processes,
                 Launch(p) \/ Step(p) \/ onApplicationShutdown(p) \/ Kill(p)
          PROVE  StreamsInv'
      BY <2>1, <2>2, <2>3, StartFinds, ServeFinds DEF Step, Finish, Kill
    <2>4. ASSUME UNCHANGED <<events, dlq, pc>>
          PROVE  StreamsInv'
      BY <2>4 DEF StreamsInv, FoundStreams
    <2> QED
      BY <2>3, <2>4 DEF Next, CreateOrdersStream, Outage, process, vars, broker
  <1>3. StreamsInv => ServingHasStreams
    BY DEF StreamsInv, FoundStreams, ServingHasStreams
  <1> QED
    BY <1>1, <1>2, <1>3, TypeCorrect, PTL DEF Spec
=============================================================================
