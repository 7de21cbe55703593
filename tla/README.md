# Verification of the ticketing services

TLA+ models of *Polyglot Ticketing*: the services that sell a ticket (orders,
tickets, payments, expiration), the machinery that carries events between them
(outbox, durable consumers, dead letters), the services together, and the
gateway, the identity service and the gRPC servers in front of them. TLC checks
the models on small instances; TLAPS proves the safety of the services, of their
composition and of the gateway for every instance. `PROJECT.json` maps every definition to the lines it models
and lists components, runs, hazards and theorems.

## 1. Inventory

### Components, their state and operations

| Component | State | Operations that change it |
| --- | --- | --- |
| Orders (`apps/orders`, Go) | tables `orders`, `tickets` (projection), `processed_events`, `outbox_events` | `ReserveTicket`, `CancelOrder`, handlers of PaymentCreated, PaymentSucceeded, PaymentFailed, ExpirationComplete, ticket snapshots |
| Tickets (`apps/tickets`, Go) | tables `tickets` (with the lock `reserved_by_order_id`), `processed_events`, `outbox_events` | `CreateTicket`, `UpdateTicket`, handlers of OrderCreated and OrderCanceled |
| Payments (`apps/payments`, Go) | tables `orders` (projection), `payments`, `processed_events`, `outbox_events` | `CreatePayment`, the processor (`ResolveNextPending`), handlers of OrderCreated and OrderCanceled |
| Expiration (`apps/expiration`, TypeScript) | a BullMQ queue in Redis | handler of OrderCreated, the worker of the queue |
| Outbox publisher (`internal/outbox`, Go, used by the three Go services) | lease and attempt columns of `outbox_events` | `ClaimPending`, publish, `MarkPublished`, `MarkFailed` |
| Consumers (`*/internal/consumer`, `order-created.consumer.ts`) | nine JetStream durables, four dead letter streams | fetch, handle, Ack/Nak, park; replay commands |
| gRPC servers of the three (`*/internal/grpc`, Go) | none | validation, conversion of messages and errors |
| API gateway (`apps/api-gateway`, TypeScript) | none of its own; the browser keeps the session cookie | every route: session guard, validation, one gRPC call, cookie, answer; the error filter |
| Identity (`apps/identity`, TypeScript) | users, verification mails and sessions, through Better Auth | `SignUp`, `SignIn`, `SignOut`, `VerifyEmail`, `CurrentUser` |
| Processes of Expiration (`jetstream.service.ts`, `order-created.consumer.ts`) | one NATS connection each, streams, the durable | start with retries, subscription, shutdown, replay command |
| Stress client (`scripts/stress/tickets.js`) | the tickets of a run | cycles of creation and two updates, verification |
| Concert assistant | a vector index | not modelled, see section 8 |

### How they interact

The services share nothing but JetStream. A transaction writes rows and, in
`outbox_events`, the event that tells of them; the publisher moves committed
events to the service's stream (`TICKETS_EVENTS`, `ORDERS_EVENTS`,
`PAYMENTS_EVENTS`); Expiration publishes to `EXPIRATION_EVENTS` directly. A
durable delivers the events of a stream to a handler, which records the event
id in `processed_events` in the transaction of its effect.

    Tickets --TicketCreated/Updated--> Orders
    Orders  --OrderCreated/Canceled--> Tickets (edit lock), Payments (projection)
    Orders  --OrderCreated-----------> Expiration --ExpirationComplete--> Orders
    Payments --PaymentCreated/Succeeded/Failed--> Orders

    Browser --HTTP, session cookie--> Gateway --gRPC--> Identity (whose session?)
                                              --gRPC--> Tickets, Orders, Payments

The gateway asks Identity before every guarded route and then makes one call to
the service that does the work. It sets no deadline on either.

### What is hard here

* **Concurrency.** Reservations of one ticket run concurrently and are
  serialized only by a row lock on the *projection* row of the ticket; the
  order rows they read are changed by other transactions. `UpdateTicket` reads
  before its transaction. Two publishers may hold the same row after a lease
  ran out, two consumers the same message after its acknowledgement wait.
* **Ordering.** Events of one order come through different durables and are
  retried separately, so a cancellation may overtake a creation and a payment
  result a PaymentCreated; snapshots may come with version gaps.
* **Failure.** A process may stop between storing an effect and saying so:
  after the broker stored an event, after the handler committed, after a job
  published. All of these lead to repetition.
* **Time.** An order blocks its ticket until `expires_at`; payment results,
  cancellations and expirations race it. Leases, backoffs and the broker's
  duplicate window bound what is recognised as a repetition.

### What makes each component correct

* Orders: an unexpired active order is the only one of its ticket; a settled
  order never changes; the outbox tells each order's history once and in
  order; no event is lost to a version gap; the price of an order is the
  current one of the projection.
* Tickets: the lock follows the order events, whatever their order; a locked
  ticket is not edited; versions in the outbox are contiguous.
* Payments: one payment and one outcome per order; a canceled order is not
  newly paid for; no cancellation is lost; every payment is resolved.
* Outbox: an event counts as published only when the stream has it and for good;
  every committed event is published in the end.
* Expiration: one timer per order, never early; it ends in a published event or
  in a failed job. Its processes leak no connection, serve only with their
  streams in place, come to consume, and stop when told to.
* Consumers: no event is given up unless it was applied or parked; effects
  happen once; parking comes after all retries; every message is settled.
* The services together: an order settles once, is paid for at most once and
  completed only by its own payment; the copies of an order in Tickets and
  Payments agree with it; the projection of a ticket catches up.
* Gateway and Identity: only a live session gets in, a request acts for the user
  of its session, the cookie outlives no session, what the status tells of the
  effect is true, an error blames whose fault it is.

## 2. Modules

| Module | Models | Notes |
| --- | --- | --- |
| `Orders` | the orders service | `ReserveTicket` by statement, every other transaction one step |
| `Tickets` | the tickets service | `UpdateTicket` in two steps |
| `Payments` | the payments service | |
| `Outbox` | the outbox publisher | timers count down, no clock bound |
| `Relay` | - | abstract specification `Outbox` implements |
| `Expiration` | the expiration service, BullMQ as far as it is used | timers count down |
| `ExpirationLifecycle` | start, subscription and end of its processes | every `await` a step |
| `Consumers` | the protocol all durables follow | parameterised by the durables |
| `Durables` | the nine durables of the system | what each is bound to and what its handler needs |
| `Ticketing` | Orders, Tickets and Payments composed | `Orders` with instances of the other two |
| `Saga` | - | abstract specification `Ticketing` implements |
| `Contracts` | messages and error codes of the gRPC services | sets, no state |
| `Channel` | gRPC calls in flight | answered, abandoned by the caller, dropped |
| `Identity` | the identity service and its use of Better Auth | extends `Channel` |
| `Services` | the gRPC servers of tickets, orders and payments | one call a step |
| `GatewayErrors` | the error boundary of the gateway | operators, no state |
| `Gateway` | routes, guard, cookies and answers of the gateway | composes `Identity` and `Services` |
| `Stress` | the stress client for tickets | over `Services` |
| `*Proofs` | - | theorems about the module of that name; `ConsumersProofs` also about `Outbox`, `TicketingProofs` also about `Orders` |
| `MC*` | symmetry sets and instances for TLC | |

Definitions whose comment starts with "Mutant" are plausible mistakes, used to
confirm that a property can fail. They are not part of any specification.

### Orders

`orders`, `tickets`, `processed_events` and `outbox_events` are the tables.
`pc` and `call` are the position and the local variables of the running
`ReserveTicket` calls: begin (`ReserveTicket`), lock the projection row
(`LockTicketRow`, waiting while another call `HoldsTicketRow`), look for a
blocking order (`FindBlockingOrder`), insert and commit (`InsertOrder`), or fail
(`RollbackReservation`). `FindBlockingOrder` compares with the time the
transaction began, as `NOW()` does, which may be long before the lock was granted.
`UpsertTicketFromEvent` waits for the same row lock. The other handlers lock the
order row they update, so each is one step. An event another service may have
published (`MayBePublished`) is handled at any time and any number of times.

Abstractions: a price is the version of the snapshot that carried it; the event
id of a consumed event is the event itself (one payment per order and one event
per version exist by the invariants of the other modules); `expires_at` and the
insert share one reading of the clock.

### Tickets

`tickets`, `processed_events`, `outbox_events` are the tables; `updates` holds
the `UpdateTicket` calls between the check and the write. `CreateTicket`,
`CheckUpdate` and `UpdateTicket`, `ReserveTicketFromOrder` and
`UnreserveTicketFromOrder` are the operations of the repository. A handler that
returns an error (`ErrReserved`, `ErrOrderReservationPending`) rolls back,
including the processed event, so it is a step that is not taken.

### Payments

The projection of an order carries the version of the last event applied to it.
`CreatePayment`, `ResolveNextPending`, `UpsertOrderFromEvent` and
`CancelOrderFromEvent` are the operations; the outcome of a payment is any of
those the processor may be configured to decide. `OrderCanceled` has version 1
or, when Orders made the order AwaitingPayment in between, 2.

### Outbox and Relay

A row's `lease` and `retry` are the times until `locked_until` and
`next_attempt_at`. A publisher claims a batch, publishes its events one after
the other by sequence (`Current`), marks each, and returns at the first failure,
leaving the rest leased. It may crash anywhere; an answer of the broker or the
database may be lost. The stream recognises a message id for `DuplicateWindow`
ticks only. `Relay` says what this is for: a committed event, and no other, gets
to the stream and stays there; the service is rid of it (`settled`) then and not
before, in the end, and once and for all.

### Expiration

`jobs` is the queue by job id (the order id), `stream` what `EXPIRATION_EVENTS`
holds of each order. `Schedule` is the handler with `queue.add`, which ignores a
known job id, also one of a completed or failed job, as these are retained.
Attempts, backoff and stalled jobs are BullMQ's, modelled from the options the
scheduler passes; a job taken back from a lost worker does not use an attempt.

### ExpirationLifecycle

Replicas of the service and runs of the replay command are processes with a
position `pc`, named for the await they are at, a NATS connection (`link`, and
`open`, how many of theirs the broker sees), and the flag `stopping`. The broker
holds the two streams, the orders stream another service creates, and the
durable. During an `outage` every request may fail, with or without having been
done. `onModuleInit` begins anew after any failure; `ensureExpiration...Stream`
look, create, and look again when a creation is refused; `orderCreatedConsumer`,
`Subscribe`, `handleDelivery` and `ConsumeFails` are the loop of
`OrderCreatedConsumer`; `onApplicationShutdown` stops the messages and drains.
`Kill` ends a process at any await. What is done with a message is in `Consumers`.
A connection survives an outage: how long the NATS client tries to reconnect is
its default and not in this code.

### Consumers and Durables

The code repeats one protocol in every service, with the names changed. `Consumers`
states it once: its steps are mapped to the ticket consumer and the dead letters of
Orders, and the whole handler (`HandleDelivery`, `Park`) to the consumer of
Expiration. `Durables` only says what each consumer is bound to, and is mapped to
those lines; the `handleDelivery`, `park` and replay of the remaining consumers were
compared with the mapped ones and are not mapped a second time.

`delivered` is JetStream's `NumDelivered`, `state` whether a message is to be
delivered, out, or acknowledged; `inflight` are the deliveries being handled,
each with the count it was delivered with. A message whose acknowledgement does
not come in time is due again while the first delivery may go on
(`AckWaitExpires`), so the same message may be applied, refused and parked by
two deliveries at a time. A handler is a transaction of two steps.
`RecordProcessedEvent` inserts the event id, which waits while another transaction
holds the same id (`Recording`) and ends the handler if the id is there;
`HandleSucceeds` does the rest and commits, for an event whose predecessors
(`after`) are applied. All handlers of the three services begin with this insert.
`HandleFails` is possible in both (the database may be down) and rolls back, as does
a consumer that stops (`Lose`); `CommitUnanswered` is a commit whose handler is told
of an error, so that an applied event is retried or parked. `effects` counts how
often an event was applied in a service's database. In Expiration the two steps are
`queue.add`, which BullMQ does at once. The dead letter stream keeps one record per
id, as its duplicate window is as long as its retention.

Abstractions: deliveries of a message are told apart by their count up to two
beyond the retries, and of later ones one is handled at a time
(`MaxDelivered`); the delay of a Nak is the freedom of the broker to deliver later;
retention (seven days) is not modelled, so nothing expires from a stream; a
delivery without metadata, which JetStream does not produce, is left out; the
`accepts` of `PaymentsOrderProjection` (`orders.>`) is the two order events
that exist.

### Ticketing and Saga

`Ticketing` extends `Orders` by instances of the other two services (the table of
Tickets is `catalog`, the projection of Payments `payable`) and replaces "an event
another service may have published" by "an event the outbox of that service
holds", with the version, owner and result it really carries: one action per
durable (`ProjectTicket`, `SettleOrder`, `ExpireOrder`, `LockOrUnlock`,
`ProjectOrder`). `MaxTicketVersion` bounds the snapshots Orders takes as it does
in `Orders`; in the run no ticket exceeds it. An event may be handled any number
of times and in any order. The clock of `Orders` is the timer of `Expiration`.
`Saga` is what an order and its payment look like from outside: placed, paid,
resolved, completed or canceled, each once.

### Contracts, Channel, Identity, Services

A message is a record with the fields a component looks at; titles and names are
reduced to whether validation accepts them. A call (`rpc`) is sent, handled in one
or more phases and answered; its caller may stop waiting while it goes on
(`Abandon`), and a process or a connection may be lost before it is answered
(`Drop`). `Identity` has a phase where the service awaits between two effects: an
account before its mail, a session before its expiry is read. Times are in
milliseconds and converted as the code does, to seconds and nanoseconds and back.
The tables and the API of Better Auth are external, modelled from the calls of
the service and the errors it maps. One assumption about it carries a property:
`api.signOut` throws when it could not delete the session. If it swallowed the error,
identity would report success, and `SignedOutIsOver` would not hold. `Services` handles a call in one step, as its
caller sees it; events between the services are steps that happen later, so each
works from a copy that may be stale.

### Gateway and GatewayErrors

`http` holds the requests in progress, `jar` the cookie of each browser, `wrote`
the calls that changed something. A request passes the guard (a call to
Identity), validation, one call to a service, the conversion of its answer and,
if anything failed, `ApiErrorFilter`. `AppModule` lists the routes with what each
needs and returns. Connections break (`Break`), services are killed (`Crash`),
responses are lost (`Lose`), sessions end and time passes between any two steps.
`load` bounds what browsers are up to: see section 3. `GatewayErrors` is the
translation of gRPC codes and of NestJS exceptions to statuses and public items.

### Stress

`main` is the script: cycles of a creation and two updates with its assertions,
the reading back of all tickets, the summary. The first failure ends the run.
Meanwhile another user orders the tickets, calls are dropped, and the connection may
break under a call that goes on (`Break`).

## 3. Runs

| Run | Bounds | What it shows |
| --- | --- | --- |
| `orders` | 2 users, 1 ticket, 2 orders, 2 concurrent calls, 3 clock readings (1 257 186 states) | `TypeOK`, `OneActiveOrderPerTicket`, `OutboxTellsOrderHistory`, `ProcessedEventsAreInEffect`, `SoldTicketIsRefused`, `SettledOrdersStay` under every interleaving of calls, payments, cancellations and expirations |
| `orders_oversell` | as `orders` | **violated**: two Complete orders of one ticket (section 6) |
| `tickets` | 2 users, 1 ticket, 3 orders of it, 2 contents, 2 concurrent edits, 9 versions | `LockFollowsOrderEvents`, `OutboxTellsTicketHistory`, `ReservedTicketIsNotEdited` with concurrent edits and order events in every order |
| `payments` | 2 users, 2 orders, both outcomes | `OutboxTellsPaymentHistory`, `CancellationsNeverLost`, `CanceledOrderIsNotPaid`, and `PaymentsAreResolved` under fairness |
| `outbox` | 2 rows, 2 publishers, lease of 1 tick, backoff up to 2 (86 397 states) | `ImplementsRelay` under fairness, with leases that run out under slow publishers |
| `expiration` | 2 orders, window and duplicate window of 2 ticks, 3 attempts, 1 stall (34 225 states) | `NeverEarly`, `OneTimerPerOrder`, and `ExpiresOrFails` under fairness |
| `expiration_lifecycle` | 2 replicas, 1 replay command (75 562 states) | `NoConnectionLeaks`, `ServingHasStreams`, and under fairness `ComesToConsume`, `ShutdownEnds` |
| `consumers` | 2 durables of Orders, 2 streams, 2 messages, 2 deliveries at a time, 1 retry, an invalid event (95 425 states) | `NothingIsLost`, `EffectsOnce`, `ParkedAfterAllRetries`, and `MessagesAreSettled` under fairness |
| `gateway` | 2 browsers, 2 users, 2 sessions, 1 ticket, 1 order, 2 requests and 2 calls at a time, five loads (718 126 states) | `TypeOK` (the contracts of all calls), `StaleSessionsAreRefused`, `ActsForSessionUser`, `CookieWithinSession`, `SignedOutIsOver`, `StatusTellsEffect`, `ErrorsTellWhoseFault` |
| `stress` | 2 tickets, 1 order by somebody else, all settings of the limit (89 817 states) | `CompleteMeansUpdated` |
| `ticketing` | 2 users of whom one sells, 1 ticket, 1 order, 1 edit, both outcomes, 2 clock readings (118 454 states) | `CopiesAgreeWithOrders`, `OrderCarriesCurrentPrice`, `ImplementsSaga`, and under fairness `PaidOrExpiredOrdersSettle`, `CanceledOrdersFreeTheTicket`, `ProjectionCatchesUp`, `UnpaidCancellationsArrive` |
| `ticketing_cancellations` | as `ticketing` | **violated**: a cancellation Payments never takes (section 6) |

Why the bounds are enough. Exclusion needs two calls of one ticket; expiry needs
a reading before, at and after `expires_at`; a sold ticket next to an older order
of the same user needs two orders. A second publisher and a lease of one tick
make every overlap of two claims of a row; a duplicate window longer and shorter
than the time a row waits both occur. Two messages give an event before its
predecessor, a replay next to its original, and equal sequence numbers in two
streams; two deliveries at a time give the overlap of a message with itself, and of
an event with its republication. Durables of different services share no database
and no dead letters, so two of one service are enough. One
retry is below the code's five, but the protocol only compares the count with the
limit. `ticketing` has one order, as orders of one ticket meet only in the
reservation (`orders`) and in the lock (`tickets`), and a ticket with up to four
versions, so that snapshots overtake each other and a reservation. Two replicas
and a command give two creators of one stream and a third process that finds it.

The five loads of `gateway` are what no bound on its own would reach: `Accounts`
and `Resources` send every route with bodies that the gateway, a service or nobody
refuses; `Sessions` has two requests at a time while a session begins, ends and
runs out (a tick is longer than a session); `Buyers` and `Payers` are two users
after one ticket and its order. `SessionAge` and `TickLength` are no multiples of
a second, so the conversions have a remainder to lose.

The proofs of section 5 take the bounds away from the safety properties of
every passing run. Time in `Orders` is
bounded by `MaxClock`; elsewhere it is counted down and unbounded.
`CHECK_DEADLOCK FALSE` stands where a model has nothing left to do once the
bounded rows, jobs or messages are finished. Users, orders, tickets, calls and
requests are symmetric where no liveness is checked.

## 4. Fairness

* `Payments`: `WF(ResolveNextPending)`: the processor polls for as long as the
  service runs and takes a pending payment, the first by its id. Ids are random, so
  later payments may go first; that the turn of each comes rests on a processor that
  keeps up with the callers (in the model, on the finite set of orders).
* `Outbox`: time passes; a publisher polls (`WF(ClaimPending)`); publishing and
  marking succeed in the end if tried again and again (`SF`), although crashes and lost
  answers may happen any number of times. `Abandon` is never forced.
* `Expiration`: time passes and lost workers are replaced (`WF(WorkerStep)`).
  No publish has to succeed: the property allows a failed job.
* `ExpirationLifecycle`: a process goes on with its next await (`WF(Step)`), a
  connection drains while a handler runs, Orders creates its stream, and
  outages end. Nobody is forced to launch, stop or kill a process.
* `Consumers`: the broker redelivers and consumers go on with every message
  (`WF`); consumers stop and answers are lost any number of times, but not for
  ever. Handling may fail every time.
* `Ticketing`: a transaction that began ends, the processor polls, and an event of
  an outbox that a durable can apply is applied, which is what `Outbox` and
  `Consumers` show, given that an operator replays what was parked. `SF` for
  `ProjectTicket`: PostgreSQL grants the row lock that reservations take in the
  order it was asked for. `ExpireOrder` is not forced: ExpirationComplete comes from
  no outbox, and a job that failed in all its attempts stays failed, blocks its id and
  is replayed by nobody (`ExpiresOrFails`). So an unpaid order may stay open for ever,
  and `PaidOrExpiredOrdersSettle` is about the others. Callers owe nothing: no order
  has to be placed, canceled or paid.
* `Gateway` and `Stress` state no fairness and no liveness. The gateway sets no
  deadline, so a call that is never answered keeps its request for ever.

## 5. Proofs

Eight modules prove theorems for every value of the constants, from the
assumptions the modules state about them (`ConstantsAssumption`, `NoneAssumption`,
`ProcessesAssumption`; `TimeAssumption`, `LoadsAssumption` and `MissingAssumption`
of `Gateway`, `NoTokenAssumption` of `Contracts`, `StressAssumption` and
`MissingAssumption` of `Stress`), which TLC evaluates in the
runs. Type invariants that no run lists (all but those of `Orders` and `Gateway`)
are among them. Each rests on an inductive invariant; where the property itself is
not inductive:

* `TicketingProofs`, first part, about `Orders`. `OneActiveOrder`: that an insert is safe depends on what the
  call read two statements earlier. `ReservationInv` adds `LockedReadsHold`: one
  call at a time holds a ticket row, its price is still the one it read, and once
  it found no blocking order every active order of the ticket has expired by the
  `NOW()` of its transaction. No other step adds an active order to a held ticket
  (`OrderStepAddsNoActive`), and time only removes blocking orders. Also
  `TypeCorrect`, `SettledStay`, `TicketEventsKept` (an event is recorded as
  processed exactly when the projection has reached its version) and
  `OutboxHistory`, from lemmas on what an append does to the events of an order:
  one creation, then at most one cancellation, with what the row has kept.
  `ProcessedInEffect`: `EffectsInv` adds that only a processed PaymentSucceeded
  completes an order, or a PaymentFailed could find it Complete and be recorded
  without effect. `VersionsCount` (which versions an order may have, and so the
  gap of the second finding), `SoldRefused` and `LockedReads`.
* `TicketsProofs`. `LockFollows` needs `CanceledWasReserved`: a cancellation is
  processed only after its reservation, or a late OrderCreated would lock the
  ticket for good. `ReservedKept` and `OutboxHistory` follow from `StepWrites`: every
  step writes one ticket, one version later, and no other content if it is locked.
* `PaymentsProofs`. `CancellationsKept` needs `CreatedIsFirst`: an order that is
  not canceled is at the version of its creation, so a cancellation is never taken
  for one that was passed and recorded without an effect. `CanceledNotPaid`,
  `OutboxHistory`.
* `ConsumersProofs`. `OneEffect`: the commit does not look at `processed_events`
  again, so that it is the first depends on what the transaction found one step
  earlier. `EffectInv` says that an event whose id is inserted and not committed was
  not applied, and that no other transaction of it is open. `NothingLost`: the
  acknowledgement comes steps after what justifies it, with other deliveries of the
  message in between. `LossInv` says that a delivery is done only when its message is
  settled, and that a dead letter holds the event of the message its id names, so that
  a record found under the id is the right one. `ParkedLast`: `RetryInv` says that a
  delivery being parked was the last and that the broker has counted at least that
  many. All three use `Grows`: no step takes back a message, an effect, a record or a
  count.
  Its second part is about `Outbox`, through `O == INSTANCE Outbox`, whose
  assumptions each theorem repeats. `RelaySafe`: `Outbox` implements the safety of
  `Relay`. `RelayInv` says that what the broker acknowledged to a publisher is in
  the stream, and so is every event whose id the broker recognises; otherwise a
  publish that is dropped as a duplicate could be marked in vain. `OutboxTypeInv`
  adds that only committed rows are claimed. Every step is then shown to commit,
  publish or settle one event, or to stutter.
* `ExpirationProofs`. `NotEarly`: `TimerInv` says that the delay of a job is never
  shorter than the time its order has left, and that a job that was ever started
  has an expired order, so neither a backoff nor a lost worker makes it early.
  `OneTimer`; `TypeCorrect` needs that an unfinished job has an attempt left.
* `ExpirationLifecycleProofs`. `NoLeaks`: `LinkFollowsPc` ties the await a process
  is at to its connection, so `Connect` never overwrites an open one.
  `StreamsReady`: `FoundStreams` says what a process past each of its steps has
  found, and that all who create the dead letter stream create it complete.
* `TicketingProofs`, second part, proves the services together, from the theorems
  about `Orders`. `ServicesAsSpecified`: in the composition every step is a step
  of `Orders`, `Tickets` and `Payments` or leaves them alone, so the environments
  that those three modules assume are the ones they get, and their theorems carry
  over. `SystemInv` adds what relates two databases: no copy names another owner
  or ticket than Orders or is canceled too soon (`CopiesAgreeWithOrders`), a
  PaymentSucceeded is of a payment that succeeded, a Complete order is paid for.
  From it `CopiesAgree` and `SagaImplemented`: initial states map to initial
  states of `Saga`, every step to a step or a stutter. `PriceIsCurrent`.
* `GatewayProofs`. The answers of a request are decided by calls that other
  requests interleave with, in three layers, together `GatewaySound`.
  `SessionInv`: sessions are opened, ended and expire but never come back
  (`SessionsGrow`), so a session found dead stays dead and what identity answered
  is still true when it is read (`StaysTrue`); a call belongs to one request; a
  cookie outlives no session. Hence `SessionsSafe`, `StaleRefused`,
  `CookiesHonest`, `SignedOut`. `CallsInv`: what an answer shows is of the user
  its request names and goes on being so (`CallFor`), a failure carries the code
  and items of its cause (`CallTold`), and what an answer says of its effect is
  true while somebody waits for it (`CallDid`), handler by handler
  (`ServicesServe`, `IdentityServes`). `RequestsInv`: a body cannot replace the
  user, because the validation refuses fields its class does not declare, and a
  status 2xx shows what the call did. Hence `ForSessionUser`, `FaultsTold`,
  `EffectsTold`. A fourth layer, `TypesInv`, gives `TypesKept` (`TypeOK`): a message
  is of its declared type when it is read only if it was when it was sent, by whom
  and from which rows. So the rows are typed and those that orders and copies name
  exist (`TablesTyped`, `IdentityTyped`), every call carries its method's message
  (`MessageOK`), and a waiting request has a body fit to send and the method of its
  route under way (`RequestTyped`). Route by route what is sent (`CallTyped`), handler
  by handler what is answered (`ServicesTyped`, `IdentityAnswers`), and route by route
  what is shown of it (`SuccessTyped`) have the types the gateway writes down by hand.
  `LoadsAssumption` says for this that a body the validation accepts has the fields
  of its route's class, as no field of the DTOs is optional.
* `StressProofs`. `CompleteUpdated`, for every limit: the summary counts answers,
  and says something about rows only if each cycle left one. `LoopInv` says for each
  step of the client and each state of its call which rows are there: before a
  creation is handled exactly those of the cycles that ended, afterwards one more,
  with the price of the update that was last handled. `LeftInv` says the same of the
  call that a broken connection leaves behind, and nobody else's call writes a
  ticket (`CallsInv`). Hence also `OneTicketPerCycle`: wherever a run stops, at most
  one ticket is unfinished.

Only model-checked: all liveness and the fairness of `Relay` (fairness and ENABLED
are out of the prover's reach). Every invariant and action property that a passing
run checks is also stated by a theorem.

## 6. Findings

1. `orders_oversell`. An order that awaits payment past `expires_at` no longer
   blocks its ticket, is not canceled by its expiration, and is still completed
   by a late PaymentSucceeded. A second order of the ticket may be completed in
   between. SPEC.md: "`Complete` keeps the ticket unavailable permanently."
2. `ticketing_cancellations`. PaymentCreated makes an order AwaitingPayment and
   raises its version without an event. The OrderCanceled that follows (of a
   caller, or of a failed payment) has version 2, which Payments, at 0, refuses as a
   gap that no event will close. It is parked, and replaying it fails again.
   SPEC.md: "`orders.order.canceled.v1` advances an existing projection to
   `Canceled`". What does hold is `UnpaidCancellationsArrive`: an order nobody paid
   for does not stay payable.

Seen while modelling, without a run of their own:

* `attempts: 5` of a BullMQ job includes the first try, so a failed publish is
  retried four times; SPEC.md:595 says five.
* A verification mail that could not be sent is never sent again: the account
  exists, so a second sign-up is answered as the first and sends none, and a
  sign-in sends none (compare SPEC.md:203-207).
* The items a service gave with a 5xx are replaced by a generic one, which is
  what docs/error-contract.md asks for and SPEC.md:297-298 does not say.

## 7. Plan

Done: the services, the outbox with its refinement, expiration and its processes,
consumers and dead letters, the composition with the saga, the gateway with
identity and the gRPC servers, the stress client, each with its proofs.

What is left, in this order:

1. A bound on retries from above: a retry too many delays parking by one delivery,
   and loses nothing, so no property sees it. It needs a count of failed handlings.
2. `Ticketing` with two orders of one ticket, which needs a coarser `Orders` (the
   reservation as one step, justified by `OneActiveOrder`).
3. The reconnect limits of the NATS client as a constant of
   `ExpirationLifecycle`.

## 8. Not modelled

* Concert assistant: retrieval for a language model over its own database; no
  interaction with the services above.
* `protogen/ts/buf/validate/validate_pb.ts`: generated code of a third party, half of
  the implementation's lines. Descriptors, encoding and decoding of the
  other generated files; their messages are the sets of `Contracts`.
* Bootstrap of the services, their HTTP endpoints for health and metrics, API
  documentation, metrics, logs and tracing: they do not influence control.
* The wiring of the three Go replay commands (an environment variable, a
  connection, one call): the republication is `ReplayDeadLetter`.
* Creation and update of the dead letter streams of the Go services
  (`ensureOrdersDeadLetterStream` and its copies): `Consumers` begins with the streams
  in place. The same steps of Expiration are in `ExpirationLifecycle`.
* Migrations as a process, and deployment.
* Retention of streams and dead letters, and failures of PostgreSQL, Redis or
  JetStream themselves beyond unavailability and lost answers.
