----------------------------- MODULE Expiration -----------------------------
(***************************************************************************)
(* The expiration service (apps/expiration): an OrderCreated schedules a   *)
(* BullMQ job that is due when the order expires, and the job publishes    *)
(* ExpirationComplete. The handler runs for every delivery, also a         *)
(* repeated one; a worker may stop at any point of a job, and an answer of *)
(* the broker may be lost. Jobs are kept in Redis, and completed and       *)
(* failed ones are retained.                                               *)
(*                                                                         *)
(* Times are timers that count down, so time never ends.                   *)
(***************************************************************************)
EXTENDS Integers

CONSTANTS
    OrderIds,            \* orders of the orders service
    ExpirationWindow,    \* expires_at of a new order, in ticks from now
    PublishAttempts,     \* expirationPublishAttempts
    MaxStalled,          \* how often BullMQ takes a job back from a lost worker
    DuplicateWindow,     \* of stream EXPIRATION_EVENTS, in ticks
    None                 \* no order, no job

VARIABLES
    expires_in,  \* per order: the time until expires_at, or None
    jobs,        \* the queue in Redis, by jobId: job or None
    stream       \* per order: the copies of its ExpirationComplete (up to two)
                 \* and for how long the stream still recognises the message id

vars == <<expires_in, jobs, stream>>

\* A due job is delayed with no time left. A sent job has had its answer.
Unfinished == {"delayed", "active", "sent"}

Finished == {"completed", "failed"}

Backoff(attempts) == 2 ^ (attempts - 1)

Job == [state : Unfinished \cup Finished, delay : Nat,
        attempts : 0 .. PublishAttempts, stalled : 0 .. MaxStalled + 1]

MaxCopies == 2

Stored == [copies : 0 .. MaxCopies, window : 0 .. DuplicateWindow]

ASSUME ConstantsAssumption ==
    /\ {ExpirationWindow, PublishAttempts, DuplicateWindow} \subseteq Nat \ {0}
    /\ MaxStalled \in Nat

ASSUME NoneAssumption == None \notin Nat /\ None \notin Job

----------------------------------------------------------------------------
Init ==
    /\ expires_in = [o \in OrderIds |-> None]
    /\ jobs = [o \in OrderIds |-> None]
    /\ stream = [o \in OrderIds |-> [copies |-> 0, window |-> 0]]

\* Orders publishes OrderCreated.
OrderCreated(o) ==
    /\ expires_in[o] = None
    /\ expires_in' = [expires_in EXCEPT ![o] = ExpirationWindow]
    /\ UNCHANGED <<jobs, stream>>

\* Mutant: the job runs at once.
NoDelay(o) == 0

\* max(0, expiresAt - now).
Delay(o) == expires_in[o]

\* OrderCreatedHandler and queue.add, which ignores a jobId the queue has.
Schedule(o) ==
    /\ expires_in[o] # None
    /\ jobs' = IF jobs[o] # None THEN jobs
               ELSE [jobs EXCEPT ![o] = [state |-> "delayed", delay |-> Delay(o),
                                         attempts |-> 0, stalled |-> 0]]
    /\ UNCHANGED <<expires_in, stream>>

InState(o, state) == jobs[o] # None /\ jobs[o].state = state

\* A worker takes a due job.
StartJob(o) ==
    /\ InState(o, "delayed") /\ jobs[o].delay = 0
    /\ jobs' = [jobs EXCEPT ![o].state = "active"]
    /\ UNCHANGED <<expires_in, stream>>

\* The broker keeps a message unless it recognises its id (the order id).
Store(o) ==
    stream' = IF stream[o].window > 0 THEN stream
              ELSE [stream EXCEPT ![o] = [copies |-> IF @.copies < MaxCopies THEN @.copies + 1
                                                                             ELSE MaxCopies,
                                          window |-> DuplicateWindow]]

\* publishExpirationComplete returns.
PublishSucceeds(o) ==
    /\ InState(o, "active")
    /\ Store(o)
    /\ jobs' = [jobs EXCEPT ![o].state = "sent"]
    /\ UNCHANGED expires_in

\* Mutant: completed jobs are removed from the queue.
RemoveOnComplete(o) ==
    /\ InState(o, "sent")
    /\ jobs' = [jobs EXCEPT ![o] = None]
    /\ UNCHANGED <<expires_in, stream>>

\* process returns, and BullMQ completes the job.
CompleteJob(o) ==
    /\ InState(o, "sent")
    /\ jobs' = [jobs EXCEPT ![o].state = "completed"]
    /\ UNCHANGED <<expires_in, stream>>

\* Mutant: process logs the error and does not throw it again.
PublishFailureSwallowed(o) ==
    /\ InState(o, "active")
    /\ Store(o) \/ UNCHANGED stream
    /\ jobs' = [jobs EXCEPT ![o].state = "completed"]
    /\ UNCHANGED expires_in

\* The publish throws, although the broker may have kept the message, and
\* process throws again: BullMQ delays the job by its backoff or, after the
\* last attempt, fails it.
PublishFails(o) ==
    /\ InState(o, "active")
    /\ Store(o) \/ UNCHANGED stream
    /\ LET attempts == jobs[o].attempts + 1
       IN  jobs' = [jobs EXCEPT ![o] =
                      IF attempts < PublishAttempts
                        THEN [@ EXCEPT !.state = "delayed", !.attempts = attempts,
                                       !.delay = Backoff(attempts)]
                        ELSE [@ EXCEPT !.state = "failed", !.attempts = attempts]]
    /\ UNCHANGED expires_in

\* The worker is lost: BullMQ finds the job stalled and puts it back, or fails
\* it once that has happened too often.
StallJob(o) ==
    /\ InState(o, "active") \/ InState(o, "sent")
    /\ jobs' = [jobs EXCEPT ![o].stalled = @ + 1,
                            ![o].state = IF jobs[o].stalled < MaxStalled THEN "delayed"
                                                                         ELSE "failed"]
    /\ UNCHANGED <<expires_in, stream>>

Down(timer) == IF timer > 0 THEN timer - 1 ELSE 0

Tick ==
    /\ expires_in' = [o \in OrderIds |-> IF expires_in[o] = None THEN None ELSE Down(expires_in[o])]
    /\ jobs' = [o \in OrderIds |-> IF jobs[o] = None THEN None ELSE [jobs[o] EXCEPT !.delay = Down(@)]]
    /\ stream' = [o \in OrderIds |-> [stream[o] EXCEPT !.window = Down(@)]]
    /\ vars' # vars

----------------------------------------------------------------------------
WorkerStep(o) ==
    \/ StartJob(o)
    \/ PublishSucceeds(o)
    \/ PublishFails(o)
    \/ CompleteJob(o)
    \/ StallJob(o)

Next ==
    \/ \E o \in OrderIds : OrderCreated(o) \/ Schedule(o) \/ WorkerStep(o)
    \/ Tick

Spec == Init /\ [][Next]_vars

\* Time passes, and a worker that is lost is replaced. Workers may be lost and
\* publishes may fail every time.
FairSpec ==
    /\ Spec
    /\ WF_vars(Tick)
    /\ \A o \in OrderIds : WF_vars(WorkerStep(o))

----------------------------------------------------------------------------
\* Every job and message has the shape of its type.
TypeOK ==
    /\ expires_in \in [OrderIds -> Nat \cup {None}]
    /\ jobs \in [OrderIds -> Job \cup {None}]
    /\ stream \in [OrderIds -> Stored]

\* "The job delay is max(0, expiresAt - now)" (SPEC.md): however late or often
\* OrderCreated is delivered, an order is not expired before its time.
NeverEarly ==
    \A o \in OrderIds : stream[o].copies > 0 => expires_in[o] = 0

\* "Redelivered OrderCreated events do not enqueue a second timer while the
\* original job is retained" (SPEC.md), and it is retained for good.
OneTimerPerOrder ==
    [][\A o \in OrderIds : jobs[o] # None =>
         /\ jobs'[o] # None
         /\ jobs[o].state \in Finished => jobs'[o].state = jobs[o].state]_vars

\* A timer that was set ends, though workers are lost between the publication and
\* the completion of its job: Orders is told that the order expired, or the job is
\* in the failed set, where nothing takes it up again.
ExpiresOrFails ==
    \A o \in OrderIds :
        jobs[o] # None ~> \/ InState(o, "completed") /\ stream[o].copies > 0
                         \/ InState(o, "failed")
=============================================================================
