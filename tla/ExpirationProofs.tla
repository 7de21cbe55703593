-------------------------- MODULE ExpirationProofs --------------------------
(***************************************************************************)
(* Theorems about Expiration, for any orders, attempts, windows and        *)
(* numbers of lost workers.                                                *)
(***************************************************************************)
EXTENDS Expiration, FiniteSetTheorems, TLAPS

----------------------------------------------------------------------------
(* Types. *)

\* A power of two is a natural number: it counts subsets.
LEMMA PowerOfTwo ==
    ASSUME NEW n \in Nat
    PROVE  2 ^ n \in Nat
  <1>1. IsFiniteSet(1 .. n) /\ Cardinality(1 .. n) = n
    BY FS_Interval
  <1>2. Cardinality(SUBSET (1 .. n)) = 2 ^ n /\ IsFiniteSet(SUBSET (1 .. n))
    BY <1>1, FS_SUBSET
  <1> QED
    BY <1>2, FS_CardinalityType

\* A job that is not finished has an attempt left, and was not given up.
JobOK(job) ==
    job.state \in Unfinished => job.attempts < PublishAttempts /\ job.stalled <= MaxStalled

\* The inductive form of TypeOK: without it an attempt could be counted beyond the
\* last.
TypeInv ==
    /\ TypeOK
    /\ \A o \in OrderIds : jobs[o] # None => JobOK(jobs[o])

\* The broker's part of a step has its type, and only adds.
LEMMA StoreType ==
    ASSUME TypeOK, NEW o \in OrderIds, Store(o) \/ UNCHANGED stream
    PROVE  /\ stream' \in [OrderIds -> Stored]
           /\ \A p \in OrderIds : p # o => stream'[p] = stream[p]
  <1>1. CASE UNCHANGED stream
    BY <1>1 DEF TypeOK
  <1>2. CASE Store(o)
    <2>1. stream[o] \in Stored
      BY DEF TypeOK
    <2> DEFINE new == [copies |-> IF stream[o].copies < MaxCopies THEN stream[o].copies + 1
                                                                  ELSE MaxCopies,
                       window |-> DuplicateWindow]
    <2>2. new \in Stored
      BY <2>1, ConstantsAssumption DEF Stored, MaxCopies
    <2> HIDE DEF new
    <2>3. stream' = stream \/ stream' = [stream EXCEPT ![o] = new]
      BY <1>2 DEF Store, new, TypeOK
    <2> QED
      BY <2>2, <2>3 DEF TypeOK
  <1> QED
    BY <1>1, <1>2

\* A step writes one job.
Writes(o, job) ==
    /\ job \in Job /\ JobOK(job)
    /\ jobs' = [jobs EXCEPT ![o] = job]

\* What the invariant says of the job of an order.
LEMMA JobFacts ==
    ASSUME TypeInv, NEW o \in OrderIds, jobs[o] # None
    PROVE  /\ jobs[o] \in Job /\ JobOK(jobs[o])
           /\ jobs[o].state \in Unfinished \cup Finished /\ jobs[o].delay \in Nat
           /\ jobs[o].attempts \in 0 .. PublishAttempts /\ jobs[o].stalled \in 0 .. MaxStalled + 1
  <1>1. jobs[o] \in Job /\ JobOK(jobs[o])
    BY DEF TypeInv, TypeOK
  <1> QED
    BY <1>1 DEF Job

\* The handler writes a job only for an order that has none, due with the order.
LEMMA ScheduleWrites ==
    ASSUME TypeInv, NEW o \in OrderIds, Schedule(o)
    PROVE  /\ UNCHANGED <<expires_in, stream>> /\ expires_in[o] \in Nat
           /\ \/ UNCHANGED jobs
              \/ \E job \in Job : /\ Writes(o, job) /\ jobs[o] = None
                                  /\ job.state = "delayed" /\ job.delay = expires_in[o]
  <1> DEFINE job == [state |-> "delayed", delay |-> Delay(o), attempts |-> 0, stalled |-> 0]
  <1>1. expires_in[o] \in Nat /\ Delay(o) = expires_in[o]
    BY DEF Schedule, TypeInv, TypeOK, Delay
  <1>2. 0 \in 0 .. PublishAttempts /\ 0 \in 0 .. MaxStalled + 1 /\ 0 < PublishAttempts /\ 0 <= MaxStalled
    BY ConstantsAssumption
  <1>3. job \in Job /\ JobOK(job)
    BY <1>1, <1>2 DEF Job, JobOK, Unfinished
  <1> QED
    BY <1>1, <1>3 DEF Schedule, Writes

\* The steps of a worker write one unfinished job; a job is delayed again only
\* after it was active or sent.
LEMMA WorkerWrites ==
    ASSUME TypeInv, NEW o \in OrderIds, WorkerStep(o)
    PROVE  /\ UNCHANGED expires_in /\ jobs[o] # None /\ jobs[o].state \in Unfinished
           /\ \E job \in Job : /\ Writes(o, job)
                               /\ jobs[o].state = "delayed" => jobs[o].delay = 0 /\ job.state # "delayed"
           /\ UNCHANGED stream \/ (Store(o) /\ jobs[o].state # "delayed")
  <1>1. /\ UNCHANGED expires_in /\ jobs[o] # None /\ jobs[o].state \in Unfinished
        /\ jobs[o].state = "delayed" => jobs[o].delay = 0
        /\ UNCHANGED stream \/ (Store(o) /\ jobs[o].state # "delayed")
    BY DEF WorkerStep, StartJob, PublishSucceeds, PublishFails, CompleteJob, StallJob, InState,
           Unfinished
  <1>2. /\ jobs[o] \in Job
        /\ jobs[o].delay \in Nat
        /\ jobs[o].attempts \in 0 .. PublishAttempts /\ jobs[o].attempts < PublishAttempts
        /\ jobs[o].stalled \in 0 .. MaxStalled + 1 /\ jobs[o].stalled <= MaxStalled
    BY <1>1, JobFacts DEF JobOK
  <1>3. ASSUME NEW state \in {"active", "sent", "completed"},
               jobs' = [jobs EXCEPT ![o].state = state]
        PROVE  \E job \in Job : Writes(o, job) /\ job.state # "delayed"
    <2> DEFINE job == [jobs[o] EXCEPT !.state = state]
    <2>1. job \in Job /\ JobOK(job) /\ job.state # "delayed"
      BY <1>2, <1>3 DEF Job, JobOK, Unfinished, Finished
    <2>2. jobs' = [jobs EXCEPT ![o] = job]
      BY <1>3 DEF TypeInv, TypeOK
    <2> QED
      BY <2>1, <2>2 DEF Writes
  <1>4. CASE StartJob(o) \/ PublishSucceeds(o) \/ CompleteJob(o)
    BY <1>1, <1>3, <1>4 DEF StartJob, PublishSucceeds, CompleteJob
  <1>5. CASE PublishFails(o)
    <2> DEFINE attempts == jobs[o].attempts + 1
               job == IF attempts < PublishAttempts
                        THEN [jobs[o] EXCEPT !.state = "delayed", !.attempts = attempts,
                                             !.delay = Backoff(attempts)]
                        ELSE [jobs[o] EXCEPT !.state = "failed", !.attempts = attempts]
    <2>1. attempts \in 0 .. PublishAttempts /\ attempts - 1 \in Nat
      BY <1>2, ConstantsAssumption
    <2>2. Backoff(attempts) \in Nat
      BY <2>1, PowerOfTwo DEF Backoff
    <2>3. jobs' = [jobs EXCEPT ![o] = job]
      BY <1>5 DEF PublishFails, TypeInv, TypeOK
    <2> HIDE DEF attempts
    <2>4. job \in Job /\ JobOK(job)
      BY <1>2, <2>1, <2>2 DEF Job, JobOK, Unfinished, Finished
    <2>5. jobs[o].state # "delayed"
      BY <1>5 DEF PublishFails, InState
    <2> QED
      BY <1>1, <2>3, <2>4, <2>5 DEF Writes
  <1>6. CASE StallJob(o)
    <2> DEFINE stalled == jobs[o].stalled + 1
               state == IF jobs[o].stalled < MaxStalled THEN "delayed" ELSE "failed"
               job == [jobs[o] EXCEPT !.stalled = stalled, !.state = state]
    <2>1. /\ stalled \in 0 .. MaxStalled + 1
          /\ state = "failed" \/ (state = "delayed" /\ stalled <= MaxStalled)
      BY <1>2, ConstantsAssumption
    <2>2. jobs' = [jobs EXCEPT ![o] = job]
      BY <1>2, <1>6 DEF StallJob, TypeInv, TypeOK, Job
    <2> HIDE DEF stalled, state
    <2>3. job \in Job /\ JobOK(job)
      BY <1>2, <2>1 DEF Job, JobOK, Unfinished, Finished
    <2>4. jobs[o].state # "delayed"
      BY <1>6 DEF StallJob, InState
    <2> QED
      BY <1>1, <2>2, <2>3, <2>4 DEF Writes
  <1> QED
    BY <1>4, <1>5, <1>6 DEF WorkerStep

\* Time counts every timer down and changes nothing else of a job or a message.
LEMMA TickWrites ==
    ASSUME TypeInv, Tick
    PROVE  /\ TypeInv'
           /\ \A o \in OrderIds :
                 /\ expires_in[o] = None => expires_in'[o] = None
                 /\ expires_in[o] # None => expires_in'[o] = Down(expires_in[o])
                 /\ jobs[o] = None => jobs'[o] = None
                 /\ jobs[o] # None => /\ jobs'[o] # None
                                      /\ jobs'[o].state = jobs[o].state
                                      /\ jobs'[o].delay = Down(jobs[o].delay)
                 /\ stream'[o].copies = stream[o].copies
  <1>1. \A n \in Nat : Down(n) \in Nat /\ Down(n) <= n
    BY DEF Down
  <1>2. ASSUME NEW o \in OrderIds
        PROVE  /\ expires_in'[o] \in Nat \cup {None}
               /\ expires_in[o] = None => expires_in'[o] = None
               /\ expires_in[o] # None => expires_in'[o] = Down(expires_in[o])
    BY <1>1, <1>2 DEF Tick, TypeInv, TypeOK
  <1>3. ASSUME NEW o \in OrderIds, jobs[o] # None
        PROVE  /\ jobs'[o] \in Job /\ JobOK(jobs'[o])
               /\ jobs'[o].state = jobs[o].state
               /\ jobs'[o].delay = Down(jobs[o].delay)
    <2> DEFINE delay == Down(jobs[o].delay)
    <2>1. jobs[o] \in Job /\ JobOK(jobs[o]) /\ delay \in Nat
      BY <1>1, <1>3, JobFacts
    <2>2. jobs'[o] = [jobs[o] EXCEPT !.delay = delay]
      <3>1. jobs'[o] = [jobs[o] EXCEPT !.delay = Down(@)]
        BY <1>3 DEF Tick
      <3> QED
        BY <2>1, <3>1 DEF Job
    <2> QED
      BY <2>1, <2>2 DEF Job, JobOK
  <1>4. ASSUME NEW o \in OrderIds
        PROVE  stream'[o] \in Stored /\ stream'[o].copies = stream[o].copies
    <2> DEFINE window == Down(stream[o].window)
    <2>1. stream[o] \in Stored
      BY DEF TypeInv, TypeOK
    <2>2. window \in 0 .. DuplicateWindow
      BY <2>1, ConstantsAssumption DEF Stored, Down
    <2>3. stream'[o] = [stream[o] EXCEPT !.window = window]
      <3>1. stream'[o] = [stream[o] EXCEPT !.window = Down(@)]
        BY DEF Tick
      <3> QED
        BY <2>1, <3>1 DEF Stored
    <2> QED
      BY <2>1, <2>2, <2>3 DEF Stored
  <1>5. ASSUME NEW o \in OrderIds, jobs[o] = None
        PROVE  jobs'[o] = None
    BY <1>5 DEF Tick
  <1>6. TypeOK'
    <2>1. /\ expires_in' = [o \in OrderIds |-> expires_in'[o]]
          /\ jobs' = [o \in OrderIds |-> jobs'[o]]
          /\ stream' = [o \in OrderIds |-> stream'[o]]
      BY DEF Tick
    <2> QED
      BY <1>2, <1>3, <1>4, <1>5, <2>1 DEF TypeOK
  <1>7. \A o \in OrderIds : jobs'[o] # None => JobOK(jobs'[o])
    BY <1>3, <1>5
  <1>8. TypeInv'
    BY <1>6, <1>7 DEF TypeInv, JobOK
  <1> QED
    BY <1>2, <1>3, <1>4, <1>5, <1>8, NoneAssumption

\* One job that is written as it should be keeps the types.
LEMMA WriteKeeps ==
    ASSUME TypeInv, NEW o \in OrderIds, NEW job \in Job, Writes(o, job),
           UNCHANGED expires_in, stream' \in [OrderIds -> Stored]
    PROVE  TypeInv'
  <1>1. /\ jobs' \in [OrderIds -> Job \cup {None}]
        /\ \A p \in OrderIds : jobs'[p] # None => JobOK(jobs'[p])
    BY DEF Writes, TypeInv, TypeOK
  <1> QED
    BY <1>1 DEF TypeInv, TypeOK, JobOK

\* TypeInv holds in every reachable state.
LEMMA TypeInvariant == Spec => []TypeInv
  <1>1. Init => TypeInv
    <2>1. [copies |-> 0, window |-> 0] \in Stored
      BY ConstantsAssumption DEF Stored, MaxCopies
    <2> QED
      BY <2>1 DEF Init, TypeInv, TypeOK
  <1>2. TypeInv /\ [Next]_vars => TypeInv'
    <2> SUFFICES ASSUME TypeInv, [Next]_vars PROVE TypeInv'
      OBVIOUS
    <2>1. ASSUME NEW o \in OrderIds, OrderCreated(o)
          PROVE  TypeInv'
      BY <2>1, ConstantsAssumption DEF OrderCreated, TypeInv, TypeOK, JobOK
    <2>2. ASSUME NEW o \in OrderIds, Schedule(o)
          PROVE  TypeInv'
      <3>1. UNCHANGED <<expires_in, stream, jobs>> => TypeInv'
        BY DEF TypeInv, TypeOK, JobOK
      <3> QED
        BY <2>2, <3>1, ScheduleWrites, WriteKeeps DEF TypeInv, TypeOK
    <2>3. ASSUME NEW o \in OrderIds, WorkerStep(o)
          PROVE  TypeInv'
      <3>1. stream' \in [OrderIds -> Stored]
        BY <2>3, WorkerWrites, StoreType DEF TypeInv
      <3> QED
        BY <2>3, <3>1, WorkerWrites, WriteKeeps
    <2>4. CASE UNCHANGED vars
      BY <2>4 DEF vars, TypeInv, TypeOK, JobOK
    <2> QED
      BY <2>1, <2>2, <2>3, <2>4, TickWrites DEF Next
  <1> QED
    BY <1>1, <1>2, PTL DEF Spec

\* Every timer, job and message has the shape of its type; no job is tried or
\* stalled more often than its bounds allow.
THEOREM TypeCorrect == Spec => []TypeOK
  BY TypeInvariant, PTL DEF TypeInv

----------------------------------------------------------------------------
(* Timers. *)

\* The job of an order is kept for good, and a finished one is not taken up again,
\* for any number of deliveries of OrderCreated.
THEOREM OneTimer == Spec => OneTimerPerOrder
  <1> DEFINE Kept == \A o \in OrderIds : jobs[o] # None =>
                       /\ jobs'[o] # None
                       /\ jobs[o].state \in Finished => jobs'[o].state = jobs[o].state
  <1>1. TypeInv /\ [Next]_vars => [Kept]_vars
    <2> SUFFICES ASSUME TypeInv, Next PROVE Kept
      OBVIOUS
    <2>1. ASSUME UNCHANGED jobs
          PROVE  Kept
      BY <2>1
    <2>2. ASSUME NEW o \in OrderIds, NEW job \in Job, Writes(o, job),
                 jobs[o] = None \/ jobs[o].state \in Unfinished
          PROVE  Kept
      <3>1. job # None /\ Unfinished \cap Finished = {}
        BY NoneAssumption DEF Unfinished, Finished
      <3> QED
        BY <2>2, <3>1 DEF Writes, TypeInv, TypeOK
    <2>3. ASSUME NEW o \in OrderIds, OrderCreated(o)
          PROVE  Kept
      BY <2>1, <2>3 DEF OrderCreated
    <2>4. ASSUME NEW o \in OrderIds, Schedule(o)
          PROVE  Kept
      BY <2>1, <2>2, <2>4, ScheduleWrites
    <2>5. ASSUME NEW o \in OrderIds, WorkerStep(o)
          PROVE  Kept
      BY <2>2, <2>5, WorkerWrites
    <2>6. ASSUME Tick
          PROVE  Kept
      BY <2>6, TickWrites
    <2> HIDE DEF Kept
    <2> QED
      BY <2>3, <2>4, <2>5, <2>6 DEF Next
  <1> QED
    BY <1>1, TypeInvariant, PTL DEF Spec, OneTimerPerOrder

\* The inductive invariant for NeverEarly: the delay of a job is never shorter than
\* the time its order has left, and a job that was started has an expired order.
\* A job that is delayed again, by its backoff or after a lost worker, is one of
\* those.
TimerInv ==
    \A o \in OrderIds :
        /\ stream[o].copies > 0 => expires_in[o] = 0
        /\ jobs[o] # None =>
             /\ expires_in[o] # None
             /\ jobs[o].state = "delayed" => expires_in[o] <= jobs[o].delay
             /\ jobs[o].state # "delayed" => expires_in[o] = 0

\* No ExpirationComplete is published before the order's time has come, however
\* late or often OrderCreated is delivered and however often a job is retried.
THEOREM NotEarly == Spec => []NeverEarly
  <1>1. Init => TimerInv
    <2> SUFFICES ASSUME Init, NEW o \in OrderIds
                 PROVE  jobs[o] = None /\ ~ (stream[o].copies > 0)
      BY DEF TimerInv
    <2>1. stream[o].copies = 0
      BY DEF Init
    <2> QED
      BY <2>1 DEF Init
  <1>2. TypeInv /\ TypeInv' /\ TimerInv /\ [Next]_vars => TimerInv'
    <2> SUFFICES ASSUME TypeInv, TypeInv', TimerInv, [Next]_vars PROVE TimerInv'
      OBVIOUS
    <2>1. ASSUME NEW o \in OrderIds, OrderCreated(o)
          PROVE  TimerInv'
      <3>1. jobs[o] = None /\ ~ (stream[o].copies > 0)
        BY <2>1, NoneAssumption DEF OrderCreated, TimerInv
      <3> QED
        BY <2>1, <3>1 DEF OrderCreated, TimerInv, TypeInv, TypeOK
    <2>2. ASSUME NEW o \in OrderIds, Schedule(o)
          PROVE  TimerInv'
      <3>1. UNCHANGED <<expires_in, stream, jobs>> => TimerInv'
        BY DEF TimerInv
      <3>2. ASSUME NEW job \in Job, Writes(o, job), jobs[o] = None, job.state = "delayed",
                   job.delay = expires_in[o], expires_in[o] \in Nat,
                   UNCHANGED <<expires_in, stream>>
            PROVE  TimerInv'
        <4>1. expires_in[o] # None /\ expires_in[o] <= job.delay
          BY <3>2, NoneAssumption
        <4> QED
          BY <3>2, <4>1 DEF TimerInv, Writes, TypeInv, TypeOK
      <3> QED
        BY <2>2, <3>1, <3>2, ScheduleWrites
    <2>3. ASSUME NEW o \in OrderIds, WorkerStep(o)
          PROVE  TimerInv'
      <3>1. PICK job \in Job :
              /\ Writes(o, job)
              /\ jobs[o].state = "delayed" => jobs[o].delay = 0 /\ job.state # "delayed"
        BY <2>3, WorkerWrites
      <3>2. UNCHANGED expires_in /\ jobs[o] # None /\ job.delay \in Nat
        BY <2>3, WorkerWrites DEF Job
      <3>3. expires_in[o] \in Nat /\ expires_in[o] = 0
        BY <2>3, <3>1, <3>2, WorkerWrites DEF TimerInv, TypeInv, TypeOK
      <3>4. \A p \in OrderIds : p # o => stream'[p] = stream[p]
        BY <2>3, WorkerWrites, StoreType DEF TypeInv
      <3>5. ASSUME NEW p \in OrderIds
            PROVE  /\ stream'[p].copies > 0 => expires_in[p] = 0
                   /\ jobs'[p] # None =>
                        /\ expires_in[p] # None
                        /\ jobs'[p].state = "delayed" => expires_in[p] <= jobs'[p].delay
                        /\ jobs'[p].state # "delayed" => expires_in[p] = 0
        <4>1. CASE p # o
          BY <3>1, <3>4, <4>1 DEF Writes, TimerInv, TypeInv, TypeOK
        <4>2. CASE p = o
          <5>1. jobs'[o] = job
            BY <3>1 DEF Writes, TypeInv, TypeOK
          <5>2. expires_in[o] # None /\ 0 <= job.delay
            BY <3>2, <3>3, NoneAssumption
          <5> QED
            BY <3>3, <4>2, <5>1, <5>2
        <4> QED
          BY <4>1, <4>2
      <3> QED
        BY <3>2, <3>5 DEF TimerInv
    <2>4. ASSUME Tick
          PROVE  TimerInv'
      <3> SUFFICES ASSUME NEW o \in OrderIds
                   PROVE  /\ stream'[o].copies > 0 => expires_in'[o] = 0
                          /\ jobs'[o] # None =>
                               /\ expires_in'[o] # None
                               /\ jobs'[o].state = "delayed" => expires_in'[o] <= jobs'[o].delay
                               /\ jobs'[o].state # "delayed" => expires_in'[o] = 0
        BY DEF TimerInv
      <3>1. /\ Down(0) = 0
            /\ \A m, n \in Nat : Down(m) \in Nat /\ (m <= n => Down(m) <= Down(n))
        BY DEF Down
      <3>2. expires_in[o] # None => expires_in[o] \in Nat /\ expires_in'[o] = Down(expires_in[o])
        BY <2>4, TickWrites DEF TypeInv, TypeOK
      <3>3. 0 # None
        BY NoneAssumption
      <3>4. stream'[o].copies > 0 => expires_in'[o] = 0
        BY <2>4, <3>1, <3>2, <3>3, TickWrites DEF TimerInv
      <3>5. ASSUME jobs'[o] # None
            PROVE  /\ expires_in'[o] # None
                   /\ jobs'[o].state = "delayed" => expires_in'[o] <= jobs'[o].delay
                   /\ jobs'[o].state # "delayed" => expires_in'[o] = 0
        <4>1. /\ jobs[o] # None /\ jobs'[o].state = jobs[o].state
              /\ jobs'[o].delay = Down(jobs[o].delay)
          BY <2>4, <3>5, TickWrites
        <4>2. jobs[o].delay \in Nat
          BY <4>1, JobFacts
        <4>3. expires_in[o] # None /\ expires_in[o] \in Nat /\ expires_in'[o] \in Nat
          BY <3>1, <3>2, <4>1 DEF TimerInv
        <4> QED
          BY <3>1, <3>2, <4>1, <4>2, <4>3, NoneAssumption DEF TimerInv
      <3> QED
        BY <3>4, <3>5
    <2>5. CASE UNCHANGED vars
      BY <2>5 DEF vars, TimerInv
    <2> QED
      BY <2>1, <2>2, <2>3, <2>4, <2>5 DEF Next
  <1>3. TimerInv => NeverEarly
    BY DEF TimerInv, NeverEarly
  <1> QED
    BY <1>1, <1>2, <1>3, TypeInvariant, PTL DEF Spec
=============================================================================
