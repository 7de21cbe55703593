------------------------------- MODULE Outbox -------------------------------
(***************************************************************************)
(* The outbox publisher that tickets, orders and payments share            *)
(* (internal/outbox): publishers, one per running instance of a service,   *)
(* claim committed rows under a lease, publish them to the stream and mark *)
(* the outcome. A publisher may stop between any two of these, an answer   *)
(* of the broker or of the database may be lost, and a lease may run out   *)
(* under a publisher that is only slow.                                    *)
(*                                                                         *)
(* Times are timers that count down, so time never ends: locked_until,     *)
(* next_attempt_at and the broker's memory of a message id.                *)
(***************************************************************************)
EXTENDS Integers, FiniteSets

CONSTANTS
    Sequence,         \* the values of column sequence; bounds the events
    Publishers,       \* publishers that share the table
    BatchSize,        \* batchSize
    LeaseDuration,    \* leaseDuration, in ticks
    MaxExponent,      \* 6 in MarkFailed
    MaxBackoff,       \* 60 seconds in MarkFailed, in ticks
    DuplicateWindow,  \* duplicateWindow of the stream, in ticks
    None              \* no row

VARIABLES
    rows,    \* table outbox_events, by sequence: row or None
    stream,  \* by sequence: the copies the stream holds (up to two) and for
             \* how long it still recognises the message id
    batch,   \* per publisher: the claimed events not dealt with yet
    sent     \* per publisher: what it knows of the one it is dealing with

vars == <<rows, stream, batch, sent>>

\* lease: until locked_until < NOW(); retry: until next_attempt_at <= NOW().
\* Attempts beyond MaxExponent are not told apart: the backoff is the same.
Row == [published : BOOLEAN, attempts : 0 .. MaxExponent,
        lease : 0 .. LeaseDuration + 1, retry : 0 .. MaxBackoff]

MaxCopies == 2

Stored == [copies : 0 .. MaxCopies, window : 0 .. DuplicateWindow]

ASSUME ConstantsAssumption ==
    /\ Sequence \subseteq Nat /\ IsFiniteSet(Sequence)
    /\ {BatchSize, LeaseDuration, MaxExponent, MaxBackoff, DuplicateWindow} \subseteq Nat \ {0}

ASSUME NoneAssumption == None \notin Row

Smaller(a, b) == IF a < b THEN a ELSE b

----------------------------------------------------------------------------
Committed(i) == rows[i] # None

Init ==
    /\ rows = [i \in Sequence |-> None]
    /\ stream = [i \in Sequence |-> [copies |-> 0, window |-> 0]]
    /\ batch = [p \in Publishers |-> {}]
    /\ sent = [p \in Publishers |-> "no"]

\* A transaction of the service that wrote the row commits. The sequence is
\* drawn at the insert, so rows may appear out of its order.
Commit(i) ==
    /\ ~ Committed(i)
    /\ rows' = [rows EXCEPT ![i] = [published |-> FALSE, attempts |-> 0, lease |-> 0, retry |-> 0]]
    /\ UNCHANGED <<stream, batch, sent>>

Pending == {i \in Sequence : /\ Committed(i)
                             /\ ~ rows[i].published
                             /\ rows[i].lease = 0
                             /\ rows[i].retry = 0}

\* The first BatchSize pending rows, by sequence, are leased to the publisher.
ClaimPending(p) ==
    /\ batch[p] = {}
    /\ Pending # {}
    /\ LET claimed == {i \in Pending : Cardinality({j \in Pending : j < i}) < BatchSize}
       IN  /\ rows' = [i \in Sequence |->
                         IF i \in claimed THEN [rows[i] EXCEPT !.lease = LeaseDuration + 1]
                                          ELSE rows[i]]
           /\ batch' = [batch EXCEPT ![p] = claimed]
    /\ UNCHANGED <<stream, sent>>

\* The claimed events are dealt with by sequence.
Current(p, i) == i \in batch[p] /\ \A j \in batch[p] : i <= j

\* The broker keeps a message unless it recognises its id (the event id).
Store(i) ==
    stream' = IF stream[i].window > 0 THEN stream
              ELSE [stream EXCEPT ![i] = [copies |-> Smaller(@.copies + 1, MaxCopies),
                                          window |-> DuplicateWindow]]

\* PublishMsg: the broker acknowledges, or its answer does not come in time
\* although it kept the message, or it did not get it.
PublishAcked(p) ==
    /\ sent[p] = "no"
    /\ \E i \in Sequence : Current(p, i) /\ Store(i)
    /\ sent' = [sent EXCEPT ![p] = "acked"]
    /\ UNCHANGED <<rows, batch>>

PublishTimesOut(p) ==
    /\ sent[p] = "no"
    /\ \E i \in Sequence : Current(p, i) /\ (Store(i) \/ UNCHANGED stream)
    /\ sent' = [sent EXCEPT ![p] = "failed"]
    /\ UNCHANGED <<rows, batch>>

MarkPublished(p) ==
    /\ sent[p] = "acked"
    /\ \E i \in Sequence :
         /\ Current(p, i)
         /\ rows' = [rows EXCEPT ![i] = [@ EXCEPT !.published = TRUE, !.lease = 0, !.retry = 0]]
         /\ batch' = [batch EXCEPT ![p] = @ \ {i}]
    /\ sent' = [sent EXCEPT ![p] = "no"]
    /\ UNCHANGED stream

\* LEAST(2 ^ LEAST(attempts + 1, 6), 60) seconds.
Backoff(attempts) == Smaller(2 ^ Smaller(attempts + 1, MaxExponent), MaxBackoff)

\* Mutant: a failure takes the row back from published.
MarkFailedUnpublishes(p) ==
    /\ sent[p] = "failed"
    /\ \E i \in Sequence :
         /\ Current(p, i)
         /\ rows' = [rows EXCEPT ![i] =
                       [published |-> FALSE, attempts |-> Smaller(@.attempts + 1, MaxExponent),
                        lease |-> 0, retry |-> Backoff(@.attempts)]]
    /\ batch' = [batch EXCEPT ![p] = {}]
    /\ sent' = [sent EXCEPT ![p] = "no"]
    /\ UNCHANGED stream

\* The row waits for its backoff; publishPending returns, and the rest of the
\* batch stays leased to nobody.
MarkFailed(p) ==
    /\ sent[p] = "failed"
    /\ \E i \in Sequence :
         /\ Current(p, i)
         /\ rows' = [rows EXCEPT ![i].attempts = Smaller(@ + 1, MaxExponent), ![i].lease = 0,
                                 ![i].retry = Backoff(rows[i].attempts)]
    /\ batch' = [batch EXCEPT ![p] = {}]
    /\ sent' = [sent EXCEPT ![p] = "no"]
    /\ UNCHANGED stream

\* The process stops, or the database refuses the mark: publishPending returns
\* without one.
Abandon(p) ==
    /\ batch[p] # {}
    /\ batch' = [batch EXCEPT ![p] = {}]
    /\ sent' = [sent EXCEPT ![p] = "no"]
    /\ UNCHANGED <<rows, stream>>

Down(timer) == IF timer > 0 THEN timer - 1 ELSE 0

Tick ==
    /\ rows' = [i \in Sequence |->
                  IF Committed(i)
                    THEN [rows[i] EXCEPT !.lease = Down(@), !.retry = Down(@)]
                    ELSE None]
    /\ stream' = [i \in Sequence |-> [stream[i] EXCEPT !.window = Down(@)]]
    /\ <<rows, stream>>' # <<rows, stream>>
    /\ UNCHANGED <<batch, sent>>

----------------------------------------------------------------------------
Next ==
    \/ \E i \in Sequence : Commit(i)
    \/ \E p \in Publishers :
         \/ ClaimPending(p)
         \/ PublishAcked(p)
         \/ PublishTimesOut(p)
         \/ MarkPublished(p)
         \/ MarkFailed(p)
         \/ Abandon(p)
    \/ Tick

Spec == Init /\ [][Next]_vars

\* Publisher.Run polls as long as the service runs, and time passes. Broker and
\* database may fail and the service may restart any number of times, but not
\* every time: a publish and a mark that are tried for ever succeed sometimes.
FairSpec ==
    /\ Spec
    /\ WF_vars(Tick)
    /\ \A p \in Publishers : /\ WF_vars(ClaimPending(p))
                             /\ SF_vars(PublishAcked(p))
                             /\ SF_vars(MarkPublished(p))
                             /\ WF_vars(MarkFailed(p))

----------------------------------------------------------------------------
\* Every row, timer and batch has the shape of its type.
TypeOK ==
    /\ rows \in [Sequence -> Row \cup {None}]
    /\ stream \in [Sequence -> Stored]
    /\ batch \in [Publishers -> SUBSET Sequence]
    /\ sent \in [Publishers -> {"no", "acked", "failed"}]

\* The publishers implement the relay that services and consumers rely on, after
\* any sequence of failures: whatever was committed is published at least once, is
\* marked only when the stream has it, whichever publisher marks it and whatever
\* answers were lost, is marked in the end, and stays marked even if a publisher
\* whose lease ran out reports a failure later.
AtLeastOnce ==
    INSTANCE Relay WITH Events <- Sequence,
                        committed <- {i \in Sequence : Committed(i)},
                        stream <- {i \in Sequence : stream[i].copies > 0},
                        settled <- {i \in Sequence : Committed(i) /\ rows[i].published}

ImplementsRelay == AtLeastOnce!Spec
=============================================================================
