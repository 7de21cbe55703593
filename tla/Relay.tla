------------------------------- MODULE Relay --------------------------------
(***************************************************************************)
(* What a transactional outbox promises: an event that a service           *)
(* committed, and no other, reaches the stream and stays there, and the    *)
(* service is rid of it then and not before, once and for all. When, in    *)
(* which order and in how many copies events are published is left open.   *)
(***************************************************************************)
CONSTANT Events

VARIABLES
    committed,  \* events the service has committed
    stream,     \* events of which the stream holds a copy
    settled     \* events the service is rid of

vars == <<committed, stream, settled>>

Init == committed = {} /\ stream = {} /\ settled = {}

Commit(e) ==
    /\ e \notin committed
    /\ committed' = committed \cup {e}
    /\ UNCHANGED <<stream, settled>>

Publish(e) ==
    /\ e \in committed \ stream
    /\ stream' = stream \cup {e}
    /\ UNCHANGED <<committed, settled>>

Settle(e) ==
    /\ e \in stream \ settled
    /\ settled' = settled \cup {e}
    /\ UNCHANGED <<committed, stream>>

Next == \E e \in Events : Commit(e) \/ Publish(e) \/ Settle(e)

Spec == /\ Init /\ [][Next]_vars
        /\ \A e \in Events : WF_vars(Publish(e)) /\ WF_vars(Settle(e))
=============================================================================
