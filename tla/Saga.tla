-------------------------------- MODULE Saga --------------------------------
(***************************************************************************)
(* What the services promise together about an order and its payment: an   *)
(* order is placed once and settles once, it is paid for at most once and  *)
(* only while it is placed, and it is completed by nothing but a payment   *)
(* that succeeded. How the services tell each other is left out.           *)
(***************************************************************************)
CONSTANT OrderIds

VARIABLES
    order,    \* OrderIds -> "None", "Open", "Canceled" or "Complete"
    payment   \* OrderIds -> "None", "Pending", "Succeeded" or "Failed"

Init ==
    /\ order = [o \in OrderIds |-> "None"]
    /\ payment = [o \in OrderIds |-> "None"]

Place(o) ==
    /\ order[o] = "None"
    /\ order' = [order EXCEPT ![o] = "Open"]
    /\ UNCHANGED payment

\* Payments learns late of a cancellation, so a canceled order may be paid.
Pay(o) ==
    /\ order[o] \in {"Open", "Canceled"}
    /\ payment[o] = "None"
    /\ payment' = [payment EXCEPT ![o] = "Pending"]
    /\ UNCHANGED order

Resolve(o, outcome) ==
    /\ payment[o] = "Pending"
    /\ payment' = [payment EXCEPT ![o] = outcome]
    /\ UNCHANGED order

Complete(o) ==
    /\ order[o] = "Open"
    /\ payment[o] = "Succeeded"
    /\ order' = [order EXCEPT ![o] = "Complete"]
    /\ UNCHANGED payment

Cancel(o) ==
    /\ order[o] = "Open"
    /\ order' = [order EXCEPT ![o] = "Canceled"]
    /\ UNCHANGED payment

Next ==
    \E o \in OrderIds :
        \/ Place(o)
        \/ Pay(o)
        \/ \E outcome \in {"Succeeded", "Failed"} : Resolve(o, outcome)
        \/ Complete(o)
        \/ Cancel(o)

Spec == Init /\ [][Next]_<<order, payment>>
=============================================================================
