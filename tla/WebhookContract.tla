-------------------------- MODULE WebhookContract --------------------------
(***************************************************************************)
(* What the durable delivery table promises, without tokens, versions or   *)
(* leases: a delivery is open until exactly one outcome is recorded, and   *)
(* only the worker the delivery was last granted to may record anything    *)
(* about it.  WebhookDelivery implements this specification.               *)
(***************************************************************************)
CONSTANTS Deliveries, Workers

VARIABLES
    outcome,   \* outcome[d]: what the table says became of delivery d
    holders    \* holders[d]: the workers entitled to settle d

vars == <<outcome, holders>>

Init ==
    /\ outcome = [d \in Deliveries |-> "absent"]
    /\ holders = [d \in Deliveries |-> {}]

\* The event is accepted: its snapshot is durable.
Open(d) ==
    /\ outcome[d] = "absent"
    /\ outcome' = [outcome EXCEPT ![d] = "open"]
    /\ UNCHANGED holders

\* The delivery is handed to w; whoever had it before has lost it.
Grant(w, d) ==
    /\ outcome[d] = "open"
    /\ holders' = [holders EXCEPT ![d] = {w}]
    /\ UNCHANGED outcome

\* The holder records how the attempt ended, or gives the delivery up.
Settle(w, d) ==
    /\ outcome[d] = "open"
    /\ holders[d] = {w}
    /\ holders' = [holders EXCEPT ![d] = {}]
    /\ \E o \in {"open", "delivered", "refused"} :
         outcome' = [outcome EXCEPT ![d] = o]

\* Retention, or the instance's deletion, removes a set of deliveries.
Remove(S) ==
    /\ \A d \in S : outcome[d] \notin {"absent", "removed"}
    /\ outcome' = [d \in Deliveries |-> IF d \in S THEN "removed" ELSE outcome[d]]
    /\ holders' = [d \in Deliveries |-> IF d \in S THEN {} ELSE holders[d]]

Next ==
    \/ \E d \in Deliveries : Open(d)
    \/ \E w \in Workers, d \in Deliveries : Grant(w, d) \/ Settle(w, d)
    \/ \E S \in SUBSET Deliveries : Remove(S)

Spec == Init /\ [][Next]_vars

=============================================================================
