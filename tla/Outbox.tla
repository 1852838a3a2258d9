------------------------------- MODULE Outbox -------------------------------
(***************************************************************************)
(* What the transactional outbox promises of its events, whoever claims    *)
(* them: an event is published only once the queue has had a job for it,   *)
(* a published event stays published, an event that is given up stays so   *)
(* until an operator takes it up again, and no event stays pending.        *)
(***************************************************************************)
CONSTANTS Events, Poison

VARIABLES
  state,      \* "pending", "published" or "dead"
  delivered   \* the events the queue has had a job for

vars == <<state, delivered>>

Init ==
  /\ state = [v \in Events |-> "pending"]
  /\ delivered = {}

(* A dispatcher that lost the event may still hand it to the queue, so     *)
(* nothing is said of the state.                                           *)
Deliver(v) ==
  /\ v \notin Poison /\ v \notin delivered
  /\ delivered' = delivered \cup {v}
  /\ UNCHANGED state

Publish(v) ==
  /\ state[v] = "pending" /\ v \in delivered
  /\ state' = [state EXCEPT ![v] = "published"]
  /\ UNCHANGED delivered

GiveUp(v) ==
  /\ state[v] = "pending"
  /\ state' = [state EXCEPT ![v] = "dead"]
  /\ UNCHANGED delivered

Requeue(v) ==
  /\ state[v] = "dead"
  /\ state' = [state EXCEPT ![v] = "pending"]
  /\ UNCHANGED delivered

Next ==
  \E v \in Events : Deliver(v) \/ Publish(v) \/ GiveUp(v) \/ Requeue(v)

Spec == Init /\ [][Next]_vars

(* Every event is settled.                                                 *)
Live == \A v \in Events : WF_vars(Publish(v) \/ GiveUp(v))

FairSpec == Spec /\ Live
=============================================================================
