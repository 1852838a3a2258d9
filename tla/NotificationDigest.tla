-------------------------- MODULE NotificationDigest --------------------------
(***************************************************************************)
(* What aggregation promises: the events of a group are collected, and at  *)
(* some moment one notification is sent for some of those collected so     *)
(* far, once.                                                              *)
(***************************************************************************)
CONSTANTS Groups, Sources

VARIABLES
  collected,  \* the source events of each group
  sent        \* those its notification is made of; none while it is not sent

Init == collected = [g \in Groups |-> {}] /\ sent = [g \in Groups |-> {}]

Collect(g) ==
  /\ \E s \in Sources \ collected[g] :
       collected' = [collected EXCEPT ![g] = @ \cup {s}]
  /\ UNCHANGED sent

Send(g) ==
  /\ sent[g] = {}
  /\ \E chosen \in (SUBSET collected[g]) \ {{}} : sent' = [sent EXCEPT ![g] = chosen]
  /\ UNCHANGED collected

Next == \E g \in Groups : Collect(g) \/ Send(g)

Spec == Init /\ [][Next]_<<collected, sent>>
=============================================================================
