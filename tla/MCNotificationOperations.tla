---------------------- MODULE MCNotificationOperations ----------------------
(* Instances of NotificationOperations for TLC.                            *)
EXTENDS NotificationOperations, TLC

CONSTANTS e1, e2, e3, normal, again, email, fresh, first, r1, r2, p1, c1

(* The job of the notification, which every retry names again.             *)
OwnChain == normal :> <<email>>
OwnJobs == [v \in {first} \cup RetryRequests |-> normal]

(* Beside it the job of one replay.                                        *)
ReplayChain == normal :> <<email>> @@ again :> <<fresh>>
ReplayJobs == [v \in {first} \cup RetryRequests |-> normal] @@ p1 :> again

OpsSymmetry == Permutations(Execs)
RetrySymmetry == Permutations(Execs) \cup Permutations(RetryRequests)
=============================================================================
