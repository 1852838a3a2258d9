----------------------- MODULE MCNotificationDelivery -----------------------
(* Instances of NotificationDelivery for TLC.                              *)
EXTENDS NotificationDelivery, TLC

CONSTANTS e1, e2, e3, normal, normal2, replay, email, push, fresh

(* One job without a fallback plan.                                        *)
PlainChain == normal :> <<email>>

(* One job whose email may fall back to push.                              *)
FallbackChain == normal :> <<email, push>>

(* Two jobs for one notification: the outbox dispatched it again after the *)
(* first job had left the queue's retention.                               *)
TwiceChain == normal :> <<email, push>> @@ normal2 :> <<email, push>>

ExecSymmetry == Permutations(Execs)
TwiceSymmetry == Permutations(Execs) \cup Permutations(Jobs)
=============================================================================
