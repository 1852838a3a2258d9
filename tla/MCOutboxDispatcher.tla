------------------------- MODULE MCOutboxDispatcher -------------------------
(* Two instances of the dispatcher over two events, the older of which can *)
(* never be published.                                                     *)
EXTENDS OutboxDispatcher, TLC

CONSTANTS p1, p2

TwoEvents == 1..2
FirstIsPoison == {1}

(* Instances differ in nothing but their random id.                        *)
AnyInstance == Permutations(Dispatchers)
=============================================================================
