---------------------------- MODULE QuestionHistory ----------------------------
(***************************************************************************)
(* What versioning promises: the versions of a question are a sequence     *)
(* that only grows, one version at a time; a version that is announced is  *)
(* announced by the step that adds it, and one announced as restored has   *)
(* the content of the version it names.                                    *)
(***************************************************************************)
EXTENDS Naturals, Sequences

CONSTANT Questions

VARIABLES
  history,   \* the contents of the versions of each question, oldest first
  announced  \* what other parts are told of the versions of each question

Init ==
  /\ history = [q \in Questions |-> << >>]
  /\ announced = [q \in Questions |-> {}]

Grow(q) ==
  /\ Len(history'[q]) = Len(history[q]) + 1
  /\ \A n \in DOMAIN history[q] : history'[q][n] = history[q][n]
  /\ \A p \in Questions \ {q} : history'[p] = history[p]

Announce(q, restored) ==
  announced' = [announced EXCEPT ![q] =
    @ \cup {[version |-> Len(history[q]) + 1, restored |-> restored]}]

(* New content.                                                            *)
Revise(q) == Grow(q) /\ Announce(q, 0)

(* The content of an earlier version once more.                            *)
Restore(q) ==
  /\ Grow(q)
  /\ \E n \in DOMAIN history[q] :
       /\ history'[q][Len(history'[q])] = history[q][n]
       /\ Announce(q, n)

(* A version that is only stored.                                          *)
Import(q) == Grow(q) /\ UNCHANGED announced

Next == \E q \in Questions : Revise(q) \/ Restore(q) \/ Import(q)

Spec == Init /\ [][Next]_<<history, announced>>
=============================================================================
