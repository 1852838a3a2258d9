----------------------------- MODULE MCLearning -----------------------------
(***************************************************************************)
(* Instances of Learning: the calls each behaviour may mix.                *)
(***************************************************************************)
EXTENDS Learning, TLC

CONSTANTS a, b, en1, en2, ent1, ent2, u1, u2, sec, course

Call(op, e, k, percentage, starts, expires) ==
  [op |-> op, e |-> e, k |-> k, percentage |-> percentage,
   starts |-> starts, expires |-> expires]

Enroll(e, starts, expires) == Call("enroll", e, e, 0, starts, expires)
Grant(e, k, expires) == Call("grant", e, k, 0, Absent, expires)
OnEnrollment(op, e) == Call(op, e, e, 0, Absent, Absent)
OnEntitlement(op, k) == Call(op, en1, k, 0, Absent, Absent)
On(op, i, percentage) == Call(op, en1, i, percentage, Absent, Absent)

(* Two enrollments, one of which may start later, completed or cancelled.  *)
Enrolling ==
  [calls |-> {Enroll(e, s, Never) : e \in {en1, en2}, s \in {Absent, 1}}
             \cup {OnEnrollment(op, e) : op \in {"cancel", "complete"},
                                         e \in {en1, en2}},
   seeded |-> {}, started |-> {}, max |-> 4]

(* Grants and changes of access while the learner starts a unit.           *)
Access ==
  [calls |-> {OnEnrollment("cancel", en1), Grant(en1, ent2, Absent), Grant(en1, ent2, 1)}
             \cup {OnEntitlement(op, k) : op \in EntitlementTransitions,
                                          k \in {ent1, ent2}}
             \cup {On("start", u1, 0)},
   seeded |-> {<<en1, ent1>>}, started |-> {}, max |-> 4]

(* A unit is studied and completed while the course is completed and its   *)
(* progress refreshed.                                                     *)
Studying ==
  [calls |-> {On("start", u2, 0), On("update", u1, 50), On("update", u2, 100),
              On("finish", u1, 0), On("finish", u2, 0),
              OnEnrollment("complete", en1), OnEnrollment("refresh", en1)},
   seeded |-> {<<en1, ent1>>}, started |-> {u1}, max |-> 4]

(* Both units are as good as finished: they and the course are completed   *)
(* while the enrollment is cancelled and completed once more.              *)
Completing ==
  [calls |-> {On("finish", u1, 0), On("finish", u2, 0), On("update", u1, 50),
              OnEnrollment("complete", en1), OnEnrollment("cancel", en1)},
   seeded |-> {<<en1, ent1>>}, started |-> {u1, u2}, max |-> 5]

(* Section and course-level progress.                                      *)
Tracks ==
  [calls |-> {On(op, i, p) : op \in {"start", "update", "finish"},
                             i \in {sec, course}, p \in {100}},
   seeded |-> {<<en1, ent1>>}, started |-> {course}, max |-> 4]

AllWorkloads == {Enrolling, Access, Studying, Completing, Tracks}

Either == Permutations(Requests)
=============================================================================
