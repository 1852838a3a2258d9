--------------------------- MODULE LearningRecords ---------------------------
(***************************************************************************)
(* The aggregates of the learning domain as the rows they are stored in:   *)
(* when each transition is allowed and the row it leaves.  Timestamps      *)
(* nothing is decided on (createdAt, startedAt, completedAt) are left out. *)
(***************************************************************************)
EXTENDS Integers, FiniteSets, FiniteSetsExt

CONSTANTS
  Absent,   \* there is no row
  Never,    \* expiresAt = null
  None,     \* no domain event
  Units     \* the learning units of the course version

ASSUME UnitsAreFinite == IsFiniteSet(Units)

Created == "CREATED"   \* what the creation event names as the previous status

-----------------------------------------------------------------------------
(* Enrollment                                                              *)

OpenEnrollment == {"PENDING", "ACTIVE"}
EnrollmentStatus == OpenEnrollment \cup {"COMPLETED", "CANCELLED", "EXPIRED"}

EnrollmentRow == [status : EnrollmentStatus, startsAt : Int, expiresAt : Int \cup {Never}]

NewEnrollment(startsAt, expiresAt, now) ==
  [status |-> IF startsAt > now THEN "PENDING" ELSE "ACTIVE",
   startsAt |-> startsAt, expiresAt |-> expiresAt]

ValidEnrollment(row) == row.expiresAt = Never \/ row.startsAt < row.expiresAt

CanComplete(row) == row.status = "ACTIVE"
CanCancel(row) == row.status \in OpenEnrollment

-----------------------------------------------------------------------------
(* Entitlement                                                             *)

LiveEntitlement == {"ACTIVE", "SUSPENDED"}
EntitlementStatus == LiveEntitlement \cup {"REVOKED", "EXPIRED"}

NewEntitlement(e, startsAt, expiresAt) ==
  [enrollment |-> e, status |-> "ACTIVE",
   startsAt |-> startsAt, expiresAt |-> expiresAt]

ValidEntitlement(row) == row.expiresAt = Never \/ row.startsAt <= row.expiresAt

CanGrant(enrollment) == enrollment.status \notin {"CANCELLED", "EXPIRED"}

EntitlementTransitions == {"suspend", "restore", "revoke", "expire"}

CanChange(op, row) ==
  \/ op = "suspend" /\ row.status = "ACTIVE"
  \/ op = "restore" /\ row.status = "SUSPENDED"
  \/ op \in {"revoke", "expire"} /\ row.status \in LiveEntitlement

StatusAfter == [suspend |-> "SUSPENDED", restore |-> "ACTIVE",
                revoke |-> "REVOKED", expire |-> "EXPIRED"]

(* The access policy; a completed course can still be studied.             *)
EnrollmentAllowsAccess(row) == row.status \in {"ACTIVE", "COMPLETED"}

(* Mutant: a suspended entitlement gives access.                            *)
EntitlementAllowsAnyStatus(row, now) ==
  row.startsAt <= now /\ (row.expiresAt = Never \/ now < row.expiresAt)

EntitlementAllowsAccess(row, now) ==
  /\ row.status = "ACTIVE"
  /\ row.startsAt <= now
  /\ row.expiresAt = Never \/ now < row.expiresAt

-----------------------------------------------------------------------------
(* LessonProgress; SectionProgress and Progress have the same lifecycle.   *)

ProgressStatus == {"NOT_STARTED", "IN_PROGRESS", "COMPLETED"}

ProgressRow == [status : ProgressStatus, percentage : 0..100, createdAt : Nat]

Names == {Created} \cup EnrollmentStatus \cup EntitlementStatus \cup ProgressStatus

NotStarted(now) == [status |-> "NOT_STARTED", percentage |-> 0, createdAt |-> now]

(* No transition may be dated before the creation of the record.           *)
CanMove(op, row, percentage, now) ==
  \/ op = "start" /\ row.status = "NOT_STARTED" /\ row.createdAt <= now
  \/ /\ op = "update"
     /\ percentage \in 0..100
     /\ row.status = "IN_PROGRESS"
     /\ row.percentage # percentage => row.createdAt <= now
  \/ /\ op = "finish"
     /\ row.status = "IN_PROGRESS"
     /\ row.percentage = 100
     /\ row.createdAt <= now

Moved(op, row, percentage) ==
  CASE op = "start" -> [row EXCEPT !.status = "IN_PROGRESS"]
    [] op = "update" -> [row EXCEPT !.percentage = percentage]
    [] op = "finish" -> [row EXCEPT !.status = "COMPLETED"]

SectionCanMove(op, row, percentage, now) == CanMove(op, row, percentage, now)

CourseCanMove(op, row, percentage, now) == CanMove(op, row, percentage, now)

-----------------------------------------------------------------------------
(* The course progress: every unit of the version counts the same, a unit  *)
(* without a row counts nothing, and the mean is rounded half up.          *)

CourseProgress(lesson) ==
  LET known == {u \in Units : lesson[u] # Absent}
      sum == MapThenSumSet(LAMBDA u : lesson[u].percentage, known)
      n == Cardinality(Units)
  IN [started |-> Cardinality({u \in known : lesson[u].status # "NOT_STARTED"}),
      completed |-> Cardinality({u \in known : lesson[u].status = "COMPLETED"}),
      percentage |-> IF n = 0 THEN 0 ELSE (2 * sum + n) \div (2 * n)]

(* What the read model accepts.                                            *)
ValidCourseProgress(p) ==
  /\ p.completed <= p.started /\ p.started <= Cardinality(Units)
  /\ p.percentage \in 0..100
=============================================================================
