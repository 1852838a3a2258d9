SPECIFICATION Spec
CONSTANTS
  a = a
  b = b
  en1 = en1
  en2 = en2
  ent1 = ent1
  ent2 = ent2
  u1 = u1
  u2 = u2
  sec = sec
  course = course
  Absent = Absent
  Never = Never
  None = None
  Units = {u1, u2}
  Requests = {a, b}
  Enrollments = {en1, en2}
  Entitlements = {ent1, ent2}
  Sections = {sec}
  Course = course
  Workloads <- AllWorkloads
  MaxTime = 2
SYMMETRY Either
INVARIANTS OneOfEach EnrollmentHistoryLinked CompletionWasEarned ReadModelIsCurrentAsOf
PROPERTIES WritesWereAllowed
\* The calls of a behaviour run out.
CHECK_DEADLOCK FALSE
