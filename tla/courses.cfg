SPECIFICATION Spec
CONSTANTS
  a = a
  b = b
  c1 = c1
  c2 = c2
  v1 = v1
  v2 = v2
  v3 = v3
  v4 = v4
  t1 = t1
  t2 = t2
  p1 = p1
  p2 = p2
  Absent = Absent
  None = None
  Requests = {a, b}
  Titles = {t1, t2}
  Principals = {p1, p2}
  VersionIds = {v1, v2, v3, v4}
  Consumers = {c1, c2}
  Workloads <- AllWorkloads
  MaxTime = 2
SYMMETRY Either
INVARIANTS RowsAreSound PublishedWasReviewed VersionsAreSound ReadModelsFollow
\* The calls of a behaviour run out.
CHECK_DEADLOCK FALSE
