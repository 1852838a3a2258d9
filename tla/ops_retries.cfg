\* Two retries race for each failure, beside dead letters, one of which is requeued, and a call that throws.
SPECIFICATION OpsSpec
CONSTANTS
  e1 = e1
  e2 = e2
  e3 = e3
  normal = normal
  again = again
  email = email
  fresh = fresh
  first = first
  r1 = r1
  r2 = r2
  p1 = p1
  c1 = c1
  None = None
  Execs = {e1, e2}
  Jobs = {normal}
  Replays = {}
  Deliveries = {email}
  Primary = email
  Chain <- OwnChain
  Original = first
  RetryRequests = {r1, r2}
  ReplayRequests = {}
  JobOf <- OwnJobs
  MaxAttempts = 1
  MaxStalls = 1
  MaxDisruptions = 0
  MaxDbFaults = 1
  Recoveries = {}
  SyncBatch = 2
  MaxRequeues = 1
  MaxTrims = 0
SYMMETRY RetrySymmetry
INVARIANTS OneRetryPerFailure
CHECK_DEADLOCK FALSE
