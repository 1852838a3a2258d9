\* One retry, a crash or lost lock, recoveries of stale deliveries, a forgotten job.
SPECIFICATION OpsSpec
CONSTANTS
  e1 = e1
  e2 = e2
  e3 = e3
  normal = normal
  again = again
  email = email
  fresh = fresh
  first = first
  r1 = r1
  r2 = r2
  p1 = p1
  c1 = c1
  None = None
  Execs = {e1, e2}
  Jobs = {normal}
  Replays = {}
  Deliveries = {email}
  Primary = email
  Chain <- OwnChain
  Original = first
  RetryRequests = {r1}
  ReplayRequests = {}
  JobOf <- OwnJobs
  MaxAttempts = 1
  MaxStalls = 1
  MaxDisruptions = 1
  MaxDbFaults = 0
  Recoveries = {c1}
  SyncBatch = 3
  MaxRequeues = 0
  MaxTrims = 1
SYMMETRY OpsSymmetry
PROPERTIES OutsideWritesAreSafe
CHECK_DEADLOCK FALSE
