\* Up to three dead letters, one of a replay, under fair scheduling.
SPECIFICATION FairOpsSpec
CONSTANTS
  e1 = e1
  e2 = e2
  e3 = e3
  normal = normal
  again = again
  email = email
  fresh = fresh
  first = first
  r1 = r1
  r2 = r2
  p1 = p1
  c1 = c1
  None = None
  Execs = {e1}
  Jobs = {normal, again}
  Replays = {again}
  Deliveries = {email, fresh}
  Primary = email
  Chain <- ReplayChain
  Original = first
  RetryRequests = {r1}
  ReplayRequests = {p1}
  JobOf <- ReplayJobs
  MaxAttempts = 1
  MaxStalls = 1
  MaxDisruptions = 0
  MaxDbFaults = 0
  Recoveries = {}
  SyncBatch = 3
  MaxRequeues = 0
  MaxTrims = 0
PROPERTIES FailedForAReason DeadIsSynchronised
CHECK_DEADLOCK FALSE
