SPECIFICATION Spec
CONSTANTS
  e1 = e1
  e2 = e2
  e3 = e3
  normal = normal
  normal2 = normal2
  replay = replay
  email = email
  push = push
  fresh = fresh
  None = None
  Primary = email
  Execs = {e1, e2, e3}
  Jobs = {normal}
  Replays = {}
  Deliveries = {email}
  Chain <- PlainChain
  MaxAttempts = 2
  MaxStalls = 1
  MaxDisruptions = 1
  MaxDbFaults = 1
SYMMETRY ExecSymmetry
INVARIANTS
  NoResubmissionEver
\* Every job ends and the bounded executions run out.
CHECK_DEADLOCK FALSE
