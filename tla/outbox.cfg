SPECIFICATION FairSpec
CONSTANTS
  p1 = p1
  p2 = p2
  None = None
  Dispatchers = {p1, p2}
  Events <- TwoEvents
  Poison <- FirstIsPoison
  BatchSize = 2
  MaxAttempts = 3
  MaxDisruptions = 1
  MaxFaults = 1
  MaxRequeues = 1
  MaxTrims = 1
INVARIANTS OutboxInv AttemptsAreBounded OneJobPerEvent
PROPERTIES LiveClaimIsExclusive ImplementsLiveOutbox HealthyIsPublished
