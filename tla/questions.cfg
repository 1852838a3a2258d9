SPECIFICATION Spec
CONSTANTS
  None = None
  Text = Text
  call1 = call1
  call2 = call2
  question1 = question1
  question2 = question2
  tenant1 = tenant1
  tenant2 = tenant2
  id1 = id1
  id2 = id2
  Requests = {call1, call2}
  Questions = {question1, question2}
  Versions = {1, 2, 3, 4}
  Tenants = {tenant1, tenant2}
  Drafts <- AllDrafts
  Workloads <- AllWorkloads
SYMMETRY Symmetry
INVARIANTS VersionsFormChain TablesFitDomain TransactionsAreWhole
PROPERTIES KeepsPromise
\* The calls of a behaviour run out.
CHECK_DEADLOCK FALSE
