SPECIFICATION FairSpec
CONSTANTS
  a = a
  b = b
  x = x
  y = y
  s = s
  t = t
  g = g
  h = h
  email = email
  push = push
  n1 = n1
  n2 = n2
  k1 = k1
  k2 = k2
  d1 = d1
  d2 = d2
  None = None
  Authors = {a, b}
  TemplateVersions = {1, 2}
  Calls = {a, b}
  Channels = {email, push}
  Lanes <- EveryLane
  Workloads <- AllWorkloads
  Groups = {g, h}
  Adders = {x, y}
  Instances = {s, t}
  MaximumItems = 1
  WindowSeconds = 1
INVARIANTS RequestsAreStored RepliesAreBacked TemplatesAreSound GroupsAreSound TimelyItemsAreSent
PROPERTIES KeepsPromise ExpiredGroupsAreClaimed
\* The calls of a behaviour run out.
CHECK_DEADLOCK FALSE
