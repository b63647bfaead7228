CONSTANTS
  p1 = p1  u1 = u1  u2 = u2  i1 = i1  i2 = i2  c1 = c1  b1 = b1  b2 = b2  w1 = w1  w2 = w2
  NULL = NULL
  Participants = {p1}
  Subjects = {p1, u1}
  Resources = {c1}
  Intents = {i1}
  Channels = {c1}
  Bodies = {b1, b2}
  Issues = {7}
  Workers = {w1, w2}
  Requests <- LiveRequests
  GrantSpecs <- None
  DurableSpecs <- None
  Owners <- None
  MaxGrants = 0
  MaxMessages = 1
  MaxTime = 0
SPECIFICATION FairSpec
INVARIANTS ExactlyOnce
PROPERTIES EventuallyAnswered
