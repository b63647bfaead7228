CONSTANTS
  p1 = p1  u1 = u1  u2 = u2  i1 = i1  i2 = i2  c1 = c1  b1 = b1  b2 = b2  w1 = w1  w2 = w2
  NULL = NULL
  Participants = {p1}
  Subjects = {p1, u1}
  Resources = {c1}
  Intents = {i1}
  Channels = {c1}
  Bodies = {b1, b2}
  Issues = {7}
  Workers = {w1, w2}
  Requests <- TransportRequests
  GrantSpecs <- None
  DurableSpecs <- OwnerGrant
  Owners = {u1}
  MaxGrants = 1
  MaxMessages = 0
  MaxTime = 0
SYMMETRY WorkerSymmetry
SPECIFICATION Spec
INVARIANTS ExactlyOnce ReceiptsBound AnswersTruthful ReplayNeverRefused
PROPERTIES ArchivedChannelsRejectWrites
