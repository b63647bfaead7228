CONSTANTS
  p1 = p1  p2 = p2  u1 = u1  u2 = u2  i1 = i1  c1 = c1  b1 = b1  w1 = w1
  NULL = NULL
  Participants = {p1, p2}
  Subjects = {p1, p2, u1, u2}
  Resources <- AllResources
  Intents = {i1}
  Channels = {c1}
  Bodies = {b1}
  Issues = {7}
  Workers = {w1}
  Requests <- BearerRequests
  GrantSpecs <- OneShot
  DurableSpecs <- SomeGrants
  Owners = {}
  Reads <- SomeReads
  Provisioned = {p1}
  Standing <- StandingGrants
  Instances = {p2}
  MaxGrants = 1
  MaxMessages = 0
  MaxTime = 0
  MaxCommits = 2
VIEW IdleForgotten
SPECIFICATION ReadSpec
INVARIANTS AnswersPermitted AuditReportsClean PolicyReportClean
PROPERTIES EvidenceAppendOnly
