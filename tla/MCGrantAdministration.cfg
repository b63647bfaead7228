CONSTANTS
  p1 = p1  u1 = u1  c1 = c1  w1 = w1  w2 = w2
  NULL = NULL
  Participants = {p1}
  Subjects = {p1, u1}
  Resources <- AdminResources
  Intents = {}
  Actors <- OneActor
  DurableSpecs <- TwoDurable
  DelegatedSpecs <- OneDelegated
  Callers = {w1, w2}
  Commands <- AllCommands
  MaxRows = 2
  MaxEvents = 3
  MaxTime = 1
SYMMETRY CallerSymmetry
SPECIFICATION Spec
INVARIANTS TypeOK PlanCurrent PolicyAuditClean HistoryExplainsPolicy EffectiveGrantsExact
PROPERTIES ImplementsPolicy
