CONSTANTS
  NULL = NULL
  Partial = Partial
  Participants = {1, 2}
  i = i
  j = j
  Intents <- TwoIntents
  NewExecutions <- OneExecution
  Releases <- SmallReleases
  TotpColumns <- NoColumn
  ProvenanceColumns <- OneProvenance
  OwnerColumns <- OneOwner
  MaxCrashes = 2
  MaxCommands = 2
SPECIFICATION Spec
INVARIANTS ServesMigrated AttributionTruthful RecordSurvives
CHECK_DEADLOCK FALSE
PROPERTIES RestoredAlone ServiceRecovers
