CONSTANTS
  NULL = NULL
  Channels = {c, d}
  Slots <- OneSlot
  PageSize = 2
  PollLimit = 1
  Overlap = FALSE
  History = TRUE
  MaxLog = 4
  MaxErrors = 1
SPECIFICATION FairSpec
INVARIANTS TimelineExact
PROPERTIES NewestShown
