CONSTANTS
  NULL = NULL
  Channels = {c, d}
  Slots <- OneSlot
  PageSize = 1
  PollLimit = 1
  Overlap = TRUE
  History = TRUE
  MaxLog = 2
  MaxErrors = 0
SPECIFICATION FairSpec
PROPERTIES NewestShown
