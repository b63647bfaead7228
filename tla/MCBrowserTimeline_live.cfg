CONSTANTS
  NULL = NULL
  Channels = {c, d}
  Slots <- TwoSlots
  PageSize = 1
  PollLimit = 1
  Overlap = TRUE
  History = FALSE
  MaxLog = 2
  MaxErrors = 0
SPECIFICATION FairSpec
INVARIANTS CursorsMatchTimeline
PROPERTIES NewestShownUnlessForeign
