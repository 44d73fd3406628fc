SPECIFICATION FeedSpec
CONSTANTS
  QueueSize = 2
  MaxVersion = 4
  MaxObjects = 1
  MaxErrors = 1
INVARIANT GapBringsSnapshot
CHECK_DEADLOCK FALSE
