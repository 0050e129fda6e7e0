\* A run whose request has a mention, read over the SSE stream.
CONSTANTS
  MaxEmitted = 1
  MaxLost = 0
  MaxBreaks = 0
  BatchMax = 1
  PageLimit = 3

SPECIFICATION EventFairSpec
CHECK_DEADLOCK FALSE

PROPERTY MentionsSurfaced
