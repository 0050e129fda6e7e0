\* A WebSocket client, which lists the events before it looks at the run.
CONSTANTS
  MaxEmitted = 1
  MaxLost = 0
  MaxBreaks = 0
  BatchMax = 1
  PageLimit = 3

SPECIFICATION EventSpec
CHECK_DEADLOCK FALSE

INVARIANT SocketSendsAll
