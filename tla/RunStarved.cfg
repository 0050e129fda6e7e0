\* A single worker thread: whoever waits for the guard stops its holder.
CONSTANTS
  Client = {c1}
  Signal = signal
  Executor = executor
  NoOne = no_one
  Workers = 1
  MaxRetries = 1
  MaxContinuations = 1
  MaxFaults = 0
  MaxRequests = 1

SPECIFICATION FairSpec

PROPERTY CancelledRunEnds
