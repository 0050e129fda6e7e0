\* One run, two clients, the shutdown hook, one crash; workers for all.
CONSTANTS
  Client = {c1, c2}
  Signal = signal
  Executor = executor
  NoOne = no_one
  Workers = 4
  MaxRetries = 1
  MaxContinuations = 1
  MaxFaults = 1
  MaxRequests = 2

SPECIFICATION FairSpec

INVARIANT AnnouncedIsFinal
INVARIANT RowFollowsEntry
INVARIANT OneFaultRecovered
INVARIANT CancelledNeverSucceeds
PROPERTY RunEnds
