\* A run in flight that the shutdown hook passes over.
CONSTANTS
  Client = {c1}
  Signal = signal
  Executor = executor
  NoOne = no_one
  Workers = 4
  MaxRetries = 1
  MaxContinuations = 1
  MaxFaults = 0
  MaxRequests = 1

SPECIFICATION Spec

INVARIANT ShutdownCancelsInFlight
