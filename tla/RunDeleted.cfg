\* A run whose session is deleted while it executes.
CONSTANTS
  Client = {c1}
  Signal = signal
  Executor = executor
  NoOne = no_one
  Workers = 4
  MaxRetries = 1
  MaxContinuations = 1
  MaxFaults = 0
  MaxRequests = 1

SPECIFICATION Spec

INVARIANT HarnessReleased
