\* The graphs the orchestrator builds; two emitted events, one failing insert,
\* one broken connection and pages of three rows, of which a run records up to
\* six; one cluster run of three sub-runs and one failing call.
CONSTANTS
  NodeId <- ShippedIds
  Role <- ShippedRoles
  NoNode <- MCNoNode
  MaxParallelism = 2
  MaxDepth = 3
  InitialGraphs <- ShippedGraphs
  Replies <- ShippedReplies
  MaxEmitted = 2
  MaxLost = 1
  MaxBreaks = 1
  BatchMax = 2
  PageLimit = 3
  ClusterRun = {c1}
  Subtasks = 3
  Usages = {1}
  MaxErrors = 1

SPECIFICATION RunsSpec
CHECK_DEADLOCK FALSE

INVARIANT TypeOK
INVARIANT CountersExact
INVARIANT StartedOnce
INVARIANT ResultsComplete
INVARIANT NoDeadlockError
PROPERTY EndedForGood

INVARIANT BrowserFaithful
PROPERTY EmittedIsSettled
PROPERTY BrowserIsTold

INVARIANT TotalExact
INVARIANT VerdictTrue
PROPERTY EndedIsFinal
PROPERTY HeardOfAllEnds
