\* Three-node graphs with any failure policy and any fallbacks, and one that grows.
CONSTANTS
  NodeId <- NodeIds
  Role <- FamilyRoles
  NoNode <- MCNoNode
  MaxParallelism = 2
  MaxDepth = 1
  InitialGraphs <- FamilyGraphs
  Replies <- FamilyReplies

SPECIFICATION FairSpec

INVARIANT LimitsRespected
PROPERTY ExecutionEnds
PROPERTY FailureReachesFallback
PROPERTY ImplementsDagScheduler
