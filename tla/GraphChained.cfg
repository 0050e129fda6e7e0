\* A fallback that starts although nothing has failed.
CONSTANTS
  NodeId <- NodeIds
  Role <- FamilyRoles
  NoNode <- MCNoNode
  MaxParallelism = 2
  MaxDepth = 0
  InitialGraphs <- ChainedGraphs
  Replies <- FamilyReplies

SPECIFICATION Spec

INVARIANT FallbackNeedsFailure
