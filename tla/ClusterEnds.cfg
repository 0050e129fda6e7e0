\* One cluster run, no failing call: the message may come before the record.
CONSTANTS
  ClusterRun = {c1}
  Subtasks = 2
  Usages = {0, 1}
  MaxErrors = 0

SPECIFICATION ClusterFairSpec
CHECK_DEADLOCK FALSE

PROPERTY SubmittedEnds
