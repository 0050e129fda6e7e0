-------------------------- MODULE GraphRefinement --------------------------
(***************************************************************************)
(* GraphRuntime as an implementation of DagScheduler.                      *)
(*                                                                         *)
(* A job's phase is read from `running' and `outputs' first and from       *)
(* `statuses' only for nodes that were never started: the loop may write   *)
(* `skipped' over the status of a fallback that is running or has ended.   *)
(***************************************************************************)
EXTENDS GraphRuntime

PhaseOf(n) ==
  IF n \in running THEN "working"
  ELSE IF outputs[n] # "none" THEN outputs[n]
  ELSE IF n \notin Present THEN "unknown"
  ELSE IF statuses[n] = "skipped" THEN "skipped"
  ELSE "waiting"

JobPhase == [n \in NodeId |-> PhaseOf(n)]
JobNeeds == [n \in NodeId |-> IF n \in Present THEN Range(nodes[n].deps) ELSE {}]
JobSpare == [n \in NodeId |-> IF n \in Present THEN nodes[n].fallback ELSE NoNode]
JobResult == IF pc = "completed" THEN "returned"
             ELSE IF pc = "errored" THEN "error" ELSE "open"

JobCrews == {S \in SUBSET NodeId : Cardinality(S) =< MaxParallelism}

Jobs == INSTANCE DagScheduler WITH
  Crews <- JobCrews,
  phase <- JobPhase, needs <- JobNeeds, spare <- JobSpare,
  asked <- cancelFlag, result <- JobResult

(* ImplementsDagScheduler: whatever the graph, the callback's answers and   *)
(* the interleaving of tasks and flags, the loop only ever does what a job  *)
(* scheduler may do: jobs end once, start after what they need or as the    *)
(* spare of one that came to nothing, and results are returned only when    *)
(* nothing works or, unless cancellation was asked for, waits.              *)
ImplementsDagScheduler == Jobs!Spec
=============================================================================
