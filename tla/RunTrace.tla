------------------------------ MODULE RunTrace ------------------------------
(***************************************************************************)
(* The trace of a run, which orchestrator/mod.rs computes from the run's    *)
(* record and its action events.  Nothing else remembers what became of a   *)
(* node without a result, and the events do not arrive as they happened:    *)
(* the runtime's event sink spawns a task for each, which takes the time,   *)
(* inserts a row and may fail, and a reader asks for the oldest rows up to  *)
(* a limit of its own.                                                      *)
(*                                                                         *)
(* The stage is the part of GraphRuntime that emits events.  Nodes are      *)
(* numbers, ordered as their ids sort; times are ticks.                     *)
(***************************************************************************)
EXTENDS Integers, FiniteSets, Sequences, FiniteSetsExt, Functions

CONSTANTS
  TraceDeps,        \* the graphs: node -> sequence of its dependencies
  FallbackNode,     \* of a graph: node -> the fallback its policy names, or None
  LateNode,         \* the nodes a callback adds; the others are in the graph at once
  ViewBounds        \* of a graph, whether its run's task mentions someone, and bounds
                    \* on the time, on the events whose tasks are still at work and on
                    \* the rows that are not inserted

None == -1
ASSUME RunTraceBounds ==
  \A g \in TraceDeps :
    /\ DOMAIN g \subseteq Nat
    /\ FallbackNode[g] \in [DOMAIN g -> (DOMAIN g \ LateNode) \cup {None}]
    /\ ViewBounds[g] \in [mention : BOOLEAN, time : Nat, tasks : Nat \ {0}, lost : Nat]

VARIABLES
  graphDeps,   \* the dependencies of every node
  phase,       \* ExecutionGraph.statuses, "absent" before a callback adds the node
  readied,     \* ExecutionGraph.forced_ready
  clock,
  beganAt,     \* when the task of each node was spawned
  outputs,     \* the results so far, of the nodes whose tasks were joined
  sinkTasks,   \* events whose spawned task has not inserted them yet
  log,         \* run_action_events, in order of seq
  lostRows,    \* how many rows could not be inserted
  record,      \* RunRecord.outputs: empty until finish_run
  stageEnd     \* "open", "returned" or "aborted"
viewsVars ==
  <<graphDeps, phase, readied, clock, beganAt, outputs, sinkTasks, log, lostRows, record,
    stageEnd>>

TraceNode == DOMAIN graphDeps
Bound == ViewBounds[graphDeps]
Over == {"succeeded", "failed", "skipped"}
Verdict(result) == IF result.succeeded THEN "succeeded" ELSE "failed"

(* The row of an event that the runtime emits at the end of the node `by',  *)
(* which is n itself unless n is skipped on its account.                    *)
Event(action, n, by) ==
  [action |-> action, node |-> n, by |-> by, at |-> None, took |-> None]

-----------------------------------------------------------------------------
(* build_trace_graph: one step per event, over what is known of each node. *)
(* Roles and models are left out.                                          *)

BlankNode(status) ==
  [status |-> status, deps |-> << >>, started |-> None, finished |-> None,
   duration |-> None, starts |-> 0]

(* entry(..).or_insert(..), and the entry it gives                         *)
NodeEntry(tr, n, status) == IF n \in DOMAIN tr THEN tr[n] ELSE BlankNode(status)
WithEntry(tr, n, node) == [m \in DOMAIN tr \cup {n} |-> IF m = n THEN node ELSE tr[m]]
Or(a, b) == IF a # None THEN a ELSE b
WithDeps(node, n) == IF node.deps # << >> THEN node ELSE [node EXCEPT !.deps = graphDeps[n]]

WithGraph(tr, nodes) ==
  [n \in DOMAIN tr \cup nodes |->
     IF n \in nodes THEN WithDeps(NodeEntry(tr, n, "pending"), n) ELSE tr[n]]

NodeStarted(tr, e) ==
  WithEntry(tr, e.node,
    [NodeEntry(tr, e.node, "running") EXCEPT
       !.started = Or(@, e.at), !.status = "running", !.starts = @ + 1])

NodeCompleted(tr, e) ==
  WithEntry(tr, e.node,
    [NodeEntry(tr, e.node, "succeeded") EXCEPT
       !.status = "succeeded", !.finished = e.at, !.duration = Or(@, e.took)])

NodeFailed(tr, e) ==
  WithEntry(tr, e.node,
    [NodeEntry(tr, e.node, "failed") EXCEPT !.status = "failed", !.finished = e.at])

NodeSkipped(tr, e) ==
  WithEntry(tr, e.node,
    [NodeEntry(tr, e.node, "skipped") EXCEPT !.status = "skipped", !.finished = e.at])

DynamicNodeAdded(tr, e) ==
  WithEntry(tr, e.node, WithDeps(NodeEntry(tr, e.node, "pending"), e.node))

TraceStep(tr, e) ==
  CASE e.action = "graph_initialized" -> WithGraph(tr, TraceNode \ LateNode)
    [] e.action = "node_started" -> NodeStarted(tr, e)
    [] e.action = "node_completed" -> NodeCompleted(tr, e)
    [] e.action = "node_failed" -> NodeFailed(tr, e)
    [] e.action = "node_skipped" -> NodeSkipped(tr, e)
    [] e.action = "dynamic_node_added" -> DynamicNodeAdded(tr, e)

(* A wrong variant: the results do not correct what the events say.        *)
WithOutputs_Inserts(tr) ==
  [n \in DOMAIN tr \cup DOMAIN record |->
     IF n \notin DOMAIN record THEN tr[n]
     ELSE [NodeEntry(tr, n, Verdict(record[n])) EXCEPT !.duration = record[n].took]]

(* The results of the run have the last word on the nodes that have one.   *)
WithOutputs(tr) ==
  [n \in DOMAIN tr \cup DOMAIN record |->
     IF n \notin DOMAIN record THEN tr[n]
     ELSE [NodeEntry(tr, n, Verdict(record[n])) EXCEPT
             !.duration = record[n].took,
             !.status = IF record[n].succeeded /\ @ \notin {"pending", "running"} THEN @
                        ELSE Verdict(record[n])]]

FromOutputs ==
  [n \in DOMAIN record |->
     [BlankNode(Verdict(record[n])) EXCEPT !.duration = record[n].took]]

(* get_run_trace, for a reader that asks for the first `limit' events: an   *)
(* error when parse_run_action does not know one of them.                   *)
EventsRead(limit) == SubSeq(log, 1, Min({limit, Len(log)}))
Answered(limit) ==
  \A i \in 1..Min({limit, Len(log)}) : log[i].action # "mention_received"
Trace(limit) ==
  LET events == EventsRead(limit)
      told[i \in 0..Len(events)] ==
        IF i = 0 THEN FromOutputs ELSE TraceStep(told[i - 1], events[i])
  IN WithOutputs(told[Len(events)])

ActiveNodes(tr) == {n \in DOMAIN tr : tr[n].status = "running"}

-----------------------------------------------------------------------------
(* The stage and its event sink                                            *)

(* The sink spawns a task that will insert the event.                      *)
Emit(events) ==
  /\ Cardinality(sinkTasks) < Bound.tasks
  /\ sinkTasks' = sinkTasks \cup events

(* A task that was spawned and not joined, whatever its node's status is    *)
(* said to be meanwhile.                                                    *)
RunningNodes == {n \in TraceNode : beganAt[n] # None /\ n \notin DOMAIN outputs}
FallbackOf(n) == {FallbackNode[graphDeps][n]} \ {None}
FallbackOnlyNodes == UNION {FallbackOf(n) : n \in TraceNode}
SomeDepFailed(n) == \E d \in Range(graphDeps[n]) : phase[d] \in {"failed", "skipped"}

(* Forced, or after all its dependencies; a fallback that no one forced     *)
(* waits for the resolver, which runs when nothing else does.               *)
Begin(n) ==
  /\ stageEnd = "open" /\ phase[n] = "pending"
  /\ \/ n \in readied
     \/ /\ \A d \in Range(graphDeps[n]) : phase[d] \in Over
        /\ n \in FallbackOnlyNodes => RunningNodes = {} /\ SomeDepFailed(n)
  /\ phase' = [phase EXCEPT ![n] = "running"]
  /\ readied' = readied \ {n}
  /\ beganAt' = [beganAt EXCEPT ![n] = clock]
  /\ Emit({Event("node_started", n, n)})
  /\ UNCHANGED <<graphDeps, clock, outputs, log, lostRows, record, stageEnd>>

(* n succeeds: its fallback is skipped unless it is forced, whatever its    *)
(* status; a plan supersedes nodes that wait, and the nodes that wait for n *)
(* are added.                                                               *)
EndsWell(n, superseded) ==
  LET spare == FallbackOf(n) \ readied
      late == {m \in TraceNode : phase[m] = "absent" /\ n \in Range(graphDeps[m])}
  IN /\ late = {} => superseded = {}
     /\ phase' = [m \in TraceNode |-> IF m \in spare \cup superseded THEN "skipped"
                    ELSE IF m = n THEN "succeeded"
                    ELSE IF m \in late THEN "pending" ELSE phase[m]]
     /\ outputs' = [m \in DOMAIN outputs \cup {n} |->
                      IF m = n THEN [succeeded |-> TRUE, took |-> clock - beganAt[n]]
                      ELSE outputs[m]]
     /\ Emit({[Event("node_completed", n, n) EXCEPT !.took = clock - beganAt[n]]}
             \cup {Event("node_skipped", m, n) : m \in spare \cup superseded}
             \cup {Event("dynamic_node_added", m, n) : m \in late})
     /\ UNCHANGED readied

(* A failure has no duration, and forces n's fallback.                      *)
EndsBadly(n) ==
  /\ phase' = [phase EXCEPT ![n] = "failed"]
  /\ outputs' = [m \in DOMAIN outputs \cup {n} |->
                   IF m = n THEN [succeeded |-> FALSE, took |-> 0] ELSE outputs[m]]
  /\ readied' = readied \cup FallbackOf(n)
  /\ Emit({Event("node_failed", n, n)})

Join(n) ==
  /\ stageEnd = "open" /\ n \in RunningNodes
  /\ \/ \E superseded \in SUBSET {m \in TraceNode \ LateNode : phase[m] = "pending"} :
           EndsWell(n, superseded)
     \/ EndsBadly(n)
  /\ UNCHANGED <<graphDeps, clock, beganAt, log, lostRows, record, stageEnd>>

(* A node is skipped because one it depends on came to nothing, and its     *)
(* fallback forced if that is its policy.  The runtime says so, unless it   *)
(* skips the node for its fallback while it selects the next one            *)
(* (runtime/mod.rs:622).                                                    *)
Skip(n) ==
  /\ stageEnd = "open" /\ phase[n] = "pending"
  /\ SomeDepFailed(n)
  /\ phase' = [phase EXCEPT ![n] = "skipped"]
  /\ readied' \in {readied, readied \cup FallbackOf(n)}
  /\ \/ Emit({Event("node_skipped", n, n)})
     \/ UNCHANGED sinkTasks
  /\ UNCHANGED <<graphDeps, clock, beganAt, outputs, log, lostRows, record, stageEnd>>

(* A cancelled run starts nothing more, and when nothing runs any more      *)
(* skips what waits.                                                        *)
CancelSkips ==
  /\ stageEnd = "open" /\ RunningNodes = {}
  /\ LET rest == {n \in TraceNode : phase[n] = "pending"}
     IN /\ rest # {}
        /\ phase' = [n \in TraceNode |-> IF n \in rest THEN "skipped" ELSE phase[n]]
        /\ Emit({Event("node_skipped", n, n) : n \in rest})
  /\ UNCHANGED <<graphDeps, readied, clock, beganAt, outputs, log, lostRows, record, stageEnd>>

(* append_run_action_event, in the spawned task: the row, with the time, is *)
(* inserted, or it is not and the error is logged.                          *)
Insert(e) ==
  /\ sinkTasks' = sinkTasks \ {e}
  /\ \/ log' = Append(log, [e EXCEPT !.at = clock]) /\ UNCHANGED lostRows
     \/ lostRows < Bound.lost /\ lostRows' = lostRows + 1 /\ UNCHANGED log
  /\ UNCHANGED <<graphDeps, phase, readied, clock, beganAt, outputs, record, stageEnd>>

(* finish_run stores the results of a stage that returned.                 *)
StageReturns ==
  /\ stageEnd = "open" /\ RunningNodes = {}
  /\ \A n \in TraceNode : phase[n] \in Over \cup {"absent"}
  /\ stageEnd' = "returned"
  /\ record' = outputs
  /\ UNCHANGED <<graphDeps, phase, readied, clock, beganAt, outputs, sinkTasks, log, lostRows>>

(* An error of the runtime (a dependent that fails fast, a callback or a    *)
(* node that is refused) loses the stage's results, and its tasks.          *)
StageBreaks ==
  /\ stageEnd = "open"
  /\ DOMAIN outputs # {}
  /\ stageEnd' = "aborted"
  /\ UNCHANGED <<graphDeps, phase, readied, clock, beganAt, outputs, sinkTasks, log, lostRows,
                 record>>

Tick ==
  /\ stageEnd = "open" /\ clock < Bound.time
  /\ clock' = clock + 1
  /\ UNCHANGED <<graphDeps, phase, readied, beganAt, outputs, sinkTasks, log, lostRows, record,
                 stageEnd>>

(* A mention and record_graph_initialized come before the stage.           *)
ViewsInit ==
  /\ graphDeps \in TraceDeps
  /\ phase = [n \in DOMAIN graphDeps |-> IF n \in LateNode THEN "absent" ELSE "pending"]
  /\ readied = {} /\ clock = 0
  /\ beganAt = [n \in TraceNode |-> None] /\ outputs = << >>
  /\ sinkTasks = {} /\ lostRows = 0
  /\ LET early(action) == [Event(action, None, None) EXCEPT !.at = 0]
     IN log = IF Bound.mention THEN <<early("mention_received"), early("graph_initialized")>>
              ELSE <<early("graph_initialized")>>
  /\ record = << >> /\ stageEnd = "open"

ViewsNext ==
  \/ \E n \in TraceNode : Begin(n) \/ Join(n) \/ Skip(n)
  \/ CancelSkips
  \/ \E e \in sinkTasks : Insert(e)
  \/ StageReturns \/ StageBreaks \/ Tick

-----------------------------------------------------------------------------
(* Properties                                                              *)

(* What became of a node: its result, or else its status.                  *)
Fate(n) == IF n \in DOMAIN outputs THEN Verdict(outputs[n]) ELSE phase[n]

(* A fallback that was started for one node, and that another which names   *)
(* it too did not need: that one's success says it is skipped, though it    *)
(* runs or has run (runtime/mod.rs:471).                                    *)
Disowned(n) ==
  /\ beganAt[n] # None
  /\ \E o \in DOMAIN outputs : n \in FallbackOf(o) /\ outputs[o].succeeded

(* TraceTellsOutcome: a trace that is answered never says of a node that it *)
(* ended before it did, nor differently, and once a run has its results its *)
(* trace gives every node that has one the right status and shows no node   *)
(* at work, however the events were ordered, delayed or lost, and however   *)
(* few are read.  Only a disowned fallback may be shown as skipped though   *)
(* it ran.                                                                  *)
TraceTellsOutcome ==
  \A limit \in 0..Len(log) :
    LET tr == Trace(limit)
        right(n) == \/ tr[n].status = Fate(n)
                    \/ tr[n].status = "skipped" /\ Disowned(n)
    IN Answered(limit) =>
         /\ \A n \in DOMAIN tr : tr[n].status \in Over => right(n)
         /\ stageEnd = "returned" =>
              /\ ActiveNodes(tr) = {}
              /\ \A n \in DOMAIN outputs :
                   n \in DOMAIN tr /\ tr[n].status \in Over /\ right(n)
=============================================================================
