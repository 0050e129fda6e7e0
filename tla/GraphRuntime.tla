---------------------------- MODULE GraphRuntime ----------------------------
(***************************************************************************)
(* One call of AgentRuntime::execute_graph_with_pause_notify               *)
(* (src/src/runtime/mod.rs) over an ExecutionGraph                         *)
(* (src/src/runtime/graph.rs).                                             *)
(*                                                                         *)
(* The loop owns the graph: only its own steps change `nodes', `statuses', *)
(* `forced' and `fallbackOnly'.  Three other actors run beside it: the     *)
(* spawned node tasks (WorkerEnds), which only put a result into the       *)
(* JoinSet; the run-control handlers (Cancel, Pause, Resume), which store  *)
(* a flag and notify; and the node-completed callback, whose answer is any *)
(* member of `Replies' for that node.                                      *)
(*                                                                         *)
(* The loop reads both flags once per iteration and acts on the values it  *)
(* read, so a flag may change between the read and the use.  Every step    *)
(* between two awaits of the loop that looks at the graph is its own       *)
(* action, so tasks end and flags move between any two of them.            *)
(***************************************************************************)
EXTENDS Integers, FiniteSets, Sequences, Functions

CONSTANTS
  NodeId,          \* ids a graph may use; numbers, ordered as the ids sort
  Role,            \* agent roles
  NoNode,          \* `None' for an optional node id
  MaxParallelism,  \* AgentRuntime.global_max_parallelism
  MaxDepth,        \* ExecutionGraph.max_depth
  InitialGraphs,   \* node maps an execution may start from
  Replies          \* what the node-completed callback may return, by node

FailurePolicy == {"fail_fast", "continue_on_error", "fallback_node"}

(* AgentNode with the parts of its ExecutionPolicy that scheduling reads.   *)
AgentNode ==
  [id       : NodeId,
   role     : Role,
   deps     : Seq(NodeId),
   limit    : Nat,                  \* policy.max_parallelism
   onFail   : FailurePolicy,        \* policy.on_dependency_failure
   fallback : NodeId \cup {NoNode}, \* policy.fallback_node
   depth    : Nat]

Terminal == {"succeeded", "failed", "skipped"}
NodeStatus == {"pending", "running"} \cup Terminal

(* A node map add_node could have built: keyed by id, within the depth     *)
(* bound, every dependency another node of the map.                        *)
IsNodeMap(g) ==
  /\ DOMAIN g \subseteq NodeId
  /\ g = [n \in DOMAIN g |-> g[n]]
  /\ \A n \in DOMAIN g :
       /\ g[n] \in AgentNode
       /\ g[n].id = n
       /\ g[n].depth =< MaxDepth
       /\ Range(g[n].deps) \subseteq DOMAIN g \ {n}

(* What has_cycle leaves of the node maps: among any nodes there is one    *)
(* that depends on none of the others.                                     *)
Acyclic(g) ==
  \A S \in SUBSET DOMAIN g :
    S # {} => \E n \in S : Range(g[n].deps) \cap S = {}

(* The ids that the nodes of g name as their fallbacks.                    *)
FallbacksOf(g) == {g[n].fallback : n \in DOMAIN g} \ {NoNode}

(* How build_graph gives node o the fallback f: f comes after o, and       *)
(* whatever else names f waits for o alone, gives way to f when o fails,    *)
(* and is nobody's fallback.                                               *)
Owns(g, o, f) ==
  /\ o \in Range(g[f].deps)
  /\ g[o].fallback = f
  /\ \A p \in DOMAIN g \ {o} :
       g[p].fallback = f =>
         /\ Range(g[p].deps) = {o}
         /\ g[p].onFail = "fallback_node"
         /\ p \notin FallbacksOf(g)

OwnedFallbacks(g) ==
  \A f \in FallbacksOf(g) : f \in DOMAIN g /\ \E o \in DOMAIN g : Owns(g, o, f)

(* What the callback adds has no fallbacks.                                *)
AddsNoFallback(r) == \A i \in 1..Len(r.add) : r.add[i].fallback = NoNode

Reply == [from : NodeId, add : Seq(AgentNode), skip : SUBSET NodeId]

ASSUME NodeIdAssumption ==
  /\ NodeId \subseteq Nat
  /\ IsFiniteSet(NodeId)
  /\ NoNode \notin NodeId

ASSUME BoundsAssumption == MaxParallelism \in Nat \ {0} /\ MaxDepth \in Nat

ASSUME GraphsAssumption ==
  /\ \A g \in InitialGraphs : IsNodeMap(g) /\ Acyclic(g)
  /\ \A r \in Replies :
       /\ r.from \in NodeId
       /\ r.skip \subseteq NodeId
       /\ r.add = [i \in 1..Len(r.add) |-> r.add[i]]
       /\ Len(r.add) \in Nat
       /\ \A i \in 1..Len(r.add) : r.add[i] \in AgentNode

VARIABLES
  nodes,         \* ExecutionGraph.nodes: id -> AgentNode, for the ids added
  statuses,      \* ExecutionGraph.statuses, over the same ids
  forced,        \* ExecutionGraph.forced_ready
  fallbackOnly,  \* ExecutionGraph.fallback_only
  running,       \* ids launched and not joined
  roleCount,     \* running_by_role
  outputs,       \* outputs: "none" until the node's result is recorded
  tasks,         \* the JoinSet: what each spawned task is doing
  pc,            \* where the loop is
  cancelSeen,    \* cancellation_requested, as read at the top of the loop
  pauseSeen,     \* pause_requested, as read at the top of the loop
  launchedAny,   \* launched_any
  progressed,    \* resolve_blocked_nodes' progressed
  scan,          \* ids of the pending snapshot still to be visited
  current,       \* the node whose callback is being awaited
  toAdd,         \* dynamic nodes the callback returned, not yet added
  cancelFlag,    \* RunControl.cancel_requested
  pauseFlag,     \* RunControl.pause_requested
  starts         \* history: how often each node was launched

graphVars   == <<nodes, statuses, forced, fallbackOnly>>
taskVars    == <<running, roleCount, outputs, tasks, starts>>
loopVars    == <<cancelSeen, pauseSeen, launchedAny, progressed, scan,
                 current, toAdd>>
controlVars == <<cancelFlag, pauseFlag>>
vars == <<graphVars, taskVars, loopVars, controlVars, pc>>

-----------------------------------------------------------------------------
(* ExecutionGraph                                                          *)

Present == DOMAIN nodes
Pending == {n \in Present : statuses[n] = "pending"}
AllTerminal == \A n \in Present : statuses[n] \in Terminal

(* ExecutionGraph::set_status ignores ids that are not in the graph.        *)
WithStatus(S, s) == [n \in Present |-> IF n \in S THEN s ELSE statuses[n]]

(* ExecutionGraph::force_ready ignores them too.                            *)
WithForced(n) == forced \cup ({n} \cap Present)

(* A wrong variant: add_node without its duplicate check.                  *)
Addable_AllowsDuplicate(node) ==
  /\ node.depth =< MaxDepth
  /\ Range(node.deps) \subseteq Present \ {node.id}

(* ExecutionGraph::add_node's refusals.  A new node's dependencies must    *)
(* already be there, so no edge can lead back to it and the cycle check    *)
(* that follows the insertion never finds one.                             *)
Addable(node) ==
  /\ node.id \notin Present
  /\ node.depth =< MaxDepth
  /\ Range(node.deps) \subseteq Present \ {node.id}

(* A wrong variant: the new node gets no entry in statuses.                *)
AddNode_NoStatus(node) ==
  /\ nodes' = [n \in Present \cup {node.id} |->
                 IF n = node.id THEN node ELSE nodes[n]]
  /\ statuses' = statuses
  /\ fallbackOnly' = fallbackOnly

AddNode(node) ==
  /\ nodes' = [n \in Present \cup {node.id} |->
                 IF n = node.id THEN node ELSE nodes[n]]
  /\ statuses' = [n \in Present \cup {node.id} |->
                    IF n = node.id THEN "pending" ELSE statuses[n]]
  /\ fallbackOnly' = fallbackOnly \cup ({node.fallback} \ {NoNode})
                       \cup ({node.id} \cap FallbacksOf(nodes))

-----------------------------------------------------------------------------
(* is_runnable: the first dependency, in list order, that stops the scan   *)
(* decides.                                                                *)

Stops(n, d) ==
  /\ statuses[d] # "succeeded"
  /\ statuses[d] \in Terminal => nodes[n].onFail # "continue_on_error"

(* A wrong variant: continue-on-error answers Ready at the first failed    *)
(* dependency instead of looking at the remaining ones.                    *)
DepResolution_ReadyAtFirstFailure(n) ==
  LET deps == nodes[n].deps
      stop == CHOOSE i \in DOMAIN deps :
                /\ statuses[deps[i]] # "succeeded"
                /\ \A j \in 1..(i - 1) : statuses[deps[j]] = "succeeded"
  IN IF n \in forced THEN "ready"
     ELSE IF n \in fallbackOnly THEN "blocked"
     ELSE IF \A d \in Range(deps) : statuses[d] = "succeeded" THEN "ready"
     ELSE IF statuses[deps[stop]] \notin Terminal THEN "blocked"
     ELSE IF nodes[n].onFail = "continue_on_error" THEN "ready"
     ELSE nodes[n].onFail

DepResolution(n) ==
  LET deps  == nodes[n].deps
      first == CHOOSE i \in DOMAIN deps :
                 /\ Stops(n, deps[i])
                 /\ \A j \in 1..(i - 1) : ~Stops(n, deps[j])
  IN IF n \in forced THEN "ready"
     ELSE IF n \in fallbackOnly THEN "blocked"
     ELSE IF \A d \in Range(deps) : ~Stops(n, d) THEN "ready"
     ELSE IF statuses[deps[first]] \in Terminal THEN nodes[n].onFail
     ELSE "blocked"

(* A wrong variant: the node's own limit is not looked at.                 *)
RoleLimit_Global(n) == MaxParallelism

RoleLimit(n) == IF nodes[n].limit = 0 THEN 1 ELSE nodes[n].limit

(* select_next_node passes over nodes it cannot decide about now.          *)
Decidable(n) ==
  /\ n \notin running
  /\ roleCount[nodes[n].role] < RoleLimit(n)
  /\ DepResolution(n) # "blocked"

(* n is the next node of the sorted snapshot that select_next_node acts on. *)
IsNext(n) ==
  /\ n \in scan
  /\ Decidable(n)
  /\ \A m \in scan : m < n => ~Decidable(m)

(* A wrong variant: tasks still running are not waited for.                *)
AfterLaunching_IgnoresRunning == IF ~launchedAny THEN "idle" ELSE "join"

AfterLaunching == IF running = {} /\ ~launchedAny THEN "idle" ELSE "join"

-----------------------------------------------------------------------------
Init ==
  /\ nodes \in InitialGraphs
  /\ statuses = [n \in Present |-> "pending"]
  /\ forced = {}
  /\ fallbackOnly = FallbacksOf(nodes)
  /\ running = {}
  /\ roleCount = [r \in Role |-> 0]
  /\ outputs = [n \in NodeId |-> "none"]
  /\ tasks = [n \in NodeId |-> "none"]
  /\ starts = [n \in NodeId |-> 0]
  /\ pc = "top"
  /\ cancelSeen = FALSE /\ pauseSeen = FALSE
  /\ launchedAny = FALSE /\ progressed = FALSE
  /\ scan = {} /\ current = NoNode /\ toAdd = << >>
  /\ cancelFlag = FALSE /\ pauseFlag = FALSE

(* The top of the loop: both flags are read.                               *)
LoopTop ==
  /\ pc = "top"
  /\ pc' = "launch"
  /\ launchedAny' = FALSE
  /\ cancelSeen' = cancelFlag
  /\ pauseSeen' = pauseFlag
  /\ UNCHANGED <<graphVars, taskVars, controlVars, progressed, scan, current,
                 toAdd>>

(* A wrong variant: the bound on running nodes is off by one.              *)
MayLaunch_OffByOne ==
  ~cancelSeen /\ ~pauseSeen /\ Cardinality(running) =< MaxParallelism

MayLaunch == ~cancelSeen /\ ~pauseSeen /\ Cardinality(running) < MaxParallelism

(* One more iteration of the launch loop: snapshot the pending nodes.      *)
BeginSelect ==
  /\ pc = "launch"
  /\ MayLaunch
  /\ pc' = "select"
  /\ scan' = Pending
  /\ UNCHANGED <<graphVars, taskVars, controlVars, cancelSeen, pauseSeen,
                 launchedAny, progressed, current, toAdd>>

EndLaunch ==
  /\ \/ pc = "launch" /\ ~MayLaunch
     \/ pc = "select" /\ \A n \in scan : ~Decidable(n)
  /\ pc' = AfterLaunching
  /\ scan' = {}
  /\ UNCHANGED <<graphVars, taskVars, controlVars, cancelSeen, pauseSeen,
                 launchedAny, progressed, current, toAdd>>

(* select_next_node returns a node and the loop spawns its task.           *)
Launch(n) ==
  /\ pc = "select"
  /\ IsNext(n)
  /\ DepResolution(n) = "ready"
  /\ forced' = forced \ {n}
  /\ statuses' = WithStatus({n}, "running")
  /\ running' = running \cup {n}
  /\ roleCount' = [roleCount EXCEPT ![nodes[n].role] = @ + 1]
  /\ tasks' = [tasks EXCEPT ![n] = "working"]
  /\ starts' = [starts EXCEPT ![n] = @ + 1]
  /\ launchedAny' = TRUE
  /\ scan' = {}
  /\ pc' = "launch"
  /\ UNCHANGED <<nodes, fallbackOnly, outputs, controlVars, cancelSeen,
                 pauseSeen, progressed, current, toAdd>>

(* DepResolution::Fallback: skip the node, arm its fallback, look further. *)
SelectFallback(n) ==
  /\ pc = "select"
  /\ IsNext(n)
  /\ DepResolution(n) = "fallback_node"
  /\ statuses' = WithStatus({n}, "skipped")
  /\ forced' = WithForced(nodes[n].fallback)
  /\ scan' = {m \in scan : m > n}
  /\ UNCHANGED <<nodes, fallbackOnly, taskVars, controlVars, cancelSeen,
                 pauseSeen, launchedAny, progressed, current, toAdd, pc>>

(* execute_graph returns an error: the JoinSet is dropped, which aborts    *)
(* every task still in it.                                                 *)
Abort == pc' = "errored" /\ tasks' = [n \in NodeId |-> "none"]

(* DepResolution::FailFast: the error leaves execute_graph at once.        *)
SelectFailFast(n) ==
  /\ pc = "select"
  /\ IsNext(n)
  /\ DepResolution(n) = "fail_fast"
  /\ statuses' = WithStatus({n}, "skipped")
  /\ Abort
  /\ UNCHANGED <<nodes, forced, fallbackOnly, running, roleCount, outputs,
                 starts, loopVars, controlVars>>

-----------------------------------------------------------------------------
(* Nothing runs and nothing was launched.                                  *)

IdleBranch ==
  IF cancelSeen THEN "cancel" ELSE IF pauseSeen THEN "park" ELSE "settle"

IdleCancel ==
  /\ pc = "idle"
  /\ IdleBranch = "cancel"
  /\ statuses' = WithStatus(Pending, "skipped")
  /\ pc' = "completed"
  /\ UNCHANGED <<nodes, forced, fallbackOnly, taskVars, loopVars, controlVars>>

(* Wait for notify_waiters, one second at most.                            *)
IdlePark ==
  /\ pc = "idle"
  /\ IdleBranch = "park"
  /\ pc' = "parked"
  /\ UNCHANGED <<graphVars, taskVars, loopVars, controlVars>>

(* A wrong variant: the wait has no timeout, only a notification ends it.  *)
ParkTimeout_Unbounded == FALSE /\ UNCHANGED vars

ParkTimeout ==
  /\ pc = "parked"
  /\ pc' = "top"
  /\ UNCHANGED <<graphVars, taskVars, loopVars, controlVars>>

IdleFinish ==
  /\ pc = "idle"
  /\ IdleBranch = "settle"
  /\ AllTerminal
  /\ pc' = "completed"
  /\ UNCHANGED <<graphVars, taskVars, loopVars, controlVars>>

BeginResolve ==
  /\ pc = "idle"
  /\ IdleBranch = "settle"
  /\ ~AllTerminal
  /\ pc' = "resolve"
  /\ scan' = Pending
  /\ progressed' = FALSE
  /\ UNCHANGED <<graphVars, taskVars, controlVars, cancelSeen, pauseSeen,
                 launchedAny, current, toAdd>>

(* resolve_blocked_nodes leaves a node alone unless its dependencies have  *)
(* all ended and at least one did not succeed.                             *)
Resolvable(n) ==
  /\ \A d \in Range(nodes[n].deps) : statuses[d] \in Terminal
  /\ \E d \in Range(nodes[n].deps) : statuses[d] # "succeeded"

(* One iteration of resolve_blocked_nodes; the snapshot is a HashMap's     *)
(* values, so the order is arbitrary.                                      *)
ResolveOne(n) ==
  /\ pc = "resolve"
  /\ n \in scan
  /\ scan' = scan \ {n}
  /\ progressed' = (progressed \/ Resolvable(n))
  /\ statuses' = IF Resolvable(n) /\ nodes[n].onFail # "continue_on_error"
                 THEN WithStatus({n}, "skipped") ELSE statuses
  /\ forced' =
       CASE ~Resolvable(n) \/ nodes[n].onFail = "fail_fast" -> forced
         [] Resolvable(n) /\ nodes[n].onFail = "continue_on_error" -> WithForced(n)
         [] Resolvable(n) /\ nodes[n].onFail = "fallback_node" ->
              WithForced(nodes[n].fallback)
  /\ UNCHANGED <<nodes, fallbackOnly, taskVars, controlVars, cancelSeen,
                 pauseSeen, launchedAny, current, toAdd, pc>>

EndResolve ==
  /\ pc = "resolve"
  /\ scan = {}
  /\ IF progressed THEN pc' = "top" /\ UNCHANGED tasks ELSE Abort
  /\ UNCHANGED <<graphVars, running, roleCount, outputs, starts, loopVars,
                 controlVars>>

-----------------------------------------------------------------------------
(* join_next delivers the result of a task that has ended.                 *)

(* A wrong variant: the role counter is not given back.                    *)
Joins_KeepsRoleCount(n) ==
  /\ pc = "join"
  /\ running' = running \ {n}
  /\ UNCHANGED roleCount

Joins(n) ==
  /\ pc = "join"
  /\ running' = running \ {n}
  /\ roleCount' = [roleCount EXCEPT ![nodes[n].role] = IF @ = 0 THEN 0 ELSE @ - 1]

(* A wrong variant: the fallback is left pending.                          *)
UnneededFallback_Kept(n) == {}

(* A fallback nobody has armed is no longer needed once its parent succeeds. *)
UnneededFallback(n) == {nodes[n].fallback} \cap (fallbackOnly \ forced)

(* The task's result is Ok: execute_node_with_policy answers Ok only for a *)
(* result that succeeded, so the `Ok(failed)' arm has no action here.       *)
JoinOk(n) ==
  /\ tasks[n] = "ok"
  /\ Joins(n)
  /\ tasks' = [tasks EXCEPT ![n] = "none"]
  /\ outputs' = [outputs EXCEPT ![n] = "ok"]
  /\ statuses' = [m \in Present |-> IF m \in UnneededFallback(n) THEN "skipped"
                                   ELSE IF m = n THEN "succeeded"
                                   ELSE statuses[m]]
  /\ current' = n
  /\ pc' = "callback"
  /\ UNCHANGED <<nodes, forced, fallbackOnly, starts, controlVars, cancelSeen,
                 pauseSeen, launchedAny, progressed, scan, toAdd>>

(* A wrong variant: the fallback of a failed node is not armed.            *)
JoinErr_LeavesFallback(n) ==
  /\ tasks[n] = "err"
  /\ Joins(n)
  /\ tasks' = [tasks EXCEPT ![n] = "none"]
  /\ outputs' = [outputs EXCEPT ![n] = "failed"]
  /\ statuses' = WithStatus({n}, "failed")
  /\ pc' = "top"
  /\ UNCHANGED <<nodes, forced, fallbackOnly, starts, loopVars, controlVars>>

JoinErr(n) ==
  /\ tasks[n] = "err"
  /\ Joins(n)
  /\ tasks' = [tasks EXCEPT ![n] = "none"]
  /\ outputs' = [outputs EXCEPT ![n] = "failed"]
  /\ statuses' = WithStatus({n}, "failed")
  /\ forced' = WithForced(nodes[n].fallback)
  /\ pc' = "top"
  /\ UNCHANGED <<nodes, fallbackOnly, starts, loopVars, controlVars>>

(* A panicked task makes join_next yield a JoinError, which is returned    *)
(* before the node is taken out of `running'.                              *)
JoinPanic(n) ==
  /\ pc = "join"
  /\ tasks[n] = "panicked"
  /\ Abort
  /\ UNCHANGED <<graphVars, running, roleCount, outputs, starts, loopVars,
                 controlVars>>

(* A wrong variant: superseded nodes are skipped whatever their status.    *)
Superseded_Any(ids) == ids

(* Superseded nodes are skipped only while they are still pending.         *)
Superseded(ids) == ids \cap Pending

(* on_completed answers; superseded nodes that are still pending are skipped. *)
Callback(r) ==
  /\ pc = "callback"
  /\ r.from = current
  /\ statuses' = WithStatus(Superseded(r.skip), "skipped")
  /\ toAdd' = r.add
  /\ current' = NoNode
  /\ pc' = "adding"
  /\ UNCHANGED <<nodes, forced, fallbackOnly, taskVars, controlVars,
                 cancelSeen, pauseSeen, launchedAny, progressed, scan>>

AddDynamic ==
  /\ pc = "adding"
  /\ toAdd # << >>
  /\ toAdd' = Tail(toAdd)
  /\ IF Addable(Head(toAdd))
     THEN AddNode(Head(toAdd)) /\ UNCHANGED <<tasks, pc>>
     ELSE Abort /\ UNCHANGED <<nodes, statuses, fallbackOnly>>
  /\ UNCHANGED <<forced, running, roleCount, outputs, starts, controlVars,
                 cancelSeen, pauseSeen, launchedAny, progressed, scan, current>>

AddedAll ==
  /\ pc = "adding"
  /\ toAdd = << >>
  /\ pc' = "top"
  /\ UNCHANGED <<graphVars, taskVars, loopVars, controlVars>>

-----------------------------------------------------------------------------
(* The other actors                                                        *)

Done == pc \in {"completed", "errored"}

(* A spawned task (execute_node_with_policy) returns or panics.            *)
WorkerEnds(n) ==
  /\ tasks[n] = "working"
  /\ \E outcome \in {"ok", "err", "panicked"} :
       tasks' = [tasks EXCEPT ![n] = outcome]
  /\ UNCHANGED <<graphVars, running, roleCount, outputs, starts, loopVars,
                 controlVars, pc>>

(* notify_waiters wakes the loop only if it is already waiting.            *)
Notify == pc' = IF pc = "parked" THEN "top" ELSE pc

Cancel ==
  /\ ~Done /\ ~cancelFlag
  /\ cancelFlag' = TRUE
  /\ Notify
  /\ UNCHANGED <<graphVars, taskVars, loopVars, pauseFlag>>

Pause ==
  /\ ~Done /\ ~pauseFlag
  /\ pauseFlag' = TRUE
  /\ Notify
  /\ UNCHANGED <<graphVars, taskVars, loopVars, cancelFlag>>

Resume ==
  /\ ~Done /\ pauseFlag
  /\ pauseFlag' = FALSE
  /\ Notify
  /\ UNCHANGED <<graphVars, taskVars, loopVars, cancelFlag>>

Returned == Done /\ UNCHANGED vars

Loop ==
  \/ LoopTop \/ BeginSelect \/ EndLaunch
  \/ \E n \in Present : Launch(n) \/ SelectFallback(n) \/ SelectFailFast(n)
  \/ IdleCancel \/ IdlePark \/ ParkTimeout \/ IdleFinish
  \/ BeginResolve \/ (\E n \in Present : ResolveOne(n)) \/ EndResolve
  \/ \E n \in running : JoinOk(n) \/ JoinErr(n) \/ JoinPanic(n)
  \/ (\E r \in Replies : Callback(r)) \/ AddDynamic \/ AddedAll

Next ==
  \/ Loop
  \/ \E n \in NodeId : WorkerEnds(n)
  \/ Cancel \/ Pause \/ Resume
  \/ Returned

Spec == Init /\ [][Next]_vars

(* The loop is one task of the async runtime and is polled while it can    *)
(* move; a node task ends because every attempt is under a timeout.  The   *)
(* user owes nothing: Cancel, Pause and Resume are not fair.               *)
FairSpec ==
  /\ Spec
  /\ WF_vars(Loop)
  /\ \A n \in NodeId : WF_vars(WorkerEnds(n))

-----------------------------------------------------------------------------
(* Properties                                                              *)

RunningOf(r) == {n \in running : nodes[n].role = r}

(* TypeOK: every map is keyed by the ids of the graph, and the counters    *)
(* stay within the bounds the launch loop checks.                          *)
TypeOK ==
  /\ IsNodeMap(nodes)
  /\ statuses \in [Present -> NodeStatus]
  /\ forced \subseteq Present
  /\ fallbackOnly \subseteq NodeId
  /\ running \subseteq Present
  /\ roleCount \in [Role -> Nat]
  /\ outputs \in [NodeId -> {"none", "ok", "failed"}]
  /\ tasks \in [NodeId -> {"none", "working", "ok", "err", "panicked"}]
  /\ starts \in [NodeId -> Nat]
  /\ pc \in {"top", "launch", "select", "idle", "parked", "resolve", "join",
             "callback", "adding", "completed", "errored"}
  /\ {cancelSeen, pauseSeen, launchedAny, progressed, cancelFlag, pauseFlag}
       \subseteq BOOLEAN
  /\ scan \subseteq Present
  /\ current \in NodeId \cup {NoNode}
  /\ toAdd \in Seq(AgentNode)

(* LimitsRespected: the runtime never runs more nodes than its parallelism, *)
(* and whenever a node with a role limit L is running, no more than L nodes *)
(* with limits of at most L run in its role. A node is admitted against a   *)
(* counter that other nodes' joins and launches move.                       *)
LimitsRespected ==
  /\ Cardinality(running) =< MaxParallelism
  /\ \A n \in running :
       Cardinality({m \in RunningOf(nodes[n].role) : nodes[m].limit =< nodes[n].limit})
         =< IF nodes[n].limit = 0 THEN 1 ELSE nodes[n].limit

(* CountersExact: between two loop steps the role counters count the        *)
(* running nodes and every running node has a task in the JoinSet. A drift  *)
(* would starve or overload a role, or make join_next wait for nothing.     *)
CountersExact ==
  /\ \A r \in Role : roleCount[r] = Cardinality(RunningOf(r))
  /\ pc # "errored" => running = {n \in NodeId : tasks[n] # "none"}

(* StartedOnce: no node runs twice in one execution, although forced_ready, *)
(* dynamic additions and the resolver can each make a node runnable again.  *)
StartedOnce == \A n \in NodeId : starts[n] =< 1

(* ResultsComplete: when execute_graph returns its results, every node of   *)
(* the graph has ended, none is running, and the results are exactly those  *)
(* of the nodes that were started.                                          *)
ResultsComplete ==
  pc = "completed" =>
    /\ AllTerminal
    /\ running = {}
    /\ \A n \in NodeId : (outputs[n] # "none") <=> (starts[n] = 1)

(* NoDeadlockError: the resolver never ends a pass without progress, so the *)
(* "graph reached deadlock" error is not returned.                          *)
NoDeadlockError == pc = "resolve" /\ scan = {} => progressed

(* FallbackNeedsFailure: a node that others name as their fallback starts   *)
(* only if some node has failed (graph.rs: "only meant to run as a fallback *)
(* (i.e. when the parent node that references it has failed ...").          *)
FallbackNeedsFailure ==
  \A n \in Present :
    LET f == nodes[n].fallback
    IN f \in Present /\ starts[f] > 0 => \E m \in Present : statuses[m] = "failed"

(* EndedForGood: a node that has succeeded, failed or been skipped keeps    *)
(* that status: no later fallback, resolver or planner step rewrites it.    *)
EndedForGood ==
  [][\A n \in Present : statuses[n] \in Terminal => statuses'[n] = statuses[n]]_vars

(* ExecutionEnds: an execution that is cancelled, or that is not paused     *)
(* for ever, ends, whatever it is doing: waiting for tasks, paused, or with *)
(* nothing left to launch.  The notification may come before the loop waits *)
(* for it.                                                                  *)
ExecutionEnds == <>[]~pauseFlag \/ <>cancelFlag => <>Done

FailedOver(n) ==
  /\ n \in Present
  /\ statuses[n] = "failed"
  /\ nodes[n].fallback \in Present
  /\ statuses[nodes[n].fallback] = "pending"

FallbackStarted(n) ==
  /\ n \in Present
  /\ nodes[n].fallback \in Present
  /\ starts[nodes[n].fallback] = 1

(* FailureReachesFallback: when a node fails while its fallback is pending, *)
(* the fallback is started, unless the execution is cancelled, stays        *)
(* paused or ends in an error. Other parents of the same fallback may       *)
(* succeed, and want it skipped, in between.                                *)
FailureReachesFallback ==
  <>[]~pauseFlag =>
    \A n \in NodeId :
      FailedOver(n) ~>
        \/ cancelFlag \/ pc = "errored"
        \/ FallbackStarted(n)
=============================================================================
