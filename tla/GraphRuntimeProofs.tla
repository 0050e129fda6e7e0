------------------------- MODULE GraphRuntimeProofs -------------------------
(***************************************************************************)
(* Proofs about GraphRuntime, for every node map, every callback and every *)
(* bound the module's assumptions allow, and of GraphRefinement: it        *)
(* implements DagScheduler.                                                *)
(***************************************************************************)
EXTENDS GraphRefinement, DataLemmas, FiniteSetTheorems, TLAPS

(* Small set-valued abbreviations that every step expands.                 *)
USE DEF Present, Pending, AllTerminal, Terminal, NodeStatus

LEMMA TypeInit == Init => TypeOK
  <1> SUFFICES ASSUME Init PROVE TypeOK
    OBVIOUS
  <1>1. IsNodeMap(nodes)
    BY GraphsAssumption DEF Init
  <1>2. FallbacksOf(nodes) \subseteq NodeId
    BY <1>1 DEF FallbacksOf, IsNodeMap, AgentNode
  <1>3. << >> \in Seq(AgentNode)
    OBVIOUS
  <1> QED
    BY <1>1, <1>2, <1>3 DEF Init, TypeOK

(* What the callback returns can be put into toAdd.                        *)
LEMMA ReplyTyped == ASSUME NEW r \in Replies PROVE r.add \in Seq(AgentNode)
  <1> DEFINE a == r.add
             k == Len(a)
  <1>1. k \in Nat /\ a = [i \in 1..k |-> a[i]] /\ \A i \in 1..k : a[i] \in AgentNode
    BY GraphsAssumption
  <1>2. [i \in 1..k |-> a[i]] \in [1..k -> AgentNode]
    BY <1>1
  <1>3. a \in Seq(AgentNode)
    <2> HIDE DEF a, k
    <2> QED BY <1>1, <1>2
  <1> QED
    BY <1>3

(* A node that add_node accepts extends the node map to a node map.        *)
LEMMA AddNodeTyped ==
  ASSUME TypeOK, NEW x \in AgentNode, Addable(x), AddNode(x)
  PROVE  /\ IsNodeMap(nodes')
         /\ statuses' \in [DOMAIN nodes' -> NodeStatus]
         /\ fallbackOnly' \subseteq NodeId
         /\ Present \subseteq DOMAIN nodes'
  <1>1. DOMAIN nodes' = Present \cup {x.id}
    BY DEF AddNode
  <1>2. IsNodeMap(nodes')
    BY <1>1 DEF TypeOK, IsNodeMap, Addable, AddNode, AgentNode
  <1>3. fallbackOnly' \subseteq NodeId
    BY DEF TypeOK, AddNode, AgentNode
  <1> QED
    BY <1>1, <1>2, <1>3 DEF TypeOK, AddNode

LEMMA OneLess ==
  ASSUME NEW c \in [Role -> Nat], NEW r
  PROVE  [c EXCEPT ![r] = IF @ = 0 THEN 0 ELSE @ - 1] \in [Role -> Nat]
  <1>1. \A n \in Nat : (IF n = 0 THEN 0 ELSE n - 1) \in Nat
    OBVIOUS
  <1>2. r \in Role => c[r] \in Nat
    OBVIOUS
  <1> QED
    BY <1>1, <1>2

LEMMA TypeStep == TypeOK /\ [Next]_vars => TypeOK'
  <1> SUFFICES ASSUME TypeOK, [Next]_vars PROVE TypeOK'
    OBVIOUS
  <1> USE DEF graphVars, taskVars, loopVars, controlVars
  <1>1. CASE LoopTop
    BY <1>1 DEF TypeOK, LoopTop
  <1>2. CASE BeginSelect
    BY <1>2 DEF TypeOK, BeginSelect
  <1>3. CASE EndLaunch
    BY <1>3 DEF TypeOK, EndLaunch, AfterLaunching
  <1>4. ASSUME NEW n \in Present, Launch(n) PROVE TypeOK'
    <2>1. n \in NodeId /\ nodes[n].role \in Role
      BY DEF TypeOK, IsNodeMap, AgentNode
    <2>2. statuses' \in [Present -> NodeStatus] /\ running' \subseteq Present
      BY <1>4 DEF TypeOK, Launch, WithStatus
    <2>3. /\ roleCount' \in [Role -> Nat] /\ starts' \in [NodeId -> Nat]
          /\ tasks' \in [NodeId -> {"none", "working", "ok", "err", "panicked"}]
      BY <1>4, <2>1 DEF TypeOK, Launch
    <2> QED
      BY <1>4, <2>2, <2>3 DEF TypeOK, Launch
  <1>5. ASSUME NEW n \in Present, SelectFallback(n) PROVE TypeOK'
    BY <1>5 DEF TypeOK, SelectFallback, WithStatus, WithForced
  <1>6. ASSUME NEW n \in Present, SelectFailFast(n) PROVE TypeOK'
    BY <1>6 DEF TypeOK, SelectFailFast, WithStatus, Abort
  <1>7. CASE IdleCancel
    BY <1>7 DEF TypeOK, IdleCancel, WithStatus
  <1>8. CASE IdlePark \/ ParkTimeout \/ IdleFinish
    BY <1>8 DEF TypeOK, IdlePark, ParkTimeout, IdleFinish
  <1>9. CASE BeginResolve
    BY <1>9 DEF TypeOK, BeginResolve
  <1>10. ASSUME NEW n \in Present, ResolveOne(n) PROVE TypeOK'
    <2>1. nodes[n].onFail \in FailurePolicy
      BY DEF TypeOK, IsNodeMap, AgentNode
    <2>2. forced' \subseteq Present
      BY <1>10, <2>1 DEF TypeOK, ResolveOne, WithForced, FailurePolicy
    <2>3. statuses' \in [Present -> NodeStatus]
      BY <1>10 DEF TypeOK, ResolveOne, WithStatus
    <2>4. progressed' \in BOOLEAN
      BY <1>10, <2>1 DEF TypeOK, ResolveOne
    <2> QED
      BY <1>10, <2>2, <2>3, <2>4 DEF TypeOK, ResolveOne
  <1>11. CASE EndResolve
    BY <1>11 DEF TypeOK, EndResolve, Abort
  <1>12. ASSUME NEW n \in running, JoinOk(n) PROVE TypeOK'
    <2>1. statuses' \in [Present -> NodeStatus]
      BY <1>12 DEF TypeOK, JoinOk
    <2>2. roleCount' \in [Role -> Nat] /\ running' \subseteq Present
      BY <1>12, OneLess DEF TypeOK, JoinOk, Joins
    <2>3. /\ outputs' \in [NodeId -> {"none", "ok", "failed"}]
          /\ tasks' \in [NodeId -> {"none", "working", "ok", "err", "panicked"}]
      BY <1>12 DEF TypeOK, JoinOk
    <2> QED
      BY <1>12, <2>1, <2>2, <2>3 DEF TypeOK, JoinOk
  <1>13. ASSUME NEW n \in running, JoinErr(n) PROVE TypeOK'
    <2>1. statuses' \in [Present -> NodeStatus]
      BY <1>13 DEF TypeOK, JoinErr, WithStatus
    <2>2. roleCount' \in [Role -> Nat] /\ running' \subseteq Present
      BY <1>13, OneLess DEF TypeOK, JoinErr, Joins
    <2>3. /\ outputs' \in [NodeId -> {"none", "ok", "failed"}]
          /\ tasks' \in [NodeId -> {"none", "working", "ok", "err", "panicked"}]
      BY <1>13 DEF TypeOK, JoinErr
    <2>4. forced' \subseteq Present
      BY <1>13 DEF TypeOK, JoinErr, WithForced
    <2> QED
      BY <1>13, <2>1, <2>2, <2>3, <2>4 DEF TypeOK, JoinErr
  <1>14. ASSUME NEW n \in running, JoinPanic(n) PROVE TypeOK'
    BY <1>14 DEF TypeOK, JoinPanic, Abort
  <1>15. ASSUME NEW r \in Replies, Callback(r) PROVE TypeOK'
    BY <1>15, ReplyTyped DEF TypeOK, Callback, WithStatus
  <1>16. CASE AddDynamic
    <2>1. Head(toAdd) \in AgentNode /\ Tail(toAdd) \in Seq(AgentNode)
      BY <1>16 DEF TypeOK, AddDynamic
    <2>2. CASE Addable(Head(toAdd))
      BY <1>16, <2>1, <2>2, AddNodeTyped DEF TypeOK, AddDynamic
    <2>3. CASE ~Addable(Head(toAdd))
      BY <1>16, <2>1, <2>3 DEF TypeOK, AddDynamic, Abort
    <2> QED
      BY <2>2, <2>3
  <1>17. CASE AddedAll
    BY <1>17 DEF TypeOK, AddedAll
  <1>18. ASSUME NEW n \in NodeId, WorkerEnds(n) PROVE TypeOK'
    BY <1>18 DEF TypeOK, WorkerEnds
  <1>19. CASE Cancel \/ Pause \/ Resume
    BY <1>19 DEF TypeOK, Cancel, Pause, Resume, Notify
  <1>20. CASE Returned
    BY <1>20 DEF TypeOK, Returned, vars
  <1>21. CASE UNCHANGED vars
    BY <1>21 DEF TypeOK, vars
  <1> QED
    BY <1>1, <1>2, <1>3, <1>4, <1>5, <1>6, <1>7, <1>8, <1>9, <1>10, <1>11,
       <1>12, <1>13, <1>14, <1>15, <1>16, <1>17, <1>18, <1>19, <1>20, <1>21
       DEF Next, Loop

(* Every reachable state is well typed, whatever graphs and callbacks.     *)
THEOREM TypeCorrect == Spec => []TypeOK
  BY TypeInit, TypeStep, PTL DEF Spec

-----------------------------------------------------------------------------
(* What a node's status says about the rest of the loop's state.           *)

NotYetStarted ==
  \A n \in NodeId : (n \notin Present \/ statuses[n] = "pending") => starts[n] = 0

RunningIsStarted ==
  /\ \A n \in running : starts[n] = 1
  /\ \A n \in Present : statuses[n] = "running" => n \in running

ResultsOfStarted ==
  \A n \in NodeId : (outputs[n] # "none") <=> (starts[n] = 1 /\ n \notin running)

(* The snapshot being scanned holds only nodes that are still pending.     *)
ScanIsPending == pc \in {"select", "resolve"} => scan \subseteq Pending

(* Past the launch loop's idle exit nothing runs.                          *)
IdleIsEmpty ==
  /\ pc \in {"idle", "parked", "resolve", "completed"} => running = {}
  /\ pc = "completed" => AllTerminal

OnceInv ==
  /\ StartedOnce /\ NotYetStarted /\ RunningIsStarted /\ ResultsOfStarted
  /\ ScanIsPending /\ IdleIsEmpty

LEMMA OnceInit == Init => OnceInv
  BY DEF Init, OnceInv, StartedOnce, NotYetStarted, RunningIsStarted,
         ResultsOfStarted, ScanIsPending, IdleIsEmpty

LEMMA OnceStep == TypeOK /\ OnceInv /\ [Next]_vars => OnceInv'
  <1> SUFFICES ASSUME TypeOK, OnceInv, [Next]_vars PROVE OnceInv'
    OBVIOUS
  <1> USE DEF graphVars, taskVars, loopVars, controlVars
  <1> USE DEF OnceInv, StartedOnce, NotYetStarted, RunningIsStarted,
              ResultsOfStarted, ScanIsPending, IdleIsEmpty
  <1>0. Present \subseteq NodeId /\ running \subseteq Present
    BY DEF TypeOK, IsNodeMap
  <1>1. CASE LoopTop
    BY <1>1 DEF LoopTop
  <1>2. CASE BeginSelect
    BY <1>2 DEF BeginSelect
  <1>3. CASE EndLaunch
    BY <1>3 DEF EndLaunch, AfterLaunching
  <1>4. ASSUME NEW n \in Present, Launch(n) PROVE OnceInv'
    <2>1. n \in Pending /\ n \notin running /\ starts[n] = 0
      BY <1>0, <1>4 DEF Launch, IsNext, Decidable
    <2> QED
      BY <1>0, <1>4, <2>1 DEF TypeOK, Launch, WithStatus
  <1>5. ASSUME NEW n \in Present, SelectFallback(n) PROVE OnceInv'
    <2>1. n \in Pending /\ scan' \subseteq scan \ {n}
      BY <1>0, <1>5, NodeIdAssumption DEF SelectFallback, IsNext
    <2> QED
      BY <1>0, <1>5, <2>1 DEF TypeOK, SelectFallback, WithStatus
  <1>6. ASSUME NEW n \in Present, SelectFailFast(n) PROVE OnceInv'
    BY <1>0, <1>6 DEF TypeOK, SelectFailFast, WithStatus, Abort
  <1>7. CASE IdleCancel
    BY <1>0, <1>7 DEF TypeOK, IdleCancel, WithStatus
  <1>8. CASE IdlePark \/ ParkTimeout \/ IdleFinish
    BY <1>8 DEF IdlePark, ParkTimeout, IdleFinish
  <1>9. CASE BeginResolve
    BY <1>9 DEF BeginResolve
  <1>10. ASSUME NEW n \in Present, ResolveOne(n) PROVE OnceInv'
    <2>1. statuses' = statuses \/ statuses' = WithStatus({n}, "skipped")
      BY <1>10 DEF ResolveOne
    <2>2. /\ n \in Pending /\ scan' = scan \ {n}
          /\ UNCHANGED <<nodes, running, starts, outputs, pc>>
      BY <1>10 DEF ResolveOne
    <2> QED
      BY <1>0, <2>1, <2>2 DEF TypeOK, WithStatus
  <1>11. CASE EndResolve
    BY <1>11 DEF EndResolve, Abort
  <1>12. ASSUME NEW n \in running, JoinOk(n) PROVE OnceInv'
    BY <1>0, <1>12 DEF TypeOK, JoinOk, Joins
  <1>13. ASSUME NEW n \in running, JoinErr(n) PROVE OnceInv'
    BY <1>0, <1>13 DEF TypeOK, JoinErr, Joins, WithStatus
  <1>14. ASSUME NEW n \in running, JoinPanic(n) PROVE OnceInv'
    BY <1>14 DEF JoinPanic, Abort
  <1>15. ASSUME NEW r \in Replies, Callback(r) PROVE OnceInv'
    BY <1>0, <1>15 DEF TypeOK, Callback, WithStatus, Superseded
  <1>16. CASE AddDynamic
    <2>1. CASE ~Addable(Head(toAdd))
      BY <1>16, <2>1 DEF AddDynamic, Abort
    <2>2. CASE Addable(Head(toAdd))
      <3> DEFINE x == Head(toAdd)
      <3>1. x.id \notin Present /\ AddNode(x)
        BY <1>16, <2>2 DEF AddDynamic, Addable
      <3>2. DOMAIN nodes' = Present \cup {x.id}
        BY <3>1 DEF AddNode
      <3>3. \A n \in DOMAIN nodes' :
              statuses'[n] = IF n = x.id THEN "pending" ELSE statuses[n]
        BY <3>1, <3>2 DEF AddNode
      <3>4. UNCHANGED <<running, starts, outputs, pc>> /\ pc = "adding"
        BY <1>16, <2>2 DEF AddDynamic
      <3> HIDE DEF x
      <3> QED
        BY <1>0, <3>1, <3>2, <3>3, <3>4 DEF TypeOK
    <2> QED
      BY <2>1, <2>2
  <1>17. CASE AddedAll
    BY <1>17 DEF AddedAll
  <1>18. ASSUME NEW n \in NodeId, WorkerEnds(n) PROVE OnceInv'
    BY <1>18 DEF WorkerEnds
  <1>19. CASE Cancel \/ Pause \/ Resume
    BY <1>19 DEF Cancel, Pause, Resume, Notify, Done
  <1>20. CASE Returned
    BY <1>20 DEF Returned, vars
  <1>21. CASE UNCHANGED vars
    BY <1>21 DEF vars
  <1> QED
    BY <1>1, <1>2, <1>3, <1>4, <1>5, <1>6, <1>7, <1>8, <1>9, <1>10, <1>11,
       <1>12, <1>13, <1>14, <1>15, <1>16, <1>17, <1>18, <1>19, <1>20, <1>21
       DEF Next, Loop

LEMMA OnceAlways == Spec => []OnceInv
  BY TypeInit, TypeStep, OnceInit, OnceStep, PTL DEF Spec

(* No node is launched twice, whatever the callback adds and the resolver  *)
(* or a failing parent forces.                                             *)
THEOREM StartedOnceHolds == Spec => []StartedOnce
  BY OnceAlways, PTL DEF OnceInv

(* execute_graph returns only when every node has ended, with the results  *)
(* of exactly the nodes it started.                                        *)
THEOREM ResultsCompleteHolds == Spec => []ResultsComplete
  <1>1. OnceInv => ResultsComplete
    BY DEF OnceInv, ResultsComplete, IdleIsEmpty, ResultsOfStarted
  <1> QED
    BY OnceAlways, <1>1, PTL

-----------------------------------------------------------------------------
(* The counters and the limits.                                            *)

TasksOfRunning == pc # "errored" => running = {n \in NodeId : tasks[n] # "none"}

RoomToLaunch ==
  /\ Cardinality(running) =< MaxParallelism
  /\ pc = "select" => Cardinality(running) < MaxParallelism

RolesCounted == \A r \in Role : roleCount[r] = Cardinality(RunningOf(r))

LimitOf(n) == IF nodes[n].limit = 0 THEN 1 ELSE nodes[n].limit

(* The running nodes of n's role that are at least as limited as n.        *)
Rivals(n) == {m \in RunningOf(nodes[n].role) : nodes[m].limit =< nodes[n].limit}

RolesLimited == \A n \in running : Cardinality(Rivals(n)) =< LimitOf(n)

CountInv == TasksOfRunning /\ RoomToLaunch /\ RolesCounted /\ RolesLimited

LEMMA RunningFinite ==
  ASSUME TypeOK
  PROVE  /\ IsFiniteSet(running) /\ Cardinality(running) \in Nat
         /\ \A r : IsFiniteSet(RunningOf(r)) /\ Cardinality(RunningOf(r)) \in Nat
         /\ \A n : IsFiniteSet(Rivals(n)) /\ Cardinality(Rivals(n)) \in Nat
  <1>1. IsFiniteSet(running)
    BY NodeIdAssumption, FS_Subset DEF TypeOK, IsNodeMap
  <1>2. \A r : RunningOf(r) \subseteq running
    BY DEF RunningOf
  <1>3. \A n : Rivals(n) \subseteq running
    BY DEF Rivals, RunningOf
  <1> QED
    BY <1>1, <1>2, <1>3, FS_Subset, FS_CardinalityType

(* Steps that leave the graph's nodes and the running tasks alone.         *)
LEMMA CountIdle ==
  ASSUME CountInv, UNCHANGED <<nodes, running, roleCount>>,
         TasksOfRunning', pc' = "select" => RoomToLaunch'
  PROVE  CountInv'
  BY DEF CountInv, RoomToLaunch, RolesCounted, RolesLimited, Rivals, RunningOf,
         LimitOf

LEMMA CountInit == Init => CountInv
  <1> SUFFICES ASSUME Init PROVE CountInv
    OBVIOUS
  <1>1. \A r : RunningOf(r) = {}
    BY DEF Init, RunningOf
  <1> QED
    BY <1>1, FS_EmptySet, BoundsAssumption
       DEF Init, CountInv, TasksOfRunning, RoomToLaunch, RolesCounted, RolesLimited

LEMMA CountLaunch ==
  ASSUME TypeOK, CountInv, NEW n \in Present, Launch(n)
  PROVE  CountInv'
  <1>0. PICK r \in Role : r = nodes[n].role
    BY DEF TypeOK, IsNodeMap, AgentNode
  <1>1. /\ n \in NodeId /\ nodes[n] \in AgentNode
        /\ \A m \in Present : nodes[m].limit \in Nat
    BY DEF TypeOK, IsNodeMap, AgentNode
  <1>2. /\ n \notin running /\ roleCount[r] < LimitOf(n)
        /\ Cardinality(running) < MaxParallelism
        /\ UNCHANGED nodes /\ running' = running \cup {n}
        /\ roleCount' = [roleCount EXCEPT ![r] = @ + 1]
        /\ tasks' = [tasks EXCEPT ![n] = "working"]
        /\ pc = "select" /\ pc' = "launch"
    BY <1>0 DEF Launch, IsNext, Decidable, RoleLimit, LimitOf, CountInv, RoomToLaunch
  <1>3. TasksOfRunning'
    BY <1>1, <1>2 DEF CountInv, TasksOfRunning, TypeOK
  <1>4. RoomToLaunch'
    <2>1. Cardinality(running') = Cardinality(running) + 1
      BY <1>2, RunningFinite, FS_AddElement
    <2>2. Cardinality(running) \in Nat /\ MaxParallelism \in Nat
      BY RunningFinite, BoundsAssumption
    <2> QED
      BY <1>2, <2>1, <2>2 DEF RoomToLaunch
  <1>5. RunningOf(r)' = RunningOf(r) \cup {n} /\ n \notin RunningOf(r)
    BY <1>0, <1>2 DEF RunningOf
  <1>6. Cardinality(RunningOf(r)') = roleCount[r] + 1 /\ IsFiniteSet(RunningOf(r)')
    BY <1>1, <1>5, RunningFinite, FS_AddElement DEF CountInv, RolesCounted
  <1>7. \A q \in Role \ {r} : RunningOf(q)' = RunningOf(q)
    BY <1>0, <1>2 DEF RunningOf
  <1>8. RolesCounted'
    BY <1>1, <1>2, <1>6, <1>7 DEF RolesCounted, CountInv, TypeOK
  <1>9. ASSUME NEW m \in running' PROVE Cardinality(Rivals(m)') =< LimitOf(m)'
    <2>0. m \in Present /\ nodes[m].limit \in Nat /\ nodes[n].limit \in Nat
      BY <1>1, <1>2, <1>9 DEF TypeOK
    <2>1. CASE nodes[m].role = r /\ nodes[n].limit =< nodes[m].limit
      <3>1. Rivals(m)' \subseteq RunningOf(r)'
        BY <2>1, <1>0, <1>2 DEF Rivals, RunningOf
      <3>2. Cardinality(Rivals(m)') =< Cardinality(RunningOf(r)')
        BY <3>1, <1>6, FS_Subset
      <3>3. LimitOf(n) =< LimitOf(m) /\ LimitOf(m)' = LimitOf(m)
        BY <2>0, <2>1, <1>2 DEF LimitOf
      <3>4. LimitOf(n) \in Nat /\ LimitOf(m) \in Nat /\ roleCount[r] \in Nat
        BY <2>0, <1>1 DEF LimitOf, TypeOK
      <3>5. Cardinality(Rivals(m)') \in Nat
        BY <3>1, <1>6, FS_Subset, FS_CardinalityType
      <3> QED
        BY <3>2, <3>3, <3>4, <3>5, <1>2, <1>6
    <2>2. CASE ~(nodes[m].role = r /\ nodes[n].limit =< nodes[m].limit)
      <3>1. m # n
        BY <2>0, <2>2, <1>0
      <3>2. Rivals(m)' = Rivals(m)
        BY <2>2, <1>0, <1>2 DEF Rivals, RunningOf
      <3> QED
        BY <3>1, <3>2, <1>2, <1>9 DEF CountInv, RolesLimited, LimitOf
    <2> QED
      BY <2>1, <2>2
  <1> QED
    BY <1>3, <1>4, <1>8, <1>9 DEF CountInv, RolesLimited

LEMMA CountJoin ==
  ASSUME TypeOK, CountInv, NEW n \in running, Joins(n), UNCHANGED nodes,
         tasks' = [tasks EXCEPT ![n] = "none"], pc' # "select"
  PROVE  CountInv'
  <1>0. PICK r \in Role : r = nodes[n].role
    BY DEF TypeOK, IsNodeMap, AgentNode
  <1>1. /\ running' = running \ {n}
        /\ roleCount' = [roleCount EXCEPT ![r] = IF @ = 0 THEN 0 ELSE @ - 1]
        /\ n \in NodeId /\ pc = "join"
    BY <1>0 DEF Joins, TypeOK, IsNodeMap
  <1>2. TasksOfRunning'
    BY <1>1 DEF CountInv, TasksOfRunning, TypeOK
  <1>3. RoomToLaunch'
    <2>1. Cardinality(running') =< Cardinality(running) /\ Cardinality(running') \in Nat
      BY <1>1, RunningFinite, FS_Subset, FS_CardinalityType
    <2>2. Cardinality(running) \in Nat /\ MaxParallelism \in Nat
      BY RunningFinite, BoundsAssumption
    <2> QED
      BY <2>1, <2>2 DEF RoomToLaunch, CountInv
  <1>4. RunningOf(r)' = RunningOf(r) \ {n} /\ n \in RunningOf(r)
    BY <1>0, <1>1 DEF RunningOf
  <1>5. Cardinality(RunningOf(r)') = roleCount[r] - 1 /\ roleCount[r] \in Nat
    BY <1>4, RunningFinite, FS_RemoveElement DEF CountInv, RolesCounted, TypeOK
  <1>6. roleCount[r] # 0
    BY <1>4, RunningFinite, FS_EmptySet DEF CountInv, RolesCounted
  <1>7. \A q \in Role \ {r} : RunningOf(q)' = RunningOf(q)
    BY <1>0, <1>1 DEF RunningOf
  <1>8. RolesCounted'
    BY <1>1, <1>5, <1>6, <1>7 DEF RolesCounted, CountInv, TypeOK
  <1>9. ASSUME NEW m \in running' PROVE Cardinality(Rivals(m)') =< LimitOf(m)'
    <2>1. Rivals(m)' \subseteq Rivals(m)
      BY <1>1 DEF Rivals, RunningOf
    <2>2. /\ Cardinality(Rivals(m)') =< Cardinality(Rivals(m))
          /\ Cardinality(Rivals(m)') \in Nat /\ Cardinality(Rivals(m)) \in Nat
      BY <2>1, RunningFinite, FS_Subset, FS_CardinalityType
    <2>3. LimitOf(m) \in Nat /\ LimitOf(m)' = LimitOf(m)
      BY <1>1 DEF LimitOf, TypeOK, IsNodeMap, AgentNode
    <2> QED
      BY <2>2, <2>3, <1>1 DEF CountInv, RolesLimited
  <1> QED
    BY <1>2, <1>3, <1>8, <1>9 DEF CountInv, RolesLimited

LEMMA CountAdd ==
  ASSUME TypeOK, CountInv, AddDynamic PROVE CountInv'
  <1> USE DEF taskVars, loopVars, controlVars
  <1>1. CASE ~Addable(Head(toAdd))
    BY <1>1, CountIdle DEF AddDynamic, Abort, TasksOfRunning
  <1>2. CASE Addable(Head(toAdd))
    <2>1. UNCHANGED <<running, roleCount, tasks, pc>> /\ pc = "adding"
      BY <1>2 DEF AddDynamic
    <2>2. \A m \in running : m \in Present /\ nodes'[m] = nodes[m]
      BY <1>2 DEF AddDynamic, AddNode, Addable, TypeOK
    <2>3. \A r : RunningOf(r)' = RunningOf(r)
      BY <2>1, <2>2 DEF RunningOf
    <2>4. \A m \in running : Rivals(m)' = Rivals(m) /\ LimitOf(m)' = LimitOf(m)
      BY <2>1, <2>2 DEF Rivals, RunningOf, LimitOf
    <2> QED
      BY <2>1, <2>3, <2>4 DEF CountInv, TasksOfRunning, RoomToLaunch,
                              RolesCounted, RolesLimited
  <1> QED
    BY <1>1, <1>2

LEMMA CountStep == TypeOK /\ CountInv /\ [Next]_vars => CountInv'
  <1> SUFFICES ASSUME TypeOK, CountInv, [Next]_vars PROVE CountInv'
    OBVIOUS
  <1> USE DEF graphVars, taskVars, loopVars, controlVars, TasksOfRunning
  <1>0. TasksOfRunning
    BY DEF CountInv
  <1>1. CASE LoopTop
    BY <1>0, <1>1, CountIdle DEF LoopTop
  <1>2. CASE BeginSelect
    BY <1>0, <1>2, CountIdle DEF BeginSelect, MayLaunch, CountInv, RoomToLaunch
  <1>3. CASE EndLaunch
    BY <1>0, <1>3, CountIdle DEF EndLaunch, AfterLaunching
  <1>4. ASSUME NEW n \in Present, Launch(n) PROVE CountInv'
    BY <1>4, CountLaunch
  <1>5. ASSUME NEW n \in Present, SelectFallback(n) PROVE CountInv'
    BY <1>0, <1>5, CountIdle DEF SelectFallback, CountInv, RoomToLaunch
  <1>6. ASSUME NEW n \in Present, SelectFailFast(n) PROVE CountInv'
    BY <1>6, CountIdle DEF SelectFailFast, Abort
  <1>7. CASE IdleCancel
    BY <1>0, <1>7, CountIdle DEF IdleCancel
  <1>8. CASE IdlePark \/ ParkTimeout \/ IdleFinish
    BY <1>0, <1>8, CountIdle DEF IdlePark, ParkTimeout, IdleFinish
  <1>9. CASE BeginResolve
    BY <1>0, <1>9, CountIdle DEF BeginResolve
  <1>10. ASSUME NEW n \in Present, ResolveOne(n) PROVE CountInv'
    <2>1. UNCHANGED <<nodes, running, roleCount, tasks, pc>> /\ pc = "resolve"
      BY <1>10 DEF ResolveOne
    <2> QED
      BY <1>0, <2>1, CountIdle
  <1>11. CASE EndResolve
    BY <1>0, <1>11, CountIdle DEF EndResolve, Abort
  <1>12. ASSUME NEW n \in running, JoinOk(n) PROVE CountInv'
    BY <1>12, CountJoin DEF JoinOk
  <1>13. ASSUME NEW n \in running, JoinErr(n) PROVE CountInv'
    BY <1>13, CountJoin DEF JoinErr
  <1>14. ASSUME NEW n \in running, JoinPanic(n) PROVE CountInv'
    BY <1>14, CountIdle DEF JoinPanic, Abort
  <1>15. ASSUME NEW r \in Replies, Callback(r) PROVE CountInv'
    BY <1>0, <1>15, CountIdle DEF Callback
  <1>16. CASE AddDynamic
    BY <1>16, CountAdd
  <1>17. CASE AddedAll
    BY <1>0, <1>17, CountIdle DEF AddedAll
  <1>18. ASSUME NEW n \in NodeId, WorkerEnds(n) PROVE CountInv'
    <2>1. TasksOfRunning'
      BY <1>0, <1>18 DEF WorkerEnds, TypeOK
    <2>2. UNCHANGED <<nodes, running, roleCount, pc>>
      BY <1>18 DEF WorkerEnds
    <2> QED
      BY <2>1, <2>2, CountIdle DEF CountInv, RoomToLaunch
  <1>19. CASE Cancel \/ Pause \/ Resume
    <2>1. /\ UNCHANGED <<nodes, running, roleCount, tasks>>
          /\ pc' = pc \/ (pc = "parked" /\ pc' = "top")
      BY <1>19 DEF Cancel, Pause, Resume, Notify
    <2> QED
      BY <1>0, <2>1, CountIdle DEF CountInv, RoomToLaunch
  <1>20. CASE Returned \/ UNCHANGED vars
    BY <1>0, <1>20, CountIdle DEF Returned, vars, CountInv, RoomToLaunch
  <1> QED
    BY <1>1, <1>2, <1>3, <1>4, <1>5, <1>6, <1>7, <1>8, <1>9, <1>10, <1>11,
       <1>12, <1>13, <1>14, <1>15, <1>16, <1>17, <1>18, <1>19, <1>20
       DEF Next, Loop

LEMMA CountAlways == Spec => []CountInv
  BY TypeInit, TypeStep, CountInit, CountStep, PTL DEF Spec

(* The role counters count the running nodes, and the JoinSet holds exactly *)
(* their tasks, through launches, joins, additions and panics.             *)
THEOREM CountersExactHolds == Spec => []CountersExact
  <1>1. CountInv => CountersExact
    BY DEF CountInv, CountersExact, RolesCounted, TasksOfRunning
  <1> QED
    BY CountAlways, <1>1, PTL

(* Neither the runtime's parallelism nor a running node's role limit is    *)
(* ever exceeded.                                                          *)
THEOREM LimitsRespectedHolds == Spec => []LimitsRespected
  <1>1. CountInv => LimitsRespected
    BY DEF CountInv, LimitsRespected, RoomToLaunch, RolesLimited, Rivals, LimitOf
  <1> QED
    BY CountAlways, <1>1, PTL

-----------------------------------------------------------------------------
(* What the mapping needs to know beyond TypeOK, OnceInv and CountInv.     *)

(* The loop has seen a cancellation only if one was asked for.             *)
SeenIsAsked == cancelSeen => cancelFlag

(* Results belong to nodes of the graph, and a node that has succeeded or  *)
(* failed has one.                                                         *)
ResultsMatch ==
  /\ \A n \in NodeId : outputs[n] # "none" => n \in Present
  /\ \A n \in Present : statuses[n] \in {"succeeded", "failed"} => outputs[n] # "none"

(* Only a fallback can be written off while it runs.                       *)
FallbacksNamed ==
  /\ fallbackOnly \subseteq FallbacksOf(nodes)
  /\ \A n \in running : statuses[n] = "running" \/ n \in fallbackOnly

CameToNothing(m) ==
  /\ m \in Present /\ m \notin running
  /\ \/ outputs[m] = "failed"
     \/ outputs[m] = "none" /\ statuses[m] = "skipped"

DepsEnded(n) == \A d \in Range(nodes[n].deps) : statuses[d] \in Terminal

(* A node is forced only for one of the two reasons a job may start for.   *)
ForcedForAReason ==
  \A n \in forced : DepsEnded(n) \/ \E m \in Present : CameToNothing(m) /\ nodes[m].fallback = n

MapInv == SeenIsAsked /\ ResultsMatch /\ FallbacksNamed /\ ForcedForAReason

LEMMA MapInit == Init => MapInv
  BY DEF Init, MapInv, SeenIsAsked, ResultsMatch, FallbacksNamed, ForcedForAReason

(* Dependencies of nodes in the graph are in the graph.                    *)
LEMMA DepsPresent ==
  ASSUME TypeOK, NEW n \in Present PROVE Range(nodes[n].deps) \subseteq Present
  BY DEF TypeOK, IsNodeMap

(* Steps of the kinds below keep the reason a node was forced for.         *)
LEMMA ReasonKept ==
  ASSUME TypeOK, OnceInv, NEW n \in Present,
         n \in DOMAIN nodes', nodes'[n] = nodes[n],
         \A m \in Present : /\ m \in DOMAIN nodes' /\ nodes'[m] = nodes[m]
                            /\ statuses[m] \in Terminal => statuses'[m] \in Terminal
                            /\ CameToNothing(m) => CameToNothing(m)',
         DepsEnded(n) \/ \E m \in Present : CameToNothing(m) /\ nodes[m].fallback = n
  PROVE  (DepsEnded(n) \/ \E m \in Present : CameToNothing(m) /\ nodes[m].fallback = n)'
  BY DepsPresent DEF DepsEnded

LEMMA MapStep == TypeOK /\ OnceInv /\ MapInv /\ [Next]_vars => MapInv'
  <1> SUFFICES ASSUME TypeOK, OnceInv, MapInv, [Next]_vars PROVE MapInv'
    OBVIOUS
  <1> USE DEF graphVars, taskVars, loopVars, controlVars
  <1> USE DEF MapInv
  <1>0. Present \subseteq NodeId /\ running \subseteq Present /\ forced \subseteq Present
    BY DEF TypeOK, IsNodeMap
  <1>1. ASSUME UNCHANGED <<graphVars, running, outputs>>, SeenIsAsked' PROVE MapInv'
    BY <1>1 DEF ResultsMatch, FallbacksNamed, FallbacksOf, ForcedForAReason,
                CameToNothing, DepsEnded
  <1>2. CASE LoopTop \/ BeginSelect \/ EndLaunch \/ IdlePark \/ ParkTimeout
             \/ IdleFinish \/ BeginResolve \/ EndResolve \/ AddedAll
    BY <1>1, <1>2 DEF LoopTop, BeginSelect, EndLaunch, IdlePark, ParkTimeout,
          IdleFinish, BeginResolve, EndResolve, AddedAll, SeenIsAsked
  <1>3. CASE Cancel \/ Pause \/ Resume \/ Returned \/ UNCHANGED vars
    BY <1>1, <1>3 DEF Cancel, Pause, Resume, Returned, vars, SeenIsAsked
  <1>4. ASSUME NEW n \in NodeId, WorkerEnds(n) PROVE MapInv'
    BY <1>1, <1>4 DEF WorkerEnds, SeenIsAsked
  <1>5. ASSUME NEW n \in running, JoinPanic(n) PROVE MapInv'
    BY <1>1, <1>5 DEF JoinPanic, SeenIsAsked
  (* Steps that only skip pending nodes and, perhaps, force one.           *)
  <1>6. ASSUME NEW S \in SUBSET Pending, statuses' = WithStatus(S, "skipped"),
               UNCHANGED <<nodes, fallbackOnly, running, outputs, cancelSeen, cancelFlag>>,
               \A f \in forced' \ forced :
                 \/ DepsEnded(f)
                 \/ \E m \in S : nodes[m].fallback = f
        PROVE  MapInv'
    <2>1. \A m \in Present : statuses'[m] = IF m \in S THEN "skipped" ELSE statuses[m]
      BY <1>6 DEF WithStatus
    <2>2. \A m \in Pending : m \notin running /\ outputs[m] = "none"
      BY <1>0 DEF OnceInv, NotYetStarted, RunningIsStarted, ResultsOfStarted
    <2>3. \A m \in S : CameToNothing(m)'
      BY <1>6, <2>1, <2>2 DEF CameToNothing
    <2>4. \A m \in Present : CameToNothing(m) => CameToNothing(m)'
      BY <1>6, <2>1, <2>2 DEF CameToNothing
    <2>5. ForcedForAReason'
      <3> SUFFICES ASSUME NEW n \in forced'
                   PROVE (DepsEnded(n) \/ \E m \in Present : CameToNothing(m) /\ nodes[m].fallback = n)'
        BY DEF ForcedForAReason
      <3>1. CASE \E m \in S : nodes[m].fallback = n
        BY <3>1, <1>6, <2>3
      <3>2. CASE ~\E m \in S : nodes[m].fallback = n
        <4>1. n \in forced \/ DepsEnded(n)
          BY <1>6, <3>2
        <4>2. DepsEnded(n) \/ \E m \in Present : CameToNothing(m) /\ nodes[m].fallback = n
          BY <4>1 DEF ForcedForAReason
        <4>3. CASE DepsEnded(n)
          <5>1. DepsEnded(n)'
            <6>1. n \in Present
              BY <1>6, TypeStep DEF TypeOK
            <6> QED
              BY <4>3, <6>1, <1>6, <2>1, DepsPresent DEF DepsEnded
          <5> QED BY <5>1
        <4>4. CASE \E m \in Present : CameToNothing(m) /\ nodes[m].fallback = n
          <5>1. PICK m \in Present : CameToNothing(m) /\ nodes[m].fallback = n
            BY <4>4
          <5>2. CameToNothing(m)' /\ m \in Present' /\ nodes'[m].fallback = n
            BY <5>1, <1>6, <2>4
          <5> QED BY <5>2
        <4> QED
          BY <4>2, <4>3, <4>4
      <3> QED
        BY <3>1, <3>2
    <2>6. ResultsMatch' /\ SeenIsAsked'
      BY <1>6, <2>1 DEF ResultsMatch, SeenIsAsked
    <2>7. FallbacksNamed'
      BY <1>6, <1>0, <2>1, <2>2 DEF FallbacksNamed, FallbacksOf
    <2> QED
      BY <2>5, <2>6, <2>7
  <1>7. ASSUME NEW n \in Present, Launch(n) PROVE MapInv'
    <2>1. /\ n \in Pending /\ n \notin running
          /\ UNCHANGED <<nodes, fallbackOnly, outputs, cancelSeen, cancelFlag>>
          /\ statuses' = WithStatus({n}, "running") /\ running' = running \cup {n}
          /\ forced' = forced \ {n}
      BY <1>7, <1>0 DEF Launch, IsNext, Decidable, OnceInv, ScanIsPending
    <2>2. \A m \in Present : statuses'[m] = IF m = n THEN "running" ELSE statuses[m]
      BY <2>1 DEF WithStatus
    <2>3. outputs[n] = "none"
      BY <1>0, <2>1 DEF OnceInv, NotYetStarted, ResultsOfStarted
    <2>4. \A m \in Present : CameToNothing(m) => CameToNothing(m)'
      BY <2>1, <2>2, <2>3 DEF CameToNothing
    <2>5. ForcedForAReason'
      BY <1>0, <2>1, <2>2, <2>4, ReasonKept DEF ForcedForAReason
    <2> QED
      BY <1>0, <2>1, <2>2, <2>5 DEF SeenIsAsked, ResultsMatch, FallbacksNamed, FallbacksOf
  <1>8. ASSUME NEW n \in Present, SelectFallback(n) PROVE MapInv'
    <2>1. n \in Pending
      BY <1>8 DEF SelectFallback, IsNext, OnceInv, ScanIsPending
    <2>2. \A f \in forced' \ forced : nodes[n].fallback = f
      BY <1>8 DEF SelectFallback, WithForced
    <2> QED
      BY <1>6, <1>8, <2>1, <2>2 DEF SelectFallback
  <1>9. ASSUME NEW n \in Present, SelectFailFast(n) PROVE MapInv'
    <2>1. n \in Pending
      BY <1>9 DEF SelectFailFast, IsNext, OnceInv, ScanIsPending
    <2> QED
      BY <1>6, <1>9, <2>1 DEF SelectFailFast
  <1>10. CASE IdleCancel
    BY <1>6, <1>10 DEF IdleCancel
  <1>11. ASSUME NEW n \in Present, ResolveOne(n) PROVE MapInv'
    <2>1. n \in Pending /\ nodes[n].onFail \in FailurePolicy
      BY <1>11 DEF ResolveOne, OnceInv, ScanIsPending, TypeOK, IsNodeMap, AgentNode
    <2>2. UNCHANGED <<nodes, fallbackOnly, running, outputs, cancelSeen, cancelFlag>>
      BY <1>11 DEF ResolveOne
    <2>3. CASE ~Resolvable(n) \/ nodes[n].onFail = "fail_fast"
      <3>1. forced' = forced
        BY <1>11, <2>3 DEF ResolveOne
      <3>2. PICK S \in SUBSET {n} : statuses' = WithStatus(S, "skipped")
        <4>1. statuses' = statuses \/ statuses' = WithStatus({n}, "skipped")
          BY <1>11 DEF ResolveOne
        <4>2. statuses = WithStatus({}, "skipped")
          BY DEF WithStatus, TypeOK
        <4> QED
          BY <4>1, <4>2
      <3> QED
        BY <1>6, <2>1, <2>2, <3>1, <3>2
    <2>4. CASE Resolvable(n) /\ nodes[n].onFail = "continue_on_error"
      <3>1. statuses' = WithStatus({}, "skipped")
        BY <1>11, <2>4 DEF ResolveOne, WithStatus, TypeOK
      <3>2. \A f \in forced' \ forced : DepsEnded(f)
        BY <1>11, <2>4 DEF ResolveOne, WithForced, Resolvable, DepsEnded
      <3> QED
        BY <1>6, <2>2, <3>1, <3>2
    <2>5. CASE Resolvable(n) /\ nodes[n].onFail = "fallback_node"
      <3>1. statuses' = WithStatus({n}, "skipped")
        BY <1>11, <2>5 DEF ResolveOne
      <3>2. \A f \in forced' \ forced : nodes[n].fallback = f
        BY <1>11, <2>5 DEF ResolveOne, WithForced
      <3> QED
        BY <1>6, <2>1, <2>2, <3>1, <3>2
    <2> QED
      BY <2>1, <2>3, <2>4, <2>5 DEF FailurePolicy
  <1>12. ASSUME NEW n \in running, JoinOk(n) PROVE MapInv'
    <2>1. /\ UNCHANGED <<nodes, forced, fallbackOnly, cancelSeen, cancelFlag>>
          /\ running' = running \ {n}
          /\ outputs' = [outputs EXCEPT ![n] = "ok"]
          /\ UnneededFallback(n) \subseteq fallbackOnly
      BY <1>12 DEF JoinOk, Joins, UnneededFallback
    <2>2. /\ DOMAIN statuses' = Present
          /\ \A m \in Present :
               statuses'[m] = IF m \in UnneededFallback(n) THEN "skipped"
                              ELSE IF m = n THEN "succeeded" ELSE statuses[m]
      BY <1>12 DEF JoinOk
    <2>3. \A m \in Present : CameToNothing(m) => CameToNothing(m)'
      BY <1>0, <2>1, <2>2 DEF CameToNothing
    <2>4. ForcedForAReason'
      BY <1>0, <2>1, <2>2, <2>3, ReasonKept DEF ForcedForAReason
    <2>5. ResultsMatch'
      BY <1>0, <2>1, <2>2 DEF ResultsMatch, TypeOK
    <2>6. FallbacksNamed'
      BY <1>0, <2>1, <2>2 DEF FallbacksNamed, FallbacksOf
    <2> QED
      BY <2>1, <2>4, <2>5, <2>6 DEF SeenIsAsked
  <1>13. ASSUME NEW n \in running, JoinErr(n) PROVE MapInv'
    <2>1. /\ UNCHANGED <<nodes, fallbackOnly, cancelSeen, cancelFlag>>
          /\ running' = running \ {n}
          /\ outputs' = [outputs EXCEPT ![n] = "failed"]
          /\ forced' = WithForced(nodes[n].fallback)
          /\ n \in Present /\ n \in NodeId
      BY <1>0, <1>13 DEF JoinErr, Joins
    <2>2. /\ DOMAIN statuses' = Present
          /\ \A m \in Present : statuses'[m] = IF m = n THEN "failed" ELSE statuses[m]
      BY <1>13 DEF JoinErr, WithStatus
    <2>3. \A m \in Present : CameToNothing(m) => CameToNothing(m)'
      BY <1>0, <2>1, <2>2 DEF CameToNothing
    <2>4. CameToNothing(n)'
      BY <2>1, <2>2 DEF CameToNothing, TypeOK
    <2>5. ForcedForAReason'
      <3> SUFFICES ASSUME NEW f \in forced'
                   PROVE (DepsEnded(f) \/ \E m \in Present : CameToNothing(m) /\ nodes[m].fallback = f)'
        BY DEF ForcedForAReason
      <3>1. CASE f \in forced
        BY <1>0, <2>1, <2>2, <2>3, <3>1, ReasonKept DEF ForcedForAReason
      <3>2. CASE f \notin forced
        <4>1. nodes'[n].fallback = f /\ n \in Present'
          BY <2>1, <3>2 DEF WithForced
        <4> QED
          BY <2>4, <4>1
      <3> QED
        BY <3>1, <3>2
    <2>6. ResultsMatch'
      BY <1>0, <2>1, <2>2 DEF ResultsMatch, TypeOK
    <2>7. FallbacksNamed'
      BY <1>0, <2>1, <2>2 DEF FallbacksNamed, FallbacksOf
    <2> QED
      BY <2>1, <2>5, <2>6, <2>7 DEF SeenIsAsked
  <1>14. ASSUME NEW r \in Replies, Callback(r) PROVE MapInv'
    BY <1>6, <1>14 DEF Callback, Superseded
  <1>15. CASE AddDynamic
    <2>1. CASE ~Addable(Head(toAdd))
      BY <1>1, <1>15, <2>1 DEF AddDynamic, SeenIsAsked
    <2>2. CASE Addable(Head(toAdd))
      <3> DEFINE x == Head(toAdd)
      <3>1. /\ UNCHANGED <<forced, running, outputs, cancelSeen, cancelFlag>>
            /\ x.id \notin Present /\ AddNode(x)
            /\ x \in AgentNode
        BY <1>15, <2>2 DEF AddDynamic, Addable, TypeOK
      <3> HIDE DEF x
      <3>2. /\ DOMAIN nodes' = Present \cup {x.id}
            /\ nodes'[x.id] = x /\ statuses'[x.id] = "pending"
            /\ \A m \in Present : nodes'[m] = nodes[m] /\ statuses'[m] = statuses[m]
        BY <3>1 DEF AddNode
      <3>3. fallbackOnly \subseteq fallbackOnly' /\ fallbackOnly' \subseteq FallbacksOf(nodes')
        <4>1. FallbacksOf(nodes) \subseteq FallbacksOf(nodes')
          BY <3>2 DEF FallbacksOf
        <4>2. {x.fallback} \ {NoNode} \subseteq FallbacksOf(nodes')
          BY <3>2 DEF FallbacksOf
        <4> QED
          BY <3>1, <4>1, <4>2 DEF AddNode, FallbacksNamed
      <3>4. \A m \in Present : CameToNothing(m) => CameToNothing(m)'
        BY <3>1, <3>2 DEF CameToNothing
      <3>5. ForcedForAReason'
        BY <1>0, <3>1, <3>2, <3>4, ReasonKept DEF ForcedForAReason
      <3>6. ResultsMatch' /\ FallbacksNamed'
        BY <1>0, <3>1, <3>2, <3>3 DEF ResultsMatch, FallbacksNamed
      <3> QED
        BY <3>1, <3>5, <3>6 DEF SeenIsAsked
    <2> QED
      BY <2>1, <2>2
  <1> QED
    BY <1>2, <1>3, <1>4, <1>5, <1>7, <1>8, <1>9, <1>10, <1>11, <1>12, <1>13,
       <1>14, <1>15 DEF Next, Loop

LEMMA MapAlways == Spec => []MapInv
  BY TypeInit, TypeStep, OnceInit, OnceStep, MapInit, MapStep, PTL DEF Spec

-----------------------------------------------------------------------------
(* The abstract state that a concrete one stands for.                      *)

LEMMA PhasesRead ==
  ASSUME TypeOK, OnceInv, MapInv
  PROVE  /\ Jobs!In("working") = running
         /\ Jobs!In("waiting") = Pending
         /\ Jobs!Known = Present
         /\ \A m : CameToNothing(m) => m \in Jobs!In("failed") \cup Jobs!In("skipped")
  <1>0. Present \subseteq NodeId /\ running \subseteq Present
    BY DEF TypeOK, IsNodeMap
  <1>1. \A n \in NodeId : JobPhase[n] = PhaseOf(n)
    BY DEF JobPhase
  <1>2. Jobs!In("working") = running
    BY <1>0, <1>1 DEF PhaseOf, Jobs!In, TypeOK
  <1>3. \A n \in NodeId : PhaseOf(n) = "waiting" <=> n \in Pending
    BY <1>0 DEF PhaseOf, TypeOK, OnceInv, NotYetStarted, RunningIsStarted,
                ResultsOfStarted, MapInv, ResultsMatch
  <1>4. Jobs!In("waiting") = Pending
    BY <1>0, <1>1, <1>3 DEF Jobs!In
  <1>5. \A n \in NodeId : PhaseOf(n) = "unknown" <=> n \notin Present
    BY <1>0 DEF PhaseOf, TypeOK, MapInv, ResultsMatch
  <1>6. Jobs!Known = Present
    BY <1>0, <1>1, <1>5 DEF Jobs!Known, Jobs!In
  <1>7. \A m : CameToNothing(m) => m \in Jobs!In("failed") \cup Jobs!In("skipped")
    BY <1>0, <1>1 DEF CameToNothing, PhaseOf, Jobs!In
  <1> QED
    BY <1>2, <1>4, <1>6, <1>7

(* The steps the caller cannot see.                                        *)
LEMMA StepUnseen ==
  ASSUME UNCHANGED <<nodes, statuses, running, outputs, cancelFlag>>,
         JobResult' = JobResult
  PROVE  UNCHANGED Jobs!vars
  BY DEF Jobs!vars, JobPhase, JobNeeds, JobSpare, PhaseOf

(* Steps that only skip nodes of S.                                        *)
LEMMA StepSkips ==
  ASSUME TypeOK, OnceInv, MapInv, NEW S \in SUBSET Pending,
         UNCHANGED <<nodes, running, outputs>>,
         statuses' = WithStatus(S, "skipped")
  PROVE  /\ JobPhase' = Jobs!Skipping(S)
         /\ S \in SUBSET Jobs!In("waiting")
         /\ UNCHANGED <<JobNeeds, JobSpare>>
  <1>1. Jobs!In("waiting") = Pending
    BY PhasesRead
  <1>2. \A n \in Present : statuses'[n] = IF n \in S THEN "skipped" ELSE statuses[n]
    BY DEF WithStatus
  <1>3. \A n \in Pending : n \in NodeId /\ n \notin running /\ outputs[n] = "none"
    BY DEF TypeOK, IsNodeMap, OnceInv, NotYetStarted, RunningIsStarted, ResultsOfStarted
  <1>4. \A n \in NodeId : PhaseOf(n)' = IF n \in S THEN "skipped" ELSE PhaseOf(n)
    BY <1>2, <1>3 DEF PhaseOf
  <1>5. JobPhase' = Jobs!Skipping(S)
    BY <1>1, <1>4 DEF JobPhase, Jobs!Skipping
  <1> QED
    BY <1>1, <1>5 DEF JobNeeds, JobSpare

LEMMA JobsInit == Init => Jobs!Init
  <1> SUFFICES ASSUME Init PROVE Jobs!Init
    OBVIOUS
  <1>1. TypeOK /\ OnceInv /\ MapInv
    BY TypeInit, OnceInit, MapInit
  <1>2. JobPhase \in [NodeId -> {"unknown", "waiting"}]
    BY DEF Init, JobPhase, PhaseOf
  <1>3. JobNeeds \in [NodeId -> SUBSET Jobs!Known]
    BY <1>1, PhasesRead, DepsPresent DEF JobNeeds
  <1>4. JobSpare \in [NodeId -> NodeId \cup {NoNode}]
    BY <1>1 DEF JobSpare, TypeOK, IsNodeMap, AgentNode
  <1> QED
    BY <1>2, <1>3, <1>4 DEF Init, Jobs!Init, JobResult

(* A launch is a job's start: for one of the two reasons and with room.    *)
LEMMA JobsStart ==
  ASSUME TypeOK, OnceInv, CountInv, MapInv, NEW n \in Present, Launch(n)
  PROVE  Jobs!Start(n)
  <1>0. Present \subseteq NodeId /\ n \in NodeId
    BY DEF TypeOK, IsNodeMap
  <1>1. /\ n \in Pending /\ n \notin running /\ DepResolution(n) = "ready"
        /\ UNCHANGED <<nodes, outputs, cancelFlag>>
        /\ statuses' = WithStatus({n}, "running") /\ running' = running \cup {n}
        /\ pc = "select" /\ pc' = "launch"
    BY <1>0 DEF Launch, IsNext, Decidable, OnceInv, ScanIsPending, controlVars
  <1>2. \/ DepsEnded(n)
        \/ \E m \in Present : CameToNothing(m) /\ nodes[m].fallback = n
    <2>1. CASE n \in forced
      BY <2>1 DEF MapInv, ForcedForAReason
    <2>2. CASE n \notin forced
      <3>1. \A d \in Range(nodes[n].deps) : ~Stops(n, d)
        <4>1. nodes[n].onFail # "ready"
          BY DEF TypeOK, IsNodeMap, AgentNode, FailurePolicy
        <4> QED
          BY <1>1, <2>2, <4>1 DEF DepResolution
      <3> QED
        BY <3>1 DEF Stops, DepsEnded
    <2> QED
      BY <2>1, <2>2
  <1>3. ASSUME DepsEnded(n) PROVE JobNeeds[n] \subseteq Jobs!Ended \cup Jobs!Spares
    <2> SUFFICES ASSUME NEW d \in Range(nodes[n].deps)
                 PROVE d \in Jobs!Ended \cup Jobs!Spares
      BY <1>0 DEF JobNeeds
    <2>1. d \in Present /\ d \in NodeId /\ statuses[d] \in Terminal
      BY <1>0, <1>3, DepsPresent DEF DepsEnded
    <2>2. CASE d \in running
      <3>1. d \in FallbacksOf(nodes)
        BY <2>1, <2>2 DEF MapInv, FallbacksNamed
      <3>2. PICK m \in Present : nodes[m].fallback = d
        BY <3>1 DEF FallbacksOf
      <3>3. m \in Jobs!Known /\ JobSpare[m] = d
        BY <1>0, <3>2, PhasesRead DEF JobSpare
      <3> QED
        BY <3>3 DEF Jobs!Spares
    <2>3. CASE d \notin running
      <3>1. PhaseOf(d) \in {"ok", "failed", "skipped"}
        BY <2>1, <2>3 DEF PhaseOf, TypeOK, MapInv, ResultsMatch
      <3> QED
        BY <2>1, <3>1 DEF JobPhase, Jobs!Ended, Jobs!In
    <2> QED
      BY <2>2, <2>3
  <1>4. ASSUME NEW m \in Present, CameToNothing(m), nodes[m].fallback = n
        PROVE  \E k \in Jobs!In("failed") \cup Jobs!In("skipped") : JobSpare[k] = n
    BY <1>0, <1>4, PhasesRead DEF JobSpare
  <1>5. Jobs!MayStart(n)
    BY <1>2, <1>3, <1>4 DEF Jobs!MayStart
  <1>6. JobPhase[n] = "waiting" /\ Jobs!In("working") \cup {n} \in JobCrews
    <2>1. n \in Jobs!In("waiting") /\ Jobs!In("working") = running
      BY <1>1, PhasesRead
    <2>2. Cardinality(running) < MaxParallelism /\ MaxParallelism \in Nat
      BY <1>1, BoundsAssumption DEF CountInv, RoomToLaunch
    <2>3. Cardinality(running \cup {n}) = Cardinality(running) + 1
      BY <1>1, RunningFinite, FS_AddElement
    <2>4. running \cup {n} \subseteq NodeId
      BY <1>0 DEF TypeOK
    <2> QED
      BY <2>1, <2>2, <2>3, <2>4, RunningFinite DEF Jobs!In, JobCrews
  <1>7. JobPhase' = [JobPhase EXCEPT ![n] = "working"]
    <2>1. \A m \in NodeId : PhaseOf(m)' = IF m = n THEN "working" ELSE PhaseOf(m)
      BY <1>0, <1>1 DEF PhaseOf, WithStatus
    <2> QED
      BY <2>1 DEF JobPhase
  <1>8. UNCHANGED <<JobNeeds, JobSpare, cancelFlag, JobResult>>
    BY <1>1 DEF JobNeeds, JobSpare, JobResult
  <1> QED
    BY <1>5, <1>6, <1>7, <1>8 DEF Jobs!Start

(* A success, with the skipped fallback if there is one that waits.        *)
LEMMA JobsSucceed ==
  ASSUME TypeOK, OnceInv, MapInv, NEW n \in running, JoinOk(n)
  PROVE  Jobs!Succeed(n)
  <1>0. n \in Present /\ n \in NodeId
    BY DEF TypeOK, IsNodeMap
  <1>1. /\ UNCHANGED <<nodes, cancelFlag>> /\ pc = "join" /\ pc' = "callback"
        /\ running' = running \ {n}
        /\ outputs' = [outputs EXCEPT ![n] = "ok"]
    BY DEF JoinOk, Joins, controlVars
  <1>2. \A m \in Present : statuses'[m] = IF m \in UnneededFallback(n) THEN "skipped"
                                         ELSE IF m = n THEN "succeeded" ELSE statuses[m]
    BY DEF JoinOk
  <1>3. JobPhase[n] = "working"
    BY <1>0, PhasesRead DEF Jobs!In
  <1>4. PICK S \in SUBSET {nodes[n].fallback} : S = UnneededFallback(n)
    BY DEF UnneededFallback
  <1>5. S \in SUBSET {JobSpare[n]}
    BY <1>0 DEF JobSpare
  <1>6. \A m \in NodeId : PhaseOf(m)' =
          IF m = n THEN "ok" ELSE IF m \in S \cap Pending THEN "skipped" ELSE PhaseOf(m)
    <2>1. PhaseOf(n)' = "ok"
      BY <1>0, <1>1 DEF PhaseOf, TypeOK
    <2>2. ASSUME NEW m \in NodeId, m # n
          PROVE  PhaseOf(m)' = IF m \in S \cap Pending THEN "skipped" ELSE PhaseOf(m)
      <3>1. m \in running' <=> m \in running
        BY <1>1, <2>2
      <3>2. outputs'[m] = outputs[m]
        BY <1>1, <2>2 DEF TypeOK
      <3>3. CASE m \in Present /\ m \notin running /\ outputs[m] = "none"
        <4>1. statuses[m] \in {"pending", "skipped"}
          BY <3>3 DEF TypeOK, OnceInv, RunningIsStarted, MapInv, ResultsMatch
        <4> QED
          BY <1>1, <1>2, <1>4, <2>2, <3>1, <3>2, <3>3, <4>1 DEF PhaseOf
      <3>4. CASE ~(m \in Present /\ m \notin running /\ outputs[m] = "none")
        <4>1. m \notin Pending
          BY <2>2, <3>4 DEF OnceInv, NotYetStarted, RunningIsStarted, ResultsOfStarted
        <4> QED
          BY <1>1, <3>1, <3>2, <3>4, <4>1 DEF PhaseOf
      <3> QED
        BY <3>3, <3>4
    <2> QED
      BY <2>1, <2>2
  <1>7. JobPhase' = [Jobs!Skipping(S) EXCEPT ![n] = "ok"]
    <2>1. Jobs!In("waiting") = Pending
      BY PhasesRead
    <2> QED
      BY <1>0, <1>6, <2>1 DEF JobPhase, Jobs!Skipping
  <1>8. UNCHANGED <<JobNeeds, JobSpare, cancelFlag, JobResult>>
    BY <1>1 DEF JobNeeds, JobSpare, JobResult
  <1> QED
    BY <1>3, <1>5, <1>7, <1>8 DEF Jobs!Succeed

LEMMA JobsFail ==
  ASSUME TypeOK, OnceInv, MapInv, NEW n \in running, JoinErr(n)
  PROVE  Jobs!Fail(n)
  <1>0. n \in Present /\ n \in NodeId
    BY DEF TypeOK, IsNodeMap
  <1>1. /\ UNCHANGED <<nodes, cancelFlag>> /\ pc = "join" /\ pc' = "top"
        /\ running' = running \ {n}
        /\ outputs' = [outputs EXCEPT ![n] = "failed"]
        /\ \A m \in Present : statuses'[m] = IF m = n THEN "failed" ELSE statuses[m]
    BY DEF JoinErr, Joins, controlVars, WithStatus
  <1>2. JobPhase[n] = "working"
    BY <1>0, PhasesRead DEF Jobs!In
  <1>3. \A m \in NodeId : PhaseOf(m)' = IF m = n THEN "failed" ELSE PhaseOf(m)
    BY <1>0, <1>1 DEF PhaseOf, TypeOK
  <1>4. JobPhase' = [JobPhase EXCEPT ![n] = "failed"]
    BY <1>3 DEF JobPhase
  <1>5. UNCHANGED <<JobNeeds, JobSpare, cancelFlag, JobResult>>
    BY <1>1 DEF JobNeeds, JobSpare, JobResult
  <1> QED
    BY <1>2, <1>4, <1>5 DEF Jobs!Fail

LEMMA JobsGrow ==
  ASSUME TypeOK, OnceInv, MapInv, AddDynamic, Addable(Head(toAdd))
  PROVE  \E n \in NodeId : Jobs!Grow(n)
  <1> DEFINE x == Head(toAdd)
  <1>1. /\ UNCHANGED <<running, outputs, cancelFlag, pc>> /\ pc = "adding"
        /\ x.id \notin Present /\ AddNode(x) /\ x \in AgentNode
        /\ Range(x.deps) \subseteq Present
    BY DEF AddDynamic, Addable, TypeOK, controlVars
  <1> HIDE DEF x
  <1>2. /\ DOMAIN nodes' = Present \cup {x.id}
        /\ nodes'[x.id] = x /\ statuses'[x.id] = "pending"
        /\ \A m \in Present : nodes'[m] = nodes[m] /\ statuses'[m] = statuses[m]
    BY <1>1 DEF AddNode
  <1>3. x.id \in NodeId
    BY <1>1 DEF AgentNode
  <1>4. x.id \notin running /\ outputs[x.id] = "none"
    BY <1>1, <1>3 DEF TypeOK, MapInv, ResultsMatch
  <1>5. JobPhase[x.id] = "unknown"
    BY <1>1, <1>3, <1>4 DEF JobPhase, PhaseOf
  <1>6. JobPhase' = [JobPhase EXCEPT ![x.id] = "waiting"]
    <2>1. \A m \in NodeId : PhaseOf(m)' = IF m = x.id THEN "waiting" ELSE PhaseOf(m)
      BY <1>1, <1>2, <1>4 DEF PhaseOf
    <2> QED
      BY <2>1 DEF JobPhase
  <1>7. JobNeeds'[x.id] \subseteq Jobs!Known
    BY <1>1, <1>2, <1>3, PhasesRead DEF JobNeeds
  <1>8. \A m \in NodeId \ {x.id} : JobNeeds'[m] = JobNeeds[m] /\ JobSpare'[m] = JobSpare[m]
    BY <1>2 DEF JobNeeds, JobSpare
  <1>9. UNCHANGED <<cancelFlag, JobResult>>
    BY <1>1 DEF JobResult
  <1>10. Jobs!Grow(x.id)
    BY <1>5, <1>6, <1>7, <1>8, <1>9 DEF Jobs!Grow
  <1> QED
    BY <1>3, <1>10

(* Errors leave the statuses as they are, except the fail-fast one.        *)
LEMMA JobsGiveUp ==
  ASSUME TypeOK, OnceInv, MapInv, NEW S \in SUBSET Pending,
         UNCHANGED <<nodes, running, outputs, cancelFlag>>,
         statuses' = WithStatus(S, "skipped"), pc' = "errored"
  PROVE  Jobs!GiveUp
  <1>1. /\ JobPhase' = Jobs!Skipping(S) /\ S \in SUBSET Jobs!In("waiting")
        /\ UNCHANGED <<JobNeeds, JobSpare>>
    BY StepSkips
  <1>2. JobResult' = "error"
    BY DEF JobResult
  <1> QED
    BY <1>1, <1>2 DEF Jobs!GiveUp, Jobs!SkipSome

LEMMA JobsSkip ==
  ASSUME TypeOK, OnceInv, MapInv, NEW S \in SUBSET Pending,
         UNCHANGED <<nodes, running, outputs, cancelFlag>>,
         statuses' = WithStatus(S, "skipped"), JobResult' = JobResult
  PROVE  Jobs!Skip
  <1>1. /\ JobPhase' = Jobs!Skipping(S) /\ S \in SUBSET Jobs!In("waiting")
        /\ UNCHANGED <<JobNeeds, JobSpare>>
    BY StepSkips
  <1> QED
    BY <1>1 DEF Jobs!Skip, Jobs!SkipSome

LEMMA JobsReturn ==
  ASSUME TypeOK, OnceInv, MapInv, running = {}, Pending = {} \/ cancelFlag,
         UNCHANGED <<nodes, running, outputs, cancelFlag>>,
         statuses' = WithStatus(Pending, "skipped"), pc' = "completed"
  PROVE  Jobs!Return
  <1>1. /\ JobPhase' = Jobs!Skipping(Pending) /\ UNCHANGED <<JobNeeds, JobSpare>>
        /\ Jobs!In("working") = {} /\ Jobs!In("waiting") = Pending
    BY StepSkips, PhasesRead
  <1>2. Pending \subseteq NodeId
    BY DEF TypeOK, IsNodeMap
  <1>3. Jobs!Skipping(Pending) = Jobs!Skipping(NodeId)
    BY <1>1, <1>2 DEF Jobs!Skipping
  <1>4. JobResult' = "returned"
    BY DEF JobResult
  <1> QED
    BY <1>1, <1>3, <1>4 DEF Jobs!Return

-----------------------------------------------------------------------------
LEMMA JobsStep ==
  TypeOK /\ OnceInv /\ CountInv /\ MapInv /\ [Next]_vars => [Jobs!Next]_(Jobs!vars)
  <1> SUFFICES ASSUME TypeOK, OnceInv, CountInv, MapInv, [Next]_vars
               PROVE  [Jobs!Next]_(Jobs!vars)
    OBVIOUS
  <1> USE DEF graphVars, taskVars, loopVars, controlVars
  <1>0. Present \subseteq NodeId /\ running \subseteq Present
    BY DEF TypeOK, IsNodeMap
  <1>1. statuses = WithStatus({}, "skipped")
    BY DEF TypeOK, WithStatus
  (* Steps the caller cannot see.                                          *)
  <1>2. CASE LoopTop \/ BeginSelect \/ EndLaunch \/ IdlePark \/ ParkTimeout
             \/ BeginResolve \/ AddedAll
    BY <1>2, StepUnseen DEF LoopTop, BeginSelect, EndLaunch, AfterLaunching,
       IdlePark, ParkTimeout, BeginResolve, AddedAll, JobResult
  <1>3. ASSUME NEW n \in NodeId, WorkerEnds(n) PROVE UNCHANGED Jobs!vars
    BY <1>3, StepUnseen DEF WorkerEnds, JobResult
  <1>4. CASE Pause \/ Resume \/ Returned \/ UNCHANGED vars
    BY <1>4, StepUnseen DEF Pause, Resume, Returned, vars, Notify, JobResult
  (* The loop's own steps.                                                 *)
  <1>5. ASSUME NEW n \in Present, Launch(n) PROVE Jobs!Next
    BY <1>0, <1>5, JobsStart DEF Jobs!Next, Launch, JobResult
  <1>6. ASSUME NEW n \in Present, SelectFallback(n) PROVE Jobs!Next
    <2>1. n \in Pending
      BY <1>6 DEF SelectFallback, IsNext, OnceInv, ScanIsPending
    <2>2. JobResult = "open" /\ JobResult' = JobResult
      BY <1>6 DEF SelectFallback, JobResult
    <2>3. Jobs!Skip
      BY <1>6, <2>1, <2>2, JobsSkip DEF SelectFallback
    <2> QED
      BY <2>2, <2>3 DEF Jobs!Next
  <1>7. ASSUME NEW n \in Present, SelectFailFast(n) PROVE Jobs!Next
    <2>1. n \in Pending
      BY <1>7 DEF SelectFailFast, IsNext, OnceInv, ScanIsPending
    <2>2. Jobs!GiveUp
      BY <1>7, <2>1, JobsGiveUp DEF SelectFailFast, Abort
    <2> QED
      BY <1>7, <2>2 DEF Jobs!Next, SelectFailFast, JobResult
  <1>8. CASE IdleCancel
    <2>1. running = {} /\ cancelFlag
      BY <1>8 DEF IdleCancel, IdleBranch, OnceInv, IdleIsEmpty, MapInv, SeenIsAsked
    <2>2. Jobs!Return
      BY <1>8, <2>1, JobsReturn DEF IdleCancel
    <2> QED
      BY <1>8, <2>2 DEF Jobs!Next, IdleCancel, JobResult
  <1>9. CASE IdleFinish
    <2>1. running = {} /\ Pending = {}
      BY <1>9 DEF IdleFinish, OnceInv, IdleIsEmpty
    <2>2. Jobs!Return
      BY <1>1, <1>9, <2>1, JobsReturn DEF IdleFinish
    <2> QED
      BY <1>9, <2>2 DEF Jobs!Next, IdleFinish, JobResult
  <1>10. ASSUME NEW n \in Present, ResolveOne(n) PROVE Jobs!Next
    <2>1. PICK S \in SUBSET {n} : statuses' = WithStatus(S, "skipped")
      BY <1>1, <1>10 DEF ResolveOne
    <2>2. n \in Pending
      BY <1>10 DEF ResolveOne, OnceInv, ScanIsPending
    <2>3. UNCHANGED <<nodes, running, outputs, cancelFlag, pc>> /\ pc = "resolve"
      BY <1>10 DEF ResolveOne
    <2>4. JobResult = "open" /\ JobResult' = JobResult
      BY <2>3 DEF JobResult
    <2>5. Jobs!Skip
      BY <2>1, <2>2, <2>3, <2>4, JobsSkip
    <2> QED
      BY <2>4, <2>5 DEF Jobs!Next
  <1>11. CASE EndResolve
    <2>1. CASE progressed
      BY <1>11, <2>1, StepUnseen DEF EndResolve, JobResult
    <2>2. CASE ~progressed
      <3>1. Jobs!GiveUp
        BY <1>1, <1>11, <2>2, JobsGiveUp DEF EndResolve, Abort
      <3> QED
        BY <1>11, <3>1 DEF Jobs!Next, EndResolve, JobResult
    <2> QED
      BY <2>1, <2>2
  <1>12. ASSUME NEW n \in running, JoinOk(n) PROVE Jobs!Next
    BY <1>0, <1>12, JobsSucceed DEF Jobs!Next, JoinOk, Joins, JobResult
  <1>13. ASSUME NEW n \in running, JoinErr(n) PROVE Jobs!Next
    BY <1>0, <1>13, JobsFail DEF Jobs!Next, JoinErr, Joins, JobResult
  <1>14. ASSUME NEW n \in running, JoinPanic(n) PROVE Jobs!Next
    <2>1. Jobs!GiveUp
      BY <1>1, <1>14, JobsGiveUp DEF JoinPanic, Abort
    <2> QED
      BY <1>14, <2>1 DEF Jobs!Next, JoinPanic, JobResult
  <1>15. ASSUME NEW r \in Replies, Callback(r) PROVE Jobs!Next
    <2>1. JobResult = "open" /\ JobResult' = JobResult
      BY <1>15 DEF Callback, JobResult
    <2>2. Jobs!Skip
      BY <1>15, <2>1, JobsSkip DEF Callback, Superseded
    <2> QED
      BY <2>1, <2>2 DEF Jobs!Next
  <1>16. CASE AddDynamic
    <2>1. CASE Addable(Head(toAdd))
      BY <1>16, <2>1, JobsGrow DEF Jobs!Next, AddDynamic, JobResult
    <2>2. CASE ~Addable(Head(toAdd))
      <3>1. Jobs!GiveUp
        BY <1>1, <1>16, <2>2, JobsGiveUp DEF AddDynamic, Abort
      <3> QED
        BY <1>16, <3>1 DEF Jobs!Next, AddDynamic, JobResult
    <2> QED
      BY <2>1, <2>2
  (* The caller.                                                           *)
  <1>17. CASE Cancel
    <2>1. /\ JobResult = "open" /\ JobResult' = JobResult /\ cancelFlag'
          /\ UNCHANGED <<nodes, statuses, running, outputs>>
      BY <1>17 DEF Cancel, Done, Notify, JobResult
    <2>2. UNCHANGED <<JobPhase, JobNeeds, JobSpare>>
      BY <2>1 DEF JobPhase, PhaseOf, JobNeeds, JobSpare
    <2>3. cancelFlag' = TRUE
      BY <1>17 DEF Cancel
    <2>4. Jobs!AskToCancel
      BY <2>1, <2>2, <2>3 DEF Jobs!AskToCancel
    <2> QED
      BY <2>1, <2>4 DEF Jobs!Next
  <1> QED
    BY <1>2, <1>3, <1>4, <1>5, <1>6, <1>7, <1>8, <1>9, <1>10, <1>11, <1>12,
       <1>13, <1>14, <1>15, <1>16, <1>17 DEF Next, Loop

(* The graph loop implements the job scheduler, for every graph, every     *)
(* answer of the node-completed callback and every interleaving.           *)
THEOREM RefinesDagScheduler == Spec => ImplementsDagScheduler
  <1>1. Spec => [](TypeOK /\ OnceInv /\ CountInv /\ MapInv)
    BY TypeCorrect, OnceAlways, CountAlways, MapAlways, PTL
  <1> QED
    BY <1>1, JobsInit, JobsStep, PTL DEF Spec, ImplementsDagScheduler, Jobs!Spec
-----------------------------------------------------------------------------
(* What holds only where fallbacks are owned, as in the graphs build_graph  *)
(* makes: a template may name fallbacks as it likes, and then neither       *)
(* property does.                                                          *)

(* The graphs are such ones, and the callback adds no fallbacks.            *)
Built ==
  /\ \A g \in InitialGraphs : OwnedFallbacks(g)
  /\ \A r \in Replies : AddsNoFallback(r)

AddedPlain == \A i \in 1..Len(toAdd) : toAdd[i].fallback = NoNode

FallbacksKnown ==
  /\ OwnedFallbacks(nodes)
  /\ fallbackOnly = FallbacksOf(nodes)
  /\ \A n \in forced : n \in FallbacksOf(nodes) \/ nodes[n].onFail = "continue_on_error"

Nothing(n) == statuses[n] \in {"failed", "skipped"}

(* While o may still succeed, its fallback f waits and is not armed, and   *)
(* once o has succeeded f has been skipped; the others that name f run only *)
(* after that.                                                             *)
SpareWaits(o, f) ==
  /\ statuses[f] \notin {"pending", "skipped"} => Nothing(o)
  /\ f \in forced /\ statuses[f] = "pending" => Nothing(o)
  /\ statuses[o] = "succeeded" => statuses[f] # "pending"
  /\ \A p \in Present \ {o} :
       /\ nodes[p].fallback = f
       /\ statuses[p] \in {"running", "succeeded", "failed"}
       => statuses[o] = "succeeded"

OwnedWait ==
  \A f \in FallbacksOf(nodes), o \in Present : Owns(nodes, o, f) => SpareWaits(o, f)

SpareInv ==
  /\ AddedPlain /\ FallbacksKnown /\ OwnedWait
  /\ \A n \in running : statuses[n] = "running"

LEMMA SpareInit == ASSUME Built PROVE Init => SpareInv
  <1> SUFFICES ASSUME Init PROVE SpareInv
    OBVIOUS
  <1>1. AddedPlain /\ FallbacksKnown
    BY DEF Init, Built, AddedPlain, FallbacksKnown
  <1>2. OwnedWait
    <2> SUFFICES ASSUME NEW f \in FallbacksOf(nodes), NEW o \in Present, Owns(nodes, o, f)
                 PROVE  SpareWaits(o, f)
      BY DEF OwnedWait
    <2>1. f \in Present
      BY <1>1 DEF FallbacksKnown, OwnedFallbacks
    <2> QED
      BY <2>1 DEF SpareWaits, Init
  <1> QED
    BY <1>1, <1>2 DEF Init, SpareInv

(* Steps that only skip waiting nodes, and force none whose owner may      *)
(* still succeed.                                                          *)
LEMMA SpareSkips ==
  ASSUME TypeOK, OnceInv, SpareInv, NEW S \in SUBSET Pending,
         UNCHANGED <<nodes, fallbackOnly, running>>,
         statuses' = WithStatus(S, "skipped"),
         \A n \in forced' \ forced :
           n \in FallbacksOf(nodes) \/ nodes[n].onFail = "continue_on_error",
         \A f \in forced' \ forced, o \in Present :
           Owns(nodes, o, f) /\ statuses'[f] = "pending" => Nothing(o)',
         AddedPlain'
  PROVE  SpareInv'
  <1>1. \A n \in Present : statuses'[n] = IF n \in S THEN "skipped" ELSE statuses[n]
    BY DEF WithStatus
  <1>2. FallbacksKnown'
    BY DEF SpareInv, FallbacksKnown, FallbacksOf
  <1>3. OwnedWait'
    <2> SUFFICES ASSUME NEW f \in FallbacksOf(nodes), NEW o \in Present, Owns(nodes, o, f)
                 PROVE  SpareWaits(o, f)'
      <3>1. nodes' = nodes
        OBVIOUS
      <3> QED
        BY <3>1 DEF OwnedWait
    <2>1. SpareWaits(o, f) /\ f \in Present
      BY DEF SpareInv, OwnedWait, FallbacksKnown, OwnedFallbacks
    <2>2. Nothing(o) => Nothing(o)'
      BY <1>1 DEF Nothing
    <2>3. f \in forced' /\ statuses'[f] = "pending" => Nothing(o)'
      BY <1>1, <2>1, <2>2 DEF SpareWaits
    <2> QED
      BY <1>1, <2>1, <2>2, <2>3 DEF SpareWaits
  <1>4. \A n \in running : n \in Present /\ n \notin S
    BY DEF SpareInv, TypeOK
  <1> QED
    BY <1>1, <1>2, <1>3, <1>4 DEF SpareInv

(* The same for a step that leaves the graph alone.                        *)
LEMMA SpareIdle ==
  ASSUME TypeOK, OnceInv, SpareInv, UNCHANGED <<graphVars, running>>, AddedPlain'
  PROVE  SpareInv'
  <1>1. statuses' = WithStatus({}, "skipped")
    BY DEF TypeOK, WithStatus, graphVars
  <1> QED
    BY <1>1, SpareSkips DEF graphVars

(* n gives way to its fallback when what n waits for came to nothing.      *)
LEMMA GivesWay ==
  ASSUME TypeOK, SpareInv, NEW n \in Present, NEW o \in Present,
         NEW d \in Range(nodes[n].deps), Nothing(d),
         nodes[n].fallback # NoNode, Owns(nodes, o, nodes[n].fallback)
  PROVE  o = n \/ Nothing(o)
  <1>1. CASE o # n
    <2>1. Range(nodes[n].deps) = {o}
      BY <1>1 DEF Owns
    <2> QED
      BY <2>1
  <1> QED
    BY <1>1

(* What dep resolution says of a pending node.                             *)
LEMMA ReadyMeans ==
  ASSUME TypeOK, NEW n \in Present, DepResolution(n) = "ready"
  PROVE  n \in forced \/ (n \notin fallbackOnly /\ \A d \in Range(nodes[n].deps) : ~Stops(n, d))
  <1>1. nodes[n].onFail # "ready"
    BY DEF TypeOK, IsNodeMap, AgentNode, FailurePolicy
  <1> QED
    BY <1>1 DEF DepResolution

LEMMA FallbackMeans ==
  ASSUME TypeOK, NEW n \in Present, DepResolution(n) = "fallback_node"
  PROVE  \E d \in Range(nodes[n].deps) : Nothing(d)
  <1> DEFINE deps == nodes[n].deps
             Stopped(i) == Stops(n, deps[i]) /\ \A j \in 1..(i - 1) : ~Stops(n, deps[j])
             first == CHOOSE i \in DOMAIN deps : Stopped(i)
  <1>1. deps \in Seq(NodeId) /\ Range(deps) \subseteq Present
    BY DEF TypeOK, IsNodeMap, AgentNode
  <1>2. \E d \in Range(deps) : Stops(n, d)
    BY DEF DepResolution
  <1>3. statuses[deps[first]] \in Terminal
    BY <1>2 DEF DepResolution
  <1>4. \E i \in DOMAIN deps : Stopped(i)
    <2>1. PICK k \in 1..Len(deps) : Stops(n, deps[k])
      BY <1>1, <1>2 DEF Range
    <2> DEFINE K == {i \in 1..Len(deps) : Stops(n, deps[i])}
    <2>2. PICK i \in K : \A j \in K : i =< j
      <3>1. K \subseteq Nat /\ K # {}
        BY <1>1, <2>1
      <3> HIDE DEF K
      <3> QED
        BY <3>1, LeastNumber
    <2>3. i \in DOMAIN deps /\ Stopped(i)
      BY <1>1, <2>2
    <2> QED
      BY <2>3
  <1>5. first \in DOMAIN deps /\ Stopped(first)
    <2> HIDE DEF Stopped
    <2> QED
      BY <1>4
  <1>6. deps[first] \in Range(deps) /\ Nothing(deps[first])
    <2>1. deps[first] \in Range(deps)
      BY <1>5 DEF Range
    <2>2. statuses[deps[first]] # "succeeded"
      BY <1>5 DEF Stops
    <2> QED
      BY <1>1, <1>3, <2>1, <2>2 DEF TypeOK, Nothing
  <1> QED
    BY <1>6

LEMMA SpareLaunch ==
  ASSUME TypeOK, OnceInv, SpareInv, NEW n \in Present, Launch(n)
  PROVE  SpareInv'
  <1>1. /\ n \in Pending /\ n \notin running /\ DepResolution(n) = "ready"
        /\ UNCHANGED <<nodes, fallbackOnly, toAdd>>
        /\ statuses' = WithStatus({n}, "running") /\ running' = running \cup {n}
        /\ forced' = forced \ {n}
    BY DEF Launch, IsNext, Decidable, OnceInv, ScanIsPending
  <1>2. \A m \in Present : statuses'[m] = IF m = n THEN "running" ELSE statuses[m]
    BY <1>1 DEF WithStatus
  <1>3. AddedPlain' /\ FallbacksKnown'
    BY <1>1 DEF SpareInv, AddedPlain, FallbacksKnown, FallbacksOf
  <1>4. OwnedWait'
    <2> SUFFICES ASSUME NEW f \in FallbacksOf(nodes), NEW o \in Present, Owns(nodes, o, f)
                 PROVE  SpareWaits(o, f)'
      <3>1. nodes' = nodes
        BY <1>1
      <3> QED
        BY <3>1 DEF OwnedWait
    <2>1. SpareWaits(o, f) /\ f \in Present /\ fallbackOnly = FallbacksOf(nodes)
      BY DEF SpareInv, OwnedWait, FallbacksKnown, OwnedFallbacks
    <2>2. Nothing(o) => Nothing(o)' /\ o # n
      BY <1>1, <1>2 DEF Nothing
    <2>3. CASE f = n
      <3>1. f \in forced
        BY <1>1, <2>1, <2>3, ReadyMeans
      <3>2. Nothing(o)
        BY <1>1, <2>1, <2>3, <3>1 DEF SpareWaits
      <3>3. o # n /\ statuses'[o] = statuses[o]
        BY <1>2, <2>2, <3>2
      <3>4. ASSUME NEW p \in Present \ {o}, nodes[p].fallback = f,
                   statuses'[p] \in {"running", "succeeded", "failed"}
            PROVE  statuses'[o] = "succeeded"
        <4>1. p # n
          <5>1. p \notin FallbacksOf(nodes)
            BY <3>4 DEF Owns
          <5> QED
            BY <2>3, <5>1
        <4> QED
          BY <1>2, <2>1, <3>3, <3>4, <4>1 DEF SpareWaits
      <3> QED
        BY <1>1, <1>2, <2>2, <2>3, <3>2, <3>3, <3>4 DEF SpareWaits, Nothing
    <2>4. CASE f # n
      <3>1. ASSUME NEW p \in Present \ {o}, nodes[p].fallback = f,
                   statuses'[p] \in {"running", "succeeded", "failed"}
            PROVE  statuses'[o] = "succeeded"
        <4>1. CASE p = n
          <5>1. /\ Range(nodes[p].deps) = {o} /\ nodes[p].onFail = "fallback_node"
                /\ p \notin FallbacksOf(nodes)
            BY <3>1 DEF Owns
          <5>2. p \notin forced
            BY <5>1 DEF SpareInv, FallbacksKnown
          <5>3. ~Stops(p, o)
            BY <1>1, <4>1, <5>1, <5>2, ReadyMeans
          <5>4. statuses[o] = "succeeded"
            BY <5>1, <5>3 DEF Stops
          <5> QED
            BY <1>2, <3>1, <4>1, <5>4
        <4>2. CASE p # n
          <5>1. statuses[o] = "succeeded"
            BY <1>2, <2>1, <3>1, <4>2 DEF SpareWaits
          <5> QED
            BY <1>1, <1>2, <5>1
        <4> QED
          BY <4>1, <4>2
      <3>2. statuses'[f] = statuses[f] /\ (statuses'[o] = "succeeded" => statuses[o] = "succeeded")
        BY <1>2, <2>1, <2>4
      <3> QED
        BY <1>1, <2>1, <2>2, <3>1, <3>2 DEF SpareWaits
    <2> QED
      BY <2>3, <2>4
  <1> QED
    BY <1>1, <1>2, <1>3, <1>4 DEF SpareInv, TypeOK

LEMMA SpareJoinErr ==
  ASSUME TypeOK, OnceInv, SpareInv, NEW n \in running, JoinErr(n)
  PROVE  SpareInv'
  <1>1. /\ n \in Present /\ statuses[n] = "running"
        /\ UNCHANGED <<nodes, fallbackOnly, toAdd>>
        /\ running' = running \ {n} /\ forced' = WithForced(nodes[n].fallback)
    BY DEF JoinErr, Joins, TypeOK, SpareInv, loopVars
  <1>2. \A m \in Present : statuses'[m] = IF m = n THEN "failed" ELSE statuses[m]
    BY DEF JoinErr, WithStatus
  <1>3. AddedPlain' /\ FallbacksKnown'
    <2>1. \A m \in forced' \ forced : m \in FallbacksOf(nodes)
      BY <1>1, NodeIdAssumption DEF WithForced, FallbacksOf, TypeOK, IsNodeMap
    <2> QED
      BY <1>1, <2>1 DEF SpareInv, AddedPlain, FallbacksKnown, FallbacksOf
  <1>4. OwnedWait'
    <2> SUFFICES ASSUME NEW f \in FallbacksOf(nodes), NEW o \in Present, Owns(nodes, o, f)
                 PROVE  SpareWaits(o, f)'
      <3>1. nodes' = nodes
        BY <1>1
      <3> QED
        BY <3>1 DEF OwnedWait
    <2>1. SpareWaits(o, f) /\ f \in Present
      BY DEF SpareInv, OwnedWait, FallbacksKnown, OwnedFallbacks
    <2>2. Nothing(o) => Nothing(o)'
      BY <1>2 DEF Nothing
    <2>3. f \in forced' /\ statuses'[f] = "pending" => Nothing(o)'
      <3> SUFFICES ASSUME f \in forced', statuses'[f] = "pending" PROVE Nothing(o)'
        OBVIOUS
      <3>0. statuses[f] = "pending"
        BY <1>2, <2>1
      <3>1. CASE f \in forced
        BY <2>1, <2>2, <3>0, <3>1 DEF SpareWaits
      <3>2. CASE f \notin forced
        <4>1. nodes[n].fallback = f
          BY <1>1, <3>2 DEF WithForced
        <4>2. CASE n = o
          BY <1>2, <4>2 DEF Nothing
        <4>3. CASE n # o
          <5>1. statuses[o] = "succeeded"
            BY <1>1, <2>1, <4>1, <4>3 DEF SpareWaits
          <5> QED
            BY <2>1, <3>0, <5>1 DEF SpareWaits
        <4> QED
          BY <4>2, <4>3
      <3> QED
        BY <3>1, <3>2
    <2>4. statuses'[f] \notin {"pending", "skipped"} => Nothing(o)'
      BY <1>1, <1>2, <2>1, <2>2 DEF SpareWaits
    <2>5. ASSUME NEW p \in Present \ {o}, nodes[p].fallback = f,
                 statuses'[p] \in {"running", "succeeded", "failed"}
          PROVE  statuses'[o] = "succeeded"
      <3>1. statuses[o] = "succeeded"
        BY <1>1, <1>2, <2>1, <2>5 DEF SpareWaits
      <3> QED
        BY <1>1, <1>2, <3>1
    <2> QED
      BY <1>1, <1>2, <2>1, <2>3, <2>4, <2>5 DEF SpareWaits
  <1> QED
    BY <1>1, <1>2, <1>3, <1>4 DEF SpareInv, TypeOK

(* The fallback a success skips is one that waits or was skipped before.   *)
LEMMA SkipsWaiting ==
  ASSUME TypeOK, SpareInv, NEW n \in running, NEW f \in UnneededFallback(n)
  PROVE  f \in Present /\ f \in FallbacksOf(nodes) /\ statuses[f] \in {"pending", "skipped"}
  <1>1. n \in Present /\ statuses[n] = "running"
    BY DEF TypeOK, SpareInv
  <1>2. f = nodes[n].fallback /\ f \in FallbacksOf(nodes)
    BY DEF UnneededFallback, SpareInv, FallbacksKnown
  <1>3. PICK o \in Present : Owns(nodes, o, f)
    BY <1>2 DEF SpareInv, FallbacksKnown, OwnedFallbacks
  <1>4. SpareWaits(o, f) /\ f \in Present
    BY <1>2, <1>3 DEF SpareInv, OwnedWait, FallbacksKnown, OwnedFallbacks
  <1>5. ~Nothing(o)
    <2>1. CASE n = o
      BY <1>1, <2>1 DEF Nothing
    <2>2. CASE n # o
      <3>1. statuses[o] = "succeeded"
        BY <1>1, <1>2, <1>4, <2>2 DEF SpareWaits
      <3> QED
        BY <3>1 DEF Nothing
    <2> QED
      BY <2>1, <2>2
  <1> QED
    BY <1>2, <1>4, <1>5 DEF SpareWaits

LEMMA SpareJoinOk ==
  ASSUME TypeOK, OnceInv, SpareInv, NEW n \in running, JoinOk(n)
  PROVE  SpareInv'
  <1>1. /\ n \in Present /\ statuses[n] = "running"
        /\ UNCHANGED <<nodes, forced, fallbackOnly, toAdd>>
        /\ running' = running \ {n}
    BY DEF JoinOk, Joins, TypeOK, SpareInv
  <1>2. \A m \in Present : statuses'[m] = IF m \in UnneededFallback(n) THEN "skipped"
                                         ELSE IF m = n THEN "succeeded" ELSE statuses[m]
    BY DEF JoinOk
  <1>3. AddedPlain' /\ FallbacksKnown'
    BY <1>1 DEF SpareInv, AddedPlain, FallbacksKnown, FallbacksOf
  <1>4. \A m \in UnneededFallback(n) : m \in Present /\ statuses[m] \in {"pending", "skipped"}
    BY SkipsWaiting
  <1>5. \A m \in Present : statuses'[m] =
          IF m = n THEN "succeeded" ELSE IF m \in UnneededFallback(n) THEN "skipped"
          ELSE statuses[m]
    BY <1>1, <1>2, <1>4
  <1>6. OwnedWait'
    <2> SUFFICES ASSUME NEW f \in FallbacksOf(nodes), NEW o \in Present, Owns(nodes, o, f)
                 PROVE  SpareWaits(o, f)'
      <3>1. nodes' = nodes
        BY <1>1
      <3> QED
        BY <3>1 DEF OwnedWait
    <2>1. SpareWaits(o, f) /\ f \in Present
      BY DEF SpareInv, OwnedWait, FallbacksKnown, OwnedFallbacks
    <2>2. Nothing(o) => Nothing(o)'
      BY <1>1, <1>5 DEF Nothing
    <2>3. statuses'[o] = "succeeded" => statuses'[f] # "pending"
      <3>1. CASE o = n
        <4>1. statuses[f] \in {"pending", "skipped"} /\ f # n
          BY <1>1, <2>1, <3>1 DEF SpareWaits, Nothing
        <4>2. CASE f \in forced
          BY <1>1, <1>5, <2>1, <3>1, <4>1, <4>2 DEF SpareWaits, Nothing
        <4>3. CASE f \notin forced
          <5>1. f \in UnneededFallback(n)
            BY <3>1, <4>3 DEF UnneededFallback, Owns, SpareInv, FallbacksKnown
          <5> QED
            BY <1>2, <2>1, <5>1
        <4> QED
          BY <4>2, <4>3
      <3>2. CASE o # n
        BY <1>5, <2>1, <3>2 DEF SpareWaits
      <3> QED
        BY <3>1, <3>2
    <2>4. ASSUME NEW p \in Present \ {o}, nodes[p].fallback = f,
                 statuses'[p] \in {"running", "succeeded", "failed"}
          PROVE  statuses'[o] = "succeeded"
      <3>1. statuses[p] \in {"running", "succeeded", "failed"}
        BY <1>1, <1>5, <2>4
      <3>2. statuses[o] = "succeeded"
        BY <2>1, <2>4, <3>1 DEF SpareWaits
      <3> QED
        BY <1>4, <1>5, <3>2
    <2>5. statuses'[f] \notin {"pending", "skipped"} => Nothing(o)'
      BY <1>1, <1>5, <2>1, <2>2 DEF SpareWaits
    <2>6. f \in forced' /\ statuses'[f] = "pending" => Nothing(o)'
      BY <1>1, <1>5, <2>1, <2>2 DEF SpareWaits
    <2> QED
      BY <1>1, <2>3, <2>4, <2>5, <2>6 DEF SpareWaits
  <1>7. \A m \in running' : statuses'[m] = "running"
    <2> SUFFICES ASSUME NEW m \in running' PROVE statuses'[m] = "running"
      OBVIOUS
    <2>1. m \in running /\ m # n /\ m \in Present /\ statuses[m] = "running"
      BY <1>1 DEF SpareInv, TypeOK
    <2> QED
      BY <1>4, <1>5, <2>1
  <1> QED
    BY <1>3, <1>6, <1>7 DEF SpareInv

(* A node that is added names no fallback and is nobody's.                 *)
LEMMA SpareAdd ==
  ASSUME TypeOK, OnceInv, SpareInv, AddDynamic
  PROVE  SpareInv'
  <1> DEFINE x == Head(toAdd)
  <1>1. /\ toAdd \in Seq(AgentNode) /\ toAdd # << >> /\ toAdd' = Tail(toAdd)
        /\ x \in AgentNode /\ x.fallback = NoNode
        /\ UNCHANGED <<forced, running>>
    BY DEF AddDynamic, TypeOK, SpareInv, AddedPlain
  <1>2. AddedPlain'
    <2>1. \A i \in 1..Len(Tail(toAdd)) : Tail(toAdd)[i] = toAdd[i + 1] /\ i + 1 \in 1..Len(toAdd)
      BY <1>1
    <2> QED
      BY <1>1, <2>1 DEF SpareInv, AddedPlain
  <1>3. CASE ~Addable(x)
    BY <1>2, <1>3, SpareIdle DEF AddDynamic, graphVars
  <1>4. CASE Addable(x)
    <2>1. x.id \notin Present /\ AddNode(x)
      BY <1>4 DEF AddDynamic, Addable
    <2> HIDE DEF x
    <2>2. /\ DOMAIN nodes' = Present \cup {x.id}
          /\ nodes'[x.id] = x /\ statuses'[x.id] = "pending"
          /\ \A m \in Present : nodes'[m] = nodes[m] /\ statuses'[m] = statuses[m]
      BY <2>1 DEF AddNode
    <2>3. FallbacksOf(nodes') = FallbacksOf(nodes)
      BY <1>1, <2>2 DEF FallbacksOf
    <2>4. \A f \in FallbacksOf(nodes) : f \in Present
      BY DEF SpareInv, FallbacksKnown, OwnedFallbacks
    <2>5. \A f \in FallbacksOf(nodes), o \in Present : Owns(nodes', o, f) <=> Owns(nodes, o, f)
      <3> SUFFICES ASSUME NEW f \in FallbacksOf(nodes), NEW o \in Present
                   PROVE  Owns(nodes', o, f) <=> Owns(nodes, o, f)
        OBVIOUS
      <3>1. nodes'[f] = nodes[f] /\ nodes'[o] = nodes[o] /\ x.fallback # f
        BY <1>1, <2>2, <2>4 DEF FallbacksOf
      <3> QED
        BY <2>2, <2>3, <3>1 DEF Owns
    <2>6. fallbackOnly' = FallbacksOf(nodes')
      BY <1>1, <2>1, <2>3, <2>4 DEF AddNode, SpareInv, FallbacksKnown
    <2>7. FallbacksKnown'
      <3>1. OwnedFallbacks(nodes')
        BY <2>2, <2>3, <2>4, <2>5 DEF OwnedFallbacks, SpareInv, FallbacksKnown
      <3>2. \A m \in forced' : m \in FallbacksOf(nodes') \/ nodes'[m].onFail = "continue_on_error"
        BY <1>1, <2>2, <2>3 DEF SpareInv, FallbacksKnown, TypeOK
      <3> QED
        BY <2>6, <3>1, <3>2 DEF FallbacksKnown
    <2>8. OwnedWait'
      <3> SUFFICES ASSUME NEW f \in FallbacksOf(nodes), NEW o \in DOMAIN nodes', Owns(nodes', o, f)
                   PROVE  SpareWaits(o, f)'
        BY <2>3 DEF OwnedWait
      <3>1. o \in Present
        BY <1>1, <2>2 DEF Owns, FallbacksOf
      <3>2. SpareWaits(o, f) /\ f \in Present /\ x.fallback # f
        BY <1>1, <2>4, <2>5, <3>1 DEF SpareInv, OwnedWait, FallbacksOf
      <3> QED
        BY <1>1, <2>2, <3>1, <3>2 DEF SpareWaits, Nothing
    <2>9. \A m \in running' : statuses'[m] = "running"
      BY <1>1, <2>2 DEF SpareInv, TypeOK
    <2> QED
      BY <1>2, <2>7, <2>8, <2>9 DEF SpareInv
  <1> QED
    BY <1>3, <1>4

LEMMA SpareStep == ASSUME Built PROVE TypeOK /\ OnceInv /\ SpareInv /\ [Next]_vars => SpareInv'
  <1> SUFFICES ASSUME TypeOK, OnceInv, SpareInv, [Next]_vars PROVE SpareInv'
    OBVIOUS
  <1> USE DEF graphVars, taskVars, loopVars, controlVars
  <1>0. ASSUME UNCHANGED toAdd PROVE AddedPlain'
    BY <1>0 DEF SpareInv, AddedPlain
  <1>00. statuses = WithStatus({}, "skipped")
    BY DEF TypeOK, WithStatus
  (* Steps that leave the graph alone.                                     *)
  <1>1. CASE LoopTop \/ BeginSelect \/ EndLaunch \/ IdlePark \/ ParkTimeout
             \/ IdleFinish \/ BeginResolve \/ AddedAll \/ EndResolve
    BY <1>0, <1>1, SpareIdle DEF LoopTop, BeginSelect, EndLaunch, IdlePark,
       ParkTimeout, IdleFinish, BeginResolve, AddedAll, EndResolve
  <1>2. ASSUME NEW n \in running, JoinPanic(n) PROVE SpareInv'
    BY <1>0, <1>2, SpareIdle DEF JoinPanic
  <1>3. ASSUME NEW n \in NodeId, WorkerEnds(n) PROVE SpareInv'
    BY <1>0, <1>3, SpareIdle DEF WorkerEnds
  <1>4. CASE Cancel \/ Pause \/ Resume \/ Returned \/ UNCHANGED vars
    BY <1>0, <1>4, SpareIdle DEF Cancel, Pause, Resume, Returned, vars
  (* Steps that change it.                                                 *)
  <1>5. ASSUME NEW n \in Present, Launch(n) PROVE SpareInv'
    BY <1>5, SpareLaunch
  <1>6. ASSUME NEW n \in Present, SelectFallback(n) PROVE SpareInv'
    <2>1. /\ n \in Pending /\ UNCHANGED <<nodes, fallbackOnly, running, toAdd>>
          /\ statuses' = WithStatus({n}, "skipped")
          /\ forced' = WithForced(nodes[n].fallback)
      BY <1>6 DEF SelectFallback, IsNext, OnceInv, ScanIsPending
    <2>2. \A f \in forced' \ forced : f = nodes[n].fallback /\ f \in FallbacksOf(nodes)
      BY <2>1, NodeIdAssumption DEF WithForced, FallbacksOf, TypeOK, IsNodeMap
    <2>3. ASSUME NEW f \in forced' \ forced, NEW o \in Present, Owns(nodes, o, f)
          PROVE  Nothing(o)'
      <3>1. nodes[n].fallback = f /\ nodes[n].fallback # NoNode
        BY <2>2 DEF FallbacksOf
      <3>2. PICK d \in Range(nodes[n].deps) : Nothing(d)
        BY <1>6, FallbackMeans DEF SelectFallback
      <3>3. o = n \/ Nothing(o)
        BY <2>3, <3>1, <3>2, GivesWay
      <3> QED
        BY <2>1, <3>3 DEF Nothing, WithStatus
    <2> QED
      BY <1>0, <2>1, <2>2, <2>3, SpareSkips
  <1>7. ASSUME NEW n \in Present, SelectFailFast(n) PROVE SpareInv'
    <2>1. n \in Pending
      BY <1>7 DEF SelectFailFast, IsNext, OnceInv, ScanIsPending
    <2> QED
      BY <1>0, <1>7, <2>1, SpareSkips DEF SelectFailFast
  <1>8. CASE IdleCancel
    BY <1>0, <1>8, SpareSkips DEF IdleCancel
  <1>9. ASSUME NEW n \in Present, ResolveOne(n) PROVE SpareInv'
    <2>1. /\ n \in Pending /\ nodes[n].onFail \in FailurePolicy
          /\ UNCHANGED <<nodes, fallbackOnly, running, toAdd>>
      BY <1>9 DEF ResolveOne, OnceInv, ScanIsPending, TypeOK, IsNodeMap, AgentNode
    <2>2. CASE ~Resolvable(n) \/ nodes[n].onFail = "fail_fast"
      <3>1. forced' = forced
        BY <1>9, <2>2 DEF ResolveOne
      <3>2. PICK S \in SUBSET {n} : statuses' = WithStatus(S, "skipped")
        BY <1>00, <1>9 DEF ResolveOne
      <3> QED
        BY <1>0, <2>1, <3>1, <3>2, SpareSkips
    <2>3. CASE Resolvable(n) /\ nodes[n].onFail = "continue_on_error"
      <3>1. statuses' = WithStatus({}, "skipped") /\ forced' = WithForced(n)
        BY <1>00, <1>9, <2>3 DEF ResolveOne
      <3>2. \A f \in forced' \ forced : f = n
        BY <3>1 DEF WithForced
      <3>3. ASSUME NEW f \in forced' \ forced, NEW o \in Present, Owns(nodes, o, f)
            PROVE  Nothing(o)'
        <4>1. o \in Range(nodes[n].deps) /\ f = n
          BY <2>3, <3>2, <3>3 DEF Owns
        <4>2. statuses[o] \in Terminal
          BY <2>3, <4>1 DEF Resolvable
        <4>3. f \in FallbacksOf(nodes)
          <5>1. f # NoNode
            BY <4>1, NodeIdAssumption DEF TypeOK, IsNodeMap
          <5>2. nodes[o].fallback = f
            BY <3>3 DEF Owns
          <5> QED
            BY <5>1, <5>2 DEF FallbacksOf
        <4>4. statuses[o] # "succeeded"
          BY <2>1, <3>3, <4>1, <4>3 DEF SpareInv, OwnedWait, SpareWaits
        <4> QED
          BY <3>1, <4>2, <4>4 DEF Nothing, WithStatus
      <3> QED
        BY <1>0, <2>1, <2>3, <3>1, <3>2, <3>3, SpareSkips
    <2>4. CASE Resolvable(n) /\ nodes[n].onFail = "fallback_node"
      <3>1. statuses' = WithStatus({n}, "skipped") /\ forced' = WithForced(nodes[n].fallback)
        BY <1>9, <2>4 DEF ResolveOne
      <3>2. \A f \in forced' \ forced : f = nodes[n].fallback /\ f \in FallbacksOf(nodes)
        BY <3>1, NodeIdAssumption DEF WithForced, FallbacksOf, TypeOK, IsNodeMap
      <3>3. ASSUME NEW f \in forced' \ forced, NEW o \in Present, Owns(nodes, o, f)
            PROVE  Nothing(o)'
        <4>1. nodes[n].fallback = f /\ nodes[n].fallback # NoNode
          BY <3>2 DEF FallbacksOf
        <4>2. PICK d \in Range(nodes[n].deps) : Nothing(d)
          BY <2>4 DEF Resolvable, Nothing
        <4>3. o = n \/ Nothing(o)
          BY <3>3, <4>1, <4>2, GivesWay
        <4> QED
          BY <3>1, <4>3 DEF Nothing, WithStatus
      <3> QED
        BY <1>0, <2>1, <3>1, <3>2, <3>3, SpareSkips
    <2> QED
      BY <2>1, <2>2, <2>3, <2>4 DEF FailurePolicy
  <1>10. ASSUME NEW n \in running, JoinOk(n) PROVE SpareInv'
    BY <1>10, SpareJoinOk
  <1>11. ASSUME NEW n \in running, JoinErr(n) PROVE SpareInv'
    BY <1>11, SpareJoinErr
  <1>12. ASSUME NEW r \in Replies, Callback(r) PROVE SpareInv'
    <2>1. AddedPlain'
      BY <1>12 DEF Callback, Built, AddsNoFallback, AddedPlain
    <2> QED
      BY <1>12, <2>1, SpareSkips DEF Callback, Superseded
  <1>13. CASE AddDynamic
    BY <1>13, SpareAdd
  <1> QED
    BY <1>1, <1>2, <1>3, <1>4, <1>5, <1>6, <1>7, <1>8, <1>9, <1>10, <1>11,
       <1>12, <1>13 DEF Next, Loop

LEMMA SpareAlways == ASSUME Built PROVE Spec => []SpareInv
  BY TypeInit, TypeStep, OnceInit, OnceStep, SpareInit, SpareStep, PTL DEF Spec

LEMMA EndedKept ==
  ASSUME TypeOK, OnceInv, SpareInv, [Next]_vars, NEW n \in Present,
         statuses[n] \in Terminal
  PROVE  statuses'[n] = statuses[n]
  <1> USE DEF graphVars, taskVars, loopVars, controlVars
  <1>0. n \notin Pending
    OBVIOUS
  <1>1. CASE UNCHANGED statuses
    BY <1>1
  <1>2. CASE \E S \in SUBSET Pending, s \in NodeStatus : statuses' = WithStatus(S, s)
    BY <1>0, <1>2 DEF WithStatus
  <1>3. CASE LoopTop \/ BeginSelect \/ EndLaunch \/ IdlePark \/ ParkTimeout
             \/ IdleFinish \/ BeginResolve \/ AddedAll \/ EndResolve
    BY <1>3 DEF LoopTop, BeginSelect, EndLaunch, IdlePark,
       ParkTimeout, IdleFinish, BeginResolve, AddedAll, EndResolve
  <1>4. ASSUME NEW m \in running, JoinPanic(m) PROVE statuses' = statuses
    BY <1>4 DEF JoinPanic
  <1>5. ASSUME NEW m \in NodeId, WorkerEnds(m) PROVE statuses' = statuses
    BY <1>5 DEF WorkerEnds
  <1>6. CASE Cancel \/ Pause \/ Resume \/ Returned \/ UNCHANGED vars
    BY <1>6 DEF Cancel, Pause, Resume, Returned, vars
  <1>7. ASSUME NEW m \in Present, Launch(m) \/ SelectFallback(m) \/ SelectFailFast(m)
        PROVE  statuses'[n] = statuses[n]
    <2>1. m \in Pending
      BY <1>7 DEF Launch, SelectFallback, SelectFailFast, IsNext, OnceInv, ScanIsPending
    <2>2. \E s \in NodeStatus : statuses' = WithStatus({m}, s)
      BY <1>7 DEF Launch, SelectFallback, SelectFailFast
    <2> QED
      BY <1>2, <2>1, <2>2
  <1>8. CASE IdleCancel
    BY <1>2, <1>8 DEF IdleCancel
  <1>9. ASSUME NEW m \in Present, ResolveOne(m) PROVE statuses'[n] = statuses[n]
    <2>1. m \in Pending
      BY <1>9 DEF ResolveOne, OnceInv, ScanIsPending
    <2>2. statuses' = statuses \/ statuses' = WithStatus({m}, "skipped")
      BY <1>9 DEF ResolveOne
    <2> QED
      BY <1>2, <2>1, <2>2
  <1>10. ASSUME NEW m \in running, JoinOk(m) PROVE statuses'[n] = statuses[n]
    <2>1. n # m
      BY DEF SpareInv
    <2>2. n \in UnneededFallback(m) => statuses[n] = "skipped"
      BY SkipsWaiting
    <2> QED
      BY <1>10, <2>1, <2>2 DEF JoinOk
  <1>11. ASSUME NEW m \in running, JoinErr(m) PROVE statuses'[n] = statuses[n]
    <2>1. n # m
      BY DEF SpareInv
    <2> QED
      BY <1>11, <2>1 DEF JoinErr, WithStatus
  <1>12. ASSUME NEW r \in Replies, Callback(r) PROVE statuses'[n] = statuses[n]
    BY <1>2, <1>12 DEF Callback, Superseded
  <1>13. CASE AddDynamic
    BY <1>13 DEF AddDynamic, Addable, AddNode
  <1> QED
    BY <1>1, <1>3, <1>4, <1>5, <1>6, <1>7, <1>8, <1>9, <1>10, <1>11,
       <1>12, <1>13 DEF Next, Loop

(* In the graphs build_graph makes, whatever the callback adds and the     *)
(* order in which tasks end, a status that a node ended with is final.      *)
THEOREM EndedForGoodHolds == ASSUME Built PROVE Spec => EndedForGood
  <1>1. TypeOK /\ OnceInv /\ SpareInv /\ [Next]_vars
          => [\A n \in Present : statuses[n] \in Terminal => statuses'[n] = statuses[n]]_vars
    BY EndedKept
  <1> QED
    BY <1>1, TypeCorrect, OnceAlways, SpareAlways, PTL DEF Spec, EndedForGood

-----------------------------------------------------------------------------
(* No pass of the resolver is in vain.                                     *)

(* A waiting node that select_next_node would launch if it had room.       *)
Startable(n) ==
  /\ n \in Pending
  /\ n \notin fallbackOnly
  /\ \A d \in Range(nodes[n].deps) : statuses[d] = "succeeded"

(* While nothing runs the launch loop misses no startable node, so that     *)
(* there is none when it gives up; and the resolver has seen every waiting  *)
(* node that is not in its snapshot any more.                               *)
NothingMissed ==
  /\ pc = "select" /\ running = {} => \A n \in Present : Startable(n) => n \in scan
  /\ (pc = "idle" /\ IdleBranch = "settle") \/ pc = "resolve" =>
       \A n \in Present : ~Startable(n)
  /\ pc = "resolve" /\ ~progressed =>
       Pending # {} /\ \A n \in Pending \ scan : ~Resolvable(n)

MissInv == Acyclic(nodes) /\ NothingMissed

(* add_node's cycle check never finds one: a node that is added depends on  *)
(* nodes that are there, and none of them on it.                            *)
LEMMA AddKeepsAcyclic ==
  ASSUME TypeOK, Acyclic(nodes), NEW x, Addable(x), AddNode(x)
  PROVE  Acyclic(nodes')
  <1>1. /\ DOMAIN nodes' = Present \cup {x.id} /\ x.id \notin Present
        /\ nodes'[x.id] = x /\ \A m \in Present : nodes'[m] = nodes[m]
        /\ Range(x.deps) \subseteq Present
    BY DEF Addable, AddNode
  <1> SUFFICES ASSUME NEW S \in SUBSET (Present \cup {x.id}), S # {}
               PROVE  \E n \in S : Range(nodes'[n].deps) \cap S = {}
    BY <1>1 DEF Acyclic
  <1>2. CASE S = {x.id}
    BY <1>1, <1>2
  <1>3. CASE S # {x.id}
    <2>1. S \ {x.id} \in SUBSET Present /\ S \ {x.id} # {}
      BY <1>3
    <2>2. PICK n \in S \ {x.id} : Range(nodes[n].deps) \cap (S \ {x.id}) = {}
      BY <2>1 DEF Acyclic
    <2>3. Range(nodes[n].deps) \subseteq Present
      BY <2>1 DEF TypeOK, IsNodeMap
    <2> QED
      BY <1>1, <2>1, <2>2, <2>3
  <1> QED
    BY <1>2, <1>3

(* With nothing running a startable node is decided about, for its role    *)
(* has room.                                                               *)
LEMMA StartableIsDecidable ==
  ASSUME TypeOK, CountInv, running = {}, NEW n \in Present, Startable(n)
  PROVE  Decidable(n)
  <1>1. nodes[n].role \in Role /\ nodes[n].limit \in Nat
    BY DEF TypeOK, IsNodeMap, AgentNode
  <1>2. roleCount[nodes[n].role] = 0
    <2>1. RunningOf(nodes[n].role) = {}
      BY DEF RunningOf
    <2> QED
      BY <1>1, <2>1, FS_EmptySet DEF CountInv, RolesCounted
  <1>3. roleCount[nodes[n].role] < RoleLimit(n)
    BY <1>1, <1>2 DEF RoleLimit
  <1>4. DepResolution(n) = "ready"
    BY DEF DepResolution, Startable, Stops
  <1> QED
    BY <1>3, <1>4 DEF Decidable

LEMMA MissInit == Init => MissInv
  BY GraphsAssumption DEF Init, MissInv, NothingMissed

LEMMA MissStep == TypeOK /\ OnceInv /\ CountInv /\ MissInv /\ [Next]_vars => MissInv'
  <1> SUFFICES ASSUME TypeOK, OnceInv, CountInv, MissInv, [Next]_vars PROVE MissInv'
    OBVIOUS
  <1> USE DEF graphVars, taskVars, loopVars, controlVars
  (* Only the launch loop and the resolver reach the places it is about.   *)
  <1>0. ASSUME nodes' = nodes, pc' \notin {"select", "idle", "resolve"} PROVE MissInv'
    BY <1>0 DEF MissInv, NothingMissed
  <1>1. ASSUME UNCHANGED <<graphVars, running, pc, scan, progressed, cancelSeen, pauseSeen>>
        PROVE  MissInv'
    BY <1>1 DEF MissInv, NothingMissed, Startable, Resolvable, IdleBranch
  <1>2. CASE LoopTop \/ IdlePark \/ ParkTimeout \/ IdleFinish \/ IdleCancel
             \/ EndResolve \/ AddedAll
    BY <1>0, <1>2 DEF LoopTop, IdlePark, ParkTimeout, IdleFinish, IdleCancel,
       EndResolve, AddedAll, Abort
  <1>3. ASSUME NEW n \in running, JoinPanic(n) \/ JoinOk(n) \/ JoinErr(n) PROVE MissInv'
    BY <1>0, <1>3 DEF JoinPanic, JoinOk, JoinErr, Abort
  <1>4. ASSUME NEW n \in NodeId, WorkerEnds(n) PROVE MissInv'
    BY <1>1, <1>4 DEF WorkerEnds
  <1>5. CASE Returned \/ UNCHANGED vars
    BY <1>1, <1>5 DEF Returned, vars
  <1>6. CASE Cancel \/ Pause \/ Resume
    <2>1. CASE pc = "parked"
      BY <1>0, <1>6, <2>1 DEF Cancel, Pause, Resume, Notify
    <2>2. CASE pc # "parked"
      BY <1>1, <1>6, <2>2 DEF Cancel, Pause, Resume, Notify
    <2> QED
      BY <2>1, <2>2
  <1>7. ASSUME NEW n \in Present, Launch(n) \/ SelectFailFast(n) PROVE MissInv'
    BY <1>0, <1>7 DEF Launch, SelectFailFast, Abort
  <1>8. ASSUME NEW r \in Replies, Callback(r) PROVE MissInv'
    BY <1>0, <1>8 DEF Callback
  <1>9. CASE AddDynamic
    <2>1. CASE Addable(Head(toAdd))
      <3>1. pc' = "adding" /\ Acyclic(nodes')
        BY <1>9, <2>1, AddKeepsAcyclic DEF AddDynamic, MissInv
      <3> QED
        BY <3>1 DEF MissInv, NothingMissed
    <2>2. CASE ~Addable(Head(toAdd))
      BY <1>0, <1>9, <2>2 DEF AddDynamic, Abort
    <2> QED
      BY <2>1, <2>2
  (* The launch loop.                                                      *)
  <1>10. CASE BeginSelect
    BY <1>10 DEF BeginSelect, MissInv, NothingMissed, Startable
  <1>11. ASSUME NEW n \in Present, SelectFallback(n) PROVE MissInv'
    <2>1. /\ UNCHANGED <<nodes, fallbackOnly, running>> /\ pc = "select" /\ pc' = "select"
          /\ statuses' = WithStatus({n}, "skipped") /\ scan' = {m \in scan : m > n}
          /\ n \in NodeId /\ IsNext(n)
      BY <1>11 DEF SelectFallback, TypeOK, IsNodeMap
    <2>2. ASSUME running = {}, NEW m \in Present, Startable(m)' PROVE m \in scan'
      <3>1. Startable(m) /\ m # n
        <4>1. \A d \in Present : statuses'[d] = IF d = n THEN "skipped" ELSE statuses[d]
          BY <2>1 DEF WithStatus
        <4>2. Range(nodes[m].deps) \subseteq Present
          BY DEF TypeOK, IsNodeMap
        <4> QED
          BY <2>1, <2>2, <4>1, <4>2 DEF Startable
      <3>2. m \in scan /\ Decidable(m)
        BY <2>1, <2>2, <3>1, StartableIsDecidable DEF MissInv, NothingMissed
      <3>3. ~(m < n) /\ m \in Nat /\ n \in Nat
        BY <2>1, <3>2, NodeIdAssumption DEF IsNext, TypeOK, IsNodeMap
      <3> QED
        BY <2>1, <3>1, <3>2, <3>3
    <2> QED
      BY <2>1, <2>2 DEF MissInv, NothingMissed
  <1>12. CASE EndLaunch
    <2>1. /\ UNCHANGED <<nodes, statuses, fallbackOnly, running, cancelSeen, pauseSeen>>
          /\ pc' = AfterLaunching
      BY <1>12 DEF EndLaunch
    <2>2. CASE pc' = "join"
      BY <1>0, <2>1, <2>2
    <2>3. CASE pc' = "idle" /\ running = {} /\ pc = "launch" /\ ~MayLaunch
      <3>1. cancelSeen \/ pauseSeen
        BY <2>3, FS_EmptySet, BoundsAssumption DEF MayLaunch
      <3>2. IdleBranch' # "settle"
        BY <2>1, <3>1 DEF IdleBranch
      <3> QED
        BY <2>1, <2>3, <3>2 DEF MissInv, NothingMissed
    <2>4. CASE pc' = "idle" /\ running = {} /\ pc = "select" /\ \A n \in scan : ~Decidable(n)
      <3>1. \A n \in Present : ~Startable(n)
        BY <2>4, StartableIsDecidable DEF MissInv, NothingMissed
      <3>2. \A n \in Present : ~Startable(n)'
        BY <2>1, <3>1 DEF Startable
      <3> QED
        BY <2>1, <2>4, <3>2 DEF MissInv, NothingMissed
    <2> QED
      BY <1>12, <2>1, <2>2, <2>3, <2>4 DEF EndLaunch, AfterLaunching
  (* The resolver.                                                         *)
  <1>13. CASE BeginResolve
    <2>1. Pending # {}
      BY <1>13 DEF BeginResolve, TypeOK, OnceInv, IdleIsEmpty, RunningIsStarted
    <2> QED
      BY <1>13, <2>1 DEF BeginResolve, MissInv, NothingMissed, Startable
  <1>14. ASSUME NEW n \in Present, ResolveOne(n) PROVE MissInv'
    <2>1. /\ UNCHANGED <<nodes, fallbackOnly, running, pc>> /\ pc = "resolve"
          /\ scan' = scan \ {n} /\ progressed' = (progressed \/ Resolvable(n))
      BY <1>14 DEF ResolveOne
    <2>2. PICK S \in SUBSET {n} : statuses' = WithStatus(S, "skipped")
                                  /\ (~Resolvable(n) => statuses' = statuses)
      <3>1. statuses = WithStatus({}, "skipped")
        BY DEF TypeOK, WithStatus
      <3> QED
        BY <1>14, <3>1 DEF ResolveOne
    <2>3. \A m \in Present : ~Startable(m)'
      <3> SUFFICES ASSUME NEW m \in Present, Startable(m)' PROVE Startable(m)
        BY <2>1 DEF MissInv, NothingMissed
      <3>1. \A d \in Present : statuses'[d] = IF d \in S THEN "skipped" ELSE statuses[d]
        BY <2>2 DEF WithStatus
      <3>2. Range(nodes[m].deps) \subseteq Present
        BY DEF TypeOK, IsNodeMap
      <3> QED
        BY <2>1, <3>1, <3>2 DEF Startable
    <2>4. ASSUME ~progressed' PROVE Pending' # {} /\ \A m \in Pending' \ scan' : ~Resolvable(m)'
      <3>1. ~progressed /\ ~Resolvable(n) /\ statuses' = statuses
        BY <2>1, <2>2, <2>4
      <3> QED
        BY <2>1, <3>1 DEF MissInv, NothingMissed, Resolvable
    <2> QED
      BY <2>1, <2>3, <2>4 DEF MissInv, NothingMissed
  <1> QED
    BY <1>2, <1>3, <1>4, <1>5, <1>6, <1>7, <1>8, <1>9, <1>10, <1>11, <1>12,
       <1>13, <1>14 DEF Next, Loop

LEMMA MissAlways == Spec => []MissInv
  BY TypeInit, TypeStep, OnceInit, OnceStep, CountAlways, MissInit, MissStep, PTL DEF Spec

(* At the end of a pass without progress a waiting node that waits for none *)
(* of the other waiting ones would have been launched, or resolved, or have *)
(* been skipped when its owner succeeded.                                   *)
LEMMA PassInVain ==
  ASSUME TypeOK, OnceInv, SpareInv, MissInv
  PROVE  NoDeadlockError
  <1> SUFFICES ASSUME pc = "resolve", scan = {}, ~progressed PROVE FALSE
    BY DEF NoDeadlockError
  <1>1. /\ Pending # {} /\ running = {}
        /\ \A n \in Pending : ~Resolvable(n)
        /\ \A n \in Present : ~Startable(n)
    BY DEF MissInv, NothingMissed, OnceInv, IdleIsEmpty
  <1>2. PICK n \in Pending : Range(nodes[n].deps) \cap Pending = {}
    <2>1. Pending \in SUBSET DOMAIN nodes
      OBVIOUS
    <2> QED
      BY <1>1, <2>1 DEF MissInv, Acyclic
  <1>3. \A d \in Range(nodes[n].deps) : d \in Present /\ statuses[d] \in Terminal
    BY <1>1, <1>2 DEF TypeOK, IsNodeMap, OnceInv, RunningIsStarted
  <1>4. \A d \in Range(nodes[n].deps) : statuses[d] = "succeeded"
    BY <1>1, <1>3 DEF Resolvable
  <1>5. n \in FallbacksOf(nodes)
    BY <1>1, <1>2, <1>4 DEF Startable, SpareInv, FallbacksKnown
  <1>6. PICK o \in Present : Owns(nodes, o, n)
    BY <1>5 DEF SpareInv, FallbacksKnown, OwnedFallbacks
  <1>7. statuses[o] = "succeeded"
    BY <1>4, <1>6 DEF Owns
  <1> QED
    BY <1>2, <1>5, <1>6, <1>7 DEF SpareInv, OwnedWait, SpareWaits

(* The resolver of an execution of a graph that build_graph makes never    *)
(* reports a deadlock, however tasks end and whatever the callback adds.    *)
THEOREM NoDeadlockHolds == ASSUME Built PROVE Spec => []NoDeadlockError
  BY TypeCorrect, OnceAlways, SpareAlways, MissAlways, PassInVain, PTL
=============================================================================
