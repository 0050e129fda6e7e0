------------------------------- MODULE MCRuns -------------------------------
(***************************************************************************)
(* What happens to runs from outside of them, on small instances: the      *)
(* execution of a graph, the events of a run on their way to a reader, and  *)
(* a cluster run.  They share no state, so a behaviour lets one of them run *)
(* and the others rest in a state in which they have ended.                *)
(***************************************************************************)
EXTENDS MCGraphRuntime, EventStream, Cluster

\* An execution of an empty graph that has returned.
GraphRests ==
  /\ nodes = << >> /\ statuses = << >> /\ forced = {} /\ fallbackOnly = {}
  /\ running = {} /\ scan = {} /\ toAdd = << >> /\ current = NoNode
  /\ roleCount = [r \in Role |-> 0]
  /\ outputs = [n \in NodeId |-> "none"]
  /\ tasks = [n \in NodeId |-> "none"]
  /\ starts = [n \in NodeId |-> 0]
  /\ pc = "completed"
  /\ cancelSeen = FALSE /\ pauseSeen = FALSE
  /\ launchedAny = FALSE /\ progressed = FALSE
  /\ cancelFlag = FALSE /\ pauseFlag = FALSE

\* A run that a socket was told the end of, and whose session is deleted.
EventsRest ==
  /\ run = "ended" /\ entry = FALSE /\ row = FALSE
  /\ log = [i \in 1..3 |-> [kind |-> "run", n |-> 0]]
  /\ erased = 3 /\ ended = 3 /\ wsSeq = 3 /\ ws = "told"
  /\ emitted = 0 /\ inFlight = {} /\ channel = << >> /\ buf = << >> /\ lost = << >>
  /\ stream = "down" /\ lastSeq = 0 /\ ticks = 0 /\ batch = << >>
  /\ hook = "unused" /\ seenSeq = 0 /\ shown = << >> /\ breaks = 0

\* Cluster runs whose first submit_run has failed.
ClusterRests ==
  /\ phase = [c \in ClusterRun |-> "failed"]
  /\ status = [r \in SubRun |-> "none"]
  /\ usage = [r \in SubRun |-> 0]
  /\ watcher = [r \in SubRun |-> "none"]
  /\ bus = << >> /\ unheard = {} /\ errors = 1
  /\ records = [c \in {} |-> << >>]

RunsInit ==
  \/ Init /\ EventsRest /\ ClusterRests
  \/ GraphRests /\ EventInit /\ ClusterRests
  \/ GraphRests /\ EventsRest /\ ClusterInit

RunsNext ==
  \/ Next /\ UNCHANGED <<eventVars, clusterVars>>
  \/ EventNext /\ UNCHANGED <<vars, clusterVars>>
  \/ ClusterNext /\ UNCHANGED <<vars, eventVars>>

\* The resting parts can do nothing, so their fairness asks for nothing.
RunsSpec ==
  /\ RunsInit /\ [][RunsNext]_<<vars, eventVars, clusterVars>>
  /\ EventFairness /\ ClusterFairness
=============================================================================
