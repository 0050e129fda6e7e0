------------------------------- MODULE Cluster -------------------------------
(***************************************************************************)
(* Cluster runs (src/src/orchestrator/cluster.rs): submit starts one run per *)
(* assignment on the members' orchestrators, a watcher polls each of them   *)
(* to its end and sends one message, and a single loop folds the messages   *)
(* into the record of the cluster run, which submit inserts last.           *)
(*                                                                         *)
(* A sub-run itself is what RunLifecycle shows of it: it ends once, with an *)
(* outcome and a usage, and it may be deleted.  A watcher that finds the    *)
(* channel full keeps its place in the queue, so that the channel's size    *)
(* does not show; usage is one number for tokens and cost.                  *)
(***************************************************************************)
EXTENDS Integers, Sequences, FiniteSets, Functions

CONSTANTS
  ClusterRun,     \* ids of the cluster runs submitted
  Subtasks,       \* number of assignments of each
  Usages,         \* what a sub-run may have used; 0 stands for no usage
  MaxErrors       \* calls of submit_run and get_run that may fail

ASSUME ParametersAssumption ==
  /\ Subtasks \in Nat \ {0} /\ MaxErrors \in Nat
  /\ Usages \subseteq Nat

VARIABLES
  phase,      \* of submit, per cluster run
  status,     \* of the sub-runs, as their orchestrators know them
  usage,      \* what a sub-run that ended has used
  watcher,    \* where the watcher of each sub-run is
  bus,        \* messages sent and not yet received, waiting senders' included
  records,    \* OrchestratorCluster::runs
  unheard,    \* history: sub-runs whose message found no record, or never came
  errors      \* failed calls so far
clusterVars == <<phase, status, usage, watcher, bus, records, unheard, errors>>

Sub == 1..Subtasks
SubRun == ClusterRun \X Sub
Outcome == {"succeeded", "failed", "cancelled"}
Message == [run : SubRun, status : Outcome, usage : Nat]
Record ==
  [subs : [Sub -> {"queued"} \cup Outcome], total : Nat,
   status : {"running", "succeeded", "failed", "partial"}]

Submitted(c) == {i \in Sub : status[<<c, i>>] # "none"}
Recorded == DOMAIN records

-----------------------------------------------------------------------------
(* submit                                                                  *)

(* The names are known to be registered; nothing has been submitted.       *)
ClusterInit ==
  /\ phase = [c \in ClusterRun |-> "submitting"]
  /\ status = [r \in SubRun |-> "none"]
  /\ usage = [r \in SubRun |-> 0]
  /\ watcher = [r \in SubRun |-> "none"]
  /\ bus = << >> /\ unheard = {} /\ errors = 0
  /\ records = [c \in {} |-> << >>]

(* submit_run returns the next sub-run, whose watcher is spawned at once.   *)
SubmitNext(c) ==
  /\ phase[c] = "submitting"
  /\ \E i \in Sub \ Submitted(c) :
       /\ 1..(i - 1) \subseteq Submitted(c)
       /\ status' = [status EXCEPT ![<<c, i>>] = "active"]
       /\ watcher' = [watcher EXCEPT ![<<c, i>>] = "polling"]
  /\ UNCHANGED <<phase, usage, bus, records, unheard, errors>>

(* submit_run fails: submit returns, the earlier sub-runs go on.            *)
SubmitFails(c) ==
  /\ phase[c] = "submitting" /\ Submitted(c) # Sub
  /\ errors < MaxErrors
  /\ errors' = errors + 1
  /\ phase' = [phase EXCEPT ![c] = "failed"]
  /\ UNCHANGED <<status, usage, watcher, bus, records, unheard>>

InsertRecord(c) ==
  /\ phase[c] = "submitting" /\ Submitted(c) = Sub
  /\ phase' = [phase EXCEPT ![c] = "submitted"]
  /\ records' = [d \in Recorded \cup {c} |->
       IF d \in Recorded THEN records[d]
       ELSE [subs |-> [i \in Sub |-> "queued"], total |-> 0, status |-> "running"]]
  /\ UNCHANGED <<status, usage, watcher, bus, unheard, errors>>

-----------------------------------------------------------------------------
(* The sub-runs, in their orchestrators                                    *)

RunEnds(r) ==
  /\ status[r] = "active"
  /\ \E o \in Outcome : status' = [status EXCEPT ![r] = o]
  /\ \E u \in Usages : usage' = [usage EXCEPT ![r] = u]
  /\ UNCHANGED <<phase, watcher, bus, records, unheard, errors>>

RunDeleted(r) ==
  /\ status[r] \notin {"none", "deleted"}
  /\ status' = [status EXCEPT ![r] = "deleted"]
  /\ UNCHANGED <<phase, usage, watcher, bus, records, unheard, errors>>

-----------------------------------------------------------------------------
(* spawn_watcher                                                           *)

AfterSend == "over"

(* A poll finds the run ended.                                             *)
PollEnded(r) ==
  /\ watcher[r] = "polling" /\ status[r] \in Outcome
  /\ bus' = Append(bus, [run |-> r, status |-> status[r], usage |-> usage[r]])
  /\ watcher' = [watcher EXCEPT ![r] = AfterSend]
  /\ UNCHANGED <<phase, status, usage, records, unheard, errors>>

(* A poll finds no run, or fails: the watcher stops without a message.      *)
PollLost(r) ==
  /\ watcher[r] = "polling"
  /\ \/ status[r] = "deleted" /\ errors' = errors
     \/ errors < MaxErrors /\ errors' = errors + 1
  /\ watcher' = [watcher EXCEPT ![r] = "over"]
  /\ unheard' = unheard \cup {r}
  /\ UNCHANGED <<phase, status, usage, bus, records>>

-----------------------------------------------------------------------------
(* message_loop                                                            *)

(* A wrong variant: a cancelled sub-run is waited for.                     *)
AllDone_NotCancelled(subs) == \A i \in Sub : subs[i] \in Outcome \ {"cancelled"}

(* A wrong variant: the first sub-run to end decides.                      *)
AllDone_First(subs) == \E i \in Sub : subs[i] \in Outcome

AllDone(subs) == \A i \in Sub : subs[i] \in Outcome

Succeeded(subs) == Cardinality({i \in Sub : subs[i] = "succeeded"})

(* A wrong variant: one success is enough.                                 *)
Verdict_AnySuccess(subs) ==
  IF Succeeded(subs) > 0 THEN "succeeded" ELSE "failed"

Verdict(subs) ==
  CASE Succeeded(subs) = Subtasks -> "succeeded"
    [] Succeeded(subs) = 0        -> "failed"
    [] OTHER                      -> "partial"

(* A wrong variant: the last usage replaces the total.                     *)
Added_Replaces(total, used) == used

Added(total, used) == total + used

Heard(record, m) ==
  LET subs == [record.subs EXCEPT ![m.run[2]] = m.status]
  IN [subs   |-> subs,
      total  |-> Added(record.total, m.usage),
      status |-> IF AllDone(subs) THEN Verdict(subs) ELSE record.status]

(* A message of a cluster run without a record changes nothing.            *)
Receive ==
  /\ bus # << >>
  /\ bus' = Tail(bus)
  /\ LET m == Head(bus)
     IN IF m.run[1] \in Recorded
        THEN /\ records' = [records EXCEPT ![m.run[1]] = Heard(@, m)]
             /\ unheard' = unheard
        ELSE /\ unheard' = unheard \cup {m.run}
             /\ records' = records
  /\ UNCHANGED <<phase, status, usage, watcher, errors>>

-----------------------------------------------------------------------------
Submit(c) == SubmitNext(c) \/ InsertRecord(c)
Poll(r) == PollEnded(r) \/ PollLost(r)

ClusterNext ==
  \/ \E c \in ClusterRun : Submit(c) \/ SubmitFails(c)
  \/ \E r \in SubRun : RunEnds(r) \/ RunDeleted(r) \/ Poll(r)
  \/ Receive

ClusterSpec == ClusterInit /\ [][ClusterNext]_clusterVars

(* submit, the watchers and the loop are tasks that are polled while they   *)
(* can move; runs end (RunLifecycle), and nobody has to delete one.         *)
ClusterFairness ==
  /\ \A c \in ClusterRun : WF_clusterVars(Submit(c))
  /\ \A r \in SubRun : WF_clusterVars(RunEnds(r)) /\ WF_clusterVars(Poll(r))
  /\ WF_clusterVars(Receive)

ClusterFairSpec == ClusterSpec /\ ClusterFairness

-----------------------------------------------------------------------------
(* Properties                                                              *)

Types ==
  /\ phase \in [ClusterRun -> {"submitting", "submitted", "failed"}]
  /\ status \in [SubRun -> {"none", "active", "deleted"} \cup Outcome]
  /\ usage \in [SubRun -> Nat]
  /\ watcher \in [SubRun -> {"none", "polling", "over"}]
  /\ bus \in Seq(Message)
  /\ Recorded \subseteq ClusterRun
  /\ records \in [Recorded -> Record]
  /\ unheard \subseteq SubRun
  /\ errors \in 0..MaxErrors

Finished(c) == c \in Recorded /\ records[c].status # "running"

UsageOf(c) == [i \in Sub |-> usage[<<c, i>>]]

(* TotalExact: the total of a record is the usage of exactly the sub-runs   *)
(* it shows as ended, each counted once, in whatever order they ended.      *)
(* A deleted run keeps the usage it had.                                    *)
TotalExact ==
  \A c \in Recorded :
    records[c].total =
      SumFunctionOnSet(UsageOf(c), {i \in Sub : records[c].subs[i] \in Outcome})

(* VerdictTrue: a record that has ended speaks for all of its sub-runs: none *)
(* of them is still at work, and the verdict is a success only if every one *)
(* succeeded and a failure only if none did.                                *)
VerdictTrue ==
  \A c \in Recorded : Finished(c) =>
    /\ \A i \in Sub :
         /\ status[<<c, i>>] # "active" /\ <<c, i>> \notin unheard
         /\ status[<<c, i>>] \in {records[c].subs[i], "deleted"}
    /\ records[c].status = "succeeded" <=>
         \A i \in Sub : records[c].subs[i] = "succeeded"
    /\ records[c].status = "failed" <=>
         \A i \in Sub : records[c].subs[i] # "succeeded"

KeepsFinished ==
  \A c \in Recorded : c \in Recorded' /\ (Finished(c) => records'[c] = records[c])

(* EndedIsFinal: what has been reported of a finished cluster run never     *)
(* changes, and no record is lost.                                          *)
EndedIsFinal == [][KeepsFinished]_clusterVars

(* HeardOfAllEnds: a cluster run ends if every sub-run was heard of.        *)
HeardOfAllEnds ==
  \A c \in ClusterRun :
    c \in Recorded ~> \/ Finished(c)
                     \/ \E i \in Sub : <<c, i>> \in unheard

(* SubmittedEnds: a cluster run whose submit succeeded comes to an end when *)
(* no run was deleted and no call failed (cluster.rs: "the cluster          *)
(* aggregates their results into a single `ClusterRunRecord`").             *)
SubmittedEnds ==
  \A c \in ClusterRun :
    c \in Recorded ~> \/ Finished(c)
                     \/ errors > 0
                     \/ \E i \in Sub : status[<<c, i>>] = "deleted"
=============================================================================
