---------------------------- MODULE RunLifecycle ----------------------------
(***************************************************************************)
(* The life of one run: submit_run and execute_run                         *)
(* (src/src/orchestrator/run_manager.rs), set_running, finish_run and      *)
(* mark_run_failed, and the control handlers cancel_run, pause_run,        *)
(* resume_run, get_run, delete_session and the shutdown hook               *)
(* (src/src/orchestrator/mod.rs, src/src/interface/api.rs).                *)
(*                                                                         *)
(* A run lives in four places: the `runs' map (mem), the database          *)
(* (stored), the `controls' map (control and the two flags) and the map of *)
(* root harness sessions (harness).  Whoever writes the `runs' entry takes *)
(* its DashMap guard and keeps it over the awaits of the database write    *)
(* and the webhook dispatch.  Waiting for a guard is not an await: it      *)
(* blocks the worker thread (blocked), and with no free worker nothing is  *)
(* polled, the guard's holder included.                                    *)
(*                                                                         *)
(* One stage of execute_run is one call of execute_graph, which            *)
(* GraphRuntime models; here it ends with all nodes succeeded, some node   *)
(* failed, or an error.  A call whose error is propagated may fail,        *)
(* MaxFaults times in a behaviour, and the process may be killed once.     *)
(*                                                                         *)
(* The caller `Signal' is the shutdown hook: it looks at the run once and  *)
(* cancels it if list_active_runs reports it.                              *)
(***************************************************************************)
EXTENDS Integers, FiniteSets

CONSTANTS
  Client,           \* concurrent API requests
  Signal,           \* the shutdown hook
  Executor, NoOne,  \* the task of execute_run; no holder of the guard
  Workers,          \* worker threads of the async runtime
  MaxRetries,       \* MAX_FAILURE_RETRIES
  MaxContinuations, \* MAX_COMPLETION_CONTINUATIONS
  MaxFaults,        \* bound: failing calls in one behaviour
  MaxRequests       \* bound: requests that change the run, in one behaviour

Caller == Client \cup {Signal}

ASSUME ActorsAssumption ==
  /\ IsFiniteSet(Client)
  /\ Signal \notin Client
  /\ Executor \notin Caller /\ NoOne \notin Caller /\ Executor # NoOne

ASSUME BoundsAssumption ==
  /\ Workers \in Nat \ {0}
  /\ MaxRetries \in Nat /\ MaxContinuations \in Nat
  /\ MaxFaults \in Nat /\ MaxRequests \in Nat

Ended == {"succeeded", "failed", "cancelled"}
Status == {"queued", "running", "paused", "cancelling"} \cup Ended

(* A run record: its status and how many stages' results are its outputs.  *)
Run == [status : Status, outputs : Nat]
Absent == [status |-> "absent", outputs |-> 0]

VARIABLES
  mem,           \* Orchestrator.runs, this run's entry
  stored,        \* agent_runs, this run's row
  control,       \* whether Orchestrator.controls has an entry
  cancelFlag,    \* RunControl.cancel_requested
  pauseFlag,     \* RunControl.pause_requested
  harness,       \* whether root_harness_sessions has an entry
  guard,         \* who holds the entry of `runs' for writing
  blocked,       \* actors that block a worker thread on that guard
  epc,           \* where submit_run and then execute_run are
  stageOk,       \* stage_succeeded
  results,       \* stages whose results are in accumulated_results
  retries,       \* failure_retries
  continuations, \* continuation_attempts
  goal,          \* the record finish_run was called with
  crashed,       \* whether execute_run has returned an error
  announced,     \* outcomes the webhooks were told
  cpc,           \* where each request is
  cancelling,    \* what resume_run read of cancel_requested
  requests,      \* requests so far
  faults,        \* failed calls so far
  mustCancel     \* history: a cancel was accepted before the last stage ended

runVars  == <<mem, stored, control, cancelFlag, pauseFlag, harness>>
lockVars == <<guard, blocked>>
execVars == <<epc, stageOk, results, retries, continuations, goal, crashed,
              announced>>
callVars == <<cpc, cancelling, requests>>
vars == <<runVars, lockVars, execVars, callVars, faults, mustCancel>>

-----------------------------------------------------------------------------
(* The guard and the worker threads                                        *)

(* An actor that is not blocked is polled when some worker is free.        *)
Polled(a) == a \notin blocked /\ Cardinality(blocked) < Workers

(* An actor takes the free guard, from a worker or from where it blocks.   *)
Takes(a) ==
  /\ guard = NoOne
  /\ Polled(a) \/ a \in blocked
  /\ blocked' = blocked \ {a}

(* The guard is taken and given back within one step.                      *)
Passes(a) == Takes(a) /\ guard' = NoOne

Keeps(a) == Takes(a) /\ guard' = a

(* A step between two awaits of the guard's holder.                        *)
Holding(a) == guard = a /\ Polled(a) /\ UNCHANGED blocked

Blocks(a) ==
  /\ guard # NoOne
  /\ Polled(a)
  /\ blocked' = blocked \cup {a}

-----------------------------------------------------------------------------
Init ==
  /\ mem = Absent /\ stored = Absent
  /\ control = FALSE /\ cancelFlag = FALSE /\ pauseFlag = FALSE
  /\ harness = FALSE
  /\ guard = NoOne /\ blocked = {}
  /\ epc = "submit"
  /\ stageOk = FALSE /\ results = 0 /\ retries = 0 /\ continuations = 0
  /\ goal = Absent /\ crashed = FALSE /\ announced = {}
  /\ cpc = [c \in Caller |-> "idle"]
  /\ cancelling = [c \in Caller |-> FALSE]
  /\ requests = 0 /\ faults = 0 /\ mustCancel = FALSE

(* A database write, a webhook dispatch or a graph builder reports an error. *)
Fault == faults < MaxFaults /\ faults' = faults + 1

-----------------------------------------------------------------------------
(* submit_run                                                              *)

InsertRun ==
  /\ epc = "submit"
  /\ Passes(Executor)
  /\ mem' = [status |-> "queued", outputs |-> 0]
  /\ epc' = "persist"
  /\ UNCHANGED <<stored, control, cancelFlag, pauseFlag, harness, stageOk,
                 results, retries, continuations, goal, crashed, announced,
                 callVars, faults, mustCancel>>

(* The row is written from submit_run's own record; when that fails,       *)
(* submit_run returns and the entry of `runs' stays behind.                *)
PersistRun ==
  /\ epc = "persist"
  /\ Polled(Executor)
  /\ \/ /\ stored' = [status |-> "queued", outputs |-> 0]
        /\ epc' = "control"
        /\ UNCHANGED faults
     \/ Fault /\ epc' = "abandoned" /\ UNCHANGED stored
  /\ UNCHANGED <<mem, control, cancelFlag, pauseFlag, harness, lockVars,
                 stageOk, results, retries, continuations, goal, crashed,
                 announced, callVars, mustCancel>>

InsertControl ==
  /\ epc = "control"
  /\ Polled(Executor)
  /\ control' = TRUE /\ cancelFlag' = FALSE /\ pauseFlag' = FALSE
  /\ epc' = "start"
  /\ UNCHANGED <<mem, stored, harness, lockVars, stageOk, results, retries,
                 continuations, goal, crashed, announced, callVars, faults,
                 mustCancel>>

-----------------------------------------------------------------------------
(* execute_run                                                             *)

(* A wrong variant: mark_run_failed is tried until it succeeds.            *)
Fails_UntilMarked ==
  /\ epc' = "finish"
  /\ goal' = [status |-> "failed", outputs |-> 0]
  /\ crashed' = TRUE

(* An error leaves execute_run and the spawned task calls mark_run_failed; *)
(* an error of that is dropped.                                            *)
Fails ==
  IF crashed
  THEN epc' = "over" /\ UNCHANGED <<goal, crashed>>
  ELSE /\ epc' = "finish"
       /\ goal' = [status |-> "failed", outputs |-> 0]
       /\ crashed' = TRUE

(* finish_run is called with a status and the results so far.              *)
Finishes(status) ==
  /\ epc' = "finish"
  /\ goal' = [status |-> status, outputs |-> results]
  /\ UNCHANGED crashed

SetRunning ==
  /\ epc = "start"
  /\ IF mem = Absent
     THEN Passes(Executor) /\ Fails /\ UNCHANGED mem
     ELSE /\ Keeps(Executor)
          /\ mem' = [mem EXCEPT !.status = IF cancelFlag THEN "cancelling"
                                           ELSE IF pauseFlag THEN "paused"
                                           ELSE "running"]
          /\ epc' = "starting"
          /\ UNCHANGED <<goal, crashed>>
  /\ UNCHANGED <<stored, control, cancelFlag, pauseFlag, harness, stageOk,
                 results, retries, continuations, announced, callVars, faults,
                 mustCancel>>

PersistRunning ==
  /\ epc = "starting"
  /\ Holding(Executor)
  /\ guard' = NoOne
  /\ \/ stored' = mem /\ epc' = "started" /\ UNCHANGED <<goal, crashed, faults>>
     \/ Fault /\ Fails /\ UNCHANGED stored
  /\ UNCHANGED <<mem, control, cancelFlag, pauseFlag, harness, stageOk,
                 results, retries, continuations, announced, callVars,
                 mustCancel>>

(* A wrong variant: the flag is not looked at.                             *)
CancelSeen_Never == FALSE

(* The flag, as execute_run itself reads it between its awaits.            *)
CancelSeen == cancelFlag

CheckCancelled ==
  /\ epc = "started"
  /\ Polled(Executor)
  /\ IF CancelSeen
     THEN Finishes("cancelled") /\ UNCHANGED harness
     ELSE epc' = "prepare" /\ harness' = TRUE /\ UNCHANGED <<goal, crashed>>
  /\ UNCHANGED <<mem, stored, control, cancelFlag, pauseFlag, lockVars,
                 stageOk, results, retries, continuations, announced,
                 callVars, faults, mustCancel>>

(* The session event, the run.started webhook and the graph.               *)
Prepare ==
  /\ epc = "prepare"
  /\ Polled(Executor)
  /\ \/ epc' = "stage" /\ UNCHANGED <<goal, crashed, faults>>
     \/ Fault /\ Fails
  /\ UNCHANGED <<runVars, lockVars, stageOk, results, retries, continuations,
                 announced, callVars, mustCancel>>

(* execute_graph returns.                                                  *)
StageEnds ==
  /\ epc = "stage"
  /\ Polled(Executor)
  /\ \/ /\ results' = results + 1
        /\ stageOk' \in BOOLEAN
        /\ epc' = "staged"
        /\ UNCHANGED <<goal, crashed>>
     \/ Finishes("failed") /\ UNCHANGED <<results, stageOk>>
  /\ UNCHANGED <<runVars, lockVars, retries, continuations, announced,
                 callVars, faults, mustCancel>>

MayRetry == retries < MaxRetries

(* A stage without failures is verified; with some, a recovery graph is    *)
(* run, as long as retries are left.                                       *)
AfterStage ==
  /\ epc = "staged"
  /\ Polled(Executor)
  /\ stageOk' = FALSE
  /\ CASE CancelSeen -> Finishes("cancelled") /\ UNCHANGED retries
       [] ~CancelSeen /\ stageOk ->
            epc' = "verify" /\ UNCHANGED <<goal, crashed, retries>>
       [] ~CancelSeen /\ ~stageOk /\ ~MayRetry ->
            Finishes("failed") /\ UNCHANGED retries
       [] ~CancelSeen /\ ~stageOk /\ MayRetry ->
            /\ retries' = retries + 1
            /\ epc' = "stage"
            /\ UNCHANGED <<goal, crashed>>
  /\ UNCHANGED <<runVars, lockVars, results, continuations, announced,
                 callVars, faults, mustCancel>>

(* verify_completion never fails: a reviewer error counts as a verdict.    *)
Verify ==
  /\ epc = "verify"
  /\ Polled(Executor)
  /\ \/ Finishes("succeeded") /\ UNCHANGED continuations
     \/ /\ continuations >= MaxContinuations
        /\ Finishes("failed")
        /\ UNCHANGED continuations
     \/ /\ continuations < MaxContinuations
        /\ continuations' = continuations + 1
        /\ epc' = "stage"
        /\ UNCHANGED <<goal, crashed>>
  /\ UNCHANGED <<runVars, lockVars, stageOk, results, retries, announced,
                 callVars, faults, mustCancel>>

-----------------------------------------------------------------------------
(* finish_run, also on behalf of mark_run_failed                           *)

(* A wrong variant: the run's control is kept.                             *)
FinishCloses_KeepsControl ==
  /\ epc = "closing"
  /\ Holding(Executor)
  /\ guard' = NoOne
  /\ epc' = "over"
  /\ UNCHANGED <<runVars, stageOk, results, retries, continuations, goal,
                 crashed, announced, callVars, faults, mustCancel>>

FinishBegins ==
  /\ epc = "finish"
  /\ IF mem = Absent
     THEN Passes(Executor) /\ Fails /\ UNCHANGED <<mem, harness>>
     ELSE /\ Keeps(Executor)
          /\ mem' = goal
          /\ harness' = FALSE
          /\ epc' = "finishing"
          /\ UNCHANGED <<goal, crashed>>
  /\ UNCHANGED <<stored, control, cancelFlag, pauseFlag, stageOk, results,
                 retries, continuations, announced, callVars, faults,
                 mustCancel>>

FinishPersists ==
  /\ epc = "finishing"
  /\ Holding(Executor)
  /\ \/ /\ stored' = mem
        /\ epc' = "announcing"
        /\ UNCHANGED <<guard, goal, crashed, faults>>
     \/ Fault /\ Fails /\ guard' = NoOne /\ UNCHANGED stored
  /\ UNCHANGED <<mem, control, cancelFlag, pauseFlag, harness, stageOk,
                 results, retries, continuations, announced, callVars,
                 mustCancel>>

(* The session event and the webhook; dispatch reports an error only       *)
(* before it has sent anything.                                            *)
FinishAnnounces ==
  /\ epc = "announcing"
  /\ Holding(Executor)
  /\ \/ /\ announced' = announced \cup {mem.status}
        /\ epc' = "closing"
        /\ UNCHANGED <<guard, goal, crashed, faults>>
     \/ Fault /\ Fails /\ guard' = NoOne /\ UNCHANGED announced
  /\ UNCHANGED <<runVars, stageOk, results, retries, continuations, callVars,
                 mustCancel>>

FinishCloses ==
  /\ epc = "closing"
  /\ Holding(Executor)
  /\ control' = FALSE
  /\ guard' = NoOne
  /\ epc' = "over"
  /\ UNCHANGED <<mem, stored, cancelFlag, pauseFlag, harness, stageOk, results,
                 retries, continuations, goal, crashed, announced, callVars,
                 faults, mustCancel>>

(* During a stage the runtime's event sink appends to the entry's timeline. *)
StageEvent ==
  /\ epc = "stage"
  /\ Passes(Executor)
  /\ UNCHANGED <<runVars, execVars, callVars, faults, mustCancel>>

ExecutorBlocks ==
  /\ epc \in {"submit", "start", "stage", "finish"}
  /\ Blocks(Executor)
  /\ UNCHANGED <<guard, runVars, execVars, callVars, faults, mustCancel>>

-----------------------------------------------------------------------------
(* The API handlers and the shutdown hook                                  *)

Rest(c) == IF c = Signal THEN "handled" ELSE "idle"

Goes(c, place) == cpc' = [cpc EXCEPT ![c] = place]

(* A client sends a request; reads are not counted.                        *)
Requests(c, place) ==
  /\ c \in Client
  /\ cpc[c] = "idle"
  /\ Polled(c)
  /\ requests < MaxRequests
  /\ requests' = requests + 1
  /\ Goes(c, place)

RunExists == epc \notin {"submit", "dead"}

(* Whether a cancel comes before the run's last look at the flag.          *)
BeforeLastLook == epc \notin {"verify", "finish", "finishing", "announcing",
                              "closing", "over"}

(* cancel_run up to the point where it wants the run's entry.              *)
CancelRequest(c) ==
  /\ RunExists /\ control
  /\ \/ Requests(c, "cancel")
     \/ /\ c = Signal /\ cpc[c] = "cancelling" /\ Polled(c)
        /\ Goes(c, "cancel")
        /\ UNCHANGED requests
  /\ cancelFlag' = TRUE
  /\ mustCancel' = (mustCancel \/ BeforeLastLook)
  /\ UNCHANGED <<mem, stored, control, pauseFlag, harness, lockVars, execVars,
                 cancelling, faults>>

PauseRequest(c) ==
  /\ RunExists /\ control
  /\ Requests(c, "pause")
  /\ pauseFlag' = TRUE
  /\ UNCHANGED <<mem, stored, control, cancelFlag, harness, lockVars, execVars,
                 cancelling, faults, mustCancel>>

ResumeRequest(c) ==
  /\ RunExists /\ control
  /\ Requests(c, "resume")
  /\ pauseFlag' = FALSE
  /\ cancelling' = [cancelling EXCEPT ![c] = cancelFlag]
  /\ UNCHANGED <<mem, stored, control, cancelFlag, harness, lockVars, execVars,
                 faults, mustCancel>>

(* What the handler makes of the entry's status.                           *)
Changed(c) ==
  CASE cpc[c] = "cancel" -> "cancelling"
    [] cpc[c] = "pause"  -> "paused"
    [] cpc[c] = "resume" -> IF cancelling[c] THEN "cancelling" ELSE "running"

(* A wrong variant: a run that has ended is not left alone.                *)
Refused_NeverForEnded(c) ==
  mem = Absent \/ (cpc[c] = "pause" /\ mem.status = "paused")

(* The handler answers `false' and changes nothing.                        *)
Refused(c) ==
  \/ mem = Absent \/ mem.status \in Ended
  \/ cpc[c] = "pause" /\ mem.status = "paused"

(* The second half of the three handlers, from get_mut to the write.       *)
ChangeStatus(c) ==
  /\ cpc[c] \in {"cancel", "pause", "resume"}
  /\ IF Refused(c)
     THEN Passes(c) /\ Goes(c, Rest(c)) /\ UNCHANGED mem
     ELSE /\ Keeps(c)
          /\ mem' = [mem EXCEPT !.status = Changed(c)]
          /\ Goes(c, "write")
  /\ cancelling' = [cancelling EXCEPT ![c] = FALSE]
  /\ UNCHANGED <<stored, control, cancelFlag, pauseFlag, harness, execVars,
                 requests, faults, mustCancel>>

(* A wrong variant: the changed entry is not written to the database.      *)
PersistChange_NotWritten(c) ==
  /\ cpc[c] = "write"
  /\ Holding(c)
  /\ guard' = NoOne
  /\ Goes(c, Rest(c))
  /\ UNCHANGED <<runVars, execVars, cancelling, requests, faults, mustCancel>>

PersistChange(c) ==
  /\ cpc[c] = "write"
  /\ Holding(c)
  /\ guard' = NoOne
  /\ Goes(c, Rest(c))
  /\ \/ stored' = mem /\ UNCHANGED faults
     \/ Fault /\ UNCHANGED stored
  /\ UNCHANGED <<mem, control, cancelFlag, pauseFlag, harness, execVars,
                 cancelling, requests, mustCancel>>

(* get_run reads the entry, which changes nothing unless it has to wait.   *)
ReadBlocks(c) ==
  /\ cpc[c] = "idle"
  /\ Blocks(c)
  /\ Goes(c, "read")
  /\ UNCHANGED <<guard, runVars, execVars, cancelling, requests, faults,
                 mustCancel>>

ReadEnds(c) ==
  /\ cpc[c] = "read"
  /\ Passes(c)
  /\ Goes(c, "idle")
  /\ UNCHANGED <<runVars, execVars, cancelling, requests, faults, mustCancel>>

(* delete_session of the run's session: the rows go first; an error after  *)
(* that leaves the entry behind.                                           *)
DeleteRows(c) ==
  /\ epc # "dead"
  /\ \/ Requests(c, "list") /\ UNCHANGED faults
     \/ Requests(c, "idle") /\ Fault
  /\ stored' = Absent
  /\ UNCHANGED <<mem, control, cancelFlag, pauseFlag, harness, lockVars,
                 execVars, cancelling, mustCancel>>

(* The entries of the session are listed, then removed.                    *)
ListToDelete(c) ==
  /\ cpc[c] = "list"
  /\ Passes(c)
  /\ Goes(c, IF mem = Absent THEN "idle" ELSE "remove")
  /\ UNCHANGED <<runVars, execVars, cancelling, requests, faults, mustCancel>>

RemoveEntry(c) ==
  /\ cpc[c] = "remove"
  /\ Passes(c)
  /\ mem' = Absent
  /\ Goes(c, "idle")
  /\ UNCHANGED <<stored, control, cancelFlag, pauseFlag, harness, execVars,
                 cancelling, requests, faults, mustCancel>>

(* SIGINT or SIGTERM: list_active_runs.                                    *)
ShutdownLists ==
  /\ cpc[Signal] = "idle"
  /\ RunExists
  /\ Passes(Signal)
  /\ Goes(Signal, IF mem.status \in {"running", "queued"}
                  THEN "cancelling" ELSE "handled")
  /\ UNCHANGED <<runVars, execVars, cancelling, requests, faults, mustCancel>>

(* cancel_run finds no control.                                            *)
ShutdownRefused ==
  /\ cpc[Signal] = "cancelling" /\ Polled(Signal)
  /\ ~control
  /\ Goes(Signal, "handled")
  /\ UNCHANGED <<runVars, lockVars, execVars, cancelling, requests, faults,
                 mustCancel>>

CallerBlocks(c) ==
  /\ \/ cpc[c] \in {"cancel", "pause", "resume", "list", "remove"}
     \/ c = Signal /\ cpc[c] = "idle"
  /\ Blocks(c)
  /\ UNCHANGED <<guard, runVars, execVars, callVars, faults, mustCancel>>

(* The process is killed, or exits once the hook and the connections are   *)
(* done: only the database is left.  Nothing resumes the run afterwards.   *)
Crash ==
  /\ epc # "dead"
  /\ epc' = "dead"
  /\ mem' = Absent /\ goal' = Absent
  /\ control' = FALSE /\ cancelFlag' = FALSE /\ pauseFlag' = FALSE
  /\ harness' = FALSE
  /\ guard' = NoOne /\ blocked' = {}
  /\ stageOk' = FALSE /\ crashed' = FALSE
  /\ results' = 0 /\ retries' = 0 /\ continuations' = 0
  /\ cpc' = [c \in Caller |-> "gone"]
  /\ cancelling' = [c \in Caller |-> FALSE]
  /\ UNCHANGED <<stored, announced, requests, faults, mustCancel>>

Stopped == epc = "dead" /\ UNCHANGED vars

Execute ==
  \/ InsertRun \/ PersistRun \/ InsertControl
  \/ SetRunning \/ PersistRunning \/ CheckCancelled \/ Prepare
  \/ AfterStage \/ Verify
  \/ FinishBegins \/ FinishPersists \/ FinishAnnounces \/ FinishCloses

Handle(c) ==
  \/ ChangeStatus(c) \/ PersistChange(c)
  \/ ListToDelete(c) \/ RemoveEntry(c) \/ ReadEnds(c)

Next ==
  \/ Execute \/ StageEnds \/ StageEvent \/ ExecutorBlocks
  \/ \E c \in Caller : Handle(c) \/ CancelRequest(c) \/ CallerBlocks(c)
  \/ \E c \in Client :
       PauseRequest(c) \/ ResumeRequest(c) \/ DeleteRows(c) \/ ReadBlocks(c)
  \/ ShutdownLists \/ ShutdownRefused
  \/ Crash \/ Stopped

Spec == Init /\ [][Next]_vars

(* A task whose await has completed is polled, and a thread waiting for a  *)
(* free guard gets it; a stage ends unless it is paused and not cancelled, *)
(* which is what GraphRuntime's ExecutionEnds says.  Neither               *)
(* the clients nor the signal nor the crash is fair.                       *)
FairSpec ==
  /\ Spec
  /\ WF_vars(Execute)
  /\ WF_vars(StageEvent /\ Executor \in blocked)
  /\ WF_vars(StageEnds /\ (cancelFlag \/ ~pauseFlag))
  /\ \A c \in Caller : WF_vars(Handle(c))

-----------------------------------------------------------------------------
(* Properties                                                              *)

Place == {"idle", "cancel", "pause", "resume", "write", "read", "list",
          "remove", "cancelling", "handled", "gone"}

(* TypeOK: the guard's holder and the blocked actors are actors, and the   *)
(* attempts stay within the orchestrator's limits.                         *)
TypeOK ==
  /\ {mem, stored, goal} \subseteq Run \cup {Absent}
  /\ {control, cancelFlag, pauseFlag, harness, stageOk, crashed, mustCancel}
       \subseteq BOOLEAN
  /\ guard \in Caller \cup {Executor, NoOne}
  /\ blocked \subseteq (Caller \cup {Executor}) \ {guard}
  /\ epc \in {"submit", "persist", "control", "start", "starting", "started",
              "prepare", "stage", "staged", "verify", "finish", "finishing",
              "announcing", "closing", "over", "abandoned", "dead"}
  /\ retries \in 0..MaxRetries /\ continuations \in 0..MaxContinuations
  /\ results \in 0..(1 + MaxRetries + MaxContinuations)
  /\ announced \subseteq Ended
  /\ cpc \in [Caller -> Place]
  /\ cancelling \in [Caller -> BOOLEAN]
  /\ requests \in 0..MaxRequests /\ faults \in 0..MaxFaults

(* AnnouncedIsFinal: an outcome the webhooks were told is the only one ever *)
(* told; the row keeps it, crash or not, and so does the entry, until the  *)
(* session is deleted. A handler that found the control before the run     *)
(* ended may still be waiting for the guard.                               *)
AnnouncedIsFinal ==
  \A outcome \in announced :
    /\ announced = {outcome}
    /\ stored.status \in {outcome, "absent"}
    /\ mem.status \in {outcome, "absent"}

(* RowFollowsEntry: as long as no write has failed, whenever nobody holds  *)
(* the guard the row and the entry, if both are there, agree: this is what *)
(* the guard is kept across the database write for.                        *)
RowFollowsEntry ==
  (faults = 0 /\ guard = NoOne /\ mem # Absent /\ stored # Absent) => stored = mem

(* OneFaultRecovered: with one failing call, at any point, execute_run's   *)
(* return still leaves the entry ended and persisted, the control gone and *)
(* no root harness session open, unless the run was deleted.               *)
OneFaultRecovered ==
  (epc = "over" /\ faults =< 1 /\ mem # Absent) =>
    /\ mem.status \in Ended
    /\ stored \in {mem, Absent}
    /\ ~control /\ ~harness

(* CancelledNeverSucceeds: a run that was asked to cancel before it last   *)
(* looked at the flag does not end as succeeded, however many stages,      *)
(* retries and continuations it was in.                                    *)
CancelledNeverSucceeds ==
  mustCancel => /\ mem.status # "succeeded"
                /\ "succeeded" \notin announced

(* RunEnds: a submitted run that does not stay paused ends, under any      *)
(* interleaving with the handlers that take its entry and any failing call. *)
RunEnds ==
  <>[]~pauseFlag =>
    (epc = "start" ~> epc \in {"over", "dead"})

(* ShutdownCancelsInFlight: once the shutdown hook has done its work, a    *)
(* run in flight has been asked to cancel (interface/api.rs: "mark every   *)
(* in-flight run as cancelling").                                          *)
ShutdownCancelsInFlight ==
  cpc[Signal] = "handled" /\ epc \in {"started", "prepare", "stage"} => cancelFlag

(* HarnessReleased: no root harness session outlives execute_run (comment  *)
(* in finish_run: "so HarnessMetrics no longer reports the run as active"). *)
HarnessReleased == epc = "over" => ~harness

(* CancelledRunEnds: a run that is asked to cancel ends (api-reference.md:  *)
(* `POST /v1/runs/:id/cancel', "cancel the execution").                    *)
CancelledRunEnds == cancelFlag ~> epc \in {"over", "dead"}
=============================================================================
