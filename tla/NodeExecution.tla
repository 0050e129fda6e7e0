--------------------------- MODULE NodeExecution ---------------------------
(***************************************************************************)
(* The execution of one node: the attempts of execute_node_with_policy      *)
(* (src/src/runtime/mod.rs), each of which calls the closure of             *)
(* build_run_node_fn (src/src/orchestrator/node_executor.rs), whose branch  *)
(* depends on the node.  Every attempt runs under the node's timeout, which *)
(* drops its future wherever it waits; what the attempt has started outside *)
(* of that future goes on.                                                  *)
(*                                                                         *)
(* What models, tools and processes answer is free.  What a node leaves     *)
(* behind is kept: coder sessions, processes, harness sessions, heartbeats, *)
(* and the work in the tree of the repository.                              *)
(***************************************************************************)
EXTENDS Integers, Sequences, FiniteSets

CONSTANTS
  Kind,            \* branches of the closure to run
  Retry,           \* retries of the node's policy
  MaxIterations,   \* of the ReAct loop and of the tool selection loop
  MaxPerIteration, \* MAX_TOOLS_PER_ITERATION
  MaxRounds,       \* MAX_TOOL_ROUNDS
  MaxNodeCommands  \* commands of a validator node

ASSUME NodeAssumption ==
  /\ {Retry, MaxNodeCommands} \subseteq Nat
  /\ {MaxIterations, MaxPerIteration, MaxRounds} \subseteq Nat \ {0}

VARIABLES
  kind,         \* the branch of this node
  try, pc,      \* the attempt, and where it is
  verdict,      \* of the attempts that ended
  over,         \* what execute_node_with_policy returned
  at,           \* iteration, round or command
  tool,         \* ToolCaller: calls made and to make, whether one failed, any result
  dropped,      \* attempts whose future the timeout dropped
  rows, active, \* coder sessions: rows of the store, active_sessions
  lost,         \* attempts for which a write of the session row failed
  procs,        \* attempts with a process that runs
  gaveUp,       \* attempts that returned an error and left their process alone
  harness,      \* child sessions of the run's harness session
  heart,        \* heartbeat tasks: "off", "on", "told" to stop
  tree,         \* the work tree: changed and untracked files, stash, commit
  gitFailed,    \* attempts whose git add, or whose pop of the stash, failed
  analysed,     \* repo_analyses has an entry for the run
  refused       \* tools outside the node's list that were called all the same
nodeVars ==
  <<kind, try, pc, verdict, over, at, tool, dropped, rows, active, lost, procs,
    gaveUp, harness, heart, tree, gitFailed, analysed, refused>>

Attempt == 0..Retry
policy == <<kind>>
coderVars == <<rows, active, lost>>
procVars == <<procs, gaveUp>>
llmVars == <<harness, heart>>
gitVars == <<tree, gitFailed>>
world == <<coderVars, procVars, llmVars, gitVars, analysed, refused>>

-----------------------------------------------------------------------------
(* execute_node_with_policy                                                *)

\* The closure returned: a success ends the node, a failure waits for the
\* backoff and the next attempt, if there is one.
Finish(v) ==
  /\ verdict' = Append(verdict, v)
  /\ IF v = "ok" THEN over' = "succeeded" /\ pc' = "over"
     ELSE IF try < Retry THEN pc' = "backoff" /\ UNCHANGED over
          ELSE over' = "failed" /\ pc' = "over"
Fail == Finish("failed")
Succeed == Finish("ok")
Goto(step) == pc' = step /\ UNCHANGED <<verdict, over>>

NoCalls == [calls |-> 0, todo |-> 0, failed |-> FALSE, results |-> FALSE]
NextAttempt ==
  /\ pc = "backoff"
  /\ try' = try + 1 /\ Goto("run") /\ at' = 0 /\ tool' = NoCalls
  /\ UNCHANGED <<policy, dropped, world>>

Running == pc \notin {"backoff", "over"}
\* A dropped future lets go of the sender of its heartbeat; nothing else of
\* what it has begun is undone.
NodeTimeout ==
  /\ Running
  /\ dropped' = dropped \cup {try} /\ Fail
  /\ heart' = [heart EXCEPT ![try] = IF @ = "on" THEN "told" ELSE @]
  /\ UNCHANGED <<policy, try, at, tool, coderVars, procVars, harness, gitVars, analysed, refused>>

Same == UNCHANGED <<policy, try, dropped>>
Enters(k) == pc = "run" /\ kind = k
\* The workspace of the session could not be prepared.
WorkspaceFails ==
  /\ pc = "run" /\ Fail
  /\ Same /\ UNCHANGED <<at, tool, world>>
\* A process ends by itself, whoever still waits for it.
ProcessExits(a) ==
  /\ a \in procs /\ (a = try => ~Running)
  /\ procs' = procs \ {a}
  /\ UNCHANGED <<policy, try, pc, verdict, over, at, tool, dropped, gaveUp,
                 coderVars, llmVars, gitVars, analysed, refused>>

-----------------------------------------------------------------------------
(* repo_analyze, and the commands of validator nodes                       *)

repoRest == <<coderVars, gaveUp, llmVars, gitVars, refused, tool>>

RepoStart ==
  /\ Enters("repo_analyze")
  /\ \/ Goto("clone") /\ procs' = procs \cup {try}
     \/ Fail /\ UNCHANGED procs                        \* no repository URL
  /\ Same /\ UNCHANGED <<at, analysed, repoRest>>
\* clone_repo, or a pull whose failure is ignored.
RepoCloned ==
  /\ pc = "clone" /\ procs' = procs \ {try}
  /\ (Goto("analyze") \/ Fail)
  /\ Same /\ UNCHANGED <<at, analysed, repoRest>>
RepoAnalyzed ==
  /\ pc = "analyze"
  /\ \/ Succeed /\ analysed' = TRUE
     \/ Fail /\ UNCHANGED analysed
  /\ Same /\ UNCHANGED <<at, procs, repoRest>>

\* The commands of the node, of the configuration, or those the analysis found;
\* a command of the node that cannot be split into words refuses all of them,
\* and an external project that was never analysed has nothing to check.
CommandsStart ==
  /\ kind \in {"git_commands", "lint", "external"} /\ pc = "run"
  /\ \/ kind = "git_commands" /\ Fail
     \/ kind = "external" /\ ~analysed /\ Succeed
     \/ (kind = "external" => analysed) /\ Goto("command")
  /\ at' = 0
  /\ Same /\ UNCHANGED <<procs, analysed, repoRest>>
\* run_commands stops at the first command that does not pass.
CommandStarts ==
  /\ pc = "command" /\ try \notin procs
  /\ \/ /\ at < MaxNodeCommands
        /\ procs' = procs \cup {try} /\ UNCHANGED <<pc, verdict, over>>
     \/ (kind = "git_commands" => at > 0) /\ Succeed /\ UNCHANGED procs
  /\ Same /\ UNCHANGED <<at, analysed, repoRest>>
\* A command that takes too long is given up, and goes on running.
CommandEnds ==
  /\ pc = "command" /\ try \in procs
  /\ \/ procs' = procs \ {try} /\ at' = at + 1 /\ UNCHANGED <<pc, verdict, over>>
     \/ procs' = procs \ {try} /\ Fail /\ UNCHANGED at
     \/ Fail /\ UNCHANGED <<procs, at>>
  /\ gaveUp' = IF procs' = procs THEN gaveUp \cup {try} ELSE gaveUp
  /\ Same /\ UNCHANGED <<analysed, coderVars, llmVars, gitVars, refused, tool>>

-----------------------------------------------------------------------------
(* The commit of a validator node                                          *)

\* Changed files are those git knows; a stash takes them all and leaves the
\* untracked ones.
NoWork == {}
gitRest == <<coderVars, procVars, llmVars, analysed, refused, at, tool>>

GitStart ==
  /\ Enters("git")
  /\ (Goto("stash") \/ Fail)                   \* not a repository
  /\ Same /\ UNCHANGED <<gitVars, gitRest>>
\* stash_save, when dirty files are protected; a failure counts as no stash.
GitStash ==
  /\ pc = "stash" /\ Goto("stage")
  /\ \/ /\ tree.protect /\ tree.changed # NoWork
        /\ tree' = [tree EXCEPT !.stash = @ \cup tree.changed, !.changed = NoWork,
                                !.stashed = TRUE]
     \/ tree' = [tree EXCEPT !.stashed = FALSE]
  /\ Same /\ UNCHANGED <<gitFailed, gitRest>>
\* The branch may exist already.  A failed add returns at once.
GitStage ==
  /\ pc = "stage"
  /\ \/ Goto("commit") /\ UNCHANGED gitFailed
     \/ Fail /\ gitFailed' = gitFailed \cup {try}
  /\ Same /\ UNCHANGED <<tree, gitRest>>
\* stash_pop, of what this attempt stashed; its failure is ignored.
Pop ==
  \/ /\ ~tree.stashed /\ UNCHANGED <<tree, gitFailed>>
  \/ /\ tree.stashed /\ UNCHANGED gitFailed
     /\ tree' = [tree EXCEPT !.changed = @ \cup tree.stash, !.stash = NoWork,
                             !.stashed = FALSE]
  \/ tree.stashed /\ gitFailed' = gitFailed \cup {try} /\ UNCHANGED tree
GitCommit ==
  /\ pc = "commit"
  /\ LET staged == tree.changed \cup tree.untracked
     IN  \/ /\ staged # NoWork /\ Goto("push")
            /\ tree' = [tree EXCEPT !.commit = @ \cup staged, !.changed = NoWork,
                                    !.untracked = NoWork]
            /\ UNCHANGED gitFailed
         \/ Fail /\ Pop                       \* nothing to commit, or a hook
  /\ Same /\ UNCHANGED gitRest
\* A failed push is logged; the stash is popped and the commit announced.
GitPush ==
  /\ pc = "push" /\ Succeed /\ Pop
  /\ Same /\ UNCHANGED gitRest

-----------------------------------------------------------------------------
(* The ReAct loop of an interactive node                                   *)

loopRest == <<coderVars, procVars, llmVars, gitVars, analysed>>

\* One iteration: no answer or one that is no known action; a tool call, of any
\* tool the registry knows; or done, which an empty summary does not make true.
ReactIterates ==
  /\ Enters("interactive")
  /\ \/ /\ at < MaxIterations /\ at' = at + 1 /\ UNCHANGED <<pc, verdict, over>>
        /\ (UNCHANGED refused \/ refused' = refused \cup {try})
     \/ at < MaxIterations /\ Succeed /\ UNCHANGED <<at, refused>>
     \/ Fail /\ UNCHANGED <<at, refused>>
  /\ Same /\ UNCHANGED <<tool, loopRest>>

-----------------------------------------------------------------------------
(* The tool selection loop of a ToolCaller node                            *)

ToolsStart ==
  /\ Enters("tools")
  /\ \/ Goto("select") /\ at' = 0
     \/ Fail /\ UNCHANGED at                       \* no tool the node may use
  /\ Same /\ UNCHANGED <<tool, refused, loopRest>>
ToolVerdict == Finish(IF ~tool.failed /\ tool.calls > 0 THEN "ok" ELSE "failed")
\* The selector's answer: an error, DONE, no call, or up to the cap of calls.
ToolSelect ==
  /\ pc = "select"
  /\ \/ ToolVerdict /\ UNCHANGED <<at, tool>>
     \/ /\ at < MaxIterations
        /\ \/ Fail /\ UNCHANGED <<at, tool>>
           \/ /\ Goto("call") /\ at' = at + 1
              /\ \E n \in 1..MaxPerIteration : tool' = [tool EXCEPT !.todo = n]
  /\ Same /\ UNCHANGED <<refused, loopRest>>
\* One call of the selection.  A tool that is not allowed is not called and not
\* counted; a call that fails or takes too long is.
ToolCall ==
  /\ pc = "call"
  /\ \E called, fails \in BOOLEAN :
       /\ ~called => fails
       /\ tool' = [calls |-> tool.calls + (IF called THEN 1 ELSE 0), todo |-> tool.todo - 1,
                   failed |-> tool.failed \/ fails, results |-> TRUE]
  /\ IF tool.todo = 1 THEN Goto("select") ELSE UNCHANGED <<pc, verdict, over>>
  /\ Same /\ UNCHANGED <<at, refused, loopRest>>

-----------------------------------------------------------------------------
(* A coder node on a CLI backend: CoderSessionManager                      *)

coderRest == <<llmVars, gitVars, analysed, refused, at, tool>>

\* run_session_at: an unregistered backend is an error; a failed insert is not.
SessionStarts ==
  /\ Enters("coder")
  /\ \/ /\ Goto("session") /\ active' = active \cup {try}
        /\ \/ rows' = [rows EXCEPT ![try] = "running"] /\ UNCHANGED lost
           \/ lost' = lost \cup {try} /\ UNCHANGED rows
     \/ Fail /\ UNCHANGED coderVars
  /\ Same /\ UNCHANGED <<procVars, coderRest>>
\* The backend spawns the command and waits for it under its own timeout, after
\* which it kills it; the tree before and after tells the files it changed.
CoderSpawns ==
  /\ pc = "session"
  /\ \/ Goto("child") /\ procs' = procs \cup {try}
     \/ Goto("error") /\ UNCHANGED procs
  /\ Same /\ UNCHANGED <<gaveUp, coderVars, coderRest>>
\* A prompt that cannot be written to Codex, or a wait that fails, is an error
\* of the session, and the process is left alone.
CoderExits ==
  /\ pc = "child"
  /\ \/ procs' = procs \ {try} /\ UNCHANGED gaveUp
        /\ \E end \in {"passed", "rejected", "error"} : Goto(end)
     \/ gaveUp' = gaveUp \cup {try} /\ UNCHANGED procs /\ Goto("error")
  /\ Same /\ UNCHANGED <<coderVars, coderRest>>

(* A wrong variant: the session is not taken off the active ones.          *)
SessionEnds_StaysActive ==
  /\ pc \in {"passed", "rejected", "error"}
  /\ \/ rows' = [rows EXCEPT ![try] =
                   IF @ = "none" THEN @ ELSE IF pc = "passed" THEN "completed" ELSE "failed"]
        /\ UNCHANGED lost
     \/ lost' = lost \cup {try} /\ UNCHANGED rows
  /\ UNCHANGED active
  /\ IF pc = "passed" THEN Succeed ELSE Fail
  /\ Same /\ UNCHANGED <<procVars, coderRest>>

\* The row says how it ended, unless its update fails, which is ignored.
SessionEnds ==
  /\ pc \in {"passed", "rejected", "error"}
  /\ \/ rows' = [rows EXCEPT ![try] =
                   IF @ = "none" THEN @ ELSE IF pc = "passed" THEN "completed" ELSE "failed"]
        /\ UNCHANGED lost
     \/ lost' = lost \cup {try} /\ UNCHANGED rows
  /\ active' = active \ {try}
  /\ IF pc = "passed" THEN Succeed ELSE Fail
  /\ Same /\ UNCHANGED <<procVars, coderRest>>

-----------------------------------------------------------------------------
(* Any other node: inference, and the tools its answer asks for            *)

llmRest == <<coderVars, gitVars, analysed, tool>>

\* The child session is created; with a CLI model there is a process, and a
\* heartbeat is spawned.
InferStarts ==
  /\ Enters("llm") /\ Goto("infer") /\ at' = 0
  /\ \/ heart' = [heart EXCEPT ![try] = "on"] /\ procs' = procs \cup {try}
     \/ UNCHANGED <<heart, procs>>
  /\ harness' = [harness EXCEPT ![try] = "open"]
  /\ Same /\ UNCHANGED <<gaveUp, refused, llmRest>>
\* The answer stops the heartbeat, which the node waits for.  The router gives
\* up a process it cannot write the prompt to, and leaves it alone.
InferReturns ==
  /\ pc = "infer"
  /\ \/ Goto("answer") /\ procs' = procs \ {try} /\ UNCHANGED gaveUp
     \/ Goto("unanswered") /\ procs' = procs \ {try} /\ UNCHANGED gaveUp
     \/ Goto("unanswered") /\ gaveUp' = gaveUp \cup {try} /\ UNCHANGED procs
  /\ heart' = [heart EXCEPT ![try] = IF @ = "on" THEN "told" ELSE @]
  /\ Same /\ UNCHANGED <<at, harness, refused, llmRest>>

(* A wrong variant: only the heartbeat of the current attempt stops.       *)
HeartStops_OfThisTry(a) ==
  /\ heart[a] = "told" /\ a = try
  /\ heart' = [heart EXCEPT ![a] = "off"]
  /\ UNCHANGED <<policy, try, pc, verdict, over, at, tool, dropped, coderVars,
                 procVars, harness, gitVars, analysed, refused>>

HeartStops(a) ==
  /\ heart[a] = "told"
  /\ heart' = [heart EXCEPT ![a] = "off"]
  /\ UNCHANGED <<policy, try, pc, verdict, over, at, tool, dropped, coderVars,
                 procVars, harness, gitVars, analysed, refused>>
InferRecorded ==
  /\ pc \in {"answer", "unanswered"} /\ heart[try] = "off"
  /\ IF pc = "answer"
     THEN Goto("augment") /\ harness' = [harness EXCEPT ![try] = "output"]
     ELSE Fail /\ harness' = [harness EXCEPT ![try] = "error"]
  /\ Same /\ UNCHANGED <<at, heart, procVars, refused, llmRest>>
\* An answer that asks for tools gets those the node may use, and is asked
\* again; without a further answer the one there is stands.
Augment ==
  /\ pc = "augment"
  /\ \/ at < MaxRounds /\ at' = at + 1 /\ UNCHANGED <<pc, verdict, over>>
     \/ Succeed /\ UNCHANGED at
  /\ Same /\ UNCHANGED <<harness, heart, procVars, refused, llmRest>>

-----------------------------------------------------------------------------
NodeInit ==
  /\ kind \in Kind /\ try = 0 /\ pc = "run" /\ verdict = << >> /\ over = "none"
  /\ at = 0 /\ tool = NoCalls /\ dropped = {}
  /\ rows = [a \in Attempt |-> "none"] /\ active = {} /\ lost = {} /\ procs = {} /\ gaveUp = {}
  /\ harness = [a \in Attempt |-> "none"] /\ heart = [a \in Attempt |-> "off"]
  /\ \E protect \in BOOLEAN, changed, untracked \in SUBSET {"user", "agent"} :
       /\ kind # "git" => ~protect /\ changed = {} /\ untracked = {}
       /\ tree = [protect |-> protect, changed |-> changed \X {"changed"},
                  untracked |-> untracked \X {"untracked"}, stash |-> NoWork,
                  commit |-> NoWork, stashed |-> FALSE]
  /\ gitFailed = {} /\ refused = {}
  /\ analysed \in IF kind = "external" THEN BOOLEAN ELSE {FALSE}

NodeStep ==
  \/ WorkspaceFails \/ RepoStart \/ RepoCloned \/ RepoAnalyzed
  \/ CommandsStart \/ CommandStarts \/ CommandEnds
  \/ GitStart \/ GitStash \/ GitStage \/ GitCommit \/ GitPush
  \/ ReactIterates \/ ToolsStart \/ ToolSelect \/ ToolCall
  \/ SessionStarts \/ CoderSpawns \/ CoderExits \/ SessionEnds
  \/ InferStarts \/ InferReturns \/ InferRecorded \/ Augment
NodeNext ==
  \/ NodeStep \/ NextAttempt \/ NodeTimeout
  \/ \E a \in Attempt : ProcessExits(a) \/ HeartStops(a)
NodeSpec == NodeInit /\ [][NodeNext]_nodeVars

\* The timers fire and the heartbeats run; nothing says that a model, a tool or
\* a command ever answers.
NodeFairness ==
  /\ WF_nodeVars(NodeTimeout) /\ WF_nodeVars(NextAttempt)
  /\ \A a \in Attempt : WF_nodeVars(HeartStops(a))

-----------------------------------------------------------------------------
Ended(a) == a < try \/ (a = try /\ ~Running)
(* What an attempt began outside of its own future ends with it: coder      *)
(* session, its row, process, harness session, and the stash of what was    *)
(* dirty.  An attempt that succeeds leaves no process, and no attempt a     *)
(* heartbeat that nobody stopped, whatever happened to it.  An attempt that *)
(* a timeout dropped leaves the rest; one that failed leaves the process    *)
(* the code itself gives up (a command that took too long, a prompt that    *)
(* could not be written), and the row whose write failed                    *)
(* (node_executor.rs, coder_backend.rs:323,528-598, mod.rs:739).            *)
NothingLeftBehind ==
  /\ \A a \in Attempt : Ended(a) =>
       /\ heart[a] # "on"
       /\ a \notin dropped =>
            /\ a \notin active /\ heart[a] = "off" /\ harness[a] # "open"
            /\ a \in procs => a \in gaveUp
            /\ rows[a] = "running" => a \in lost
  /\ over = "succeeded" => try \notin procs \cup dropped
  /\ ~Running /\ dropped \cup gitFailed = {} => tree.stash = NoWork

(* A node ends, with all its heartbeats, though no model, tool or command   *)
(* ever answers (execute_node_with_policy, runtime/mod.rs:739).             *)
NodeEnds == <>[](over # "none" /\ \A a \in Attempt : heart[a] = "off")
=============================================================================
