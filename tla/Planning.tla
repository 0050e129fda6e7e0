------------------------------ MODULE Planning ------------------------------
(***************************************************************************)
(* One stage of a run as the orchestrator shapes it: the graph that         *)
(* graph_builder.rs starts it with, and what the node-completed callback of *)
(* completion.rs adds to it and takes from it: a planner's subtasks, the    *)
(* rounds of a review, the checks after the code and the final summary.     *)
(*                                                                         *)
(* GraphRuntime has the loop that runs the graph, with its limits, flags    *)
(* and joins; here a node starts when is_runnable lets it and ends when it  *)
(* likes, and what matters is what the callback answers.  The callback is   *)
(* called only for a node that succeeded (runtime/mod.rs:484), so its       *)
(* branch for a failed validator, the loop that would repair lint and test  *)
(* errors, is never taken and has no action.                                *)
(*                                                                         *)
(* An id is a name and the number it ends in, 0 for none: Id("re_review", 2) *)
(* is "re_review_2".  A name that begins with a blank is one written with   *)
(* blanks around it.                                                        *)
(***************************************************************************)
EXTENDS Integers, FiniteSets, Sequences, SequencesExt, Functions

CONSTANTS
  Word,            \* the words names are made of
  MaxGraphDepth,   \* Orchestrator.max_graph_depth, 6 unless configured
  MaxSubtasks,     \* MAX_DYNAMIC_SUBTASKS_PER_PLAN
  Stage,           \* the stages looked at: how they are built (a task type,
                   \* "recovery", "followup", "template"), the checks configured and
                   \* those an analysis of the repository finds, whether an earlier
                   \* stage of the run left one, and whether the task is long
  Template,        \* workflow templates: sequences of nodes
  PlanOutput,      \* SubtaskPlans a planner may write
  MaxPlans,        \* bound on the plans written in one stage
  MaxFollowups,    \* bound on the nodes that bring follow-ups in one stage
  MaxPlanFailures  \* bound on the nodes that fail in one stage

ASSUME PlanningBounds ==
  {MaxGraphDepth, MaxSubtasks, MaxPlans, MaxFollowups, MaxPlanFailures} \subseteq Nat

Roles ==
  {"planner", "extractor", "coder", "summarizer", "fallback", "tool_caller", "analyzer",
   "reviewer", "scheduler", "config_manager", "validator"}
Topics == {"external", "lint", "test", "git"}
AnyId == [name : Seq(Word), num : Nat]
Subtask ==
  [id : AnyId, role : Roles, deps : Seq(AnyId), words : SUBSET Topics, told : BOOLEAN]
TemplateNode ==
  [id : AnyId, role : Roles, deps : Seq(AnyId), words : SUBSET Topics, git : BOOLEAN,
   onFail : {"fail_fast", "continue_on_error", "fallback_node"}, fallback : AnyId]
StageKinds ==
  {"simple_query", "config_query", "analysis", "configuration", "tool_operation",
   "external_project", "interactive", "code_generation", "complex", "recovery", "followup",
   "template"}

(* The names the orchestrator gives to nodes.                              *)
StaticWords ==
  {"plan", "extract", "context_probe", "code", "fallback_code", "validate_lint",
   "summarize", "analyze", "interactive", "repo_analyze", "webhook_validation",
   "config_manage", "tool_call", "recovery_plan", "replan_plan"}
Reserved == {"fix_review", "re_review", "replan_after", "validate_test", "git_commit",
             "summarize_final", "dynamic_checkpoint"}

ASSUME PlanningInputs ==
  /\ StaticWords \cup Reserved \subseteq Word
  /\ \A s \in Stage : s.kind \in StageKinds
  /\ PlanOutput \subseteq Seq(Subtask)
  /\ Template \subseteq Seq(TemplateNode)

VARIABLES
  stage,     \* how the stage was built: kind, checks, analysis, length of the task
  dag,       \* ExecutionGraph.nodes
  st,        \* ExecutionGraph.statuses
  armed,     \* ExecutionGraph.forced_ready
  statics,   \* static_node_ids: the ids a plan supersedes
  said,      \* nodes whose reply went to long-term memory and to messages
  outcome,   \* of execute_graph: "open", "ended", "failed_fast" or "refused"
  plans,     \* history: the plans written, with the verdict on each
  followups  \* history: nodes whose success led to further nodes
planningVars == <<stage, dag, st, armed, statics, said, outcome, plans, followups>>

Id(name, num) == [name |-> <<name>>, num |-> num]
NoId == [name |-> << >>, num |-> 0]
Plan == Id("plan", 0)
Extract == Id("extract", 0)
ContextProbe == Id("context_probe", 0)
Code == Id("code", 0)
FallbackCode == Id("fallback_code", 0)
ValidateLint == Id("validate_lint", 0)
Summarize == Id("summarize", 0)
RepoAnalyze == Id("repo_analyze", 0)
Settled == {"succeeded", "failed", "skipped"}
Present == DOMAIN dag

-----------------------------------------------------------------------------
(* graph_builder.rs                                                        *)

(* AgentNode::new under default_policy; words are what the instructions of *)
(* a validator contain.                                                    *)
Node(role, deps) ==
  [role |-> role, deps |-> deps, onFail |-> "continue_on_error",
   fallback |-> NoId, depth |-> 0, words |-> {}]

(* ExecutionPolicy::default fails fast.                                    *)
Strict(node) == [node EXCEPT !.onFail = "fail_fast"]
Planner == Strict(Node("planner", << >>))

(* A graph is built from its nodes in the order they are added.            *)
NewNode(id, node) == [id |-> id, node |-> node]
NewIds(more) == {more[i].id : i \in DOMAIN more}
Dag(more) ==
  [id \in NewIds(more) |-> more[CHOOSE i \in DOMAIN more : more[i].id = id].node]

(* plan, one node that does the work, summarize.                           *)
Around(id, work) ==
  <<NewNode(Plan, Planner), NewNode(id, work),
    NewNode(Summarize, Node("summarizer", <<id>>))>>

SimpleGraph ==
  <<NewNode(Plan, Planner), NewNode(Summarize, Node("summarizer", <<Plan>>))>>

AnalysisGraph ==
  <<NewNode(Plan, Planner), NewNode(Extract, Node("extractor", <<Plan>>)),
    NewNode(Id("analyze", 0), Node("analyzer", << Extract >>)),
    NewNode(Summarize, Node("summarizer", << Id("analyze", 0) >>))>>

InteractiveGraph ==
  <<NewNode(Plan, Planner),
    NewNode(Id("interactive", 0), Strict(Node("tool_caller", <<Plan>>))),
    NewNode(Summarize, Strict(Node("summarizer", << Id("interactive", 0) >>)))>>

(* The code, what steps in for it, and the first check of it.              *)
Coding(deps, d) ==
  <<NewNode(Code, [Strict(Node("coder", deps)) EXCEPT !.fallback = FallbackCode, !.depth = d]),
    NewNode(FallbackCode, [Node("fallback", <<Code>>) EXCEPT
                             !.depth = IF d = 0 THEN 0 ELSE d + 1])>>
FirstCheck(words, d) ==
  <<NewNode(ValidateLint,
      [Node("validator", <<Code>>) EXCEPT !.onFail = "fallback_node",
         !.fallback = FallbackCode, !.depth = d, !.words = words])>>

ExternalGraph ==
  LET look == [Node("extractor", <<RepoAnalyze>>) EXCEPT !.depth = 2]
  IN <<NewNode(Plan, Planner),
       NewNode(RepoAnalyze, [Node("analyzer", <<Plan>>) EXCEPT !.depth = 1]),
       NewNode(Extract, look), NewNode(ContextProbe, look)>>
     \o Coding(<< Extract, ContextProbe >>, 3)
     \o FirstCheck({"external", "lint"}, 4)

(* The summary is static only when there is nothing to check first.        *)
CodeGraph(checks) ==
  <<NewNode(Plan, Planner), NewNode(Extract, Node("extractor", <<Plan>>)),
    NewNode(ContextProbe, Node("extractor", <<Plan>>))>>
  \o Coding(<< Extract, ContextProbe >>, 0)
  \o (IF checks.lint THEN FirstCheck({"lint"}, 0)
      ELSE <<NewNode(Summarize, Node("summarizer", <<Code, FallbackCode>>))>>)
  \o (IF checks.webhook
      THEN <<NewNode(Id("webhook_validation", 0),
                     [Node("extractor", <<Plan>>) EXCEPT !.depth = 1])>>
      ELSE << >>)

(* build_failure_recovery_graph and build_completion_followup_graph: a      *)
(* planner alone, which is told what is left to do.                         *)
RecoveryGraph(attempt) == <<NewNode(Id("recovery_plan", attempt), Planner)>>
FollowupGraph(attempt) == <<NewNode(Id("replan_plan", attempt), Planner)>>

BuildGraph(kind, checks) ==
  CASE kind \in {"simple_query", "config_query"} -> SimpleGraph
    [] kind = "analysis" -> AnalysisGraph
    [] kind = "configuration" ->
         Around(Id("config_manage", 0), Node("config_manager", <<Plan>>))
    [] kind = "tool_operation" -> Around(Id("tool_call", 0), Node("tool_caller", <<Plan>>))
    [] kind = "external_project" -> ExternalGraph
    [] kind = "interactive" -> InteractiveGraph
    [] kind \in {"code_generation", "complex"} -> CodeGraph(checks)
    [] kind = "recovery" -> RecoveryGraph(1)
    [] kind = "followup" -> FollowupGraph(1)

(* workflow_node_to_agent_node refuses git commands outside a validator;   *)
(* add_node refuses the rest.                                              *)
TemplateFits(t) ==
  \A i \in DOMAIN t :
    /\ t[i].git => t[i].role = "validator"
    /\ \A j \in 1..(i - 1) : t[j].id # t[i].id
    /\ Range(t[i].deps) \subseteq {t[j].id : j \in 1..(i - 1)}
TemplateGraph(t) ==
  [i \in DOMAIN t |->
     NewNode(t[i].id, [Node(t[i].role, t[i].deps) EXCEPT
                         !.words = t[i].words, !.onFail = t[i].onFail,
                         !.fallback = t[i].fallback])]

(* Templates that leave to the callback the names it gives.                *)
TemplatesPlain ==
  \A t \in Template : \A i \in DOMAIN t :
    t[i].id.name # << >> => Head(t[i].id.name) \notin Reserved

-----------------------------------------------------------------------------
(* validate_subtask_plan                                                   *)

IdsOf(plan) == {plan[i].id : i \in DOMAIN plan}
Trimmed(id) ==
  IF id.name # << >> /\ Head(id.name) = " " THEN [id EXCEPT !.name = Tail(@)] ELSE id

(* The iterative depth-first search: a stack of nodes, each with the next   *)
(* of its dependencies to look at, and a mark on every subtask.             *)
Edges(plan) ==
  [id \in IdsOf(plan) |->
     LET s == plan[CHOOSE i \in DOMAIN plan : plan[i].id = id]
     IN SelectSeq(s.deps, LAMBDA d : d \in IdsOf(plan))]

SearchState(adj) ==
  [stack : Seq([id : DOMAIN adj, next : Nat]),
   mark : [DOMAIN adj -> {"pending", "visiting", "done"}]]

(* A wrong variant: a subtask that is done is taken for one being visited. *)
Visit_DoneIsVisiting(adj, from) ==
  LET visit[s \in SearchState(adj)] ==
        LET top == Last(s.stack)
            d == adj[top.id][top.next]
            on == [s.stack EXCEPT ![Len(s.stack)].next = @ + 1]
        IN IF s.stack = << >> THEN [cycle |-> FALSE, mark |-> s.mark]
           ELSE IF top.next > Len(adj[top.id])
           THEN visit[[stack |-> Front(s.stack), mark |-> s.mark]]
           ELSE CASE s.mark[d] = "visiting" -> [cycle |-> TRUE, mark |-> s.mark]
                  [] s.mark[d] = "done" -> visit[[s EXCEPT !.stack = on]]
                  [] s.mark[d] = "pending" ->
                       visit[[stack |-> Append(on, [id |-> d, next |-> 1]),
                              mark |-> [s.mark EXCEPT ![d] = "visiting"]]]
  IN visit[from]

Visit(adj, from) ==
  LET visit[s \in SearchState(adj)] ==
        LET top == Last(s.stack)
            d == adj[top.id][top.next]
            on == [s.stack EXCEPT ![Len(s.stack)].next = @ + 1]
        IN IF s.stack = << >> THEN [cycle |-> FALSE, mark |-> s.mark]
           ELSE IF top.next > Len(adj[top.id])
           THEN visit[[stack |-> Front(s.stack), mark |-> [s.mark EXCEPT ![top.id] = "done"]]]
           ELSE CASE s.mark[d] = "visiting" -> [cycle |-> TRUE, mark |-> s.mark]
                  [] s.mark[d] = "done" -> visit[[s EXCEPT !.stack = on]]
                  [] s.mark[d] = "pending" ->
                       visit[[stack |-> Append(on, [id |-> d, next |-> 1]),
                              mark |-> [s.mark EXCEPT ![d] = "visiting"]]]
  IN visit[from]

(* It starts at every subtask that no earlier one has led to; the code's     *)
(* order is that of a HashMap, which the answer does not depend on.         *)
FindsCycle(plan) ==
  LET from(seen, sub) ==
        IF seen.cycle \/ seen.mark[sub.id] # "pending" THEN seen
        ELSE Visit(Edges(plan), [stack |-> <<[id |-> sub.id, next |-> 1]>>,
                                 mark |-> [seen.mark EXCEPT ![sub.id] = "visiting"]])
      unseen == [id \in IdsOf(plan) |-> "pending"]
  IN FoldLeft(from, [cycle |-> FALSE, mark |-> unseen], plan).cycle

Accepted(plan, known) ==
  /\ plan # << >> /\ Len(plan) =< MaxSubtasks
  /\ \A i \in DOMAIN plan :
       /\ Trimmed(plan[i].id).name # << >>
       /\ plan[i].told
       /\ \A j \in 1..(i - 1) : plan[j].id # plan[i].id
       /\ \A d \in Range(plan[i].deps) :
            Trimmed(d).name # << >> /\ Trimmed(d) \in known \cup IdsOf(plan)
  /\ ~FindsCycle(plan)

-----------------------------------------------------------------------------
(* build_on_completed_fn: the nodes that follow the success of n.           *)

Under(n, node, deeper) == [node EXCEPT !.depth = dag[n].depth + deeper]
Subtasks(n, plan) ==
  [i \in DOMAIN plan |->
     NewNode(plan[i].id,
           Under(n, [Node(plan[i].role,
                          IF plan[i].deps = << >> THEN <<n>> ELSE plan[i].deps)
                       EXCEPT !.words = plan[i].words], 1))]

(* A checkpoint when the task has more than 20 words and there is no plan. *)
Checkpoint(n) ==
  IF stage.long
  THEN <<NewNode(Id("dynamic_checkpoint", 0), Under(n, Node("summarizer", <<n>>), 1))>>
  ELSE << >>

(* parse_fix_iteration: the number an id ends in, or 0 when a u8 does not   *)
(* hold it.                                                                 *)
FixIteration(id) == IF id.num =< 255 THEN id.num ELSE 0

(* A wrong variant: the fixes of every round have the same name.           *)
ReviewRound_SameName(n) ==
  LET fix == Id("fix_review", 1)
  IN IF FixIteration(n) >= 3 THEN << >>
     ELSE <<NewNode(fix, Under(n, Node("coder", <<n>>), 1)),
            NewNode(Id("re_review", FixIteration(n) + 1),
                  Under(n, Node("reviewer", <<fix>>), 2))>>

(* Up to three rounds of fixing and reviewing again.                       *)
ReviewRound(n) ==
  LET fix == Id("fix_review", FixIteration(n) + 1)
  IN IF FixIteration(n) >= 3 THEN << >>
     ELSE <<NewNode(fix, Under(n, Node("coder", <<n>>), 1)),
            NewNode(Id("re_review", FixIteration(n) + 1),
                  Under(n, Node("reviewer", <<fix>>), 2))>>

(* inject_git_and_summarize                                                *)
GitAndSummary(n) ==
  LET commit == Id("git_commit", 0)
      git == [Strict(Node("validator", <<n>>)) EXCEPT !.words = {"git"}]
      last(dep) == Strict(Node("summarizer", <<dep>>))
  IN IF stage.checks.git
     THEN <<NewNode(commit, Under(n, git, 1)),
            NewNode(Id("summarize_final", 0), Under(n, last(commit), 2))>>
     ELSE <<NewNode(Id("summarize_final", 0), Under(n, last(n), 1))>>

TestNode(n, id, words, strict) ==
  LET node == [Node("validator", <<n>>) EXCEPT !.words = words]
  IN <<NewNode(id, Under(n, IF strict THEN Strict(node) ELSE node, 1))>>

(* The run's entry in repo_analyses: left by an earlier stage, or put there *)
(* by this one's repo_analyze, which puts none when it fails.               *)
Analysed ==
  \/ stage.analysed
  \/ /\ RepoAnalyze \in Present /\ dag[RepoAnalyze].role = "analyzer"
     /\ st[RepoAnalyze] = "succeeded"

(* Whether tests follow the lint: those configured, or in an external      *)
(* project those the analysis found.                                        *)
TestsKnown(external) ==
  IF external THEN stage.checks.repoTest /\ Analysed ELSE stage.checks.test

(* A wrong variant: without tests to run the chain stops at the lint.      *)
AfterCheck_NoFinish(n) ==
  LET w == dag[n].words
      external == "external" \in w
      lint == "lint" \in w \/ w \cap {"test", "git"} = {}
      id == IF external \/ n = ValidateLint THEN Id("validate_test", 0)
            ELSE Id("validate_test", FixIteration(n))
  IN IF ~lint THEN IF "test" \in w THEN GitAndSummary(n) ELSE << >>
     ELSE IF ~TestsKnown(external) THEN << >>
     ELSE IF external THEN TestNode(n, id, {"external", "test"}, FALSE)
     ELSE TestNode(n, id, {"test"}, TRUE)

(* A check that passed: after the lint the tests, where any are known of,   *)
(* after the tests the commit and the summary.  The lint of an external     *)
(* project passes by itself when there is no analysis                       *)
(* (node_executor.rs:475).                                                  *)
AfterCheck(n) ==
  LET w == dag[n].words
      external == "external" \in w
      lint == "lint" \in w \/ w \cap {"test", "git"} = {}
      id == IF external \/ n = ValidateLint THEN Id("validate_test", 0)
            ELSE Id("validate_test", FixIteration(n))
  IN IF ~lint THEN IF "test" \in w THEN GitAndSummary(n) ELSE << >>
     ELSE IF ~TestsKnown(external) THEN GitAndSummary(n)
     ELSE IF external THEN TestNode(n, id, {"external", "test"}, FALSE)
     ELSE TestNode(n, id, {"test"}, TRUE)

(* A reviewer that answers INCOMPLETE sends the stage back to a planner.    *)
Replan(n) ==
  IF dag[n].depth < 4
  THEN <<NewNode([n EXCEPT !.name = <<"replan_after">> \o @],
               Under(n, Strict(Node("planner", <<n>>)), 1))>>
  ELSE << >>

-----------------------------------------------------------------------------
(* The stage                                                               *)

FallbackOnly == {dag[n].fallback : n \in Present} \ {NoId}
StatusOf(S, s) == [n \in Present |-> IF n \in S THEN s ELSE st[n]]

(* is_runnable: the first dependency, in list order, that stops the scan.   *)
Resolution(n) ==
  LET deps == dag[n].deps
      stops(i) == /\ st[deps[i]] # "succeeded"
                  /\ st[deps[i]] \in Settled => dag[n].onFail # "continue_on_error"
      first == CHOOSE i \in DOMAIN deps : stops(i) /\ \A j \in 1..(i - 1) : ~stops(j)
  IN IF n \in armed THEN "ready"
     ELSE IF n \in FallbackOnly THEN "blocked"
     ELSE IF \A i \in DOMAIN deps : ~stops(i) THEN "ready"
     ELSE IF st[deps[first]] \in Settled THEN dag[n].onFail ELSE "blocked"

Launch(n) ==
  /\ outcome = "open" /\ st[n] = "pending"
  /\ Resolution(n) = "ready"
  /\ st' = StatusOf({n}, "running")
  /\ armed' = armed \ {n}
  /\ UNCHANGED <<stage, dag, statics, said, outcome, plans, followups>>

SkipForFallback(n) ==
  /\ outcome = "open" /\ st[n] = "pending"
  /\ Resolution(n) = "fallback_node"
  /\ st' = StatusOf({n}, "skipped")
  /\ armed' = armed \cup ({dag[n].fallback} \cap Present)
  /\ UNCHANGED <<stage, dag, statics, said, outcome, plans, followups>>

FailFast(n) ==
  /\ outcome = "open" /\ st[n] = "pending"
  /\ Resolution(n) = "fail_fast"
  /\ st' = StatusOf({n}, "skipped")
  /\ outcome' = "failed_fast"
  /\ UNCHANGED <<stage, dag, armed, statics, said, plans, followups>>

NodeFails(n) ==
  /\ outcome = "open" /\ st[n] = "running"
  /\ Cardinality({m \in Present : st[m] = "failed"}) < MaxPlanFailures
  /\ st' = StatusOf({n}, "failed")
  /\ armed' = armed \cup ({dag[n].fallback} \cap Present)
  /\ UNCHANGED <<stage, dag, statics, said, outcome, plans, followups>>

(* add_node, for the i-th of the nodes a callback returned.                *)
Fits(more, i) ==
  LET there == Present \cup {more[j].id : j \in 1..(i - 1)}
  IN /\ more[i].id \notin there
     /\ more[i].node.depth =< MaxGraphDepth
     /\ Range(more[i].node.deps) \subseteq there \ {more[i].id}

(* n succeeds: its fallback is not needed, superseded nodes that wait are   *)
(* skipped, and the new nodes are added, all of them or the stage ends      *)
(* with the error of the first that add_node refuses.                       *)
Grow(n, more, skip) ==
  LET spare == {dag[n].fallback} \cap (FallbackOnly \ armed)
      waiting == {m \in Present : st[m] = "pending"}
      after == [m \in Present |-> IF m = n THEN "succeeded"
                  ELSE IF m \in spare \/ (m \in skip /\ m \in waiting) THEN "skipped"
                  ELSE st[m]]
      new == NewIds(more)
  IN IF \A i \in DOMAIN more : Fits(more, i)
     THEN /\ dag' = [m \in Present \cup new |->
                       IF m \in new THEN Dag(more)[m] ELSE dag[m]]
          /\ st' = [m \in Present \cup new |-> IF m \in new THEN "pending" ELSE after[m]]
          /\ UNCHANGED outcome
     ELSE /\ outcome' = "refused"
          /\ st' = after
          /\ UNCHANGED dag

(* The reply is remembered and shown to the session, and what it calls for *)
(* is added.                                                                *)
FollowedBy(n, more, skip) ==
  /\ outcome = "open" /\ st[n] = "running"
  /\ more # << >> => Cardinality(followups) < MaxFollowups
  /\ said' = said \cup {n}
  /\ Grow(n, more, skip)
  /\ UNCHANGED <<stage, armed, statics>>
BringsFollowups(n, more) ==
  /\ followups' = IF more = << >> THEN followups ELSE followups \cup {n}
  /\ UNCHANGED plans

(* A planner's reply is a plan, unless the planner is deep in the graph     *)
(* already and its reply is not looked at.                                  *)
PlannerPlans(n, plan) ==
  LET ok == Accepted(plan, statics) IN
  /\ dag[n].role = "planner" /\ dag[n].depth < 5
  /\ Len(plans) < MaxPlans
  /\ FollowedBy(n, IF ok THEN Subtasks(n, plan) ELSE << >>, IF ok THEN statics ELSE {})
  /\ plans' = Append(plans, [plan |-> plan, known |-> statics, there |-> Present,
                             depth |-> dag[n].depth + 1, accepted |-> ok])
  /\ UNCHANGED followups

PlannerTalks(n) ==
  LET more == IF dag[n].depth < 5 THEN Checkpoint(n) ELSE << >> IN
  /\ dag[n].role = "planner"
  /\ FollowedBy(n, more, {})
  /\ BringsFollowups(n, more)

(* A review may ask for changes, call the work incomplete, both or neither. *)
Reviewed(n, marks) ==
  LET more == (IF "REQUEST_CHANGES" \in marks THEN ReviewRound(n) ELSE << >>)
              \o (IF "INCOMPLETE" \in marks THEN Replan(n) ELSE << >>) IN
  /\ dag[n].role = "reviewer"
  /\ FollowedBy(n, more, {})
  /\ BringsFollowups(n, more)

CheckPasses(n) ==
  /\ dag[n].role = "validator"
  /\ FollowedBy(n, AfterCheck(n), {})
  /\ BringsFollowups(n, AfterCheck(n))

(* Any other node.                                                         *)
WorkDone(n) ==
  /\ dag[n].role \notin {"planner", "reviewer", "validator"}
  /\ FollowedBy(n, << >>, {})
  /\ UNCHANGED <<plans, followups>>

StageEnds ==
  /\ outcome = "open"
  /\ \A n \in Present : st[n] \in Settled
  /\ outcome' = "ended"
  /\ UNCHANGED <<stage, dag, st, armed, statics, said, plans, followups>>

PlanningInit ==
  /\ stage \in Stage
  /\ \/ stage.kind # "template" /\ dag = Dag(BuildGraph(stage.kind, stage.checks))
     \/ /\ stage.kind = "template"
        /\ \E t \in Template : TemplateFits(t) /\ dag = Dag(TemplateGraph(t))
  /\ \A n \in Present : dag[n].depth =< MaxGraphDepth
  /\ st = [n \in Present |-> "pending"]
  /\ armed = {}
  /\ statics = {n \in Present : dag[n].role # "planner"}
  /\ said = {} /\ outcome = "open" /\ plans = << >> /\ followups = {}

PlanningNext ==
  \/ \E n \in Present :
       \/ Launch(n) \/ SkipForFallback(n) \/ FailFast(n) \/ NodeFails(n)
       \/ \E plan \in PlanOutput : PlannerPlans(n, plan)
       \/ PlannerTalks(n)
       \/ \E marks \in SUBSET {"REQUEST_CHANGES", "INCOMPLETE"} : Reviewed(n, marks)
       \/ CheckPasses(n) \/ WorkDone(n)
  \/ StageEnds
-----------------------------------------------------------------------------
(* Properties                                                              *)

AcceptedPlans == {i \in DOMAIN plans : plans[i].accepted}
Edge(plan, d, s) == \E i \in DOMAIN plan : plan[i].id = s /\ d \in Range(plan[i].deps)

(* PlanVerdictExact: the search for cycles (completion.rs:900) is right     *)
(* about every plan: one is accepted when it is complete, names only what   *)
(* it may, and its subtasks can be put in an order that respects their      *)
(* dependencies, and only then.  A dependency counts as it is written: one  *)
(* with blanks around it is known but orders nothing, and a circle that     *)
(* closes through it is let through.  Such a plan is not orderly, and costs *)
(* the stage when the graph refuses the name with the blanks.               *)
PlanVerdictExact ==
  \A i \in DOMAIN plans :
    LET p == plans[i].plan
        ids == IdsOf(p)
        complete ==
          /\ Len(p) \in 1..MaxSubtasks /\ Cardinality(ids) = Len(p)
          /\ \A j \in DOMAIN p :
               p[j].told /\ Trimmed(p[j].id) # NoId
               /\ \A d \in Range(p[j].deps) : Trimmed(d) \in plans[i].known \cup ids
        ordered == \E at \in [ids -> 1..Len(p)] :
                     \A d, s \in ids : Edge(p, d, s) => at[d] < at[s]
    IN plans[i].accepted <=> (complete /\ ordered)

(* A plan that add_node takes as it comes: not too deep, new names, none    *)
(* that a later follow-up will want, and every dependency, as written,      *)
(* before its dependents.                                                   *)
Orderly(p) ==
  /\ p.depth =< MaxGraphDepth
  /\ \A i \in DOMAIN p.plan :
       /\ p.plan[i].id \notin p.there /\ Head(p.plan[i].id.name) \notin Reserved
       /\ Range(p.plan[i].deps) \subseteq p.there \cup {p.plan[j].id : j \in 1..(i - 1)}

(* n is the tests that followed the check m.                               *)
TestsAfter(m, n) == n.name = << "validate_test" >> /\ dag[n].deps = <<m>>

(* Two nodes whose follow-ups have the same names.                         *)
Collide(m, n) ==
  /\ m # n /\ dag[m].role = dag[n].role
  /\ dag[n].role = "reviewer" => FixIteration(m) = FixIteration(n)
  /\ dag[n].role = "validator" => ~TestsAfter(m, n) /\ ~TestsAfter(n, m)

(* RefusedForACause: a stage loses its work to a node that add_node refuses *)
(* (runtime/mod.rs:503) only if an accepted plan was not orderly, if two    *)
(* nodes called for follow-ups of one name, or if one that did lies so deep *)
(* that they exceed the depth of the graph; a single review that goes       *)
(* through its rounds, or a single chain of checks, never costs the stage.  *)
RefusedForACause ==
  outcome = "refused" =>
    \/ \E i \in AcceptedPlans : ~Orderly(plans[i])
    \/ \E m, n \in followups : Collide(m, n)
    \/ \E n \in followups : dag[n].depth + 2 > MaxGraphDepth

(* StageAnswers: a stage built for a task whose nodes all did their work,   *)
(* and whose planner did not take over, has exactly one final summary,      *)
(* though most graphs are built without one; and a commit is made only when *)
(* every check that is configured has passed, in an external project the    *)
(* repository's own tests, unless the analysis that would have found them   *)
(* failed: then the code commits what no test has seen.                     *)
StageAnswers ==
  (stage.kind \notin {"template", "recovery", "followup"} /\ AcceptedPlans = {}) =>
    /\ (outcome = "ended" /\ \A n \in Present : st[n] # "failed") =>
         Cardinality({n \in Present : /\ dag[n].role = "summarizer"
                                     /\ n # Id("dynamic_checkpoint", 0)
                                     /\ st[n] = "succeeded"}) = 1
    /\ Id("git_commit", 0) \in Present =>
         /\ st[ValidateLint] = "succeeded"
         /\ LET test == Id("validate_test", 0)
                tests == IF stage.kind = "external_project"
                         THEN stage.checks.repoTest /\ st[RepoAnalyze] # "failed"
                         ELSE stage.checks.test
            IN tests => test \in Present /\ st[test] = "succeeded"
=============================================================================
