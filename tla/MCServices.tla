----------------------------- MODULE MCServices -----------------------------
(***************************************************************************)
(* The parts of the system around the stage and the cluster, on small       *)
(* instances.  They share no state and call each other only through results *)
(* that each module leaves free, so a behaviour lets one of them run, which *)
(* it chooses at the start, and the others rest: the product of their        *)
(* interleavings would say nothing more.                                    *)
(***************************************************************************)
EXTENDS ModelRouter, ProviderStream, McpClient, NodeExecution, Terminal,
        SessionMemory, Workspaces, Automation, WebhookDelivery, Gateway, Planning,
        RunViews

VARIABLE part          \* the service that runs
vars == <<part, routerVars, streamVars, mcpVars, nodeVars, terminalVars, memoryVars,
          workspacesVars, automationVars, webhookVars, gatewayVars, planningVars,
          viewsVars>>

\* A model of each kind: HTTP, mock, and the two CLI backends.
MCCatalog ==
  SelectSeq(DefaultCatalog, LAMBDA m :
    m.id \in {"gpt-5.1", "mock-general", "claude-code-cli", "codex-cli"})
\* A backend, the other one alone, none, lists, and providers turned off; the custom
\* model comes back when it may have been turned off.
MCPatch ==
  {[cliEnabled |-> TRUE, cliBackend |-> "codex", cliOnly |-> FALSE],
   [cliEnabled |-> TRUE, cliBackend |-> "claude_code", cliOnly |-> TRUE],
   [cliEnabled |-> FALSE],
   [custom |-> TRUE, preferred |-> "mock-general",
    disabledModels |-> {}, disabledProviders |-> {"open_ai", "mock"}]}

\* Replies of up to two lines, and possibly a last one that no line end follows.
MCReply ==
  LET line == {<<"data", c>> : c \in Carried} \cup {<<"noise">>}
  IN  UNION {{FlattenSeq([i \in 1..n |-> Append(ls[i], End)]) \o unended :
                ls \in [1..n -> line], unended \in {<< >>, <<"data", "y">>}} : n \in 0..2}

\* Two servers with a tool of one name, and a tool named like one of the other's.
MCServer == <<"s1", "s2">>
MCTools == [s1 |-> << <<"t">>, <<"s2", "t">> >>, s2 |-> << <<"t">> >>]

MCWord == STRING
\* Plans: in order, out of order, in a circle, with blanks, in a circle through
\* blanks, onto what it may not, and with a check after a check.
Sub(id, role, deps, words) ==
  [id |-> id, role |-> role, deps |-> deps, words |-> words, told |-> TRUE]
SubA == Sub(Id("a", 0), "coder", << >>, {})
SubB == Sub(Id("b", 0), "coder", <<Id("a", 0)>>, {})
SubC == Sub(Id("c", 0), "analyzer", <<Id("a", 0), Id("b", 0)>>, {})
MCPlanOutput ==
  {<<SubA, SubB, SubC>>, <<SubB, SubA>>,
   <<[SubA EXCEPT !.deps = <<Id("b", 0)>>], SubB>>,
   <<SubA, [SubB EXCEPT !.deps = << [name |-> <<" ", "a">>, num |-> 0] >>]>>,
   <<[SubA EXCEPT !.deps = << [name |-> <<" ", "b">>, num |-> 0] >>], SubB>>,
   <<[SubA EXCEPT !.deps = <<Plan>>]>>,
   <<[SubA EXCEPT !.role = "planner"], Sub(Id("d", 0), "validator", <<Summarize>>, {"test"})>>,
   <<Sub(Id("c", 0), "validator", << >>, {"lint"}),
     Sub(Id("d", 0), "validator", <<Id("c", 0)>>, {"lint"})>>}
Plain == [lint |-> FALSE, test |-> FALSE, git |-> FALSE, repoTest |-> FALSE,
          webhook |-> FALSE]
Checked == [Plain EXCEPT !.lint = TRUE, !.git = TRUE]
AStage(what, checks, long) ==
  [kind |-> what, checks |-> checks, analysed |-> what \in {"recovery", "followup"},
   long |-> long]
MCStage ==
  {AStage(k, Plain, FALSE) : k \in
     {"simple_query", "config_query", "analysis", "configuration", "tool_operation",
      "interactive", "followup", "template"}}
  \cup {AStage("recovery", Plain, TRUE),
        AStage("complex", [Plain EXCEPT !.webhook = TRUE], TRUE),
        AStage("code_generation", Checked, FALSE),
        AStage("code_generation", [Checked EXCEPT !.test = TRUE], FALSE),
        AStage("external_project", Checked, FALSE),
        AStage("external_project", [Checked EXCEPT !.repoTest = TRUE], FALSE)}
Flow(id, role, deps, words, git) ==
  [id |-> id, role |-> role, deps |-> deps, words |-> words, git |-> git,
   onFail |-> "fail_fast", fallback |-> NoId]
MCTemplate ==
  {<<Flow(Id("r", 0), "reviewer", << >>, {}, FALSE)>>,
   <<Flow(Id("r", 2), "reviewer", << >>, {}, FALSE),
     Flow(Id("s", 2), "reviewer", << Id("r", 2) >>, {}, FALSE)>>,
   <<Flow(Id("v", 0), "validator", << >>, {"lint"}, TRUE),
     Flow(Id("w", 0), "validator", << >>, {"test"}, TRUE)>>,
   <<[Flow(Id("c", 0), "coder", << >>, {}, FALSE) EXCEPT !.fallback = Id("f", 300)],
     Flow(Id("f", 300), "reviewer", << >>, {}, FALSE)>>,
   <<Flow(Id("g", 0), "coder", << >>, {}, TRUE)>>}

\* What RefusedForACauseHolds supposes of them.
ASSUME MCTemplatesPlain == TemplatesPlain

\* Graphs: two nodes apart, one that comes later, one named twice, a triangle.
Apart == 1 :> << >> @@ 2 :> << >>
After == 1 :> << >> @@ 3 :> <<1>>
Twice == 1 :> << >> @@ 2 :> <<1, 1>>
Three == 1 :> << >> @@ 2 :> <<1>> @@ 3 :> <<1, 2>>
\* Two nodes that share a fallback, and a run whose task mentions someone.
Sharing == 1 :> << >> @@ 2 :> << >> @@ 4 :> <<1>>
Mentioned == 1 :> << >>
MCTraceDeps == {Apart, After, Twice, Three, Sharing, Mentioned}
MCFallbackNode ==
  [g \in MCTraceDeps |->
     [n \in DOMAIN g |-> IF g = Sharing /\ n # 4 THEN 4 ELSE -1]]
ABound(ticks, tasks, losses) ==
  [mention |-> FALSE, time |-> ticks, tasks |-> tasks, lost |-> losses]
MCViewBounds ==
  Apart :> ABound(2, 1, 0) @@ After :> ABound(1, 2, 1) @@ Twice :> ABound(2, 1, 1)
    @@ Three :> ABound(1, 1, 0) @@ Sharing :> ABound(0, 1, 0)
    @@ Mentioned :> [ABound(0, 2, 0) EXCEPT !.mention = TRUE]

\* Two administrators, browsers, log writers or upload requests may change places,
\* all pairs at once.  The services that have none of them have no state that changes,
\* the execution of a node, of which NodeEnds speaks, among them.
Pairs == {Admin, Browser, Writer, WsRequest}
Twin(x) == CHOOSE y \in UNION Pairs : y # x /\ \E S \in Pairs : {x, y} \subseteq S
Twins ==
  {[x \in UNION Pairs |-> IF same THEN x ELSE Twin(x)] : same \in BOOLEAN}

Parts == {"router", "stream", "mcp", "node", "terminal", "memory", "workspaces",
          "automation", "webhook", "gateway", "planning", "views"}

\* The resting ones have one initial state each.
Init ==
  /\ part \in Parts
  /\ RouterInit /\ McpInit /\ TerminalInit /\ SessionMemoryInit /\ WorkspacesInit
  /\ AutomationInit /\ WebhookInit /\ GatewayInit
  /\ StreamInit /\ (part # "stream" => sent = << >> /\ format = "openai")
  /\ NodeInit /\ (part # "node" => kind = "llm" /\ ~analysed)
  /\ PlanningInit /\ (part # "planning" => stage = AStage("simple_query", Plain, FALSE))
  /\ ViewsInit /\ (part # "views" => graphDeps = After)
RouterRuns == IF part = "router" THEN RouterNext ELSE UNCHANGED routerVars
StreamRuns == IF part = "stream" THEN StreamNext ELSE UNCHANGED streamVars
McpRuns == IF part = "mcp" THEN McpNext ELSE UNCHANGED mcpVars
NodeRuns == IF part = "node" THEN NodeNext ELSE UNCHANGED nodeVars
TerminalRuns == IF part = "terminal" THEN TerminalNext ELSE UNCHANGED terminalVars
MemoryRuns == IF part = "memory" THEN SessionMemoryNext ELSE UNCHANGED memoryVars
WorkspacesRun == IF part = "workspaces" THEN WorkspacesNext ELSE UNCHANGED workspacesVars
AutomationRuns == IF part = "automation" THEN AutomationNext ELSE UNCHANGED automationVars
WebhookRuns == IF part = "webhook" THEN WebhookNext ELSE UNCHANGED webhookVars
GatewayRuns == IF part = "gateway" THEN GatewayNext ELSE UNCHANGED gatewayVars
PlanningRuns == IF part = "planning" THEN PlanningNext ELSE UNCHANGED planningVars
ViewsRun == IF part = "views" THEN ViewsNext ELSE UNCHANGED viewsVars
Next ==
  /\ UNCHANGED part
  /\ RouterRuns /\ StreamRuns /\ McpRuns /\ NodeRuns /\ TerminalRuns /\ MemoryRuns
  /\ WorkspacesRun /\ AutomationRuns /\ WebhookRuns /\ GatewayRuns
  /\ PlanningRuns /\ ViewsRun

\* NodeFairness is about the timers of a node, so that a behaviour which meets
\* it is one of the part that executes a node; the invariants are checked on
\* every state of every part.
Spec == Init /\ [][Next]_vars /\ NodeFairness
=============================================================================
