# Specifications of the multi-agent orchestrator

TLA+ modules, model-checking configurations and machine-checked proofs about the
orchestrator in `src/`: the scheduler of a run's graph, the life of a run and of its
record, the stream of a run's events to its readers, cluster runs, and the services around
them, from the planning of a stage to the delivery of a webhook. `PROJECT.json` lists the
components, the runs, the source lines behind every definition, the hazards and the
theorems.

    tlc -workers 2 -config Runs.cfg MCRuns.tla                     # model-check
    tlc -workers 2 -config Services.cfg MCServices.tla
    tlapm GraphRuntimeProofs.tla                                   # check proofs
    tlapm StoreProofs.tla

## 1. The system

A request (`POST /v1/runs`, the gateway, a cron schedule, a cluster run) becomes a *run*.
`submit_run` puts its record into a `DashMap` and into SQLite and spawns `execute_run`,
which builds a graph of agent nodes and hands it to the runtime. The runtime executes the
nodes, asks the completion callback for more nodes, and emits events; the orchestrator
verifies the outcome, may retry or continue, and `finish_run` writes and announces it.
HTTP handlers cancel, pause, resume, read, stream and delete runs meanwhile.

| Component (path under `src/src`) | State it keeps | Operations | What makes it correct |
|---|---|---|---|
| graph runtime (`runtime/`) | `ExecutionGraph`, statuses, `running`, role counters, `JoinSet` | launch, join, fail over, resolve, add and supersede nodes, park, cancel | limits hold, each node runs once and after its dependencies, a failure reaches its fallback, no deadlock, the execution ends |
| run lifecycle (`orchestrator/run_manager.rs`, `mod.rs`) | `runs` map, `controls`, `root_harness_sessions`, row in `agent_runs` | submit, execute, finish, cancel, pause, resume, delete, shut down | one final outcome, map and database agree, cancel wins, every run ends and is cleaned up |
| graph builder (`graph_builder.rs`, `workflow_composer.rs`) | none | builds the graph of a task profile or a template | acyclic, dependencies known, policies as the runtime expects |
| completion and planning (`completion.rs`) | `static_node_ids` | check a plan, turn it into nodes, add reviews, checks and the summary | verdicts on plans right, no follow-up that the graph refuses, one summary per stage |
| node executor (`node_executor.rs`, `coder_backend.rs`, `interactive.rs`, `git_manager.rs`) | rows of coder sessions, active sessions, heartbeats, the stash | execute a node in attempts, record its events | nothing of an attempt is left behind, every node ends, every event is recorded once |
| event streams (`interface/handlers/runs.rs`, `web/src/hooks/use-sse.ts`) | last seq, terminal ticks | list, send, look, reconnect | no holes, no doubles, complete at the end, the client learns the end |
| views of a run (`orchestrator/mod.rs`) | none: computed from record and events | trace, lanes, measures | no node shown in a state it is not in, measures exact |
| cluster (`cluster.rs`) | members, cluster records, a channel | submit sub-runs, watch, aggregate | the record tells the truth about all sub-runs and comes to an end |
| model router and settings (`router/`, `settings.rs`) | switches, catalogue, cache, a row | choose and walk a chain, read a stream, change and store settings | every candidate tried, an answer is one model's, a restart routes alike |
| MCP client (`mcp/`) | a registry, two pipes and two locks per server | start, discover, call | a reply is the one asked for |
| webhooks (`webhook/`) | endpoints, deliveries, dead letters | attempt, retry, dead-letter, replay | every event accounted for, one idempotency key |
| cron scheduler (`scheduler.rs`) | schedules with their next time | tick, submit, update, edit | each time of an expression starts one run |
| memory (`memory/mod.rs`, `store.rs`, `session_log.rs`) | short-term buckets, SQLite, a JSONL file and a lock per session | append, sweep, search, replay, delete | what was kept is found, what was deleted is gone |
| workspaces (`workspaces.rs`, `workspace.rs`, meetings) | rows, directories, files | create, upload, delete | rows and files agree |
| gateway (`gateway/`) | session per channel | receive, execute, follow, deliver | the final answer is told once |
| terminal (`terminal/`) | sessions, scrollback, reader threads | open, read, attach, kill | output complete and in order, a closed terminal is forgotten |
| harness (`harness/`) | sessions, mailboxes | create, record, terminate | a session is closed with its run |
| persona router, rate limiter, agents, GitHub, context, crypto, TUI | text, counters, requests | | |

**How they interact.** The runtime calls the orchestrator through `on_completed` and the
event sink; the handlers reach the runtime through two flags and a `Notify`
(`RunControl`). Everything that reads or changes a run shares its `DashMap` entry, whose
guard `finish_run`, `set_running` and the handlers keep across database writes. Watchers
(cluster, gateway, `run_and_wait`) poll `get_run`; streams poll the event table and
`get_run`.

**What is hard in it.** A single loop that interleaves tasks, flags, fallbacks that are
armed and disarmed, and a graph that grows under it. Guards of a synchronous map held
across awaits. A flag stored first and a status written later. Deleting what is being
executed. Records inserted after the tasks that report to them were spawned. Lists read
before the status that decides whether they were the last ones. Futures dropped by a time
limit, with what they had begun outside of themselves. Settings, rows and files kept in
pairs that are written one after the other. Every hazard is listed with its line in
`PROJECT.json`.

## 2. Modules

| Module | What it is |
|---|---|
| `GraphRuntime` | `execute_graph_with_pause_notify` and `ExecutionGraph` |
| `DagScheduler` | abstract: what a graph execution promises |
| `GraphRefinement` | the refinement mapping from the former to the latter |
| `GraphRuntimeProofs` | theorems about `GraphRuntime` and the refinement |
| `MCGraphRuntime` | instances: the graphs `build_graph` makes, families of small graphs |
| `RunLifecycle`, `MCRunLifecycle` | one run, its entry, its row, its handlers, the shutdown hook |
| `RunLifecycleProofs` | theorems about it and about `RunTrace` |
| `EventStream` | a run's events from the sink to a browser or a WebSocket client |
| `EventStreamProofs` | theorems about it |
| `Cluster` | cluster runs |
| `MCRuns` | graph execution, event stream and cluster runs put together for TLC |
| `Planning` | a stage as `graph_builder.rs` starts it and `completion.rs` changes it |
| `PlanningProofs` | theorems about it |
| `NodeExecution` | one node: attempts, time limit and every kind of closure |
| `RunTrace` | the events of a stage that come late or never, and the trace read from them |
| `RunViews` | the behaviour view over the same events |
| `ModelRouter`, `ProviderStream` | settings and routing; reading a provider's stream |
| `MCModelRouter` | one client of the settings page |
| `McpClient` | servers, registry, calls |
| `SessionMemory` | log, items, links, bucket and deletion of one session |
| `Workspaces` | rows, directories and files of workspaces, meetings |
| `Automation` | templates, schedules and the cron loop |
| `WebhookDelivery` | dispatches, attempts, deliveries, replays |
| `Gateway` | commands of chat channels, and the followers of their runs |
| `Terminal` | children, reader threads, browsers |
| `MCServices` | the twelve from `Planning` to `Terminal` put together for TLC |
| `ServiceProofs` | theorems about `WebhookDelivery`, `Gateway`, `McpClient`, `Terminal` and `NodeExecution` |
| `RouterProofs` | theorems about `ModelRouter` and `ProviderStream` |
| `StoreProofs` | theorems about `SessionMemory`, `Workspaces`, `Automation` and `Cluster` |
| `DataLemmas` | induction, recursion up an interval, finite sums, sequences and filters, for the proofs |

### GraphRuntime
State and code correspond one to one: `nodes`, `statuses`, `forced` and `fallbackOnly` are
`ExecutionGraph`; `running`, `roleCount`, `outputs` are the locals of the loop; `tasks` is
the `JoinSet`; `cancelFlag`, `pauseFlag` are `RunControl`'s atomics, of which the loop
keeps a copy per iteration (`cancelSeen`, `pauseSeen`), and `notified` its `Notify`. `pc`
names the point the loop is at, one action per branch: `Launch`, `SelectFallback` and
`SelectFailFast` are the three things `select_next_node` does with an entry of its
snapshot (`scan`), `IdleCancel`, `IdlePark`, `ParkTimeout`, `IdleFinish` the idle branch,
`ResolveOne` one step of `resolve_blocked_nodes`, `JoinOk`, `JoinErr`, `JoinPanic` the
three results of `join_next`, `Callback`, `AddDynamic` the planner's answer. Cancel, pause
and resume can happen between any two of them.

What a node computes is one of "ok", "err" or a panic. The retries inside a task are one
step here and the subject of `NodeExecution`. Ids are numbers in the order in which they sort as strings, because the snapshot is
sorted. The callback's answers are a constant (`Replies`). `Done` states stutter
(`Returned`), so that TLC's deadlock check stays on.

The arm `Ok(failed)` (`runtime/mod.rs:517-547`), and the circuit breaker in it, has no
action: `execute_node_with_policy` returns `Ok` only for a result that succeeded.

### DagScheduler and the refinement
Jobs wait, work and end. A job starts only when what it needs has ended, or as the spare
of a job that came to nothing; it ends once; the results are returned when nothing works
or waits, or after a request to cancel. There is no loop, snapshot, flag, resolver or
counter in it; `Crews` says which sets of jobs may work together.

The mapping reads a job's phase from `running` and `outputs` first, and from `statuses`
only for nodes that never started, because the loop writes `skipped` over a fallback
shared by two parents when the second parent succeeds (`runtime/mod.rs:470-475`), also
while it runs for the first one. For a dependent of such a fallback the abstract
specification has to be generous: `MayStart` counts spares as if they had ended.
`SharedGraph` reaches that case. In the graphs `build_graph` makes a node shares its fallback
only with nodes that wait for it alone and give way when it fails (`Owns`), and there
`EndedForGood` says more.

### RunLifecycle
One run: `mem` is its entry in `runs`, `stored` its row, `guard` the holder of the entry's
lock, `control`, `harness` the two other maps' entries, `epc` the place in
`execute_run`/`finish_run`, `cpc` the place of each API client and of the shutdown hook.
An action covers the code from one await to the next. Whoever wants a held guard blocks
its worker thread; when `Workers` threads are blocked no task is polled, and the holder of
the guard is a task. `Fails` is the error path of every `?`, followed by
`mark_run_failed`. A crash ends the process and leaves the row.

A stage is the execution of a graph, abstracted to `StageEnds` with an outcome; its
fairness is what `ExecutionEnds` shows of the runtime. `mustCancel` and
`announced` are history variables: that the flag was set before the last look at it, and
the outcomes the webhooks were told.

### EventStream
`log` is the run's part of `run_action_events`, a row's place standing for its seq:
SQLite has one writer at a time, so AUTOINCREMENT keys grow in the order of the commits,
and rows of other runs only leave gaps. A node event is inserted by a task spawned for it, so
that the rows need not follow the order of the events; tokens go through a channel and
the batcher's buffer; a failed insert is logged and the events are gone (`lost`).
`finish_run` records two more events under the guard; a `get_run` waits for it
(`GuardHeld`). `delete_session` removes the rows first and the entry last, and
`finish_run` may write the row again in between. A run whose request mentions a persona
begins with a row `parse_run_action` cannot read back (`Readable`): every listing from there
on is an error, which ends the stream (`StreamFails`) or the socket.

The client is a browser or a WebSocket. The browser's hook reconnects after its last
seq; the Next.js route drops `after_seq`, so the stream starts over and the hook discards
what it has: `Connect` allows both. On a deleted run it reconnects for ever, which is why
`BrowserIsTold` excepts deletion, and the runs whose rows cannot be read, of which
`MentionsSurfaced` speaks.

### Cluster
`status` and `usage` are what the sub-runs' orchestrators show through `get_run`;
`phase` is where `submit` is, `watcher` the state of each watcher, `bus` the channel,
`records` the map. The channel's capacity (256) does not show: senders that wait keep
their order. `unheard` is a history variable: sub-runs whose message found no record or
whose watcher gave up.

### Planning
`dag`, `st`, `armed` are the graph, its statuses and the nodes forced ready; `statics` is
`static_node_ids`. `BuildGraph` gives the nodes of every kind of task with their policies,
in the order the code adds them, `TemplateGraph` those of templates, `RecoveryGraph` and
`FollowupGraph` those of a retry and a continuation; `Dag` makes the graph. `PlannerPlans`
checks a plan (`Accepted`, with the code's search for cycles: `Visit`, a recursive function,
is its stack, `FindsCycle` its starts) and adds its subtasks;
`ReviewRound`, `AfterCheck`, `Replan` and `Checkpoint` are the other branches of the
callback, and `Grow` adds what they return through `add_node` (`Fits`), whose error ends
the stage as "refused". Ids are a name (a sequence of `Word`s) and a number, because
`parse_fix_iteration` reads the number back; two checks of which one follows the other bring
follow-ups of one name, unless the second is the tests that the first has brought
(`TestsAfter`). Whether tests follow the lint of an external project is read from an analysis
that only a successful `repo_analyze` leaves (`Analysed`, `TestsKnown`). `GraphRuntime` has the
loop; here a node starts when `is_runnable` lets it. The
callback's branch for a check that failed is never taken, since the runtime calls it for
successes only: the loop that would repair lint and test errors
(`completion.rs:505-590`) does not exist in the running program.

### NodeExecution
`try` and `pc` are the attempt and the await it is at, `over` the result of
`execute_node_with_policy`. An action goes from one await to the next. `NodeTimeout` drops
the attempt at any of them; what it has started outside of its future goes on: `procs`
(processes), `rows` and `active` (the coder session's row and its entry in the map),
`harness`, `heart` (the heartbeat task), `tree` (work tree, stash and commit). `gaveUp` are
the attempts whose error left their process alone: a command that took too long, and a prompt
that could not be written to Codex, or a wait that failed (`CoderExits`). The values
of models, tools and processes are free. `NodeFairness` is on the timers and the heartbeats
only: nothing says that a model, tool or command ever answers, and `NodeEnds` does not need
it.

### RunTrace and RunViews
The stage that emits (`Begin`, `Join`, `Skip`, `CancelSkips`), the tasks that insert (`Insert`,
which may fail), and the functions of the API over what there is to read. `phase` is the
runtime's status of a node, `readied` the fallbacks that were forced and `outputs` the results:
they differ for a fallback that two nodes name, which the failure of one starts and the success
of the other says is skipped, whatever its status (`EndsWell`, `runtime/mod.rs:470-483`). Such
a fallback is `Disowned`. A success also skips the nodes a plan supersedes, and a cancelled run
what still waits. When one of the events read is a mention there is no answer (`Answered`). In `RunTrace`, `Trace`
folds `TraceStep` over the first events, with the results of the run before and after. In
`RunViews`, which extends it and has the recursive searches, `Lanes`, `PeakParallelism`,
`CriticalPath` and `Bottleneck` are the behaviour view. They are compared
with the state of the stage and with their definitions (the largest number of lanes that
share an instant, the longest chain).

### ModelRouter and ProviderStream
`rt` is the router (preferred model, switches, CLI backend, custom model), `row` the stored
settings, `admin` the handlers in flight, each in the steps its awaits cut it into, `call`
an inference that chose its chain once (`Choose`) and walks it (`TryModel`, `NextModel`)
while switches change, to the cache, the deadline or an answer. `Score` is the
score of `score_model` in millionths, and a model's place in the chain is one more than the
number of models before it (`Rank`), which is what the stable sort gives. The names of
providers are `Written` in one spelling and `ReadBack` in another: `GetSettings` and `Apply`
go through the two as the code does, with the effect that `UpdateKeepsSwitches` shows, and
`Remembered` is the router without what is lost in it. `Rebooted` is what
a restart makes of the row; `calm` is the history that no two handlers overlapped and no access to the row failed.
In `ProviderStream` a reply is cut into chunks anywhere, and `OpenAiLine`, `AnthropicLine`
and `GeminiLine` read the lines `Lines` and `Rest` (`drain_sse_lines`) give them. `Split`
goes over the buffer piece by piece, which finds what the code's loop finds by looking for
the next line end. What a provider may send is the constant `Reply`.

### McpClient
`inbox` and `outbox` are the pipes of each server, `lock` the holder of the lock of its
stdout, `caller` the calls. `boot` is the start-up of `main.rs`, server by server. The code
takes the next line for the reply to its request without looking at the id;
`straight` remembers whether calls overlapped, one was dropped, or a server wrote unasked,
and then nothing is claimed.

### SessionMemory
`logs` and `logFile` are the files there have been and the one with the name, so that a
writer may hold a file that was deleted; `lockNow` and `lockHolder` the lock entry and the
locks there have been, so that two writers may hold two locks of one log. Rows, links and
embeddings are sets; `bucket` is the short-term memory with its expiry, `sweeper` the
collector between its look and its removal, `eraser` the place in `delete_session`.
A crash may leave a torn line.

### Workspaces, Automation, WebhookDelivery, Gateway, Terminal
*Workspaces*: `wsRows` and `wsFiles` are the tables, `wsDisk` the directories, `wsReq` the
requests between their two steps; `wsRaced` are the places two requests had in hand at
once. A request may fail or be dropped before any of its steps (`RequestFails`), and
`wsFailed` are the uploads that had written their bytes by then. *Automation*: `due` and `ranNow` are the scheduler's list and the entry it has just
run, so that an edit, an error or a crash falls between submit and update. An expression
is the period it fires with; schedules due at one time come in any order. *WebhookDelivery*: an attempt may arrive or not and be
answered or not; `acted` counts what the receiver did for a key. The dispatchers of
`RequestTask` serve the requests that replay or test, and die with them (`RequestDropped`),
all die in a crash. *Gateway*: `mapped` is the
session map, looked up and inserted in two steps; a task per command (`chat`) executes,
answers and follows; `told` is what a channel was shown at the end, and how. Calls of a
platform may be made and fail all the same, when their answer is lost (`FinalMessage`,
`DiscordDelivers`; the task is then `unheard`). *Terminal*: `child`,
`ptyReader`, `listed`, `unlisted` and `childLock` are the process, the thread, the map, the
entry still to be made and the mutex that `kill` and the thread share; `ws` holds each
browser's queue of the broadcast channel.

### MCServices
These parts share no variable with each other: what one takes from another (a run that is
over, an answer of a model) is free in it. `MCServices` puts them into one specification
whose behaviours let one part run, chosen at the start, and the others rest. The
product of their interleavings would show the same. Its `Next` is one conjunction, so that
what a run fires is looked at per disjunct of the parts' own next-state relations, with
TLC's coverage; each of them fires.

`MCRuns` does the same for the execution of a graph, the event stream and the cluster runs.
A part that rests does so in a state it ends in (an execution that has returned, a run whose
client was told and whose session is deleted, a cluster run whose first `submit_run` failed),
in which no action of it is enabled, so that its fairness asks for nothing and the liveness
of the part that runs is checked as if it were alone.

## 3. What the runs check

| Run | Instance | Shows | Size |
|---|---|---|---|
| `graph_family` | all dependency relations along or against the ids over three nodes, all failure policies, one or two fallbacks, role limits 0 and 3; `SharedGraph` | limits; cancelled and unpaused executions end (`ExecutionEnds`); a failure reaches its fallback; `DagScheduler` is implemented | 570 thousand, 2-3 minutes |
| `run_lifecycle` | two clients, the shutdown hook, two requests, one failing call, a crash, one retry, one continuation, four workers | outcome final, row follows entry, one fault recovered, a cancelled run does not succeed, every run ends | 1.29 million, 2 minutes |
| `runs` | the three parts of `MCRuns`, see below | thirteen properties, three to six of each part | 911 thousand, 3 minutes |
| `services` | the twelve parts of `MCServices`, see below | eighteen properties, one to three of each part | 771 thousand, 2-3 minutes |

What `runs` shows:

| Part | Instance | Shows | Size |
|---|---|---|---|
| graph execution | code graph with and without lint, a workflow with a planner in the middle; plans of two subtasks in both orders and one that reuses an id | types, exact counters, each node once, complete results, no deadlock error (`NoDeadlockError`), statuses final (`EndedForGood`) | 11 thousand states |
| event stream | a run with or without a mention, two emitted events and the run's three, one lost insert, one broken connection, pages of three, batches of two; a browser or a socket | `BrowserFaithful` (no holes and no doubles, complete at the end, tokens in order), nothing stays in a buffer (`EmittedIsSettled`), the browser learns the end (`BrowserIsTold`) | 864 thousand |
| cluster | one cluster run of three sub-runs, one failing call, deletions | totals exact, verdict true, finished records final, heard of all implies ended (`HeardOfAllEnds`) | 47 thousand |

What `services` shows, part by part:

| Part | Property | In words | Instance |
|---|---|---|---|
| router | `RestartKeepsRouting` | a restart rebuilds the routing that settings and row describe, unless handlers overlapped or the row could not be written, and turns OpenAI on; the settings left out are those the code does not carry over (CLI-only mode, a custom model that came back while it was off) | four models, both CLI backends, two handlers, four patches, three calls |
| router | `ChainHonest` | a call fails only after its whole chain, or late; what was shown ends with the whole answer of one model | |
| stream | `CutsDoNotMatter` | the answer does not depend on how the reply was cut | all replies of up to two lines (`MCReply`) in three formats, a buffer of five pieces |
| MCP | `RepliesMatch` | without overlap, drops and unasked lines a reply is the one asked for | two servers with clashing tool names, two callers, five requests |
| node | `NothingLeftBehind` | an attempt that failed by itself leaves no session, heartbeat or stash, and no process but one the code gives up; one that succeeded leaves no process; none leaves a heartbeat that nobody stopped | nine kinds of node, one retry, two iterations and commands |
| node | `NodeEnds` | a node ends though nothing it asks ever answers | |
| terminal | `TerminalFaithful` | a browser sees chunks in order from where it attached, and the end after the last; a terminal that is over is not listed | three chunks, a scrollback and a channel of two, two browsers |
| memory | `NothingLost` | what was written and not deleted is read back; only a crash spoils a log | two writers, two writes, two of deletion and crash |
| memory | `DeletionComplete` | an undisturbed deletion leaves nothing | |
| workspaces | `FilesMatchRows` | a listed file has the bytes its row describes, or those of an upload that ended before its row; no two directories are one | two requests, which may fail anywhere, two workspaces, two writes |
| automation | `ScheduleKept` | a schedule's next time is one of its expression's; each time starts one run | two schedules, two edits, one error or crash, two minutes |
| webhook | `DeliveriesAccounted` | each key has one row, delivered only if the receiver acted, and it acts once | two endpoints, two dispatchers, of which one serves requests, a replay, a fault |
| gateway | `FinalToldOnce` | the final answer of a run is shown once, or twice when an edit was made and not confirmed | two commands on one channel, a fault, a lost answer or a restart |
| planning | `PlanVerdictExact` | a plan is accepted if and only if it is complete and can be ordered | eight plans, among them circles, one of them through blanks, and foreign ids |
| planning | `RefusedForACause` | the graph refuses a follow-up only for colliding names, depth or a plan out of order | every kind of stage, three follow-ups, one failure, depth 6 |
| planning | `StageAnswers` | a stage that went well has one summary, and commits only what passed the checks configured or found | |
| views | `TraceTellsOutcome` | a trace that is answered never shows an outcome a node did not have, a disowned fallback apart, and is right at the end | six graphs of up to three nodes, with a late node, a shared fallback, a mention, a lost row |
| views | `MeasuresExact` | peak, critical path, duration and bottleneck are what they are called | |

Each property has a mutant in the module it is about: a wrong variant of a definition,
written next to it, under which the property fails. This shows that the bounds are large
enough for the property to say something.

**Bounds and why they are enough.** Scheduling decisions look at one node, its
dependencies and its fallback, so three nodes hold every relation of the family and four
the shared fallback; parallelism 2 lets two tasks race while a third node waits. The
handlers of a run interact through one entry; two clients give every pair of them, and
the shutdown hook is the third. `MaxFaults` = 1 puts one failing call anywhere.
`PageLimit` is below what a run can record (five rows), so that paging happens;
completeness at the end excepts streams that were more than a page behind, which the code
truncates. Three sub-runs give all three verdicts, in every order; what they have used is one
unit each in `runs`, and any number in `TotalExactHolds`. Counters are bounded only by
`MaxRequests`, `MaxFaults`, `MaxErrors`, `MaxEmitted`, `MaxLost` and `MaxBreaks`, all of
them bounds on what the environment does. In `Services.cfg` two of everything that can
race (handlers, writers, requests, dispatchers, callers, browsers) give every pair of
steps; the queues and buffers are smaller than what passes through them; one retry gives
a second attempt beside the remains of the first; the depth of a graph is the code's 6,
which three rounds of a review reach.

**Fairness.** Weak fairness for tasks and threads of the async runtime: the loop, node
tasks (every attempt is under a timeout), `execute_run`, handlers that have started,
batcher, spawned event tasks, streams, watchers and the message loop. Requests, the
signal, the crash, failing calls, deletions and lost connections are never fair. For a node
only the timers and the heartbeat's loop are fair (`NodeFairness`). An
execution that stays paused need not end, and the liveness properties say so.

Deadlock is checked for `graph_family` and `run_lifecycle`. Event streams, cluster runs and the
services stop when everything has been said, so the other configurations switch the check off.

## 4. Where the code and its documents disagree

| Run | Property | What happens |
|---|---|---|
| `graph_chained` | `FallbackNeedsFailure` | a fallback is armed also by a *skipped* parent, so one can run when nothing failed (`graph.rs:203` says otherwise) |
| `run_shutdown` | `ShutdownCancelsInFlight` | the shutdown hook does not see a paused run (`api.rs:318-320`: "every in-flight run") |
| `run_deleted` | `HarnessReleased` | deleting the session of an executing run leaves its root harness session active for good (`orchestrator/mod.rs:1176-1177`) |
| `run_starved` | `CancelledRunEnds` | with as many waiters for a guard as workers, its holder is never polled again; the instance has one worker thread, with n workers it takes n waiters |
| `event_socket` | `SocketSendsAll` | the WebSocket handler looks at the status after it listed and closes at once (`runs.rs:604-605`: the same frames as SSE) |
| `cluster_ends` | `SubmittedEnds` | a sub-run that ends before the record is inserted leaves the cluster run running (`cluster.rs:32-33`) |
| `event_mentions` | `MentionsSurfaced` | the row of a mention cannot be read back: stream, socket and trace of its run are errors for ever (`run_manager.rs:146-147`: "so the trace UI can render the user's intent") |
| `router_switches` | `UpdateKeepsSwitches` | an update of another setting turns OpenAI on again, because its name is stored as "openai" and read as "open_ai" (`settings.rs:5-6`); so does a restart |

Other observations, without a document to hold against them: pause and resume can leave a
flag and a status that disagree; after a crash a row stays `running`; `submit_run` leaves
a queued entry behind when its first write fails; a failing submission leaves the earlier
sub-runs of a cluster run without a record; a `NodeCompleted` may get a lower seq than its
`NodeStarted`; a finished run with more than 1000 events is streamed in part; a node skipped
for its fallback while the next one is selected has no event (`runtime/mod.rs:622`). The
repair of failed checks (`completion.rs:505`) and the circuit breaker cannot be reached. A
plan that is accepted takes the place of the checks and of the static summary, and one whose
subtasks are out of order, or named like a follow-up, costs the stage its results
(`runtime/mod.rs:503`). Leaving CLI-only mode leaves the other providers disabled, and a
custom model that was turned off while the catalogue did not have it is not turned on again
by an update that brings it back, although the row says it is on: enabling goes through the
catalogue before the model is put back (`settings.rs:197`). An MCP
reply is not compared with its request: after a dropped call the next caller gets the
answer of the last. A torn line in a session's log spoils its replay for good. A dependency
named twice makes the critical path fall back to a single node. What an attempt began
(a process, a coder session's row, a stash) stays when the time limit drops it, and the process
of Codex also when the prompt cannot be written to it (`coder_backend.rs:323`). A success says
that its fallback is skipped also when another node's failure has started it
(`runtime/mod.rs:471`), so that the trace shows as skipped what ran; only a template can have
such a fallback. An upload that fails after its bytes were written leaves them under the old
row (`workspaces.rs:195-213`). A policy of a template that does not give all six fields, as in
`skills/multi_role_dev.yaml:43-45`, is dropped without a word (`graph_builder.rs:32-36`,
`runtime/graph.rs:36-43`), and so are its time limit and retries. The message Discord is
sent when the token of a reply may have expired follows every edit that failed, also one that
was made and not confirmed (`discord.rs:467-490`), and then the result is told twice. When the
analysis of a repository failed, the lint of an external project passes without running
(`node_executor.rs:475`), its tests are not known (`completion.rs:600`), and its work is
committed unchecked. A circle of a plan that closes
through a dependency with blanks around it is accepted, and the graph refuses it.

## 5. What is proved

TLAPS checks these for every value of the constants the named assumptions allow.

*GraphRuntimeProofs* (assumptions `NodeIdAssumption`, `BoundsAssumption` and
`GraphsAssumption` of `GraphRuntime`: finitely many ids; initial graphs are maps keyed by
id whose nodes are within the depth bound and depend on other nodes of the map; the
callback's answers are typed; and initial graphs have no cycle, which `add_node` refuses and
only `NoDeadlockHolds` needs).
- `TypeCorrect`: `Spec => []TypeOK`. `TypeOK` is inductive.
- `StartedOnceHolds`, `ResultsCompleteHolds`, from the inductive invariant `OnceInv`.
  `StartedOnce` alone is not inductive: a node could be pending and already started. The
  invariant adds that pending nodes were never started, that the snapshot holds only
  pending nodes, that results belong to started nodes that no longer run, and what the
  idle branch has established when it leaves the loop.
- `CountersExactHolds`, `LimitsRespectedHolds`, from `CountInv`: a task for every running
  node, room for the node about to be launched, the counters counting, and for each
  running node the number of rivals with a limit no larger than its own.

- `RefinesDagScheduler`: `Spec => ImplementsDagScheduler`. `Init` implies `Jobs!Init` and
  each step is a step of `DagScheduler` or a stutter, under the invariant `MapInv`: the
  loop's copy of the cancel flag implies the flag, results agree with statuses, the nodes
  marked fallback-only are somebody's spare, and a node is forced only because a job that
  named it came to nothing.
- `EndedForGoodHolds` and `NoDeadlockHolds`, under the hypothesis `Built`: every fallback of
  an initial graph is owned (`OwnedFallbacks`), and the callback adds no fallbacks. The
  graphs of `build_graph` are such: `FallbacksOwnedHolds` (below) proves it of every stage, at
  its start and whatever it grows to, and TLC evaluates `Built` on the graphs of
  `MCGraphRuntime` (`ShippedFallbacks`). Neither property is true of all graphs,
  and a workflow template, whose steps name their fallbacks as they like, can make the others.
  With a fallback whose id sorts before the node that arms it, the selection has passed it
  by, and when nothing else runs the resolver reports a deadlock although the fallback could
  run (TLC shows this on the graphs of `GraphFamily`); with a fallback of two unrelated
  parents a status is written over. The invariants: `SpareInv`, that a fallback waits unarmed
  for as long as its owner may still succeed, and was skipped once it has; and `MissInv`,
  that the node map stays acyclic when the callback adds to it, that while nothing runs the
  launch loop misses no node it could start, and that what is left in no snapshot has been
  seen. So after a pass in vain the waiting nodes would each wait for another of them.

*RunLifecycleProofs* (assumptions `ActorsAssumption` and `BoundsAssumption` of
`RunLifecycle`: nobody is called like the executor, the bounds are natural numbers), for any
number of clients, workers, retries, continuations, requests and failing calls.
- `RunTypeCorrect`, `GuardIsExclusive`, `RowFollowsEntryHolds`, `OneFaultRecoveredHolds`,
  `AnnouncedIsFinalHolds`, `CancelledNeverSucceedsHolds`, all from `IInv`. None of the
  properties is inductive: what the row may say depends on who holds the guard, which is
  what `Guarded` says of every place; what `finish_run` will write was decided before it
  took the guard (`goal`), which `Deciding` follows through its four steps; a cancel that
  came in time is either still in the flag or has decided the goal (`CancelStands`); and
  before the control exists no handler can have found it (`Unreached`).
- `TraceTellsOutcomeHolds` (`TraceSpec`, assumption `RunTraceBounds`), for any graphs and
  fallbacks, cancels, superseded nodes, delays and lost inserts, and however many of the events
  are read. The invariant `TraceInv`: every event in the log, or still with its task, tells what
  is so (`Told`), and goes on doing so because nodes only move on (`Onward`): a result stays,
  and a status that is written over belongs to a fallback that another node disowned, the one
  of which a skip may say too much (`SkipTrue`). The record has the results of nodes that ended.
  A trace in which every outcome shown is the node's (`TrueTraces`) stays one under each
  event (`TraceStep`) and under the results of the record, which have the outcome of every
  node that ran.

*EventStreamProofs* (assumption `EventBounds` of `EventStream`), for any page, batch
and number of events, lost inserts and broken connections.
- `EventTypeCorrect` and `BrowserFaithfulHolds`, from `IInv`. Tokens come in order because
  log, buffer and channel are one queue whose tokens rise (`TokenInv`); what the stream has
  listed follows what it has sent, and what is shown is sorted, which is why the hook's
  binary search finds the place (`Contiguous`, `InOrder`); and after one look at an ended
  run what is sent or listed reaches beyond the last row that `finish_run` records, or fills
  a page (`LastLook`), which is why the second look may close the stream.

*PlanningProofs* (`PlanningSpec`; assumptions `PlanningBounds` and `PlanningInputs`: bounds
are natural numbers, inputs have their types, and `Word` has the words of the code's own ids),
for any stages, plans and templates, however deep a graph may be and whatever reviews and
checks say.
- `RefusedForACauseHolds`, under the hypothesis `TemplatesPlain`: templates leave to the
  callback the names it gives. The code does not forbid a step called "git_commit", which the
  callback's own would then meet; TLC evaluates the hypothesis on the templates of
  `MCServices`. The invariant `PlanInv`: a name that only the callback gives shows which node
  brought it, and that this node is among the `followups` (`MadeBy`); so a second node of that
  name was brought by one that collides with the first (`Clash`), and one that lies too deep
  by one at the limit. The property once said less of colliding checks, and nothing of plans
  made at the limit of depth, and was false: the attempt to prove it showed both, and
  `MCServices` now has the plan with a check after a check.
- `StageAnswersHolds`, with no hypothesis, from `AnswerInv`: in a stage that no plan has
  changed every node is one the code has put there, in its role (`Placed`); a node that was
  skipped is a spare, or the check of code that failed (`Skipped`); tests, commit and summary
  are there only after the checks before them have passed (`Earned`), and a check that passed
  has brought what follows it (`Kept`). Together with it `LookInv`: in an external project the
  code waits for what waits for the analysis, so that a check that has begun asks for an
  analysis that is there or has failed, and asking later gives the same answer.
- `FallbacksOwnedHolds`, with no hypothesis, from `Spares`: only the code and its first check
  name a fallback, it is there and waits for the code alone, and nothing that a plan, a
  review or a check adds names one. It is what `Built` asks of the graphs of a stage, in
  `Planning`'s terms; the two modules name nodes differently, so the link between them is
  read, not proved. `FallbacksOwned` is stated with the proof and no run checks it.
  Templates are excepted, whose steps may bring a policy of their own.

*ServiceProofs*, for any endpoints, dispatchers, commands, servers, faults and restarts.
- `DeliveriesAccountedHolds` (`WebhookSpec`): a key is sent by one dispatcher, which knows
  whether the receiver acted and whether the last attempt has failed, until it is one row
  (`OneSender`, `OnItsWay`); the rows say the same (`RowsTrue`), and a key without either was
  lost in a crash, a dropped request or a failed store (`AllAccounted`).
- `FinalToldOnceHolds` (`GatewaySpec`): a run belongs to one task (`OneTaskPerRun`); until that
  task has ended its result is not shown, but by an edit whose answer was lost, and when it has
  ended it is (`TasksOK`).
- `RepliesMatchHolds` (`McpSpec`, at least one server and one caller): while the run is
  straight, the pipes of a server hold notifications and, if somebody waits, the one
  request of the only one who does, or its answer (`InTurn`); during startup only `main`
  asks, and only the server it is at (`MainOnly`). The second part is needed because
  startup writes its requests without asking whether anybody waits.
- `TerminalFaithfulHolds` (`TerminalSpec`; scrollback and channel hold at least one): the
  scrollback, and what a browser that keeps up shows and has queued, are the last of the
  chunks read, without a gap (`Counts`); an exit is the last entry of a queue, and only
  after the reader saw it; a thread that is done has left the map, or looked before it
  was listed (`ReaderOK`, `WsOK`).
- `NothingLeftBehindHolds` (`NodeSpec`; any retries, iterations and commands): what an
  attempt has is what its step needs (`Tidy`), an attempt that was dropped or gave its process
  up is over or about to fail, so that none of them succeeds (`FailedOnes`), and a stash that no
  failed git command explains is that of the commit under way (`StashExplained`).

*RouterProofs* (`RouterSpec`; assumption `CatalogAssumption`: the models of the catalogue are
typed and their ids are their own), for any number of handlers and any patches.
- `ChainHonestHolds`, from `CallOK`: the models before the current one, and only they, have
  failed, and what was shown in part is theirs. That the model which answers is not among
  them needs that the chain names no model twice, which is `RankingIs`: ranks are a bijection
  because a model's place is decided by score and then by position (`Places`).
- `RestartKeepsRoutingHolds`, from `SettingsInv`. The property compares routers at rest; on
  the way there a handler that has read has what the router says (`LoadOK`), one about to
  write has settings the router agrees with (`SaveOK`), and the row knows the two things the
  router cannot tell from its own switches, the custom model and the CLI model (`RowKnown`).
  `Agrees` is routing alike, weaker than being what the settings make of a new router: an
  update turns on what the catalogue has and nothing else, and OpenAI may be off though no name
  that is read back says so, which is why the property compares with `Remembered`. It was in this proof that the
  custom model's exemption was found.

- `CutsDoNotMatterHolds` (`StreamSpec`; assumption `StreamAssumption`: a reply is a sequence
  of pieces, of any length), from `StreamInv`: while a reply is read, the buffer is what is
  left over of all that arrived, and what is gathered is what the lines of all that arrived
  say. A chunk keeps this because the lines of a whole are those up to a cut and those of
  what is left over with what follows (`LinesAcrossACut`), because lines may be read in two
  turns (`GatheredInTurns`), and because a reader that met OpenAI's last line gathers nothing
  more (`GatheredIs`). The recursive functions are unfolded by their tables, which exist by
  `TableExists`, and compared place by place.

*StoreProofs*, for any number of writers, requests, paths, cluster runs, faults and crashes.
- `NothingLostHolds`, `DeletionCompleteHolds` (`SessionMemorySpec`): a writer's number is
  its own and in no file before its line is written (`WritersOK`), so that a file has each
  number once, whatever locks its writers hold, and a torn line only after a crash
  (`LogsOK`); what an undisturbed deletion has emptied stays empty (`ErasedQuietly`); what
  a sweep finds alive came after its look (`SweptLate`).
- `FilesMatchRowsHolds` (`WorkspacesSpec`): numbers of workspaces are given out once and
  never come back (`Numbered`), which is why a request that knows one whose row is gone
  cannot meet a new row of its number; every place two requests or two rows share is noted
  (`RacesNoted`); between its two steps an upload has its bytes on disk and a deletion has
  no row (`InHandTrue`); bytes that no row describes are those of an upload under way or of one
  that failed (`Unrecorded`, `wsFailed`).
- `ScheduleKeptHolds` (`AutomationSpec`, any periods and minutes): the scheduler has a
  schedule in hand once (`HeldOnce`), and what it read of one that nobody touched is still
  so (`AsRead`); a schedule that was not just run is ahead of every run started for it
  (`RunsBehind`), which is why no time starts two.
- `VerdictTrueHolds`, `EndedIsFinalHolds` (`ClusterSpec`, assumption
  `ParametersAssumption`; the run has one cluster run of three sub-runs), from `IInv`: a
  sub-run reported on the bus or in a record was reported once, by a watcher that has stopped,
  and is not in `unheard`; the bus holds one message per sub-run, and none of one the record
  has already heard of; a record's status follows from its sub-runs. Without the second part a
  second message could change a finished record.
- `TotalExactHolds`: the same, and that a message carries the usage its sub-run has.

*DataLemmas* has what the others share. The library's induction theorems cannot be
instantiated here, so induction over finite sets and numbers is done first-order, by
well-foundedness of the strict subset order and the least number principle
(`SubsetInduction`, `LeastNumber`, `IntervalInduction`); recursions up an interval are defined
(`TableExists`); sums over a set (`SumUnfolds`, `SumTakesOut`) and folds that
leave items out of a sequence (`OmittedKeeps`) follow.

The specifications `PlanningSpec`, `WebhookSpec`, `GatewaySpec`, `McpSpec`, `TerminalSpec`,
`NodeSpec`, `RouterSpec`, `StreamSpec`, `TraceSpec`, `SessionMemorySpec`, `WorkspacesSpec` and
`AutomationSpec`, and `EventSpec`, `ClusterSpec` and the `Spec` of `GraphRuntime`, are those of
one part each. In the runs `services` and `runs` one part moves and the others rest, so that
the behaviours of the part there are those of its own specification.

The inductive invariants were checked by TLC first, on the instances of the runs (that of
`Workspaces` on 4.4 million states, that of `SessionMemory` on 2.7 million, that of
`Automation` on 1.5 million, that of `ModelRouter` on 4.7 million).

**Only model-checked**: liveness (`ExecutionEnds`, `FailureReachesFallback`, `RunEnds`,
`EmittedIsSettled`, `BrowserIsTold`, `HeardOfAllEnds`, `NodeEnds`), which needs fairness and
ENABLED. `PlanVerdictExact` and `MeasuresExact`, which say of a recursive search what it
computes for every input: that needs induction over data, and `RunViews` has recursive
operators besides. The latter are in modules of their own, or are recursive functions, where
a theorem is about the rest.

## 6. Plan

Done: the stage and its refinement, the life of a run, its events and views, planning, the
execution of a node, cluster runs, routing, memory, workspaces, automation, webhooks,
gateway, terminals and MCP clients. What is left, in order of weight:

1. A common abstraction of a run (known, then ended, perhaps gone) for all that poll
   `get_run`, which `Cluster` and `Gateway` use informally.
2. That the answers of `Planning`'s callback are among the `Replies` that `GraphRuntime`
   assumes.

A violation run is kept only where a document is contradicted.

## 7. Not modelled

Prompts, contexts and their packing, parsing of models' answers, ranking by similarity,
GitHub requests, HTTP authentication and signatures, hashing, layout, the text interface
and logging: inputs and outputs of the modelled parts, or functions of text with no state
that a model checker would explore. The verdict on a finished run (`verify_completion`) is
a free choice of `RunLifecycle`. The persona router chooses a name, and a wrong choice
changes wording only. The rate limiter is one lock around a bucket of real numbers. The
harness's message bus has no caller outside its tests, and its tree of sub-agents is only
displayed. The repair loop of failed checks and the circuit breaker cannot be reached.
Several runs whose entries share a shard of the `DashMap` are one run in `RunLifecycle`: a
guard there blocks one entry, in the code it blocks the shard. Overflow of token counters
saturates (`TokenUsage::merge`) and is out of the bounds; the shift `1 << attempt` of the
backoff would overflow at 64 retries (`runtime/mod.rs:763`), far beyond the bounds of
`NodeExecution`.
