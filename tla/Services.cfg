SPECIFICATION Spec
CONSTANTS
  Catalog <- MCCatalog
  Profile = "general"
  Key = {k1}
  Admin = {a1, a2}
  Patch <- MCPatch
  Switch = {"custom:m", "open_ai"}
  MaxCalls = 3
  MaxRowErrors = 1
  Format = {"openai", "anthropic", "gemini"}
  Reply <- MCReply
  MaxBuffer = 5
  Server <- MCServer
  Tools <- MCTools
  Caller = {c1, c2}
  MaxRequests = 5
  MaxDrops = 1
  MaxNotes = 1
  Kind = {"repo_analyze", "git_commands", "lint", "external", "git", "interactive", "tools", "coder", "llm"}
  Retry = 1
  MaxIterations = 2
  MaxPerIteration = 2
  MaxRounds = 1
  MaxNodeCommands = 2
  Term = {t1}
  Browser = {b1, b2}
  MaxChunks = 3
  MaxScroll = 2
  MaxLag = 2
  Writer = {w1, w2}
  MaxLogEvents = 2
  MaxTroubles = 2
  WsRequest = {r1, r2}
  WsPath = {p}
  WsSession = {s1}
  MaxWorkspaces = 2
  MaxWsWrites = 2
  Interval = {1, 2}
  MaxTime = 2
  MaxSchedules = 2
  MaxAutoEdits = 2
  MaxStoreErrors = 1
  Endpoint = {e1, e2}
  Dispatcher = {d1, d2}
  RequestTask = {d2}
  MaxHookEvents = 1
  MaxReplays = 1
  MaxFaults = 1
  Channel = {ch1}
  MaxCommands = 2
  MaxGatewayFaults = 1
  Word <- MCWord
  MaxGraphDepth = 6
  MaxSubtasks = 3
  Stage <- MCStage
  Template <- MCTemplate
  PlanOutput <- MCPlanOutput
  MaxPlans = 1
  MaxFollowups = 3
  MaxPlanFailures = 1
  TraceDeps <- MCTraceDeps
  LateNode = {3}
  FallbackNode <- MCFallbackNode
  ViewBounds <- MCViewBounds
SYMMETRY Twins
INVARIANTS
  RestartKeepsRouting ChainHonest CutsDoNotMatter RepliesMatch
  NothingLeftBehind TerminalFaithful NothingLost DeletionComplete FilesMatchRows
  ScheduleKept DeliveriesAccounted FinalToldOnce
  PlanVerdictExact RefusedForACause StageAnswers TraceTellsOutcome MeasuresExact
PROPERTIES
  NodeEnds
CHECK_DEADLOCK FALSE
