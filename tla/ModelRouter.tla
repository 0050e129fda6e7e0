---------------------------- MODULE ModelRouter ----------------------------
(***************************************************************************)
(* The model router (src/src/router/mod.rs) and the settings that steer it  *)
(* (src/src/orchestrator/settings.rs, src/src/interface/handlers/settings.rs)*)
(*                                                                         *)
(* Settings live twice: in the router, where a call reads them, and in the  *)
(* row of the store, from which a restart rebuilds the router.  A handler   *)
(* copies them across in steps, and nothing excludes two handlers.  A call  *)
(* chooses its chain of models once and walks it while the settings change. *)
(*                                                                         *)
(* Prompts are keys, a reply is the model that gave it, and a score is the  *)
(* code's, in millionths.                                                   *)
(***************************************************************************)
EXTENDS Integers, Sequences, SequencesExt, FiniteSets, TLC

CONSTANTS
  Catalog,      \* the models, in the catalogue's order
  Profile,      \* the task profile of the calls
  Key,          \* what prompt_hash distinguishes
  Admin,        \* concurrent calls of the settings handlers
  Patch,        \* bodies of PATCH /v1/settings: functions from some of the fields
  Switch,       \* providers and models the toggle handlers are called for
  MaxCalls,     \* handler calls and inferences started, together
  MaxRowErrors  \* failed reads and writes of the settings row

ASSUME RouterBounds == {MaxCalls, MaxRowErrors} \subseteq Nat

VARIABLES
  rt,           \* the router: preferred, disabledModels, disabled, cli, custom
  row,          \* the settings row
  admin,        \* the settings handlers in flight
  calm,         \* history: no two handlers overlapped and no row access failed
  cache,        \* ModelRouter::cache
  call,         \* one inference
  changes, calls, rowErrors
routerVars ==
  <<rt, row, admin, calm, cache, call, changes, calls, rowErrors>>

-----------------------------------------------------------------------------
(* The catalogue and the scores                                            *)

Backend == {"claude_code", "codex"}
Provider == {"open_ai", "anthropic", "gemini", "vllm", "mock"} \cup Backend
CliId(b) == IF b = "claude_code" THEN "claude-code-cli" ELSE "codex-cli"
Nothing == "none"

\* Quality and tool accuracy in hundredths, latency in ms, cost in units of
\* 0.0001, context in thousands of tokens.
ModelSpec(p, id, q, l, c, w, t) ==
  [provider |-> p, id |-> id, quality |-> q, latency |-> l, cost |-> c,
   context |-> w, tool |-> t]
DefaultCatalog == <<
  ModelSpec("open_ai", "gpt-5.2", 95, 3200, 700, 128, 92),
  ModelSpec("open_ai", "gpt-5.1", 82, 1400, 150, 128, 85),
  ModelSpec("open_ai", "gpt-5-mini", 88, 4500, 400, 200, 80),
  ModelSpec("anthropic", "claude-sonnet-4-6", 94, 2800, 600, 200, 92),
  ModelSpec("anthropic", "claude-opus-4-6", 97, 5000, 1200, 200, 95),
  ModelSpec("gemini", "gemini-3.1-pro-preview", 93, 2400, 500, 1000, 90),
  ModelSpec("gemini", "gemini-3-flash-preview", 82, 800, 80, 1000, 78),
  ModelSpec("vllm", "qwen2.5:14b", 78, 1700, 50, 32, 72),
  ModelSpec("vllm", "qwen2.5:7b", 68, 900, 20, 32, 60),
  ModelSpec("mock", "mock-general", 40, 50, 1, 16, 40),
  ModelSpec("claude_code", "claude-code-cli", 94, 2600, 10, 200, 90),
  ModelSpec("codex", "codex-cli", 93, 2400, 10, 200, 88) >>
CustomModel == ModelSpec("vllm", "custom:m", 75, 1500, 10, 32, 70)

IsModel(m) ==
  /\ m.provider \in Provider /\ {m.quality, m.context, m.tool} \subseteq Nat
  /\ {m.latency, m.cost} \subseteq Nat \ {0}
ASSUME CatalogAssumption ==
  /\ Catalog \in Seq(Range(Catalog)) /\ \A i \in DOMAIN Catalog : IsModel(Catalog[i])
  /\ \A i \in DOMAIN Catalog : Catalog[i].id # CustomModel.id
  /\ \A i, j \in DOMAIN Catalog : Catalog[i].id = Catalog[j].id => i = j

\* Weights in hundredths, the rest as above.
Constraints(profile) ==
  CASE profile = "planning" ->
         [quality |-> 45, latency |-> 8000, cost |-> 800, context |-> 24, tool |-> 10]
    [] profile = "extraction" ->
         [quality |-> 20, latency |-> 2000, cost |-> 200, context |-> 12, tool |-> 5]
    [] profile = "coding" ->
         [quality |-> 35, latency |-> 5000, cost |-> 500, context |-> 20, tool |-> 15]
    [] OTHER ->
         [quality |-> 30, latency |-> 4000, cost |-> 400, context |-> 16, tool |-> 10]

Least(a, b) == IF a < b THEN a ELSE b
Most(a, b) == IF a < b THEN b ELSE a
\* How well a budget fits a need, at most 1, in ten-thousandths.
Fit(have, want) == (Least(15000, (have * 10000) \div want) * 2) \div 3
Score(m, k) ==
  k.quality * m.quality * 100
    + (Most(3000 - k.quality * 25, 1000) * Fit(k.latency, m.latency)) \div 100
    + 20 * Fit(k.cost, m.cost) + 20 * Fit(m.context, k.context)
    + k.tool * m.tool * 100

Models(r) == IF r.custom THEN Append(Catalog, CustomModel) ELSE Catalog
\* Their places in the catalogue.
Selectable(r) ==
  {i \in DOMAIN Models(r) : /\ Models(r)[i].context >= Constraints(Profile).context
                            /\ Models(r)[i].provider \notin r.disabled
                            /\ Models(r)[i].id \notin r.disabledModels}
Worth(r, m) == Score(m, Constraints(Profile)) + (IF m.id = r.preferred THEN 150000 ELSE 0)
Outranks(r, i, j) ==
  LET wi == Worth(r, Models(r)[i])
      wj == Worth(r, Models(r)[j])
  IN  wi > wj \/ (wi = wj /\ i < j)
\* select_model: the best score first, ties in the catalogue's order.
Rank(r, S, i) == Cardinality({j \in S : Outranks(r, j, i)}) + 1
Ranked(r, S) ==
  [k \in 1..Cardinality(S) |-> Models(r)[CHOOSE i \in S : Rank(r, S, i) = k]]
Ranking(r) == Ranked(r, Selectable(r))

-----------------------------------------------------------------------------
(* Settings and the router                                                 *)

\* A provider's name is written by Display, which calls OpenAi otherwise than serde
\* does; a name that serde does not know is passed over.
Written(p) == IF p = "open_ai" THEN "openai" ELSE p
ReadBack(names) == names \cap Provider

NoCli == [backend |-> Nothing, only |-> FALSE]

SetCli(r, c) ==
  [r EXCEPT !.cli = c,
            !.disabled = IF c = NoCli THEN @ \cup Backend
                         ELSE (@ \ {c.backend}) \cup (Backend \ {c.backend})]
Bootstrap(r, c) ==
  [r EXCEPT !.preferred = CliId(c.backend),
            !.disabled = IF c.only THEN Provider \ {c.backend}
                         ELSE @ \ {c.backend}]
SetVllm(r, custom) == [r EXCEPT !.custom = custom]

\* ModelRouter::new without a CLI model in the configuration.
NewRouter ==
  SetCli([preferred |-> Nothing, disabledModels |-> {}, disabled |-> {},
          cli |-> NoCli, custom |-> FALSE], NoCli)

Settings ==
  [preferred : {m.id : m \in Range(DefaultCatalog)} \cup {Nothing, CustomModel.id},
   disabledModels : SUBSET ({m.id : m \in Range(DefaultCatalog)} \cup {CustomModel.id}),
   disabledProviders : SUBSET (Provider \cup {Written(p) : p \in Provider}),
   cliEnabled : BOOLEAN, cliBackend : Backend \cup {Nothing}, cliOnly : BOOLEAN,
   custom : BOOLEAN]

Normalize(s) ==
  IF s.cliEnabled /\ s.cliBackend # Nothing
  THEN [backend |-> s.cliBackend, only |-> s.cliOnly] ELSE NoCli

\* apply_settings_to_runtime: everything in the catalogue is enabled first, the
\* CLI model rearranges the providers, and the lists of the settings come last.
Apply(r, s) ==
  LET c == Normalize(s)
      cleared == [r EXCEPT !.preferred = s.preferred, !.disabled = {},
                    !.disabledModels = @ \ {m.id : m \in Range(Models(r))}]
      withCli == SetCli(SetVllm(cleared, s.custom), c)
      steered ==
        IF c = NoCli THEN withCli
        ELSE [Bootstrap(withCli, c) EXCEPT
                !.preferred = IF s.preferred = Nothing THEN @ ELSE s.preferred]
  IN  [steered EXCEPT
         !.disabledModels = @ \cup s.disabledModels,
         !.disabled = IF s.cliEnabled /\ s.cliOnly THEN @
                      ELSE @ \cup ReadBack(s.disabledProviders)]

GetSettings(r) ==
  [preferred |-> r.preferred, disabledModels |-> r.disabledModels,
   disabledProviders |-> {Written(p) : p \in r.disabled}, cliEnabled |-> r.cli # NoCli,
   cliBackend |-> r.cli.backend, cliOnly |-> r.cli.only, custom |-> FALSE]

NoRow == << >>

(* A wrong variant: the row's custom model is not taken over.              *)
Merged_LosesCustom(s, stored) ==
  IF stored = NoRow THEN s
  ELSE LET t == s
       IN  IF ~t.cliEnabled /\ stored.cliEnabled
           THEN [t EXCEPT !.cliEnabled = TRUE, !.cliBackend = stored.cliBackend,
                          !.cliOnly = stored.cliOnly]
           ELSE t

\* current_settings: what the router does not hold comes from the row.
Merged(s, stored) ==
  IF stored = NoRow THEN s
  ELSE LET t == [s EXCEPT !.custom = stored.custom]
       IN  IF ~t.cliEnabled /\ stored.cliEnabled
           THEN [t EXCEPT !.cliEnabled = TRUE, !.cliBackend = stored.cliBackend,
                          !.cliOnly = stored.cliOnly]
           ELSE t

NoPatch == << >>
CliFields == {"cliEnabled", "cliBackend", "cliOnly"}
\* A patch takes the place of the fields it names.
Override(p, s) ==
  [f \in DOMAIN p \cup DOMAIN s |-> IF f \in DOMAIN p THEN p[f] ELSE s[f]]
Patched(s, p) ==
  LET off == "cliEnabled" \in DOMAIN p /\ ~p["cliEnabled"]
      t == Override(p, IF off THEN [s EXCEPT !.cliBackend = Nothing] ELSE s)
  IN  IF DOMAIN p \cap CliFields = {} THEN t
      ELSE IF Normalize(t) # NoCli
           THEN [t EXCEPT !.preferred = CliId(t.cliBackend)]
           ELSE IF t.preferred \in {CliId(b) : b \in Backend}
                THEN [t EXCEPT !.preferred = Nothing] ELSE t

-----------------------------------------------------------------------------
(* The settings handlers                                                   *)

Quiet == [pc |-> "idle"]
AllQuiet == \A a \in Admin : admin[a] = Quiet
inference == <<cache, call, calls>>

Begins(a) ==
  /\ admin[a] = Quiet /\ changes + calls < MaxCalls
  /\ changes' = changes + 1
  /\ calm' = (calm /\ AllQuiet)

\* update_settings reads the router, and then waits for the row.
UpdateBegins(a, p) ==
  /\ Begins(a)
  /\ admin' = [admin EXCEPT ![a] =
                 [pc |-> "loading", seen |-> GetSettings(rt), patch |-> p]]
  /\ UNCHANGED <<rt, row, rowErrors, inference>>

Toggled(set, x) == IF x \in set THEN set \ {x} ELSE set \cup {x}
\* The toggle handlers change the router first and persist what they find there.
ToggleProvider(a, p) ==
  /\ Begins(a) /\ p \in Switch \cap Provider
  /\ rt' = [rt EXCEPT !.disabled = Toggled(@, p)]
  /\ admin' = [admin EXCEPT ![a] =
                 [pc |-> "loading", seen |-> GetSettings(rt'), patch |-> NoPatch]]
  /\ UNCHANGED <<row, rowErrors, inference>>
ToggleModel(a, m) ==
  /\ Begins(a) /\ m \in Switch \ Provider
  /\ rt' = [rt EXCEPT !.disabledModels = Toggled(@, m)]
  /\ admin' = [admin EXCEPT ![a] =
                 [pc |-> "loading", seen |-> GetSettings(rt'), patch |-> NoPatch]]
  /\ UNCHANGED <<row, rowErrors, inference>>

RowError ==
  /\ rowErrors < MaxRowErrors /\ rowErrors' = rowErrors + 1 /\ calm' = FALSE
RowFine == UNCHANGED <<rowErrors, calm>>

\* The row arrived, or the read failed and counts as no row: a toggle saves
\* what it merged, an update applies its patch to the router first.
LoadReturns(a) ==
  /\ admin[a].pc = "loading"
  /\ \E stored \in {row, NoRow} :
       /\ IF stored = row THEN RowFine ELSE RowError
       /\ LET s == Merged(admin[a].seen, stored)
              t == IF admin[a].patch = NoPatch THEN s ELSE Patched(s, admin[a].patch)
          IN  /\ rt' = IF admin[a].patch = NoPatch THEN rt ELSE Apply(rt, t)
              /\ admin' = [admin EXCEPT ![a] = [pc |-> "saving", settings |-> t]]
  /\ UNCHANGED <<row, changes, inference>>

\* A failed write is logged, and the handler answers 200 all the same.
SaveReturns(a) ==
  /\ admin[a].pc = "saving"
  /\ \/ row' = admin[a].settings /\ RowFine
     \/ RowError /\ UNCHANGED row
  /\ admin' = [admin EXCEPT ![a] = Quiet]
  /\ UNCHANGED <<rt, changes, inference>>

\* What a restart makes of the row: load_persisted_settings.
Rebooted == IF row = NoRow THEN NewRouter ELSE Apply(NewRouter, row)

-----------------------------------------------------------------------------
(* Inference                                                               *)

NoCall == [pc |-> "idle"]
settingsVars == <<rt, row, admin, calm, changes, rowErrors>>
NoEntry == Nothing

Choose(stream, key) ==
  LET chain == Ranking(rt)
  IN  call' = [pc |-> IF chain = << >> THEN "failed" ELSE "choosing",
               stream |-> stream, key |-> key, chain |-> chain, at |-> 1,
               failed |-> {}, shown |-> << >>, late |-> FALSE]

\* infer_in_dir: an answer in the cache is served, as long as a model could be
\* selected; an expired one is removed.
Infer(key) ==
  /\ call.pc = "idle" /\ changes + calls < MaxCalls /\ calls' = calls + 1
  /\ IF cache[key] # NoEntry /\ Ranking(rt) # << >>
     THEN call' = [pc |-> "cached", stream |-> FALSE, key |-> key, from |-> cache[key]]
     ELSE Choose(FALSE, key)
  /\ UNCHANGED <<settingsVars, cache>>
\* infer_stream never looks into the cache, and fills it.
InferStream(key) ==
  /\ call.pc = "idle" /\ changes + calls < MaxCalls /\ calls' = calls + 1
  /\ Choose(TRUE, key)
  /\ UNCHANGED <<settingsVars, cache>>
Expire(key) ==
  /\ cache[key] # NoEntry
  /\ cache' = [cache EXCEPT ![key] = NoEntry]
  /\ UNCHANGED <<settingsVars, call, calls>>

Current == call.chain[call.at]
NextModel(c) == [c EXCEPT !.pc = IF c.at = Len(c.chain) THEN "failed" ELSE "choosing",
                      !.at = @ + 1, !.failed = @ \cup {c.chain[c.at].id}]

\* generate and generate_stream look at the settings again.
Enabled(m) == m.provider \notin rt.disabled /\ m.id \notin rt.disabledModels

(* A wrong variant: a model that is not enabled ends the call.             *)
TryModel_GivesUp ==
  /\ call.pc = "choosing"
  /\ call' = IF Enabled(Current) THEN [call EXCEPT !.pc = "calling"] ELSE [call EXCEPT !.pc = "failed"]
  /\ UNCHANGED <<settingsVars, cache, calls>>

TryModel ==
  /\ call.pc = "choosing"
  /\ call' = IF Enabled(Current) THEN [call EXCEPT !.pc = "calling"] ELSE NextModel(call)
  /\ UNCHANGED <<settingsVars, cache, calls>>
\* The chain took more than its deadline; the first model is tried at once.
Late ==
  /\ call.pc = "choosing" /\ call.at > 1
  /\ call' = [call EXCEPT !.pc = "failed", !.late = TRUE]
  /\ UNCHANGED <<settingsVars, cache, calls>>

\* Only the streams of the HTTP providers show tokens before they end.
Incremental(m) == m.provider \notin Backend \cup {"mock"}
\* A CLI provider answers only while its command is configured.
Answers(m) == m.provider \in Backend => rt.cli.backend = m.provider
Errs ==
  /\ call.pc = "calling" /\ Current.provider # "mock"
  /\ \E tokens \in {FALSE} \cup (IF call.stream THEN {Incremental(Current)} ELSE {}) :
       call' = NextModel([call EXCEPT !.shown =
                        IF tokens THEN Append(@, <<Current.id, "part">>) ELSE @])
  /\ UNCHANGED <<settingsVars, cache, calls>>
Replies ==
  /\ call.pc = "calling" /\ Answers(Current)
  /\ cache' = [cache EXCEPT ![call.key] = Current.id]
  /\ call' = [call EXCEPT !.pc = "answered", !.shown =
                IF call.stream THEN Append(@, <<Current.id, "all">>) ELSE @]
  /\ UNCHANGED <<settingsVars, calls>>
\* The caller takes the answer or the error, or drops the call: its own timeout,
\* or the total one of infer and infer_stream.
CallEnds ==
  /\ call.pc # "idle"
  /\ call' = NoCall
  /\ UNCHANGED <<settingsVars, cache, calls>>

Restart ==
  /\ rt' = Rebooted
  /\ admin' = [a \in Admin |-> Quiet]
  /\ calm' = (calm /\ AllQuiet)
  /\ cache' = [k \in Key |-> NoEntry] /\ call' = NoCall
  /\ UNCHANGED <<row, changes, calls, rowErrors>>

-----------------------------------------------------------------------------
RouterInit ==
  /\ rt = NewRouter /\ row = NoRow
  /\ admin = [a \in Admin |-> Quiet] /\ calm = TRUE
  /\ cache = [k \in Key |-> NoEntry] /\ call = NoCall
  /\ changes = 0 /\ calls = 0 /\ rowErrors = 0

RouterNext ==
  \/ \E a \in Admin :
       \/ \E p \in Patch : UpdateBegins(a, p)
       \/ \E x \in Switch : ToggleProvider(a, x) \/ ToggleModel(a, x)
       \/ LoadReturns(a) \/ SaveReturns(a)
  \/ \E k \in Key : Infer(k) \/ InferStream(k) \/ Expire(k)
  \/ TryModel \/ Late \/ Errs \/ Replies \/ CallEnds
  \/ Restart
RouterSpec == RouterInit /\ [][RouterNext]_routerVars

-----------------------------------------------------------------------------
(* Properties                                                              *)

\* The models a call can be answered by, in its order: a CLI model whose command
\* is not configured may be in the chain, and fails at once.
Route(r) ==
  Ranked(r, {i \in Selectable(r) :
               LET p == Models(r)[i].provider IN p \in Backend => r.cli.backend = p})

\* Enabling goes through the catalogue before the custom model is put back there
\* (settings.rs:197): what it was turned off by earlier stays in the router.
StaysOff == CustomModel.id \in rt.disabledModels \ row.disabledModels
\* OpenAI, turned off, is still off for a restart only if a client's patch wrote
\* the name that is read back: what get_settings writes of it is passed over.
Remembered ==
  [rt EXCEPT !.disabled = IF "open_ai" \in row.disabledProviders THEN @
                          ELSE @ \ {"open_ai"}]
(* The settings row and the router say the same: once the handlers are done *)
(* and none of them overlapped or lost the row, a restart would route the   *)
(* calls as they are routed now, except that it turns OpenAI on again       *)
(* (UpdateKeepsSwitches).  In CLI-only mode the switches of the             *)
(* providers are not restored (settings.rs:225), so the mode is left out,   *)
(* and so is a custom model that came back while it was turned off.         *)
RestartKeepsRouting ==
  AllQuiet /\ calm /\ row # NoRow /\ ~(row.cliEnabled /\ row.cliOnly) /\ ~StaysOff =>
    Route(Rebooted) = Route(Remembered)

(* An update that was not disturbed and whose patch speaks neither of       *)
(* providers nor of the CLI model leaves the switches of the providers      *)
(* (settings.rs:5-6: "`update_settings` applies a `SettingsPatch`").        *)
UpdateKeepsSwitches ==
  [][\A a \in Admin :
       /\ LoadReturns(a) /\ calm' /\ admin[a].patch # NoPatch
       /\ DOMAIN admin[a].patch \cap (CliFields \cup {"disabledProviders"}) = {}
       => rt'.disabled = rt.disabled]_routerVars

(* An inference fails only after every model of its chain failed or the     *)
(* deadline passed, and what a stream showed ends with the whole answer of  *)
(* the model that gave it, after nothing but partial output of the models   *)
(* that failed before it (infer_stream_in_dir_with_cli_output).             *)
ChainHonest ==
  /\ call.pc = "failed" /\ ~call.late => \A m \in Range(call.chain) : m.id \in call.failed
  /\ call.pc = "answered" =>
       /\ call.stream => Last(call.shown) = <<Current.id, "all">>
       /\ \A s \in Range(call.shown) :
            s[2] = "part" => s[1] \in call.failed \ {Current.id}
=============================================================================
