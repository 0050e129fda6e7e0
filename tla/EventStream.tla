----------------------------- MODULE EventStream -----------------------------
(***************************************************************************)
(* The action events of one run: how they are recorded                     *)
(* (src/src/orchestrator/node_executor.rs build_event_sink, finish_run) and *)
(* how they reach a browser over SSE and a client over WebSocket           *)
(* (src/src/interface/handlers/runs.rs, src/web/src/hooks/use-sse.ts).      *)
(*                                                                         *)
(* A row's seq is its place in `log': the AUTOINCREMENT key grows with the  *)
(* order of the inserts, and rows of other runs only leave gaps.  The sink  *)
(* hands a node event to a task of its own and a token to the batcher; the  *)
(* lifecycle records its events itself.  An insert that fails is logged and *)
(* forgotten.  The readers poll: list the events, then look at the run.     *)
(* A run whose request names mentions begins with a row a listing cannot    *)
(* read back: parse_run_action does not know the action it stands for.      *)
(***************************************************************************)
EXTENDS Integers, SequencesExt

CONSTANTS
  MaxEmitted,   \* events the sink is called with
  MaxLost,      \* inserts that may fail
  MaxBreaks,    \* connections of the browser that may break
  BatchMax,     \* BATCH_MAX, tokens per insert
  PageLimit     \* the limit of list_run_action_events_since

ASSUME EventBounds ==
  /\ {MaxEmitted, MaxLost, MaxBreaks} \subseteq Nat
  /\ BatchMax \in Nat \ {0} /\ PageLimit \in Nat \ {0}

VARIABLES
  run,       \* the run, as finish_run moves it
  entry,     \* the run is in the orchestrator's map
  row,       \* the run has a row in agent_runs
  log,       \* run_action_events of the run, in seq order
  erased,    \* rows up to this seq have been deleted
  emitted,   \* sink calls so far, which number the events
  inFlight,  \* node events whose task has not inserted them
  channel,   \* tokens sent to the batcher
  buf,       \* tokens the batcher holds
  lost,      \* events whose insert failed
  ended,     \* history: length of the log when the guard was released
  stream,    \* the SSE generator: where it is
  lastSeq,   \* its last_seq
  ticks,     \* its idle_terminal_ticks
  batch,     \* seqs it has listed and not yet yielded
  hook,      \* the browser's connection state
  seenSeq,   \* the browser's lastSeq
  shown,     \* the browser's events
  breaks,    \* connections broken so far
  ws,        \* the WebSocket handler: where it is
  wsSeq      \* its last_seq; it sends what it lists at once

writeVars  == <<run, entry, row, log, erased, emitted, inFlight, channel, buf,
                lost, ended>>
streamVars == <<stream, lastSeq, ticks, batch>>
hookVars   == <<hook, seenSeq, shown, breaks>>
wsVars     == <<ws, wsSeq>>
eventVars == <<writeVars, streamVars, hookVars, wsVars>>

-----------------------------------------------------------------------------
(* Recording                                                               *)

(* The events es are inserted in one transaction, or none of them is.      *)
Insert(es) ==
  \/ log' = log \o es /\ lost' = lost
  \/ Len(lost) < MaxLost /\ log' = log /\ lost' = lost \o es

Working == run = "running"

EmitNode ==
  /\ Working /\ emitted < MaxEmitted
  /\ emitted' = emitted + 1
  /\ inFlight' = inFlight \cup {emitted'}
  /\ UNCHANGED <<run, entry, row, log, erased, channel, buf, lost, ended,
                 streamVars, hookVars, wsVars>>

EmitToken ==
  /\ Working /\ emitted < MaxEmitted
  /\ emitted' = emitted + 1
  /\ channel' = Append(channel, [kind |-> "token", n |-> emitted'])
  /\ UNCHANGED <<run, entry, row, log, erased, inFlight, buf, lost, ended,
                 streamVars, hookVars, wsVars>>

(* The task spawned for a node event calls record_node_event.              *)
RecordNode(n) ==
  /\ n \in inFlight
  /\ inFlight' = inFlight \ {n}
  /\ Insert(<<[kind |-> "node", n |-> n]>>)
  /\ UNCHANGED <<run, entry, row, erased, emitted, channel, buf, ended,
                 streamVars, hookVars, wsVars>>

Buffered(token) == Append(buf, token)

(* The batcher takes one token; a full buffer is inserted before the next. *)
BatchTake ==
  /\ channel # << >> /\ Len(buf) < BatchMax
  /\ buf' = Buffered(Head(channel))
  /\ channel' = Tail(channel)
  /\ UNCHANGED <<run, entry, row, log, erased, emitted, inFlight, lost, ended,
                 streamVars, hookVars, wsVars>>

(* A wrong variant: without the ticker and the flush at the end.           *)
FlushDue_OnlyFull == Len(buf) >= BatchMax

(* The buffer is full, the ticker fires or the channel is closed.          *)
FlushDue == buf # << >>

BatchFlush ==
  /\ FlushDue
  /\ Insert(buf)
  /\ buf' = << >>
  /\ UNCHANGED <<run, entry, row, erased, emitted, inFlight, channel, ended,
                 streamVars, hookVars, wsVars>>

(* finish_run, from taking the entry's guard to writing the row.           *)
FinishBegins ==
  /\ run = "running"
  /\ run' = IF entry THEN "finishing" ELSE "abandoned"
  /\ row' = (row \/ entry)
  /\ UNCHANGED <<entry, log, erased, emitted, inFlight, channel, buf, lost,
                 ended, streamVars, hookVars, wsVars>>

FinishRecords ==
  /\ \/ run = "finishing" /\ run' = "announcing"
     \/ run = "announcing" /\ run' = "releasing"
  /\ Insert(<<[kind |-> "run", n |-> 0]>>)
  /\ UNCHANGED <<entry, row, erased, emitted, inFlight, channel, buf, ended,
                 streamVars, hookVars, wsVars>>

(* finish_run returns, which releases the guard.                           *)
FinishReleases ==
  /\ run = "releasing"
  /\ run' = "ended"
  /\ ended' = Len(log)
  /\ UNCHANGED <<entry, row, log, erased, emitted, inFlight, channel, buf, lost,
                 streamVars, hookVars, wsVars>>

GuardHeld == run \in {"finishing", "announcing", "releasing"}

(* delete_session: the rows go first, the entry last.                      *)
DeleteRows ==
  /\ entry /\ erased = 0
  /\ row' = FALSE
  /\ erased' = Len(log)
  /\ UNCHANGED <<run, entry, log, emitted, inFlight, channel, buf, lost, ended,
                 streamVars, hookVars, wsVars>>

DeleteEntry ==
  /\ entry /\ erased > 0 /\ ~GuardHeld
  /\ entry' = FALSE
  /\ UNCHANGED <<run, row, log, erased, emitted, inFlight, channel, buf, lost,
                 ended, streamVars, hookVars, wsVars>>

-----------------------------------------------------------------------------
(* Reading                                                                 *)

(* parse_run_action, applied with `?' to each row of a page: eight actions  *)
(* that are written have no case there.  Of these a run records only        *)
(* mention_received (meetings.rs:94 writes under the nil run id).           *)
Readable(seqs) == \A i \in 1..Len(seqs) : log[seqs[i]].kind # "mention"

(* list_run_action_events_since: the first PageLimit rows beyond `after'.  *)
Listed(after) ==
  LET from == IF after > erased THEN after ELSE erased
      upto == IF from + PageLimit < Len(log) THEN from + PageLimit ELSE Len(log)
  IN [i \in 1..(IF upto > from THEN upto - from ELSE 0) |-> from + i]

(* get_run: the entry, else the row, which only finish_run writes back.    *)
RunSeen ==
  IF entry \/ row THEN IF run = "ended" THEN "terminal" ELSE "active"
  ELSE "absent"

StreamLists ==
  /\ stream = "list"
  /\ Readable(Listed(lastSeq))
  /\ batch' = Listed(lastSeq)
  /\ stream' = "send"
  /\ UNCHANGED <<writeVars, hookVars, wsVars, lastSeq, ticks>>

(* The listing fails: the stream reports an error and ends, the hook notes  *)
(* the error and reconnects.                                               *)
StreamFails ==
  /\ stream = "list"
  /\ ~Readable(Listed(lastSeq))
  /\ stream' = "down"
  /\ hook' = "connecting"
  /\ UNCHANGED <<writeVars, wsVars, lastSeq, ticks, batch, seenSeq, shown, breaks>>

(* Where the hook's binary search puts an event.                           *)
Place(seq) ==
  CHOOSE i \in 1..(Len(shown) + 1) :
    /\ \A j \in 1..(i - 1) : shown[j] =< seq
    /\ \A j \in i..Len(shown) : shown[j] > seq

(* The hook keeps its events in seq order and drops what it has.           *)
Shown(seq) ==
  IF seq \in Range(shown) THEN shown ELSE InsertAt(shown, Place(seq), seq)

StreamSends ==
  /\ stream = "send" /\ batch # << >>
  /\ batch' = Tail(batch)
  /\ lastSeq' = Head(batch)
  /\ shown' = Shown(Head(batch))
  /\ seenSeq' = IF Head(batch) > seenSeq THEN Head(batch) ELSE seenSeq
  /\ UNCHANGED <<writeVars, wsVars, stream, ticks, hook, breaks>>

(* A wrong variant: the stream ends when it first sees the run's end.      *)
LastTick_First == 1

(* Terminal polls after which the stream ends.                             *)
LastTick == 2

(* A wrong variant: the hook reconnects after run_terminal as well.        *)
AfterTerminal_Reconnects == "connecting"

AfterTerminal == "closed"

(* The poll's second half: look at the run, which needs its guard.         *)
StreamLooks ==
  /\ stream = "send" /\ batch = << >>
  /\ ~GuardHeld
  /\ \/ /\ RunSeen = "terminal"
        /\ IF lastSeq > 0 /\ ticks + 1 < LastTick
           THEN stream' = "list" /\ ticks' = ticks + 1 /\ hook' = hook
           ELSE stream' = "down" /\ ticks' = ticks /\ hook' = AfterTerminal
     \/ RunSeen = "active" /\ stream' = "list" /\ ticks' = 0 /\ hook' = hook
     \/ /\ RunSeen = "absent"
        /\ stream' = "down" /\ ticks' = ticks /\ hook' = "connecting"
  /\ UNCHANGED <<writeVars, wsVars, lastSeq, batch, seenSeq, shown, breaks>>

(* The connection is lost or the stream reports an error and ends.         *)
StreamBreaks ==
  /\ hook = "open" /\ breaks < MaxBreaks
  /\ breaks' = breaks + 1
  /\ hook' = "connecting"
  /\ stream' = "down"
  /\ batch' = << >>
  /\ UNCHANGED <<writeVars, wsVars, lastSeq, ticks, seenSeq, shown>>

(* The hook asks to resume after the last event it has.  The Next.js route  *)
(* drops after_seq, and the stream starts over; the endpoint itself obeys.  *)
Connect ==
  /\ hook = "connecting"
  /\ hook' = "open"
  /\ stream' = "list"
  /\ lastSeq' \in {0, seenSeq}
  /\ ticks' = 0
  /\ UNCHANGED <<writeVars, wsVars, batch, seenSeq, shown, breaks>>

(* A listing that fails ends the socket, which nobody opens again.         *)
WsSends ==
  /\ ws = "list"
  /\ LET seqs == Listed(wsSeq)
     IN \/ /\ Readable(seqs)
           /\ wsSeq' = IF seqs = << >> THEN wsSeq ELSE Last(seqs)
           /\ ws' = "look"
        \/ ~Readable(seqs) /\ wsSeq' = wsSeq /\ ws' = "failed"
  /\ UNCHANGED <<writeVars, streamVars, hookVars>>

WsLooks ==
  /\ ws = "look" /\ ~GuardHeld
  /\ ws' = CASE RunSeen = "terminal" -> "told"
             [] RunSeen = "absent"   -> "failed"
             [] RunSeen = "active"   -> "list"
  /\ UNCHANGED <<writeVars, streamVars, hookVars, wsSeq>>

-----------------------------------------------------------------------------
(* The id of a run is known once submit_run has recorded its first events:  *)
(* MentionReceived if the request has a mention, then RunQueued.            *)
(* The client is a browser or uses the WebSocket: they share nothing.       *)
EventInit ==
  /\ run = "running" /\ entry = TRUE /\ row = TRUE
  /\ log \in {<<[kind |-> "run", n |-> 0]>>,
             <<[kind |-> "mention", n |-> 0], [kind |-> "run", n |-> 0]>>}
  /\ erased = 0 /\ emitted = 0 /\ inFlight = {}
  /\ channel = << >> /\ buf = << >> /\ lost = << >> /\ ended = 0
  /\ stream = "down" /\ lastSeq = 0 /\ ticks = 0 /\ batch = << >>
  /\ seenSeq = 0 /\ shown = << >> /\ breaks = 0 /\ wsSeq = 0
  /\ \/ hook = "connecting" /\ ws = "unused"
     \/ hook = "unused" /\ ws = "list"

Recorder ==
  \/ \E n \in inFlight : RecordNode(n)
  \/ BatchTake \/ BatchFlush
  \/ FinishBegins \/ FinishRecords \/ FinishReleases

Browser == StreamLists \/ StreamFails \/ StreamSends \/ StreamLooks \/ Connect
WebSocket == WsSends \/ WsLooks

EventNext ==
  \/ EmitNode \/ EmitToken \/ Recorder
  \/ DeleteRows \/ DeleteEntry
  \/ Browser \/ StreamBreaks \/ WebSocket

EventSpec == EventInit /\ [][EventNext]_eventVars

(* Each task is polled while it can move.  A run ends because its stages do *)
(* (RunLifecycle).  Emitting, deleting and losing a connection are not fair. *)
EventFairness ==
  /\ \A n \in 1..MaxEmitted : WF_eventVars(RecordNode(n))
  /\ WF_eventVars(BatchTake) /\ WF_eventVars(BatchFlush)
  /\ WF_eventVars(FinishBegins \/ FinishRecords \/ FinishReleases)
  /\ WF_eventVars(Browser) /\ WF_eventVars(WebSocket)

EventFairSpec == EventSpec /\ EventFairness

-----------------------------------------------------------------------------
(* Properties                                                              *)

Event == [kind : {"run", "mention", "node", "token"}, n : 0..MaxEmitted]

(* EventTypes: the types of the variables; the rows a stream has got exist. *)
EventTypes ==
  /\ run \in {"running", "finishing", "announcing", "releasing", "ended",
              "abandoned"}
  /\ {entry, row} \subseteq BOOLEAN
  /\ \A s \in {log, channel, buf, lost} : s \in Seq(Event)
  /\ emitted \in 0..MaxEmitted /\ inFlight \subseteq 1..emitted
  /\ {erased, ended, lastSeq, seenSeq, wsSeq} \subseteq 0..Len(log)
  /\ batch \in Seq(1..Len(log)) /\ shown \in Seq(1..Len(log))
  /\ stream \in {"down", "list", "send"} /\ hook \in {"connecting", "open", "closed", "unused"}
  /\ ticks \in 0..1 /\ breaks \in 0..MaxBreaks
  /\ ws \in {"list", "look", "told", "failed", "unused"}

(* NothingSkipped: what the browser shows is in order, without doubles, and *)
(* has no hole: every row up to its last one is there, through pages,       *)
(* broken connections and replays, unless the session was deleted.          *)
NothingSkipped ==
  /\ \A i \in 1..Len(shown) - 1 : shown[i] < shown[i + 1]
  /\ erased = 0 => Range(shown) = 1..seenSeq

(* CompleteAtEnd: when the browser is told that the run has ended, it shows *)
(* every row recorded before the end could be seen, or more than a page of  *)
(* rows (the polls after the end are counted, not the rows left), unless    *)
(* the session was deleted.                                                 *)
CompleteAtEnd ==
  hook = "closed" /\ erased = 0 => 1..ended \subseteq Range(shown) \/ seenSeq > PageLimit

(* TokensInOrder: tokens are recorded in the order in which the model       *)
(* produced them, although they pass through a channel, a buffer and        *)
(* several inserts.                                                         *)
TokensInOrder ==
  \A i, j \in 1..Len(log) :
    i < j /\ log[i].kind = "token" /\ log[j].kind = "token" => log[i].n < log[j].n

(* BrowserFaithful: all three, of what the sink, the rows, the stream and   *)
(* the hook (use-sse.ts:42-131) make of a run's events together.            *)
BrowserFaithful == NothingSkipped /\ CompleteAtEnd /\ TokensInOrder

(* EmittedIsSettled: when a run is over, every event the sink was called    *)
(* with is recorded in the end, or its insert has failed: none stays in a   *)
(* task, the channel or the buffer.                                         *)
EmittedIsSettled ==
  run \in {"ended", "abandoned"} ~>
    1..emitted \subseteq {(log \o lost)[i].n : i \in 1..Len(log \o lost)}

(* BrowserIsTold: the browser learns that the run has ended, however its    *)
(* polls fall between the steps of finish_run, unless the run was deleted   *)
(* or has a row that cannot be read back: such a run's stream fails in      *)
(* front of that row for ever (MentionsSurfaced).                           *)
BrowserIsTold ==
  run = "ended" /\ hook # "unused" /\ (\A i \in 1..Len(log) : log[i].kind # "mention")
    ~> (hook = "closed" \/ erased > 0)

(* MentionsSurfaced: a recorded mention is shown in the end, unless the     *)
(* session is deleted (run_manager.rs:146-147: "Surface every @mention as a *)
(* MentionReceived event so the trace UI can render the user's intent").    *)
MentionsSurfaced ==
  hook # "unused" /\ log[1].kind = "mention" ~> (1 \in Range(shown) \/ erased > 0)

(* SocketSendsAll: a WebSocket client that is told of the run's end has     *)
(* been sent the rows recorded before it, or more than a page of rows, as   *)
(* an SSE client has                                                        *)
(* (runs.rs: "receive the same `RunActionEvent` JSON frames that the SSE    *)
(* endpoint emits").                                                        *)
SocketSendsAll ==
  ws = "told" /\ erased = 0 => wsSeq >= ended \/ wsSeq > PageLimit
=============================================================================
