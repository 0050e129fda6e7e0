------------------------------- MODULE Gateway -------------------------------
(***************************************************************************)
(* The chat gateway (src/src/gateway): GatewayManager maps a channel to a  *)
(* session and executes a command, the Slack and Discord adapters answer   *)
(* the platform at once, run the command in a task of its own, send its    *)
(* answer, and follow a submitted run to its end.                          *)
(*                                                                         *)
(* One record per task, in flight or done.  A run is known by its number;  *)
(* what it does is the business of RunLifecycle, here it is going, over or *)
(* deleted.  Signatures, wording and embeds are left out; what a message   *)
(* shows is the run and whether it is that run's final state.              *)
(***************************************************************************)
EXTENDS Integers, Sequences

CONSTANTS Channel,        \* channels the bots listen to
          MaxCommands,    \* bound: commands that arrive
          MaxGatewayFaults  \* bound: restarts, and failed or unanswered calls of a
                            \* platform or of the store, together

ASSUME GatewayAssumption ==
    MaxCommands \in Nat /\ MaxGatewayFaults \in Nat

VARIABLES mapped,      \* GatewayManager::session_map: channel -> session, 0 when absent
          sessionCount,\* sessions created so far; a session is its number
          chatRuns,    \* seq of [session, state]: the runs, "going", "over" or "deleted"
          chat,        \* seq of tasks, one per command
          told,        \* seq of <<run, way>>: final results the platform has shown,
                       \* as the "edit" of an answer or as a "message"
          gatewayFaults,
          gatewayRestarts

gatewayVars == <<mapped, sessionCount, chatRuns, chat, told, gatewayFaults, gatewayRestarts>>

\* The surfaces a command comes in by, and the commands that differ in what follows
Surface == {"slack", "discord", "button"}
Command == {"run", "workflow", "retry", "other"}

\* parse_discord_command and decode_custom_id: a button carries no new task,
\* slash commands and messages any command
Offered(surface) == IF surface = "button" THEN {"retry", "other"} ELSE Command

\* is_run of the two handlers, and new_run_id of the button handler: the
\* commands whose run is followed once it is submitted
Followed(surface) == CASE surface = "slack"   -> {"run"}
                       [] surface = "discord" -> {"run", "workflow"}
                       [] surface = "button"  -> {"retry"}

NewTask(s, c, ch) ==
    [surface |-> s, command |-> c, channel |-> ch, run |-> 0, session |-> 0,
     expired |-> FALSE, lost |-> FALSE, unheard |-> FALSE,
     stage |-> IF c \in {"run", "workflow"} THEN "resolve" ELSE "act"]

GatewayInit ==
    /\ mapped = [c \in Channel |-> 0]
    /\ sessionCount = 0 /\ chatRuns = <<>> /\ chat = <<>> /\ told = <<>>
    /\ gatewayFaults = 0 /\ gatewayRestarts = 0

ChatFault ==
    /\ gatewayFaults + gatewayRestarts < MaxGatewayFaults
    /\ gatewayFaults' = gatewayFaults + 1
ChatSound == UNCHANGED gatewayFaults

\* The platform shows the final result of the run of task i
Shows(i, way) == told' = Append(told, <<chat[i].run, way>>)

\* Task i goes on
ChatGoes(i, task) == chat' = [chat EXCEPT ![i] = task]
Staged(i, stage) == [chat[i] EXCEPT !.stage = stage]

\* slash_command_handler, events_handler, handle_application_command and
\* handle_message_component up to their tokio::spawn: a command arrives
CommandArrives(s, c, ch) ==
    /\ Len(chat) < MaxCommands
    /\ c \in Offered(s)
    /\ chat' = Append(chat, NewTask(s, c, ch))
    /\ UNCHANGED <<mapped, sessionCount, chatRuns, told, gatewayFaults, gatewayRestarts>>

\* resolve_session: the entry of the map, read before the session is made
FindSession(i) ==
    /\ chat[i].stage = "resolve"
    /\ LET s == mapped[chat[i].channel]
       IN  ChatGoes(i, [Staged(i, IF s = 0 THEN "create" ELSE "act") EXCEPT !.session = s])
    /\ UNCHANGED <<mapped, sessionCount, chatRuns, told, gatewayFaults, gatewayRestarts>>

\* resolve_session after create_session(..).await: the new session replaces
\* whatever the map holds by then
InsertSession(i) ==
    /\ chat[i].stage = "create"
    /\ \/ /\ sessionCount' = sessionCount + 1
          /\ mapped' = [mapped EXCEPT ![chat[i].channel] = sessionCount + 1]
          /\ ChatGoes(i, [Staged(i, "act") EXCEPT !.session = sessionCount + 1])
          /\ ChatSound
       \/ /\ ChatFault
          /\ ChatGoes(i, Staged(i, "answer"))
          /\ UNCHANGED <<mapped, sessionCount>>
    /\ UNCHANGED <<chatRuns, told, gatewayRestarts>>

\* execute: the call of the orchestrator; a run it submits starts in the session
Execute(i) ==
    /\ chat[i].stage = "act"
    /\ \/ /\ chat[i].command # "other"
          /\ chat[i].command = "retry" => chatRuns # <<>>
          /\ chatRuns' = Append(chatRuns, [session |-> chat[i].session, state |-> "going"])
          /\ ChatGoes(i, [Staged(i, "answer") EXCEPT !.run = Len(chatRuns) + 1])
          /\ ChatSound
       \/ /\ chat[i].command = "other"
          /\ ChatGoes(i, Staged(i, "answer"))
          /\ ChatSound /\ UNCHANGED chatRuns
       \/ /\ ChatFault
          /\ ChatGoes(i, Staged(i, "answer"))
          /\ UNCHANGED chatRuns
    /\ UNCHANGED <<mapped, sessionCount, told, gatewayRestarts>>

\* The answer to the command: a failure to send it is logged and the task goes
\* on all the same; a run of a followed command is followed
AnswerCommand(i) ==
    /\ chat[i].stage = "answer"
    /\ ChatGoes(i, Staged(i, IF chat[i].run # 0 /\ chat[i].command \in Followed(chat[i].surface)
                             THEN "follow" ELSE "end"))
    /\ UNCHANGED <<mapped, sessionCount, chatRuns, told, gatewayFaults, gatewayRestarts>>

\* poll_and_deliver and discord_poll_and_update on a run that is gone or whose
\* row cannot be read: the follower ends without a word to the channel
FollowerGivesUp(i) ==
    /\ chat[i].stage = "follow"
    /\ \/ chatRuns[chat[i].run].state = "deleted" /\ ChatSound
       \/ ChatFault
    /\ ChatGoes(i, [Staged(i, "end") EXCEPT !.lost = TRUE])
    /\ UNCHANGED <<mapped, sessionCount, chatRuns, told, gatewayRestarts>>

\* A message to the channel ends the task; one that fails may have been shown
FinalMessage(i) ==
    \/ ChatSound /\ Shows(i, "message") /\ ChatGoes(i, Staged(i, "end"))
    \/ ChatFault /\ (UNCHANGED told \/ Shows(i, "message"))
       /\ ChatGoes(i, [Staged(i, "end") EXCEPT !.lost = TRUE])

\* poll_and_deliver on a finished run: one message to the channel
SlackDelivers(i) ==
    /\ chat[i].stage = "follow" /\ chat[i].surface = "slack"
    /\ chatRuns[chat[i].run].state = "over"
    /\ FinalMessage(i)
    /\ UNCHANGED <<mapped, sessionCount, chatRuns, gatewayRestarts>>

\* discord_poll_and_update on a run still going: the message is edited, and the
\* first edit that fails is the last one tried.  A token expires by itself, so
\* this failure is not counted.
DiscordProgress(i) ==
    /\ chat[i].stage = "follow" /\ chat[i].surface # "slack" /\ ~chat[i].expired
    /\ chatRuns[chat[i].run].state = "going"
    /\ ChatGoes(i, [chat[i] EXCEPT !.expired = TRUE])
    /\ UNCHANGED <<mapped, sessionCount, chatRuns, told, gatewayFaults, gatewayRestarts>>

\* A wrong variant: an edit that fails is the last word.
DiscordDelivers_NoFallback(i) ==
    /\ chat[i].stage = "follow" /\ chat[i].surface # "slack"
    /\ chatRuns[chat[i].run].state = "over"
    /\ \/ ~chat[i].expired /\ ChatSound /\ Shows(i, "edit") /\ ChatGoes(i, Staged(i, "end"))
       \/ /\ ~chat[i].expired /\ ChatFault
          /\ ChatGoes(i, [Staged(i, "end") EXCEPT !.expired = TRUE])
          /\ UNCHANGED told
       \/ /\ chat[i].expired /\ ChatSound
          /\ ChatGoes(i, Staged(i, "channel"))
          /\ UNCHANGED told
    /\ UNCHANGED <<mapped, sessionCount, chatRuns, gatewayRestarts>>

\* discord_poll_and_update on a finished run: the edit of the message while its
\* token is good, or else, also right after a failed edit, a channel message.  An
\* edit that was made fails all the same when its answer is lost or an error.
DiscordDelivers(i) ==
    /\ chat[i].stage = "follow" /\ chat[i].surface # "slack"
    /\ chatRuns[chat[i].run].state = "over"
    /\ \/ ~chat[i].expired /\ ChatSound /\ Shows(i, "edit") /\ ChatGoes(i, Staged(i, "end"))
       \/ /\ ~chat[i].expired /\ ChatFault
          /\ ChatGoes(i, [Staged(i, "channel") EXCEPT !.expired = TRUE])
          /\ UNCHANGED told
       \/ /\ ~chat[i].expired /\ ChatFault
          /\ ChatGoes(i, [Staged(i, "channel") EXCEPT !.expired = TRUE, !.unheard = TRUE])
          /\ Shows(i, "edit")
       \/ /\ chat[i].expired /\ ChatSound
          /\ ChatGoes(i, Staged(i, "channel"))
          /\ UNCHANGED told
    /\ UNCHANGED <<mapped, sessionCount, chatRuns, gatewayRestarts>>

\* The fallback: send_channel_message, which takes any answer for success
ChannelMessage(i) ==
    /\ chat[i].stage = "channel"
    /\ FinalMessage(i)
    /\ UNCHANGED <<mapped, sessionCount, chatRuns, gatewayRestarts>>

\* The orchestrator: a run ends, and an ended run may be deleted with its session
ChatRunMoves(r) ==
    /\ \/ chatRuns[r].state = "going" /\ chatRuns' = [chatRuns EXCEPT ![r].state = "over"]
       \/ chatRuns[r].state = "over" /\ chatRuns' = [chatRuns EXCEPT ![r].state = "deleted"]
    /\ UNCHANGED <<mapped, sessionCount, chat, told, gatewayFaults, gatewayRestarts>>

\* The process restarts: the map and the tasks are in memory only
GatewayRestart ==
    /\ gatewayFaults + gatewayRestarts < MaxGatewayFaults
    /\ gatewayRestarts' = gatewayRestarts + 1
    /\ mapped' = [c \in Channel |-> 0]
    /\ chat' = [i \in DOMAIN chat |->
                  IF chat[i].stage = "end" THEN chat[i]
                  ELSE [chat[i] EXCEPT !.stage = "end", !.lost = TRUE]]
    /\ UNCHANGED <<sessionCount, chatRuns, told, gatewayFaults>>

GatewayNext ==
    \/ \E s \in Surface, c \in Command, ch \in Channel : CommandArrives(s, c, ch)
    \/ \E i \in DOMAIN chat :
          \/ FindSession(i) \/ InsertSession(i) \/ Execute(i) \/ AnswerCommand(i)
          \/ FollowerGivesUp(i) \/ SlackDelivers(i) \/ DiscordProgress(i)
          \/ DiscordDelivers(i) \/ ChannelMessage(i)
    \/ \E r \in DOMAIN chatRuns : ChatRunMoves(r)
    \/ GatewayRestart

GatewaySpec == GatewayInit /\ [][GatewayNext]_gatewayVars

-----------------------------------------------------------------------------
\* A run's final result is shown at most once each way, both ways only when the
\* edit was made and its answer did not say so, and it was shown when its follower
\* has ended, whatever edits failed on the way: only a run that was deleted, a
\* store that failed, a last resort that failed or a restart excuses silence.
\* (The fallback of discord_poll_and_update, gateway/discord.rs:467-490, and
\* poll_and_deliver, gateway/mod.rs:310-340.)
Shown(r, way) == \E k \in DOMAIN told : told[k] = <<r, way>>
FinalToldOnce ==
    /\ \A i, j \in DOMAIN told : told[i] = told[j] => i = j
    /\ \A i \in DOMAIN chat :
          /\ Shown(chat[i].run, "edit") /\ Shown(chat[i].run, "message") => chat[i].unheard
          /\ /\ chat[i].stage = "end" /\ ~chat[i].lost /\ chat[i].run # 0
             /\ chat[i].command \in Followed(chat[i].surface)
             => Shown(chat[i].run, "edit") \/ Shown(chat[i].run, "message")
=============================================================================
