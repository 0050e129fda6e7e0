------------------------------ MODULE Terminal ------------------------------
(***************************************************************************)
(* Web terminals (src/src/terminal/mod.rs, interface/handlers/terminal.rs). *)
(* Spawning a terminal starts a child on a pseudo terminal and a thread     *)
(* that reads it; only then is the terminal entered into the map of live    *)
(* ones, from which that thread removes it.  A browser that attaches gets   *)
(* the scrollback first and then the events as they are broadcast.          *)
(*                                                                         *)
(* Output is a count of chunks: the nth chunk is n.  The scrollback and the *)
(* broadcast channel keep the last MaxScroll and MaxLag of them.            *)
(***************************************************************************)
EXTENDS Integers, Sequences, SequencesExt, FiniteSets

CONSTANTS
  Term,        \* terminals that may be spawned
  Browser,     \* WebSocket clients
  MaxChunks,   \* chunks a child writes
  MaxScroll,   \* MAX_SCROLLBACK
  MaxLag       \* capacity of the broadcast channel

ASSUME TerminalAssumption == {MaxScroll, MaxLag} \subseteq Nat \ {0} /\ MaxChunks \in Nat

VARIABLES
  child,       \* "none", "running", "closed" its terminal, "exited"
  written,     \* chunks the child wrote
  readUpTo,    \* chunks its reader thread has read
  ptyReader,   \* where that thread is
  listed,      \* TerminalManager::sessions
  unlisted,    \* spawned, and not yet entered into the map
  childLock,   \* who holds the mutex of the child handle
  killer,      \* terminals whose kill waits for that mutex
  tail,        \* the scrollback
  ws,          \* the connections
  early        \* history: terminals whose thread ended before their entry
terminalVars == <<child, written, readUpTo, ptyReader, listed, unlisted, childLock,
                  killer, tail, ws, early>>

Detached == [pc |-> "detached"]
LastOf(s, n) == SubSeq(s, IF Len(s) > n THEN Len(s) - n + 1 ELSE 1, Len(s))
Exit == 0                             \* TerminalEvent::Exit among the chunks
processVars == <<child, written>>
mapVars == <<listed, unlisted, early>>

\* What a send does to the subscribers: one that lags loses the oldest events.
Broadcast(t, event) ==
  [b \in Browser |->
     IF ws[b].pc # "live" \/ ws[b].term # t THEN ws[b]
     ELSE [ws[b] EXCEPT !.queue = LastOf(Append(@, event), MaxLag),
                        !.lagged = @ \/ Len(ws[b].queue) = MaxLag]]

-----------------------------------------------------------------------------
(* The child, its reader thread and the map                                *)

\* spawn, until the reader thread runs.
SpawnTerminal(t) ==
  /\ child[t] = "none"
  /\ child' = [child EXCEPT ![t] = "running"]
  /\ ptyReader' = [ptyReader EXCEPT ![t] = "reading"]
  /\ unlisted' = unlisted \cup {t}
  /\ UNCHANGED <<written, readUpTo, listed, childLock, killer, tail, ws, early>>
ListTerminal(t) ==
  /\ t \in unlisted
  /\ unlisted' = unlisted \ {t} /\ listed' = listed \cup {t}
  /\ UNCHANGED <<processVars, readUpTo, ptyReader, childLock, killer, tail, ws, early>>

ChildWrites(t) ==
  /\ child[t] = "running" /\ written[t] < MaxChunks
  /\ written' = [written EXCEPT ![t] = @ + 1]
  /\ UNCHANGED <<child, readUpTo, ptyReader, childLock, killer, tail, ws, mapVars>>
\* A child may close its terminal and go on.
ChildLeaves(t) ==
  /\ \/ child[t] = "running" /\ child' = [child EXCEPT ![t] = "closed"]
     \/ child[t] \in {"running", "closed"} /\ child' = [child EXCEPT ![t] = "exited"]
  /\ UNCHANGED <<written, readUpTo, ptyReader, childLock, killer, tail, ws, mapVars>>

\* A chunk goes into the scrollback and to the subscribers under one lock.
ReadChunk(t) ==
  /\ ptyReader[t] = "reading" /\ readUpTo[t] < written[t]
  /\ LET n == readUpTo[t] + 1
     IN  /\ readUpTo' = [readUpTo EXCEPT ![t] = n]
         /\ tail' = [tail EXCEPT ![t] = LastOf(Append(@, n), MaxScroll)]
         /\ ws' = Broadcast(t, n)
  /\ UNCHANGED <<processVars, ptyReader, childLock, killer, mapVars>>

(* A wrong variant: the exit is reported though output is left to read.    *)
ReadEnds_WithChild(t) ==
  /\ ptyReader[t] = "reading" /\ child[t] # "running"
  /\ childLock[t] = "nobody"
  /\ childLock' = [childLock EXCEPT ![t] = "reader"]
  /\ ptyReader' = [ptyReader EXCEPT ![t] = "waiting"]
  /\ UNCHANGED <<processVars, readUpTo, killer, tail, ws, mapVars>>

\* At the end of the output the thread waits for the child, holding its mutex.
ReadEnds(t) ==
  /\ ptyReader[t] = "reading" /\ readUpTo[t] = written[t] /\ child[t] # "running"
  /\ childLock[t] = "nobody"
  /\ childLock' = [childLock EXCEPT ![t] = "reader"]
  /\ ptyReader' = [ptyReader EXCEPT ![t] = "waiting"]
  /\ UNCHANGED <<processVars, readUpTo, killer, tail, ws, mapVars>>
ReaderHearsExit(t) ==
  /\ ptyReader[t] = "waiting" /\ child[t] = "exited"
  /\ childLock' = [childLock EXCEPT ![t] = "nobody"]
  /\ ws' = Broadcast(t, Exit)
  /\ ptyReader' = [ptyReader EXCEPT ![t] = "removing"]
  /\ UNCHANGED <<processVars, readUpTo, killer, tail, mapVars>>
ReaderRemoves(t) ==
  /\ ptyReader[t] = "removing"
  /\ ptyReader' = [ptyReader EXCEPT ![t] = "done"]
  /\ listed' = listed \ {t}
  /\ early' = IF t \in unlisted THEN early \cup {t} ELSE early
  /\ UNCHANGED <<processVars, readUpTo, childLock, killer, tail, ws, unlisted>>

\* kill takes the terminal out of the map and then wants the child's mutex.
KillTerminal(t) ==
  /\ t \in listed
  /\ listed' = listed \ {t} /\ killer' = killer \cup {t}
  /\ UNCHANGED <<processVars, readUpTo, ptyReader, childLock, tail, ws, unlisted, early>>
KillLands(t) ==
  /\ t \in killer /\ childLock[t] = "nobody"
  /\ killer' = killer \ {t}
  /\ child' = [child EXCEPT ![t] = "exited"]
  /\ UNCHANGED <<written, readUpTo, ptyReader, childLock, tail, ws, mapVars>>

-----------------------------------------------------------------------------
(* handle_terminal_ws                                                      *)

wsRest == <<processVars, readUpTo, ptyReader, childLock, killer, tail, mapVars>>

Attach(b, t) ==
  /\ ws[b] = Detached /\ t \in listed
  /\ ws' = [ws EXCEPT ![b] = [pc |-> "upgrading", term |-> t]]
  /\ UNCHANGED wsRest
\* The snapshot and the subscription are taken under the lock of the scrollback.
Subscribe(b) ==
  /\ ws[b].pc = "upgrading"
  /\ ws' = [ws EXCEPT ![b] = [pc |-> "live", term |-> @.term, shows |-> tail[@.term],
                               queue |-> << >>, lagged |-> FALSE]]
  /\ UNCHANGED wsRest
\* The exit closes the connection.
Forward(b) ==
  /\ ws[b].pc = "live" /\ ws[b].queue # << >>
  /\ LET x == ws[b]
         event == Head(x.queue)
     IN  ws' = [ws EXCEPT ![b] =
                  IF event = Exit THEN [pc |-> "told", term |-> x.term, shows |-> x.shows,
                                        lagged |-> x.lagged]
                  ELSE [x EXCEPT !.queue = Tail(@), !.shows = Append(@, event)]]
  /\ UNCHANGED wsRest
\* The browser leaves, or nothing was heard of it for 90 s.
Detach(b) ==
  /\ ws[b] # Detached
  /\ ws' = [ws EXCEPT ![b] = Detached]
  /\ UNCHANGED wsRest

-----------------------------------------------------------------------------
TerminalInit ==
  /\ child = [t \in Term |-> "none"] /\ ptyReader = [t \in Term |-> "none"]
  /\ written = [t \in Term |-> 0] /\ readUpTo = [t \in Term |-> 0]
  /\ listed = {} /\ unlisted = {} /\ early = {} /\ killer = {}
  /\ childLock = [t \in Term |-> "nobody"] /\ tail = [t \in Term |-> << >>]
  /\ ws = [b \in Browser |-> Detached]
TerminalNext ==
  \/ \E t \in Term :
       \/ SpawnTerminal(t) \/ ListTerminal(t) \/ ChildWrites(t) \/ ChildLeaves(t)
       \/ ReadChunk(t) \/ ReadEnds(t) \/ ReaderHearsExit(t) \/ ReaderRemoves(t)
       \/ KillTerminal(t) \/ KillLands(t)
  \/ \E b \in Browser :
       \/ \E t \in Term : Attach(b, t)
       \/ Subscribe(b) \/ Forward(b) \/ Detach(b)
TerminalSpec == TerminalInit /\ [][TerminalNext]_terminalVars

-----------------------------------------------------------------------------
UpTo(t) == [i \in 1..readUpTo[t] |-> i]
\* What is still to be shown; nothing may come after the exit.
Chunks(q) == IF q # << >> /\ Last(q) = Exit THEN Front(q) ELSE q
(* A browser that keeps up sees, from some chunk on, every chunk once and   *)
(* in order, whenever it attached, and hears of the exit after the last of  *)
(* them; a terminal that is over is listed only if its child was faster     *)
(* than spawn (comments at terminal/mod.rs:141 and handlers/terminal.rs:168).*)
TerminalFaithful ==
  /\ \A b \in Browser :
       /\ ws[b].pc = "live" /\ ~ws[b].lagged =>
            IsSuffix(ws[b].shows \o Chunks(ws[b].queue), UpTo(ws[b].term))
       /\ ws[b].pc = "told" /\ ~ws[b].lagged /\ ws[b].shows # << >> =>
            Last(ws[b].shows) = written[ws[b].term]
  /\ \A t \in listed : ptyReader[t] = "done" => t \in early
=============================================================================
