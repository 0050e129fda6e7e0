----------------------------- MODULE McpClient -----------------------------
(***************************************************************************)
(* MCP servers (src/src/mcp/mod.rs, src/src/main.rs): each is a child       *)
(* process spoken to in lines of JSON over its pipes.  A call writes its    *)
(* request under the lock of stdin and then takes the next line it gets     *)
(* under the lock of stdout: the id of the response is never compared.      *)
(* The servers are registered one after the other at startup; a registry    *)
(* maps tool names to servers.                                             *)
(*                                                                         *)
(* Every server is external: it answers requests in order, may write lines  *)
(* nobody asked for, and may die.  Arguments and contents are left out: a   *)
(* reply is the request it answers.                                        *)
(***************************************************************************)
EXTENDS Integers, Sequences, SequencesExt, FiniteSets

CONSTANTS
  Server,        \* in the order of the configuration: a sequence of names
  Tools,         \* the tools of each
  Caller,        \* tasks calling tools: nodes, and requests of the HTTP API
  MaxRequests,   \* calls started
  MaxDrops,      \* calls dropped by a timeout
  MaxNotes       \* lines a server writes unasked

VARIABLES
  boot,          \* what main does: the server it is at, and the step
  clients, index,\* McpRegistry
  inbox, outbox, \* the pipes of each server, its stdin and its stdout
  alive,         \* the server processes that run
  lock,          \* who holds the lock of each stdout
  caller,        \* the calls in flight and ended
  asked,         \* ids given out: next_id
  straight,      \* history: no call was dropped or overlapped, no line unasked
  drops, notes
mcpVars == <<boot, clients, index, inbox, outbox, alive, lock, caller, asked,
             straight, drops, notes>>

Names == Range(Server)
(* Without a server there is nothing to call; main is one of the callers.  *)
ASSUME McpAssumption == Server \in Seq(Names) /\ Server # << >> /\ Caller # {}
Nobody == "nobody"
Note == 0                          \* a line that answers no request
\* Names are sequences of the parts between slashes; a tool's own may have some.
Qualified(s, t) == <<s>> \o t      \* "server/tool"

-----------------------------------------------------------------------------
(* The registry                                                            *)

With(f, k, v) == [x \in DOMAIN f \cup {k} |-> IF x = k THEN v ELSE f[x]]
\* register: the qualified name always, the bare name unless it is taken.
Indexed(ix, s, t) ==
  LET q == With(ix, Qualified(s, t), s)
  IN  IF t \in DOMAIN q THEN q ELSE With(q, t, s)
Register(ix, s, tools) == FoldLeft(LAMBDA i, t : Indexed(i, s, t), ix, tools)

\* list_all_tools: the qualified names, of every client.
Listed == UNION {{Qualified(s, t) : t \in Range(clients[s])} : s \in DOMAIN clients}

-----------------------------------------------------------------------------
(* Requests                                                                *)

Idle == [pc |-> "idle"]
Busy(s) == {c \in Caller : caller[c].pc \in {"asked", "reading"} /\ caller[c].server = s}

\* send_request, first half: the id, and the line under the lock of stdin.  A
\* dead server's pipe is broken, and the call returns its error.
Ask(c, s) ==
  /\ asked < MaxRequests /\ asked' = asked + 1
  /\ straight' = (straight /\ Busy(s) = {})
  /\ IF s \in alive
     THEN /\ inbox' = [inbox EXCEPT ![s] = Append(@, asked + 1)]
          /\ caller' = [caller EXCEPT ![c] = [pc |-> "asked", server |-> s, id |-> asked + 1]]
     ELSE /\ caller' = [caller EXCEPT ![c] = [pc |-> "error"]] /\ UNCHANGED inbox
Lock(c) ==
  /\ caller[c].pc = "asked" /\ lock[caller[c].server] = Nobody
  /\ lock' = [lock EXCEPT ![caller[c].server] = c]
  /\ caller' = [caller EXCEPT ![c].pc = "reading"]
  /\ UNCHANGED <<boot, clients, index, inbox, outbox, alive, asked, straight, drops, notes>>

(* A wrong variant: the line that was read stays in the buffer.            *)
Read_Peeks(c) ==
  /\ caller[c].pc = "reading"
  /\ LET s == caller[c].server
     IN  /\ \/ /\ outbox[s] # << >>
               /\ UNCHANGED outbox
               /\ caller' = [caller EXCEPT ![c] =
                    IF Head(outbox[s]) = Note THEN [pc |-> "error"]
                    ELSE [pc |-> "replied", id |-> caller[c].id, got |-> Head(outbox[s])]]
            \/ /\ outbox[s] = << >> /\ s \notin alive
               /\ caller' = [caller EXCEPT ![c] = [pc |-> "error"]] /\ UNCHANGED outbox
         /\ lock' = [lock EXCEPT ![s] = Nobody]
  /\ UNCHANGED <<boot, clients, index, inbox, alive, asked, straight, drops, notes>>

\* Second half: the next line that is not empty, whoever it is for.  The end of
\* the stream is an error, and so is a line that is no response.
Read(c) ==
  /\ caller[c].pc = "reading"
  /\ LET s == caller[c].server
     IN  /\ \/ /\ outbox[s] # << >>
               /\ outbox' = [outbox EXCEPT ![s] = Tail(@)]
               /\ caller' = [caller EXCEPT ![c] =
                    IF Head(outbox[s]) = Note THEN [pc |-> "error"]
                    ELSE [pc |-> "replied", id |-> caller[c].id, got |-> Head(outbox[s])]]
            \/ /\ outbox[s] = << >> /\ s \notin alive
               /\ caller' = [caller EXCEPT ![c] = [pc |-> "error"]] /\ UNCHANGED outbox
         /\ lock' = [lock EXCEPT ![s] = Nobody]
  /\ UNCHANGED <<boot, clients, index, inbox, alive, asked, straight, drops, notes>>

\* The future of a call is dropped: the timeout of a tool call or of a node.  It
\* lets go of the lock; a line it had begun to read is spoilt for the next.
Drop(c) ==
  /\ drops < MaxDrops /\ drops' = drops + 1
  /\ c \in Caller /\ caller[c].pc \in {"asked", "reading"} /\ straight' = FALSE
  /\ LET s == caller[c].server
     IN  IF caller[c].pc = "reading"
         THEN /\ lock' = [lock EXCEPT ![s] = Nobody]
              /\ \/ UNCHANGED outbox
                 \/ outbox[s] # << >> /\ outbox' = [outbox EXCEPT ![s][1] = Note]
         ELSE UNCHANGED <<lock, outbox>>
  /\ caller' = [caller EXCEPT ![c] = [pc |-> "error"]]
  /\ UNCHANGED <<boot, clients, index, inbox, alive, asked, notes>>

\* McpRegistry::call_tool for any name of the index; an unknown one is refused.
CallTool(c, name) ==
  /\ caller[c] = Idle /\ boot.step = "serving"
  /\ IF name \in DOMAIN index
     THEN Ask(c, index[name])
     ELSE /\ caller' = [caller EXCEPT ![c] = [pc |-> "error"]]
          /\ UNCHANGED <<inbox, asked, straight>>
  /\ UNCHANGED <<boot, clients, index, outbox, alive, lock, drops, notes>>
\* The caller takes its result.
Return(c) ==
  /\ caller[c].pc \in {"replied", "error"} /\ boot.step = "serving"
  /\ caller' = [caller EXCEPT ![c] = Idle]
  /\ UNCHANGED <<boot, clients, index, inbox, outbox, alive, lock, asked, straight, drops, notes>>

-----------------------------------------------------------------------------
(* The servers                                                             *)

Answer(s) ==
  /\ s \in alive /\ inbox[s] # << >>
  /\ inbox' = [inbox EXCEPT ![s] = Tail(@)]
  /\ outbox' = IF Head(inbox[s]) = Note THEN outbox     \* a notification has no reply
               ELSE [outbox EXCEPT ![s] = Append(@, Head(inbox[s]))]
  /\ UNCHANGED <<boot, clients, index, alive, lock, caller, asked, straight, drops, notes>>
Unasked(s) ==
  /\ s \in alive /\ notes < MaxNotes /\ notes' = notes + 1
  /\ outbox' = [outbox EXCEPT ![s] = Append(@, Note)]
  /\ straight' = FALSE
  /\ UNCHANGED <<boot, clients, index, inbox, alive, lock, caller, asked, drops>>
Dies(s) ==
  /\ s \in alive
  /\ alive' = alive \ {s}
  /\ UNCHANGED <<boot, clients, index, inbox, outbox, lock, caller, asked, straight, drops, notes>>

-----------------------------------------------------------------------------
(* Startup: for each server spawn, initialize, discover_tools, register    *)

Main == CHOOSE c \in Caller : TRUE     \* main runs before any other caller
At == Server[boot.at]
NextServer == IF boot.at = Len(Server) THEN [at |-> boot.at, step |-> "serving"]
              ELSE [at |-> boot.at + 1, step |-> "spawn"]
bootRest == <<outbox, lock, drops, notes>>

Spawn ==
  /\ boot.step = "spawn"
  /\ \/ /\ alive' = alive \cup {At} /\ asked' = asked + 1
        /\ inbox' = [inbox EXCEPT ![At] = << asked + 1 >>]
        /\ caller' = [caller EXCEPT ![Main] =
                        [pc |-> "asked", server |-> At, id |-> asked + 1]]
        /\ boot' = [boot EXCEPT !.step = "initialize"]
     \/ boot' = NextServer /\ UNCHANGED <<alive, inbox, caller, asked>>
  /\ UNCHANGED <<clients, index, straight, bootRest>>
\* After the answer to initialize the notification is written, and tools/list
\* asked; a failed initialize skips the server and leaves its process alone.
Initialized ==
  /\ boot.step = "initialize" /\ caller[Main].pc \in {"replied", "error"}
  /\ IF caller[Main].pc = "error" \/ At \notin alive
     THEN /\ boot' = NextServer
          /\ caller' = [caller EXCEPT ![Main] = Idle]
          /\ UNCHANGED <<inbox, asked>>
     ELSE /\ boot' = [boot EXCEPT !.step = "discover"]
          /\ inbox' = [inbox EXCEPT ![At] = @ \o <<Note, asked + 1>>]
          /\ asked' = asked + 1
          /\ caller' = [caller EXCEPT ![Main] =
                          [pc |-> "asked", server |-> At, id |-> asked + 1]]
  /\ UNCHANGED <<clients, index, alive, straight, bootRest>>
\* A server whose tools could not be listed is registered without any.
Discovered ==
  /\ boot.step = "discover" /\ caller[Main].pc \in {"replied", "error"}
  /\ boot' = NextServer
  /\ LET tools == IF caller[Main].pc = "replied" THEN Tools[At] ELSE << >>
     IN  clients' = With(clients, At, tools) /\ index' = Register(index, At, tools)
  /\ caller' = [caller EXCEPT ![Main] = Idle]
  /\ UNCHANGED <<alive, inbox, asked, straight, bootRest>>

\* shutdown_all kills every registered server; its pipes close.
ShutdownAll ==
  /\ boot.step = "serving" /\ DOMAIN clients \cap alive # {}
  /\ alive' = alive \ DOMAIN clients
  /\ UNCHANGED <<boot, clients, index, inbox, outbox, lock, caller, asked, straight, drops, notes>>

-----------------------------------------------------------------------------
McpInit ==
  /\ boot = [at |-> 1, step |-> "spawn"] /\ clients = << >> /\ index = << >>
  /\ inbox = [s \in Names |-> << >>] /\ outbox = [s \in Names |-> << >>]
  /\ alive = {} /\ lock = [s \in Names |-> Nobody]
  /\ caller = [c \in Caller |-> Idle] /\ asked = 0 /\ straight = TRUE
  /\ drops = 0 /\ notes = 0

Unlisted == UNION {Range(Tools[s]) : s \in Names}
McpNext ==
  \/ Spawn \/ Initialized \/ Discovered \/ ShutdownAll
  \/ \E c \in Caller :
       \/ \E name \in Listed \cup Unlisted : CallTool(c, name)
       \/ Lock(c) \/ Read(c) \/ Return(c)
       \/ boot.step = "serving" /\ Drop(c)
  \/ \E s \in Names : Answer(s) \/ Unasked(s) \/ Dies(s)
McpSpec == McpInit /\ [][McpNext]_mcpVars

-----------------------------------------------------------------------------
(* As the id of a response is not looked at, a call gets its own answer     *)
(* only because requests and lines alternate: as long as no two calls to a  *)
(* server overlapped, none was dropped and the server wrote nothing         *)
(* unasked, every reply is the one asked for, across the notification of    *)
(* initialize and the death of a server too (send_request, mcp/mod.rs:122). *)
RepliesMatch ==
  straight => \A c \in Caller : caller[c].pc = "replied" => caller[c].got = caller[c].id
=============================================================================
