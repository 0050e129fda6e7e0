----------------------------- MODULE Workspaces -----------------------------
(***************************************************************************)
(* Workspaces (src/src/orchestrator/workspaces.rs, workspace.rs, the tables *)
(* of memory/store.rs and their HTTP handlers): rows in SQLite paired with  *)
(* a directory each, and with files whose bytes are on disk and whose       *)
(* description is a row.  Nothing locks the pair: a request takes several   *)
(* steps, and requests overlap.                                             *)
(*                                                                         *)
(* All workspaces are created under one name, so slugs are the numbers      *)
(* 1, 2, ... (name, name_2, ...); a directory is named by its slug or is    *)
(* Elsewhere, given by the user.  The nth upload has content n.             *)
(***************************************************************************)
EXTENDS Integers, FiniteSets

CONSTANTS
  WsRequest,    \* HTTP requests that may be in progress
  WsPath,       \* relative paths of files
  WsSession,    \* sessions that may be attached
  MaxWorkspaces, \* created in all
  MaxWsWrites   \* uploads, and requests about sessions and meetings, together

ASSUME WorkspacesAssumption == {MaxWorkspaces, MaxWsWrites} \subseteq Nat

Elsewhere == 0
Directory == 0..MaxWorkspaces
Missing == 0              \* there is no such file

VARIABLES
  wsRows,      \* workspaces: [id, slug, root]
  wsDisk,      \* directory -> path -> content
  wsFiles,     \* workspace_files: [ws, path, content]
  wsOf,        \* sessions.workspace_id, 0 for none
  meetings,    \* [ws, open, messages]; a meeting has its workspace's number
  wsReq,       \* requests in progress
  wsMade, wsUploads, wsTalk,   \* counters
  wsFailed,    \* history: uploads that ended with their bytes written and no row
  wsRaced      \* history: <<directory, path>> that two requests had in hand at once,
               \* or two workspaces
metaVars == <<wsRows, wsOf, meetings, wsTalk, wsFailed>>
workspacesVars == <<metaVars, wsDisk, wsFiles, wsReq, wsMade, wsUploads, wsRaced>>

WsIdle == [pc |-> "idle"]
RowOf(id) == {r \in wsRows : r.id = id}
FileRow(ws, path) == {f \in wsFiles : f.ws = ws /\ f.path = path}

\* What a request is about to write or remove, beside rows.
Reach(q) == CASE q.pc \in {"write", "record", "unlink"} -> {<<q.root, q.path>>}
              [] q.pc \in {"drop", "purge"} -> {q.root} \X WsPath
              [] OTHER -> {}
InHand(except) == UNION {Reach(wsReq[r]) : r \in WsRequest \ {except}}
\* A request goes on; what it shares with another one is raced from now on.
Goes(r, q) ==
  /\ wsReq' = [wsReq EXCEPT ![r] = q]
  /\ wsRaced' = wsRaced \cup ((Reach(wsReq[r]) \cup Reach(q)) \cap InHand(r))

-----------------------------------------------------------------------------
(* create_workspace: find a free slug, insert the row, make the directory   *)

CreateStarts(r, managed) ==
  /\ wsReq[r] = WsIdle /\ wsMade < MaxWorkspaces
  /\ wsMade' = wsMade + 1
  /\ Goes(r, [pc |-> "slug", id |-> wsMade + 1, slug |-> 1, managed |-> managed])
  /\ UNCHANGED <<metaVars, wsDisk, wsFiles, wsUploads>>
\* get_workspace_by_slug, one candidate after another.
LookUpSlug(r) ==
  /\ wsReq[r].pc = "slug"
  /\ Goes(r, IF \E w \in wsRows : w.slug = wsReq[r].slug
             THEN [wsReq[r] EXCEPT !.slug = @ + 1]
             ELSE [wsReq[r] EXCEPT !.pc = "insert"])
  /\ UNCHANGED <<metaVars, wsDisk, wsFiles, wsMade, wsUploads>>
\* slug is UNIQUE: the second of two that found the same one free fails. The
\* directory made next is empty, or has what is there.
InsertWorkspace(r) ==
  /\ wsReq[r].pc = "insert"
  /\ LET q == wsReq[r]
         root == IF q.managed THEN q.slug ELSE Elsewhere
     IN  IF \E w \in wsRows : w.slug = q.slug
         THEN Goes(r, WsIdle) /\ UNCHANGED wsRows
         ELSE /\ wsRows' = wsRows \cup {[id |-> q.id, slug |-> q.slug, root |-> root]}
              /\ wsReq' = [wsReq EXCEPT ![r] = WsIdle]
              /\ wsRaced' = wsRaced \cup {x \in InHand(r) : x[1] = root}
                   \cup (IF \E w \in wsRows : w.root = root THEN {root} \X WsPath ELSE {})
  /\ UNCHANGED <<wsOf, meetings, wsTalk, wsFailed, wsDisk, wsFiles, wsMade, wsUploads>>

-----------------------------------------------------------------------------
(* delete_workspace: read the row, delete it, remove its directory          *)

DeleteStarts(r, id) ==
  /\ wsReq[r] = WsIdle /\ RowOf(id) # {}
  /\ \E w \in RowOf(id) : Goes(r, [pc |-> "drop", id |-> id, root |-> w.root])
  /\ UNCHANGED <<metaVars, wsDisk, wsFiles, wsMade, wsUploads>>
\* The row takes its files' rows and its meetings along and frees its sessions;
\* the directory may be another workspace's as well.
DropWorkspace(r) ==
  /\ wsReq[r].pc = "drop"
  /\ LET q == wsReq[r]
     IN  /\ wsRows' = wsRows \ RowOf(q.id)
         /\ wsFiles' = {f \in wsFiles : f.ws # q.id}
         /\ meetings' = {m \in meetings : m.ws # q.id}
         /\ wsOf' = [s \in WsSession |-> IF wsOf[s] = q.id THEN 0 ELSE wsOf[s]]
         /\ wsReq' = [wsReq EXCEPT ![r].pc = "purge"]
         /\ wsRaced' = wsRaced \cup (Reach(q) \cap InHand(r))
  /\ UNCHANGED <<wsDisk, wsMade, wsUploads, wsTalk, wsFailed>>
\* Best effort: an error is dropped.
PurgeDirectory(r, ok) ==
  /\ wsReq[r].pc = "purge"
  /\ wsDisk' = IF ok THEN [wsDisk EXCEPT ![wsReq[r].root] = [p \in WsPath |-> Missing]]
               ELSE wsDisk
  /\ Goes(r, WsIdle)
  /\ UNCHANGED <<metaVars, wsFiles, wsMade, wsUploads>>

-----------------------------------------------------------------------------
(* Files                                                                   *)

\* The workspace's row is read, and the path validated, before anything else.
UploadStarts(r, id, path) ==
  /\ wsReq[r] = WsIdle /\ wsUploads + wsTalk < MaxWsWrites
  /\ wsUploads' = wsUploads + 1
  /\ \E w \in RowOf(id) : Goes(r, [pc |-> "write", id |-> id, root |-> w.root, path |-> path,
                                   content |-> wsUploads + 1])
  /\ UNCHANGED <<metaVars, wsDisk, wsFiles, wsMade>>
\* Directories that are missing are made again.
WriteFile(r) ==
  /\ wsReq[r].pc = "write"
  /\ LET q == wsReq[r]
     IN  wsDisk' = [wsDisk EXCEPT ![q.root][q.path] = q.content]
  /\ Goes(r, [wsReq[r] EXCEPT !.pc = "record"])
  /\ UNCHANGED <<metaVars, wsFiles, wsMade, wsUploads>>

(* A wrong variant: a row that is there is left as it is.                  *)
UpsertFileRow_KeepsOld(r) ==
  /\ wsReq[r].pc = "record"
  /\ LET q == wsReq[r]
     IN  wsFiles' = IF RowOf(q.id) = {} \/ FileRow(q.id, q.path) # {} THEN wsFiles
                    ELSE wsFiles
                         \cup {[ws |-> q.id, path |-> q.path, content |-> q.content]}
  /\ Goes(r, WsIdle)
  /\ UNCHANGED <<metaVars, wsDisk, wsMade, wsUploads>>

\* The row, new or updated; a workspace deleted meanwhile makes it an error.
UpsertFileRow(r) ==
  /\ wsReq[r].pc = "record"
  /\ LET q == wsReq[r]
     IN  wsFiles' = IF RowOf(q.id) = {} THEN wsFiles
                    ELSE (wsFiles \ FileRow(q.id, q.path))
                         \cup {[ws |-> q.id, path |-> q.path, content |-> q.content]}
  /\ Goes(r, WsIdle)
  /\ UNCHANGED <<metaVars, wsDisk, wsMade, wsUploads>>

\* delete_workspace_file removes the row, and then, if there was one, the bytes.
DeleteFileRow(r, id, path) ==
  /\ wsReq[r] = WsIdle /\ FileRow(id, path) # {}
  /\ wsFiles' = wsFiles \ FileRow(id, path)
  /\ \E w \in RowOf(id) : Goes(r, [pc |-> "unlink", id |-> id, root |-> w.root, path |-> path])
  /\ UNCHANGED <<metaVars, wsDisk, wsMade, wsUploads>>
UnlinkFile(r) ==
  /\ wsReq[r].pc = "unlink"
  /\ LET q == wsReq[r] IN wsDisk' = [wsDisk EXCEPT ![q.root][q.path] = Missing]
  /\ Goes(r, WsIdle)
  /\ UNCHANGED <<metaVars, wsFiles, wsMade, wsUploads>>

-----------------------------------------------------------------------------
(* Requests that do not finish                                             *)

\* A store call or a write fails, the client disconnects and its request is
\* dropped, or the process dies: nothing that was done is undone. A write that
\* fails half way is one that was made, and then this.
RequestFails(r) ==
  /\ wsReq[r] # WsIdle
  /\ wsFailed' = IF wsReq[r].pc = "record" THEN wsFailed \cup {wsReq[r].content} ELSE wsFailed
  /\ Goes(r, WsIdle)
  /\ UNCHANGED <<wsRows, wsOf, meetings, wsTalk, wsDisk, wsFiles, wsMade, wsUploads>>

-----------------------------------------------------------------------------
(* Sessions and meetings, which a foreign key ties to their workspace       *)

Talk == wsUploads + wsTalk < MaxWsWrites /\ wsTalk' = wsTalk + 1
rowsRest == <<wsRows, wsDisk, wsFiles, wsReq, wsMade, wsUploads, wsRaced, wsFailed>>
AssignSession(s, id) ==
  /\ id = 0 \/ RowOf(id) # {}
  /\ Talk
  /\ wsOf' = [wsOf EXCEPT ![s] = id]
  /\ UNCHANGED <<meetings, rowsRest>>
OpenMeeting(id) ==
  /\ RowOf(id) # {} /\ ~\E m \in meetings : m.ws = id
  /\ Talk
  /\ meetings' = meetings \cup {[ws |-> id, open |-> TRUE, messages |-> 0]}
  /\ UNCHANGED <<wsOf, rowsRest>>
\* Nobody asks whether the meeting is open.
PostMessage(m) ==
  /\ m \in meetings
  /\ Talk
  /\ meetings' = (meetings \ {m}) \cup {[m EXCEPT !.messages = @ + 1]}
  /\ UNCHANGED <<wsOf, rowsRest>>
CloseMeeting(m) ==
  /\ m \in meetings
  /\ Talk
  /\ meetings' = (meetings \ {m}) \cup {[m EXCEPT !.open = FALSE]}
  /\ UNCHANGED <<wsOf, rowsRest>>

-----------------------------------------------------------------------------
WorkspacesInit ==
  /\ wsRows = {} /\ wsFiles = {} /\ meetings = {} /\ wsRaced = {} /\ wsFailed = {}
  /\ wsDisk = [d \in Directory |-> [p \in WsPath |-> Missing]]
  /\ wsOf = [s \in WsSession |-> 0] /\ wsReq = [r \in WsRequest |-> WsIdle]
  /\ wsMade = 0 /\ wsUploads = 0 /\ wsTalk = 0
WorkspacesNext ==
  \/ \E r \in WsRequest :
       \/ \E managed \in BOOLEAN : CreateStarts(r, managed)
       \/ LookUpSlug(r) \/ InsertWorkspace(r) \/ DropWorkspace(r)
       \/ \E ok \in BOOLEAN : PurgeDirectory(r, ok)
       \/ \E w \in wsRows : DeleteStarts(r, w.id)
       \/ \E w \in wsRows, p \in WsPath : UploadStarts(r, w.id, p) \/ DeleteFileRow(r, w.id, p)
       \/ WriteFile(r) \/ UpsertFileRow(r) \/ UnlinkFile(r) \/ RequestFails(r)
  \/ \E s \in WsSession : \E id \in {0} \cup {w.id : w \in wsRows} : AssignSession(s, id)
  \/ \E w \in wsRows : OpenMeeting(w.id)
  \/ \E m \in meetings : PostMessage(m) \/ CloseMeeting(m)

WorkspacesSpec == WorkspacesInit /\ [][WorkspacesNext]_workspacesVars

-----------------------------------------------------------------------------
RootOf(id) == (CHOOSE w \in wsRows : w.id = id).root

(* Rows and bytes agree: a file that is listed has, once no request has it  *)
(* in hand, the bytes of the upload its row describes, or those of one that *)
(* was never answered with success because it ended between bytes and row   *)
(* (upload_workspace_file, 195-213), unless two requests had that place in  *)
(* hand at once (one may be a deletion that has still to remove the         *)
(* directory a new workspace of the same name has taken over) or the user   *)
(* gave two workspaces one directory; and no two workspaces with a          *)
(* directory of their own share it, whatever creations of one name and      *)
(* requests that fail do (module comment of workspaces.rs, 36-71).          *)
FilesMatchRows ==
  /\ \A f \in wsFiles : RowOf(f.ws) # {}
  /\ \A f \in wsFiles :
       LET place == <<RootOf(f.ws), f.path>>
       IN  place \notin wsRaced \cup UNION {Reach(wsReq[r]) : r \in WsRequest} =>
             wsDisk[place[1]][place[2]] \in {f.content} \cup wsFailed
  /\ \A v, w \in wsRows : v # w => v.slug # w.slug /\ (v.root = w.root => v.root = Elsewhere)
=============================================================================
