---------------------------- MODULE SessionMemory ----------------------------
(***************************************************************************)
(* What the system remembers of one session (src/src/memory): the JSONL log *)
(* of its events, its messages and memory items in SQLite, and the          *)
(* short-term bucket, with the deletion of the session going on beside      *)
(* writers, the embedding task and the sweep of expired short-term items.   *)
(*                                                                         *)
(* The nth event is n; a note's memory item has the number of its event.    *)
(* logs[f] is the content of the fth file the session's log has been: a     *)
(* sequence of events, line ends and, after a crash, torn lines.            *)
(***************************************************************************)
EXTENDS Integers, Sequences, SequencesExt, FiniteSets

CONSTANTS
  Writer,       \* requests that write
  MaxLogEvents, \* events appended, memory items edited and short-term items
                \* stored, together
  MaxTroubles   \* deletions of the session and crashes, together

ASSUME SessionMemoryAssumption ==
  {MaxLogEvents, MaxTroubles} \subseteq Nat

NewLine == 0           \* in a log, what is not an event
Torn == -1
NoFile == 0            \* the log does not exist
NoLock == 0            \* SessionLogger::append_locks has no entry

VARIABLES
  logs, logFile,     \* the files there have been, and which one has the name
  lockNow,           \* the lock append_locks holds for the session
  lockHolder,        \* the locks there have been: "free" or a writer
  writer,            \* the requests in progress
  eraser,            \* where delete_session is
  userRows,          \* rows of messages
  memItems,          \* memory_items: number -> version of its text and of its embedding
  memLinks,          \* memory_links
  embeds,            \* embedding tasks under way
  bucket,            \* short_term: 0 none, else the items and whether they have expired
  sweeper,           \* "idle", or "removing" when it saw an empty bucket
  spent,             \* what of the bounds is used up
  memHist            \* history: events kept, links orphaned, items late and swept
logVars == <<logs, logFile, lockNow, lockHolder>>
rowVars == <<userRows, memItems, memLinks, embeds>>
shortVars == <<bucket, sweeper>>
memoryVars == <<logVars, rowVars, shortVars, writer, eraser, spent, memHist>>

Resting == [pc |-> "idle"]
NoBucket == [items |-> {}, there |-> FALSE]
Spend(what) == spent' = [spent EXCEPT ![what] = @ + 1]
Request(what) == spent.events + spent.small < MaxLogEvents /\ Spend(what)
Trouble(what) == spent.deletes + spent.crashes < MaxTroubles /\ Spend(what)
Item(id) == CHOOSE m \in memItems : m.id = id
Moves(w, pc) == writer' = [writer EXCEPT ![w].pc = pc]

-----------------------------------------------------------------------------
(* append_event and remember_long                                          *)

\* A user message is logged and then stored; a note is stored, linked and logged.
WriterStarts(w, kind) ==
  /\ writer[w] = Resting
  /\ Request("events")
  /\ writer' = [writer EXCEPT ![w] = [pc |-> IF kind = "note" THEN "insert" ELSE "lock",
                                       kind |-> kind, n |-> spent.events + 1,
                                       lock |-> NoLock, file |-> NoFile]]
  /\ memHist' = [memHist EXCEPT !.quiet = FALSE]
  /\ UNCHANGED <<logVars, rowVars, shortVars, eraser>>
InsertItem(w) ==
  /\ writer[w].pc = "insert"
  /\ memItems' = memItems \cup {[id |-> writer[w].n, text |-> 1, vector |-> 0]}
  /\ Moves(w, "link")
  /\ UNCHANGED <<logVars, userRows, memLinks, embeds, shortVars, eraser, spent, memHist>>
\* There is no foreign key: the link of an item just deleted is stored all the same.
LinkItem(w) ==
  /\ writer[w].pc = "link"
  /\ LET n == writer[w].n
     IN  /\ memLinks' = memLinks \cup {n} /\ embeds' = embeds \cup {n}
         /\ memHist' = IF \E m \in memItems : m.id = n THEN memHist
                       ELSE [memHist EXCEPT !.orphaned = @ \cup {n}]
  /\ Moves(w, "lock")
  /\ UNCHANGED <<logVars, userRows, memItems, shortVars, eraser, spent>>
\* The task embeds the text the item was stored with.
EmbeddingArrives(n, ok) ==
  /\ n \in embeds
  /\ embeds' = embeds \ {n}
  /\ memItems' = {IF m.id = n /\ ok THEN [m EXCEPT !.vector = 1] ELSE m : m \in memItems}
  /\ UNCHANGED <<logVars, userRows, memLinks, shortVars, writer, eraser, spent, memHist>>

\* entry().or_insert_with(): the lock the map holds, or a new one.
TakeLockEntry(w) ==
  /\ writer[w].pc = "lock"
  /\ LET fresh == lockNow = NoLock
         l == IF fresh THEN Len(lockHolder) + 1 ELSE lockNow
     IN  /\ lockNow' = l
         /\ lockHolder' = IF fresh THEN Append(lockHolder, "free") ELSE lockHolder
         /\ writer' = [writer EXCEPT ![w].pc = "open", ![w].lock = l]
  /\ UNCHANGED <<logs, logFile, rowVars, shortVars, eraser, spent, memHist>>
\* With the lock, open the log to append, creating it if it is not there.
OpenLog(w) ==
  /\ writer[w].pc = "open" /\ lockHolder[writer[w].lock] = "free"
  /\ lockHolder' = [lockHolder EXCEPT ![writer[w].lock] = w]
  /\ LET created == logFile = NoFile
         f == IF created THEN Len(logs) + 1 ELSE logFile
     IN  /\ logs' = IF created THEN Append(logs, << >>) ELSE logs
         /\ logFile' = f
         /\ writer' = [writer EXCEPT ![w].pc = "line", ![w].file = f]
  /\ UNCHANGED <<lockNow, rowVars, shortVars, eraser, spent, memHist>>
WriteLine(w) ==
  /\ writer[w].pc = "line"
  /\ logs' = [logs EXCEPT ![writer[w].file] = Append(@, writer[w].n)]
  /\ Moves(w, "newline")
  /\ UNCHANGED <<logFile, lockNow, lockHolder, rowVars, shortVars, eraser, spent, memHist>>
\* The line end; with it the lock is given up.
WriteNewline(w) ==
  /\ writer[w].pc = "newline"
  /\ LET f == writer[w].file
     IN  /\ logs' = [logs EXCEPT ![f] = Append(@, NewLine)]
         /\ memHist' = IF f = logFile THEN [memHist EXCEPT !.kept = @ \cup {writer[w].n}]
                       ELSE memHist
  /\ lockHolder' = [lockHolder EXCEPT ![writer[w].lock] = "free"]
  /\ writer' = [writer EXCEPT ![w] =
       IF @.kind = "message" THEN [@ EXCEPT !.pc = "message"] ELSE Resting]
  /\ UNCHANGED <<logFile, lockNow, rowVars, shortVars, eraser, spent>>
RecordMessage(w) ==
  /\ writer[w].pc = "message"
  /\ userRows' = userRows \cup {writer[w].n}
  /\ writer' = [writer EXCEPT ![w] = Resting]
  /\ UNCHANGED <<logVars, memItems, memLinks, embeds, shortVars, eraser, spent, memHist>>

-----------------------------------------------------------------------------
(* Memory items on their own                                               *)

\* update_memory_item leaves the embedding alone.
UpdateItem(n) ==
  /\ \E m \in memItems : m.id = n
  /\ Request("small")
  /\ memItems' = {IF m.id = n THEN [m EXCEPT !.text = @ + 1] ELSE m : m \in memItems}
  /\ UNCHANGED <<logVars, userRows, memLinks, embeds, shortVars, writer, eraser, memHist>>
DeleteItem(n) ==
  /\ \E m \in memItems : m.id = n
  /\ Request("small")
  /\ memItems' = {m \in memItems : m.id # n} /\ memLinks' = memLinks \ {n}
  /\ UNCHANGED <<logVars, userRows, embeds, shortVars, writer, eraser, memHist>>
\* search_memory: the embedding decides where there is one, else the words do.
FoundBy(m, text) == text = (IF m.vector = 0 THEN m.text ELSE m.vector)

-----------------------------------------------------------------------------
(* The short-term bucket                                                   *)

RememberShort ==
  /\ Request("small")
  /\ bucket' = [there |-> TRUE,
                items |-> bucket.items \cup {[n |-> spent.small + 1, expired |-> FALSE]}]
  /\ memHist' = [memHist EXCEPT !.quiet = FALSE,
                    !.late = IF sweeper = "removing" THEN @ \cup {spent.small + 1} ELSE @]
  /\ UNCHANGED <<logVars, rowVars, sweeper, writer, eraser>>
ShortExpires(i) ==
  /\ i \in bucket.items /\ ~i.expired
  /\ bucket' = [bucket EXCEPT !.items = (@ \ {i}) \cup {[i EXCEPT !.expired = TRUE]}]
  /\ UNCHANGED <<logVars, rowVars, sweeper, writer, eraser, spent, memHist>>
Unexpired == {i \in bucket.items : ~i.expired}
\* retrieve drops what has expired; so does the sweep, which notes empty buckets ...
Retrieve ==
  /\ bucket.items # Unexpired
  /\ bucket' = [bucket EXCEPT !.items = Unexpired]
  /\ UNCHANGED <<logVars, rowVars, sweeper, writer, eraser, spent, memHist>>
SweepLooks ==
  /\ sweeper = "idle" /\ bucket.there
  /\ bucket' = [bucket EXCEPT !.items = Unexpired]
  /\ sweeper' = IF Unexpired = {} THEN "removing" ELSE "idle"
  /\ UNCHANGED <<logVars, rowVars, writer, eraser, spent, memHist>>
\* ... and removes them when it has seen them all.
SweepRemoves ==
  /\ sweeper = "removing"
  /\ sweeper' = "idle"
  /\ bucket' = NoBucket
  /\ memHist' = [memHist EXCEPT !.swept = @ \cup {i.n : i \in Unexpired}]
  /\ UNCHANGED <<logVars, rowVars, writer, eraser, spent>>

-----------------------------------------------------------------------------
(* delete_session: the rows in one transaction, the bucket, the log         *)

(* A wrong variant: the items are deleted before their links are looked for.*)
DeleteRows_KeepsLinks ==
  /\ eraser \in {"idle", "done"} /\ Trouble("deletes")
  /\ UNCHANGED memLinks
  /\ memItems' = {} /\ userRows' = {}
  /\ eraser' = "bucket"
  /\ memHist' = [memHist EXCEPT !.quiet = embeds = {} /\ \A w \in Writer : writer[w] = Resting]
  /\ UNCHANGED <<logVars, embeds, shortVars, writer>>

\* Links are found through the items.
DeleteRows ==
  /\ eraser \in {"idle", "done"} /\ Trouble("deletes")
  /\ memLinks' = memLinks \ {m.id : m \in memItems}
  /\ memItems' = {} /\ userRows' = {}
  /\ eraser' = "bucket"
  /\ memHist' = [memHist EXCEPT !.quiet = embeds = {} /\ \A w \in Writer : writer[w] = Resting]
  /\ UNCHANGED <<logVars, embeds, shortVars, writer>>
DeleteBucket ==
  /\ eraser = "bucket"
  /\ eraser' = "log"
  /\ bucket' = NoBucket
  /\ UNCHANGED <<logVars, rowVars, sweeper, writer, spent, memHist>>
\* Without a log it returns; the lock's entry is dropped after the file.
DeleteLog ==
  /\ eraser = "log"
  /\ eraser' = IF logFile = NoFile THEN "done" ELSE "lock"
  /\ logFile' = NoFile
  /\ memHist' = [memHist EXCEPT !.kept = {}]
  /\ UNCHANGED <<logs, lockNow, lockHolder, rowVars, shortVars, writer, spent>>
DeleteLock ==
  /\ eraser = "lock"
  /\ eraser' = "done"
  /\ lockNow' = NoLock
  /\ UNCHANGED <<logs, logFile, lockHolder, rowVars, shortVars, writer, spent, memHist>>

\* The process dies; a line being written may be there in part.
MemoryCrash ==
  /\ Trouble("crashes")
  /\ logs' \in {[f \in DOMAIN logs |->
                   IF \E w \in half : writer[w].file = f THEN Append(logs[f], Torn) ELSE logs[f]] :
                half \in SUBSET {w \in Writer : writer[w].pc = "line"}}
  /\ writer' = [w \in Writer |-> Resting] /\ eraser' = "idle"
  /\ lockNow' = NoLock /\ lockHolder' = << >>
  /\ embeds' = {} /\ bucket' = NoBucket /\ sweeper' = "idle"
  /\ memHist' = [memHist EXCEPT !.quiet = FALSE]
  /\ UNCHANGED <<logFile, userRows, memItems, memLinks>>

-----------------------------------------------------------------------------
SessionMemoryInit ==
  /\ logs = << >> /\ logFile = NoFile /\ lockNow = NoLock /\ lockHolder = << >>
  /\ writer = [w \in Writer |-> Resting] /\ eraser = "idle"
  /\ userRows = {} /\ memItems = {} /\ memLinks = {} /\ embeds = {}
  /\ bucket = NoBucket /\ sweeper = "idle"
  /\ spent = [events |-> 0, small |-> 0, deletes |-> 0, crashes |-> 0]
  /\ memHist = [kept |-> {}, orphaned |-> {}, late |-> {}, swept |-> {}, quiet |-> FALSE]
SessionMemoryNext ==
  \/ \E w \in Writer :
       \/ \E kind \in {"message", "note"} : WriterStarts(w, kind)
       \/ InsertItem(w) \/ LinkItem(w) \/ TakeLockEntry(w) \/ OpenLog(w)
       \/ WriteLine(w) \/ WriteNewline(w) \/ RecordMessage(w)
  \/ \E n \in embeds, ok \in BOOLEAN : EmbeddingArrives(n, ok)
  \/ \E m \in memItems : UpdateItem(m.id) \/ DeleteItem(m.id)
  \/ RememberShort \/ (\E i \in bucket.items : ShortExpires(i))
  \/ Retrieve \/ SweepLooks \/ SweepRemoves
  \/ DeleteRows \/ DeleteBucket \/ DeleteLog \/ DeleteLock \/ MemoryCrash

SessionMemorySpec == SessionMemoryInit /\ [][SessionMemoryNext]_memoryVars

-----------------------------------------------------------------------------
(* SessionLogger::replay. A line holds any number of events; one that is    *)
(* torn makes the whole replay fail.                                        *)
LogText == IF logFile = NoFile THEN << >> ELSE logs[logFile]
ReplayFails == Torn \in ToSet(LogText)

(* A wrong variant: one event is read from each line.                      *)
Replayed_OnePerLine ==
  LET first == {i \in DOMAIN LogText :
                  LogText[i] # NewLine /\ (i = 1 \/ LogText[i - 1] = NewLine)}
      order == SetToSortSeq(first, LAMBDA i, j : i < j)
  IN  [k \in DOMAIN order |-> LogText[order[k]]]

Replayed ==
  FoldLeft(LAMBDA events, x : IF x = NewLine THEN events ELSE Append(events, x),
           << >>, LogText)

(* What was written and not deleted is read back: every event logged since  *)
(* the log was last deleted is replayed, and none twice, though a deletion  *)
(* can leave two writers in one file under different locks; only a crash    *)
(* spoils a log; a memory item nobody edited is found by its own text; the  *)
(* sweep takes an unexpired short-term item only when it was stored after   *)
(* the sweep had seen the bucket empty (session_log.rs:26-94, mod.rs:257).  *)
NothingLost ==
  /\ ReplayFails => spent.crashes > 0
  /\ ~ReplayFails => /\ memHist.kept \subseteq ToSet(Replayed)
                     /\ IsInjective(Replayed)
  /\ \A m \in memItems : m.text = 1 => FoundBy(m, 1)
  /\ memHist.swept \subseteq memHist.late
(* A session deleted while nothing of it is being written leaves nothing,   *)
(* except links whose item was deleted before they were stored.             *)
DeletionComplete ==
  eraser = "done" /\ memHist.quiet =>
    /\ logFile = NoFile /\ userRows = {} /\ memItems = {} /\ bucket.items = {}
    /\ memLinks \subseteq memHist.orphaned
=============================================================================
