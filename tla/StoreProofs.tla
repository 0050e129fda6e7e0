---------------------------- MODULE StoreProofs ----------------------------
(***************************************************************************)
(* What the stores beside the run promise, proved of each component's own  *)
(* specification: SessionMemory loses nothing that was written and leaves  *)
(* nothing that was deleted, the rows of Workspaces describe the bytes that*)
(* are on disk, a schedule of Automation runs at its own times, and a      *)
(* record of Cluster says the truth about its sub-runs, and for good.      *)
(***************************************************************************)
EXTENDS SessionMemory, Workspaces, Automation, Cluster, DataLemmas

-----------------------------------------------------------------------------
(* The memory of a session                                                 *)

(* What a log is made of: numbers of events, line ends and torn lines.     *)
Piece == Nat \cup {Torn}

-----------------------------------------------------------------------------
(* What a writer under way is, what is remembered of the past, and an item. *)
Active ==
  [pc : {"insert", "link", "lock", "open", "line", "newline", "message"},
   kind : {"message", "note"}, n : Nat, lock : Nat, file : Nat]
Recall == [kept : SUBSET Nat, orphaned : SUBSET Nat, late : SUBSET Nat, swept : SUBSET Nat,
           quiet : BOOLEAN]
MemoryItem == [id : Nat, text : Nat, vector : {0, 1}]

(* The types, as far as the proofs need them.                               *)
MemoryTypes ==
  /\ logs \in Seq(Seq(Piece)) /\ logFile \in Nat
  /\ lockNow \in Nat /\ lockHolder \in Seq(Writer \cup {"free"})
  /\ writer \in [Writer -> Active \cup {Resting}]
  /\ memItems \subseteq MemoryItem
  /\ memHist \in Recall
  /\ spent \in [events : Nat, small : Nat, deletes : Nat, crashes : Nat]
  /\ bucket \in [items : SUBSET [n : Nat, expired : BOOLEAN], there : BOOLEAN]

(* A link is of an item there is, or is known to have lost its item.        *)
LinksKnown ==
  \A n \in memLinks : (\E m \in memItems : m.id = n) \/ n \in memHist.orphaned

(* While nobody writes, a deletion that has come to a step has emptied what *)
(* the steps before it empty.                                               *)
ErasedQuietly ==
  memHist.quiet =>
    /\ \A w \in Writer : writer[w] = Resting
    /\ embeds = {} /\ userRows = {} /\ memItems = {} /\ memLinks \subseteq memHist.orphaned
    /\ eraser \in {"bucket", "log", "lock", "done"}
    /\ eraser # "bucket" => bucket.items = {}
    /\ eraser \in {"lock", "done"} => logFile = NoFile

(* What the sweep that has seen an empty bucket finds alive came late.      *)
SweptLate ==
  /\ memHist.swept \subseteq memHist.late
  /\ sweeper = "removing" => \A i \in bucket.items : i.expired \/ i.n \in memHist.late

(* A writer's number is its own, no log has it before its line is written,  *)
(* and from then on the file it has open does.                              *)
WritersOK ==
  /\ \A w \in Writer : writer[w] # Resting => writer[w].n \in 1..spent.events
  /\ \A v, w \in Writer :
       writer[v] # Resting /\ writer[w] # Resting /\ writer[v].n = writer[w].n => v = w
  /\ \A w \in Writer :
       writer[w].pc \in {"insert", "link", "lock", "open", "line"} =>
         \A f \in DOMAIN logs : ~Has(logs[f], writer[w].n)
  /\ \A w \in Writer :
       writer[w].pc \in {"line", "newline"} => writer[w].file \in DOMAIN logs
  /\ \A w \in Writer :
       writer[w].pc = "newline" => Has(logs[writer[w].file], writer[w].n)
(* A log holds numbers given out, each once, and a torn line only after a   *)
(* crash.                                                                   *)
LogsOK ==
  /\ \A f \in DOMAIN logs :
       /\ \A n \in Nat : Has(logs[f], n) => n <= spent.events
       /\ \A n \in Nat : n # NewLine => Once(logs[f], n)
       /\ spent.crashes = 0 => ~Has(logs[f], Torn)
(* What is kept is in the log that has the name.                            *)
KeptOK ==
  /\ logFile # NoFile => logFile \in DOMAIN logs
  /\ \A n \in memHist.kept : n # NewLine /\ logFile # NoFile /\ Has(logs[logFile], n)

(* The inductive invariant of a session's memory.                           *)
MemoryInv ==
  /\ MemoryTypes /\ LinksKnown /\ ErasedQuietly /\ SweptLate
  /\ WritersOK /\ LogsOK /\ KeptOK

(* It holds at the start, where there is nothing.                           *)
LEMMA MemoryStarts == SessionMemoryInit => MemoryInv
  <1> SUFFICES ASSUME SessionMemoryInit PROVE MemoryInv
    OBVIOUS
  <1>1. MemoryTypes
    BY DEF SessionMemoryInit, MemoryTypes, NoFile, NoLock, Recall, NoBucket
  <1>2. /\ DOMAIN logs = {} /\ logFile = NoFile /\ memHist.kept = {}
        /\ \A w \in Writer : writer[w] = Resting
    BY DEF SessionMemoryInit
  <1>3. LogsOK /\ KeptOK
    BY <1>2 DEF LogsOK, KeptOK
  <1>4. WritersOK
    BY <1>2 DEF WritersOK, Resting
  <1>5. LinksKnown /\ ErasedQuietly /\ SweptLate
    BY DEF SessionMemoryInit, LinksKnown, ErasedQuietly, SweptLate
  <1> QED
    BY <1>1, <1>3, <1>4, <1>5 DEF MemoryInv

(* A writer that is under way is one of Active.                             *)
LEMMA WriterIs ==
  ASSUME MemoryInv, NEW w \in Writer
  PROVE  /\ writer[w].pc # "idle" => writer[w] \in Active
         /\ writer[w] \in Active => writer[w] # Resting /\ writer[w].pc # "idle"
         /\ writer[w] # Resting => writer[w] \in Active
  <1>1. writer[w] \in Active \/ writer[w] = Resting
    BY DEF MemoryInv, MemoryTypes
  <1>2. Resting.pc = "idle"
    BY DEF Resting
  <1>3. writer[w] \in Active => writer[w].pc # "idle"
    BY DEF Active
  <1> QED
    BY <1>1, <1>2, <1>3

(* A writer that is under way takes a step: its state stays a state.       *)
LEMMA WriterSteps ==
  ASSUME MemoryInv, NEW w \in Writer, NEW q \in Active \cup {Resting},
         writer' = [writer EXCEPT ![w] = q]
  PROVE  /\ writer' \in [Writer -> Active \cup {Resting}]
         /\ writer'[w] = q
         /\ \A v \in Writer : v # w => writer'[v] = writer[v]
  BY DEF MemoryInv, MemoryTypes

(* It goes to another step, as the same writer.                             *)
LEMMA WriterMoves ==
  ASSUME MemoryInv, NEW w \in Writer, writer[w].pc # "idle", NEW p,
         p \in {"insert", "link", "lock", "open", "line", "newline", "message"},
         Moves(w, p)
  PROVE  /\ writer' \in [Writer -> Active \cup {Resting}]
         /\ writer'[w] \in Active /\ writer'[w].pc = p
         /\ writer'[w].n = writer[w].n /\ writer'[w].file = writer[w].file
         /\ \A v \in Writer : v # w => writer'[v] = writer[v]
  <1> DEFINE q == [writer[w] EXCEPT !.pc = p]
  <1>1. writer[w] \in Active
    BY WriterIs
  <1>2. /\ q \in Active /\ q.pc = p /\ q.n = writer[w].n /\ q.file = writer[w].file
    BY <1>1 DEF Active
  <1>3. writer' = [writer EXCEPT ![w] = q]
    BY DEF Moves
  <1> HIDE DEF q
  <1> QED
    BY <1>2, <1>3, WriterSteps

-----------------------------------------------------------------------------
(* The types.                                                              *)

(* The types are kept by every step of a writer ...                         *)
LEMMA TypesStart ==
  ASSUME MemoryInv, NEW w \in Writer, NEW kind \in {"message", "note"}, WriterStarts(w, kind)
  PROVE  MemoryTypes'
  <1> DEFINE q == [pc |-> IF kind = "note" THEN "insert" ELSE "lock",
                   kind |-> kind, n |-> spent.events + 1, lock |-> NoLock, file |-> NoFile]
  <1>1. /\ spent \in [events : Nat, small : Nat, deletes : Nat, crashes : Nat]
        /\ memHist \in Recall
    BY DEF MemoryInv, MemoryTypes
  <1>2. q \in Active
    BY <1>1 DEF Active, NoLock, NoFile
  <1>3. writer' = [writer EXCEPT ![w] = q]
    BY DEF WriterStarts
  <1> HIDE DEF q
  <1>4. writer' \in [Writer -> Active \cup {Resting}]
    BY <1>2, <1>3, WriterSteps
  <1>5. spent' \in [events : Nat, small : Nat, deletes : Nat, crashes : Nat]
    BY <1>1 DEF WriterStarts, Request, Spend
  <1>6. memHist' \in Recall
    BY <1>1 DEF WriterStarts, Recall
  <1>7. UNCHANGED <<logs, logFile, lockNow, lockHolder, memItems, bucket>>
    BY DEF WriterStarts, logVars, rowVars, shortVars
  <1> QED
    BY <1>4, <1>5, <1>6, <1>7 DEF MemoryInv, MemoryTypes

(* ... storing its item ...                                                 *)
LEMMA TypesInsert ==
  ASSUME MemoryInv, NEW w \in Writer, InsertItem(w)
  PROVE  MemoryTypes'
  <1>1. writer[w] \in Active /\ writer[w].pc # "idle"
    BY WriterIs DEF InsertItem
  <1>2. [id |-> writer[w].n, text |-> 1, vector |-> 0] \in MemoryItem
    BY <1>1 DEF Active, MemoryItem
  <1>3. memItems' \subseteq MemoryItem
    BY <1>2 DEF InsertItem, MemoryInv, MemoryTypes
  <1>4. writer' \in [Writer -> Active \cup {Resting}]
    BY <1>1, WriterMoves DEF InsertItem
  <1>7. UNCHANGED <<logs, logFile, lockNow, lockHolder, bucket, spent, memHist>>
    BY DEF InsertItem, logVars, shortVars
  <1> QED
    BY <1>3, <1>4, <1>7 DEF MemoryInv, MemoryTypes

(* ... linking it ...                                                       *)
LEMMA TypesLink ==
  ASSUME MemoryInv, NEW w \in Writer, LinkItem(w)
  PROVE  MemoryTypes'
  <1>1. writer[w] \in Active /\ writer[w].pc # "idle"
    BY WriterIs DEF LinkItem
  <1>2. writer[w].n \in Nat /\ memHist \in Recall
    BY <1>1 DEF Active, MemoryInv, MemoryTypes
  <1>3. memHist' \in Recall
    BY <1>2 DEF LinkItem, Recall
  <1>4. writer' \in [Writer -> Active \cup {Resting}]
    BY <1>1, WriterMoves DEF LinkItem
  <1>7. UNCHANGED <<logs, logFile, lockNow, lockHolder, memItems, bucket, spent>>
    BY DEF LinkItem, logVars, shortVars
  <1> QED
    BY <1>3, <1>4, <1>7 DEF MemoryInv, MemoryTypes

(* ... taking the lock's entry ...                                          *)
LEMMA TypesLock ==
  ASSUME MemoryInv, NEW w \in Writer, TakeLockEntry(w)
  PROVE  MemoryTypes'
  <1> DEFINE l == IF lockNow = NoLock THEN Len(lockHolder) + 1 ELSE lockNow
             q == [writer[w] EXCEPT !.pc = "open", !.lock = l]
  <1>1. writer[w] \in Active
    BY WriterIs DEF TakeLockEntry
  <1>2. l \in Nat /\ lockHolder' \in Seq(Writer \cup {"free"}) /\ lockNow' = l
    BY DEF MemoryInv, MemoryTypes, TakeLockEntry
  <1>3. q \in Active
    BY <1>1, <1>2 DEF Active
  <1>4. writer' = [writer EXCEPT ![w] = q]
    BY DEF TakeLockEntry
  <1> HIDE DEF q
  <1>5. writer' \in [Writer -> Active \cup {Resting}]
    BY <1>3, <1>4, WriterSteps
  <1>7. UNCHANGED <<logs, logFile, memItems, bucket, spent, memHist>>
    BY DEF TakeLockEntry, rowVars, shortVars
  <1> HIDE DEF l
  <1> QED
    BY <1>2, <1>5, <1>7 DEF MemoryInv, MemoryTypes

(* The lock has another holder.                                             *)
LEMMA HolderSet ==
  ASSUME MemoryInv, NEW l, NEW h \in Writer \cup {"free"},
         lockHolder' = [lockHolder EXCEPT ![l] = h]
  PROVE  lockHolder' \in Seq(Writer \cup {"free"})
  <1> DEFINE S == Writer \cup {"free"}
  <1>1. lockHolder \in Seq(S) /\ h \in S
    BY DEF MemoryInv, MemoryTypes
  <1> HIDE DEF S
  <1>2. lockHolder' \in Seq(S)
    BY <1>1, SeqUpdated
  <1> QED
    BY <1>2 DEF S

(* ... opening the log ...                                                  *)
LEMMA TypesOpen ==
  ASSUME MemoryInv, NEW w \in Writer, OpenLog(w)
  PROVE  MemoryTypes'
  <1> DEFINE f == IF logFile = NoFile THEN Len(logs) + 1 ELSE logFile
             q == [writer[w] EXCEPT !.pc = "line", !.file = f]
  <1>1. writer[w] \in Active
    BY WriterIs DEF OpenLog
  <1>2. f \in Nat /\ logFile' = f /\ logs' \in Seq(Seq(Piece))
    BY DEF MemoryInv, MemoryTypes, OpenLog
  <1>2a. lockHolder' \in Seq(Writer \cup {"free"})
    BY HolderSet DEF OpenLog
  <1>3. q \in Active
    BY <1>1, <1>2 DEF Active
  <1>4. writer' = [writer EXCEPT ![w] = q]
    BY DEF OpenLog
  <1> HIDE DEF q
  <1>5. writer' \in [Writer -> Active \cup {Resting}]
    BY <1>3, <1>4, WriterSteps
  <1>7. UNCHANGED <<lockNow, memItems, bucket, spent, memHist>>
    BY DEF OpenLog, rowVars, shortVars
  <1> HIDE DEF f
  <1> QED
    BY <1>2, <1>2a, <1>5, <1>7 DEF MemoryInv, MemoryTypes

(* A log that gets one thing more.                                         *)
LEMMA LogGrows ==
  ASSUME MemoryInv, NEW f \in Nat, NEW x \in Piece, logs' = [logs EXCEPT ![f] = Append(@, x)]
  PROVE  /\ logs' \in Seq(Seq(Piece)) /\ DOMAIN logs' = DOMAIN logs
         /\ \A g \in DOMAIN logs : /\ logs[g] \in Seq(Piece)
                                   /\ logs'[g] = IF g = f THEN Append(logs[g], x) ELSE logs[g]
         /\ \A g \in DOMAIN logs : \A y :
              /\ Has(logs'[g], y) <=> Has(logs[g], y) \/ (g = f /\ y = x)
              /\ Once(logs[g], y) /\ (y = x => ~Has(logs[g], y)) => Once(logs'[g], y)
  <1>1. logs \in Seq(Seq(Piece))
    BY DEF MemoryInv, MemoryTypes
  <1>2. \A g \in DOMAIN logs : logs[g] \in Seq(Piece) /\ Append(logs[g], x) \in Seq(Piece)
    BY <1>1
  <1>3. DOMAIN logs' = DOMAIN logs /\ \A g \in DOMAIN logs :
           logs'[g] = IF g = f THEN Append(logs[g], x) ELSE logs[g]
    OBVIOUS
  <1>4. Len(logs) \in Nat /\ DOMAIN logs = 1..Len(logs)
    BY <1>1
  <1>8. logs' = [g \in DOMAIN logs |-> IF g = f THEN Append(logs[g], x) ELSE logs[g]]
    OBVIOUS
  <1>6. logs' \in Seq(Seq(Piece))
    <2> DEFINE S == Seq(Piece)
               n == Len(logs)
               L(g) == IF g = f THEN Append(logs[g], x) ELSE logs[g]
    <2>1. n \in Nat /\ logs' = [g \in 1..n |-> L(g)] /\ \A g \in 1..n : L(g) \in S
      BY <1>2, <1>4, <1>8
    <2> HIDE DEF S, n, L
    <2>2. logs' \in [1..n -> S]
      BY <2>1
    <2>3. logs' \in Seq(S)
      BY <2>1, <2>2, SeqIs
    <2> QED
      BY <2>3 DEF S
  <1>7. ASSUME NEW g \in DOMAIN logs, NEW y
        PROVE  /\ Has(logs'[g], y) <=> Has(logs[g], y) \/ (g = f /\ y = x)
               /\ Once(logs[g], y) /\ (y = x => ~Has(logs[g], y)) => Once(logs'[g], y)
    <2> DEFINE s == logs[g]
    <2>1. s \in Seq(Piece) /\ logs'[g] = IF g = f THEN Append(s, x) ELSE s
      BY <1>2, <1>3
    <2> HIDE DEF s
    <2>2. /\ Has(Append(s, x), y) <=> Has(s, y) \/ y = x
          /\ Once(s, y) /\ (y = x => ~Has(s, y)) => Once(Append(s, x), y)
      BY <2>1, HasMore
    <2>3. CASE g = f
      BY <2>1, <2>2, <2>3 DEF s
    <2>4. CASE g # f
      BY <2>1, <2>4 DEF s
    <2> QED
      BY <2>3, <2>4
  <1> QED
    BY <1>2, <1>3, <1>6, <1>7

(* ... writing its line ...                                                 *)
LEMMA TypesLine ==
  ASSUME MemoryInv, NEW w \in Writer, WriteLine(w)
  PROVE  MemoryTypes'
  <1>1. writer[w] \in Active /\ writer[w].pc # "idle"
    BY WriterIs DEF WriteLine
  <1>2. logs' \in Seq(Seq(Piece))
    <2> DEFINE f == writer[w].file
               x == writer[w].n
    <2>1. f \in Nat /\ x \in Piece
      BY <1>1 DEF Piece, Active
    <2>2. logs' = [logs EXCEPT ![f] = Append(@, x)]
      BY DEF WriteLine
    <2> HIDE DEF f, x
    <2> QED
      BY <2>1, <2>2, LogGrows
  <1>4. writer' \in [Writer -> Active \cup {Resting}]
    BY <1>1, WriterMoves DEF WriteLine
  <1>7. UNCHANGED <<logFile, lockNow, lockHolder, memItems, bucket, spent, memHist>>
    BY DEF WriteLine, rowVars, shortVars
  <1> QED
    BY <1>2, <1>4, <1>7 DEF MemoryInv, MemoryTypes

(* ... and the line's end ...                                               *)
LEMMA TypesNewline ==
  ASSUME MemoryInv, NEW w \in Writer, WriteNewline(w)
  PROVE  MemoryTypes'
  <1>1. writer[w] \in Active
    BY WriterIs DEF WriteNewline
  <1>2. writer[w].file \in Nat /\ writer[w].n \in Nat /\ memHist \in Recall
    BY <1>1 DEF Active, MemoryInv, MemoryTypes
  <1>3. logs' \in Seq(Seq(Piece))
    <2> DEFINE f == writer[w].file
    <2>1. f \in Nat /\ NewLine \in Piece
      BY <1>2 DEF Piece, NewLine
    <2>2. logs' = [logs EXCEPT ![f] = Append(@, NewLine)]
      BY DEF WriteNewline
    <2> HIDE DEF f
    <2> QED
      BY <2>1, <2>2, LogGrows
  <1>4. memHist' \in Recall
    BY <1>2 DEF WriteNewline, Recall
  <1>5. lockHolder' \in Seq(Writer \cup {"free"})
    BY HolderSet DEF WriteNewline
  <1>6. writer' \in [Writer -> Active \cup {Resting}]
    <2> DEFINE q == IF writer[w].kind = "message" THEN [writer[w] EXCEPT !.pc = "message"]
                    ELSE Resting
    <2>1. q \in Active \cup {Resting}
      BY <1>1 DEF Active
    <2>2. writer' = [writer EXCEPT ![w] = q]
      BY DEF WriteNewline
    <2> HIDE DEF q
    <2> QED
      BY <2>1, <2>2, WriterSteps
  <1>7. UNCHANGED <<logFile, lockNow, memItems, bucket, spent>>
    BY DEF WriteNewline, rowVars, shortVars
  <1> QED
    BY <1>3, <1>4, <1>5, <1>6, <1>7 DEF MemoryInv, MemoryTypes

(* ... by what happens to memory items ...                                  *)
LEMMA TypesItems ==
  ASSUME MemoryInv,
         \/ \E n \in embeds, ok \in BOOLEAN : EmbeddingArrives(n, ok)
         \/ \E m \in memItems : UpdateItem(m.id) \/ DeleteItem(m.id)
  PROVE  MemoryTypes'
  <1>1. memItems \subseteq MemoryItem
        /\ spent \in [events : Nat, small : Nat, deletes : Nat, crashes : Nat]
    BY DEF MemoryInv, MemoryTypes
  <1>2. ASSUME NEW n, NEW ok \in BOOLEAN, EmbeddingArrives(n, ok)
        PROVE  MemoryTypes'
    <2>1. \A m \in MemoryItem : [m EXCEPT !.vector = 1] \in MemoryItem
      BY DEF MemoryItem
    <2>2. memItems' \subseteq MemoryItem
      BY <1>1, <1>2, <2>1 DEF EmbeddingArrives
    <2> QED
      BY <1>2, <2>2 DEF EmbeddingArrives, MemoryInv, MemoryTypes, logVars, shortVars
  <1>3. ASSUME NEW n, UpdateItem(n)
        PROVE  MemoryTypes'
    <2>1. \A m \in MemoryItem : [m EXCEPT !.text = @ + 1] \in MemoryItem
      BY DEF MemoryItem
    <2>2. memItems' \subseteq MemoryItem
      BY <1>1, <1>3, <2>1 DEF UpdateItem
    <2>3. spent' \in [events : Nat, small : Nat, deletes : Nat, crashes : Nat]
      BY <1>1, <1>3 DEF UpdateItem, Request, Spend
    <2> QED
      BY <1>3, <2>2, <2>3 DEF UpdateItem, MemoryInv, MemoryTypes, logVars, shortVars
  <1>4. ASSUME NEW n, DeleteItem(n)
        PROVE  MemoryTypes'
    <2>2. memItems' \subseteq MemoryItem
      BY <1>1, <1>4 DEF DeleteItem
    <2>3. spent' \in [events : Nat, small : Nat, deletes : Nat, crashes : Nat]
      BY <1>1, <1>4 DEF DeleteItem, Request, Spend
    <2> QED
      BY <1>4, <2>2, <2>3 DEF DeleteItem, MemoryInv, MemoryTypes, logVars, shortVars
  <1> QED
    BY <1>2, <1>3, <1>4

(* ... by the short-term bucket and its sweep ...                           *)
LEMMA TypesShort ==
  ASSUME MemoryInv,
         \/ RememberShort \/ (\E i \in bucket.items : ShortExpires(i))
         \/ Retrieve \/ SweepLooks \/ SweepRemoves
  PROVE  MemoryTypes'
  <1> DEFINE Short == [n : Nat, expired : BOOLEAN]
  <1>1. /\ bucket \in [items : SUBSET Short, there : BOOLEAN] /\ memHist \in Recall
        /\ spent \in [events : Nat, small : Nat, deletes : Nat, crashes : Nat]
    BY DEF MemoryInv, MemoryTypes
  <1>2. CASE RememberShort
    <2>0. spent.small + 1 \in Nat
      BY <1>1
    <2>0a. [n |-> spent.small + 1, expired |-> FALSE] \in Short
      BY <2>0
    <2>1. bucket' \in [items : SUBSET Short, there : BOOLEAN]
      <3> HIDE DEF Short
      <3> QED
        BY <1>1, <1>2, <2>0a DEF RememberShort
    <2>2. memHist' \in Recall
      <3> DEFINE late == IF sweeper = "removing" THEN memHist.late \cup {spent.small + 1}
                         ELSE memHist.late
      <3>1. late \in SUBSET Nat
        BY <1>1, <2>0 DEF Recall
      <3>2. memHist' = [memHist EXCEPT !.quiet = FALSE, !.late = late]
        BY <1>1, <1>2 DEF RememberShort, Recall
      <3> HIDE DEF late
      <3> QED
        BY <1>1, <3>1, <3>2 DEF Recall
    <2>3. spent' \in [events : Nat, small : Nat, deletes : Nat, crashes : Nat]
      BY <1>1, <1>2 DEF RememberShort, Request, Spend
    <2> QED
      BY <1>2, <2>1, <2>2, <2>3
         DEF RememberShort, MemoryInv, MemoryTypes, logVars, rowVars
  <1>3. ASSUME NEW i \in bucket.items, ShortExpires(i)
        PROVE  MemoryTypes'
    <2>1. [i EXCEPT !.expired = TRUE] \in Short
      BY <1>1
    <2>2. bucket' \in [items : SUBSET Short, there : BOOLEAN]
      BY <1>1, <1>3, <2>1 DEF ShortExpires
    <2> QED
      BY <1>3, <2>2 DEF ShortExpires, MemoryInv, MemoryTypes, logVars, rowVars
  <1>4. Unexpired \subseteq bucket.items
    BY DEF Unexpired
  <1>5. CASE Retrieve \/ SweepLooks
    <2>1. bucket' \in [items : SUBSET Short, there : BOOLEAN]
      BY <1>1, <1>4, <1>5 DEF Retrieve, SweepLooks
    <2> QED
      BY <1>5, <2>1 DEF Retrieve, SweepLooks, MemoryInv, MemoryTypes, logVars, rowVars
  <1>6. CASE SweepRemoves
    <2>1. bucket' \in [items : SUBSET Short, there : BOOLEAN]
      BY <1>6 DEF SweepRemoves, NoBucket
    <2>2. {i.n : i \in Unexpired} \subseteq Nat
      BY <1>1, <1>4
    <2>3. memHist' \in Recall
      BY <1>1, <1>6, <2>2 DEF SweepRemoves, Recall
    <2> QED
      BY <1>6, <2>1, <2>3 DEF SweepRemoves, MemoryInv, MemoryTypes, logVars, rowVars
  <1> QED
    BY <1>2, <1>3, <1>5, <1>6

(* What a crash makes of the logs: each is as it was, or ends torn.        *)
LEMMA CrashedLogs ==
  ASSUME MemoryInv, MemoryCrash
  PROVE  /\ logs' \in Seq(Seq(Piece)) /\ DOMAIN logs' = DOMAIN logs
         /\ \A g \in DOMAIN logs :
              /\ logs[g] \in Seq(Piece)
              /\ logs'[g] = logs[g] \/ logs'[g] = Append(logs[g], Torn)
  <1>1. logs \in Seq(Seq(Piece))
    BY DEF MemoryInv, MemoryTypes
  <1>2. PICK half \in SUBSET {w \in Writer : writer[w].pc = "line"} :
          logs' = [f \in DOMAIN logs |->
                     IF \E w \in half : writer[w].file = f THEN Append(logs[f], Torn)
                     ELSE logs[f]]
    BY DEF MemoryCrash
  <1>3. \A g \in DOMAIN logs : logs[g] \in Seq(Piece) /\ Append(logs[g], Torn) \in Seq(Piece)
    BY <1>1 DEF Piece, Torn
  <1>4. DOMAIN logs' = DOMAIN logs
        /\ \A g \in DOMAIN logs : logs'[g] = logs[g] \/ logs'[g] = Append(logs[g], Torn)
    BY <1>2
  <1>5. logs' \in Seq(Seq(Piece))
    <2>1. Len(logs) \in Nat /\ DOMAIN logs = 1..Len(logs)
      BY <1>1
    <2> DEFINE S == Seq(Piece)
               n == Len(logs)
               L(g) == IF \E w \in half : writer[w].file = g THEN Append(logs[g], Torn)
                       ELSE logs[g]
    <2>2. n \in Nat /\ logs' = [g \in 1..n |-> L(g)] /\ \A g \in 1..n : L(g) \in S
      BY <1>2, <1>3, <2>1
    <2> HIDE DEF S, n, L
    <2>3. logs' \in [1..n -> S]
      BY <2>2
    <2>4. logs' \in Seq(S)
      BY <2>2, <2>3, SeqIs
    <2> QED
      BY <2>4 DEF S
  <1> QED
    BY <1>3, <1>4, <1>5

(* ... and by a deletion and a crash.                                       *)
LEMMA TypesErase ==
  ASSUME MemoryInv,
         DeleteRows \/ DeleteBucket \/ DeleteLog \/ DeleteLock \/ MemoryCrash
  PROVE  MemoryTypes'
  <1>1. /\ memHist \in Recall
        /\ spent \in [events : Nat, small : Nat, deletes : Nat, crashes : Nat]
    BY DEF MemoryInv, MemoryTypes
  <1>2. CASE DeleteRows
    <2>1. memHist' \in Recall
      BY <1>1, <1>2 DEF DeleteRows, Recall
    <2>2. spent' \in [events : Nat, small : Nat, deletes : Nat, crashes : Nat]
      BY <1>1, <1>2 DEF DeleteRows, Trouble, Spend
    <2> QED
      BY <1>2, <2>1, <2>2 DEF DeleteRows, MemoryInv, MemoryTypes, logVars, shortVars
  <1>3. CASE DeleteBucket
    <2>1. bucket' \in [items : SUBSET [n : Nat, expired : BOOLEAN], there : BOOLEAN]
      BY <1>3 DEF DeleteBucket, NoBucket
    <2> QED
      BY <1>3, <2>1 DEF DeleteBucket, MemoryInv, MemoryTypes, logVars, rowVars
  <1>4. CASE DeleteLog
    <2>1. memHist' \in Recall
      BY <1>1, <1>4 DEF DeleteLog, Recall
    <2> QED
      BY <1>4, <2>1 DEF DeleteLog, MemoryInv, MemoryTypes, rowVars, shortVars, NoFile
  <1>5. CASE DeleteLock
    BY <1>5 DEF DeleteLock, MemoryInv, MemoryTypes, rowVars, shortVars, NoLock
  <1>6. CASE MemoryCrash
    <2>1. memHist' \in Recall
      BY <1>1, <1>6 DEF MemoryCrash, Recall
    <2>2. spent' \in [events : Nat, small : Nat, deletes : Nat, crashes : Nat]
      BY <1>1, <1>6 DEF MemoryCrash, Trouble, Spend
    <2>3. bucket' \in [items : SUBSET [n : Nat, expired : BOOLEAN], there : BOOLEAN]
      BY <1>6 DEF MemoryCrash, NoBucket
    <2>4. logs' \in Seq(Seq(Piece))
      BY <1>6, CrashedLogs
    <2>5. /\ writer' = [w \in Writer |-> Resting] /\ lockNow' = 0 /\ lockHolder' = << >>
          /\ UNCHANGED <<logFile, memItems>>
      BY <1>6 DEF MemoryCrash, NoLock
    <2> QED
      BY <2>1, <2>2, <2>3, <2>4, <2>5 DEF MemoryInv, MemoryTypes
  <1> QED
    BY <1>2, <1>3, <1>4, <1>5, <1>6

(* Every step keeps the types.                                              *)
LEMMA TypesStep == MemoryInv /\ [SessionMemoryNext]_memoryVars => MemoryTypes'
  <1> SUFFICES ASSUME MemoryInv, [SessionMemoryNext]_memoryVars PROVE MemoryTypes'
    OBVIOUS
  <1>1. ASSUME NEW w \in Writer, NEW kind \in {"message", "note"}, WriterStarts(w, kind)
        PROVE  MemoryTypes'
    BY <1>1, TypesStart
  <1>2. ASSUME NEW w \in Writer,
               \/ InsertItem(w) \/ LinkItem(w) \/ TakeLockEntry(w) \/ OpenLog(w)
               \/ WriteLine(w) \/ WriteNewline(w)
        PROVE  MemoryTypes'
    BY <1>2, TypesInsert, TypesLink, TypesLock, TypesOpen, TypesLine, TypesNewline
  <1>3. ASSUME NEW w \in Writer, RecordMessage(w)
        PROVE  MemoryTypes'
    <2>1. writer' \in [Writer -> Active \cup {Resting}]
      BY <1>3, WriterSteps DEF RecordMessage
    <2> QED
      BY <1>3, <2>1 DEF RecordMessage, MemoryInv, MemoryTypes, logVars, shortVars
  <1>4. CASE UNCHANGED memoryVars
    BY <1>4 DEF memoryVars, logVars, rowVars, shortVars, MemoryInv, MemoryTypes
  <1> QED
    BY <1>1, <1>2, <1>3, <1>4, TypesItems, TypesShort, TypesErase DEF SessionMemoryNext

-----------------------------------------------------------------------------
(* Links, the bucket and the deletion.                                     *)

(* The types of what is remembered of the past.                             *)
LEMMA HistIs ==
  ASSUME MemoryInv
  PROVE  /\ memHist \in Recall
         /\ spent \in [events : Nat, small : Nat, deletes : Nat, crashes : Nat]
         /\ bucket \in [items : SUBSET [n : Nat, expired : BOOLEAN], there : BOOLEAN]
         /\ memItems \subseteq MemoryItem
  BY DEF MemoryInv, MemoryTypes

(* A link is stored with its item there, or noted as orphaned; an item is   *)
(* deleted with its links.                                                  *)
LEMMA LinksStep == MemoryInv /\ [SessionMemoryNext]_memoryVars => LinksKnown'
  <1> SUFFICES ASSUME MemoryInv, [SessionMemoryNext]_memoryVars PROVE LinksKnown'
    OBVIOUS
  <1>1. LinksKnown /\ memHist \in Recall /\ memItems \subseteq MemoryItem
    BY HistIs DEF MemoryInv
  <1>2. ASSUME UNCHANGED <<memLinks, memItems>>, memHist'.orphaned = memHist.orphaned
        PROVE  LinksKnown'
    BY <1>1, <1>2 DEF LinksKnown
  <1>3. ASSUME NEW w \in Writer, NEW kind \in {"message", "note"}, WriterStarts(w, kind)
        PROVE  LinksKnown'
    BY <1>1, <1>2, <1>3 DEF WriterStarts, rowVars, Recall
  <1>4. ASSUME NEW w \in Writer, InsertItem(w)
        PROVE  LinksKnown'
    BY <1>1, <1>4 DEF InsertItem, LinksKnown
  <1>5. ASSUME NEW w \in Writer, LinkItem(w)
        PROVE  LinksKnown'
    BY <1>1, <1>5 DEF LinkItem, LinksKnown, Recall
  <1>6. ASSUME NEW w \in Writer,
               TakeLockEntry(w) \/ OpenLog(w) \/ WriteLine(w) \/ RecordMessage(w)
        PROVE  LinksKnown'
    BY <1>2, <1>6 DEF TakeLockEntry, OpenLog, WriteLine, RecordMessage, rowVars
  <1>7. ASSUME NEW w \in Writer, WriteNewline(w)
        PROVE  LinksKnown'
    <2>1. memHist'.orphaned = memHist.orphaned
      BY <1>1, <1>7 DEF WriteNewline, Recall
    <2> QED
      BY <1>2, <1>7, <2>1 DEF WriteNewline, rowVars
  <1>8. ASSUME NEW n, NEW ok \in BOOLEAN, EmbeddingArrives(n, ok)
        PROVE  LinksKnown'
    <2> DEFINE New(m) == IF m.id = n /\ ok THEN [m EXCEPT !.vector = 1] ELSE m
    <2>1. \A m \in MemoryItem : New(m).id = m.id
      BY DEF MemoryItem
    <2>2. memItems' = {New(m) : m \in memItems}
      BY <1>8 DEF EmbeddingArrives
    <2> HIDE DEF New
    <2>3. \A m \in memItems : \E k \in memItems' : k.id = m.id
      BY <1>1, <2>1, <2>2
    <2> QED
      BY <1>1, <1>8, <2>3 DEF EmbeddingArrives, LinksKnown
  <1>9. ASSUME NEW n, UpdateItem(n)
        PROVE  LinksKnown'
    <2> DEFINE New(m) == IF m.id = n THEN [m EXCEPT !.text = @ + 1] ELSE m
    <2>1. \A m \in MemoryItem : New(m).id = m.id
      BY DEF MemoryItem
    <2>2. memItems' = {New(m) : m \in memItems}
      BY <1>9 DEF UpdateItem
    <2> HIDE DEF New
    <2>3. \A m \in memItems : \E k \in memItems' : k.id = m.id
      BY <1>1, <2>1, <2>2
    <2> QED
      BY <1>1, <1>9, <2>3 DEF UpdateItem, LinksKnown
  <1>10. ASSUME NEW n, DeleteItem(n)
        PROVE  LinksKnown'
    BY <1>1, <1>10 DEF DeleteItem, LinksKnown
  <1>11. CASE RememberShort
    <2>1. memHist'.orphaned = memHist.orphaned
      BY <1>1, <1>11 DEF RememberShort, Recall
    <2> QED
      BY <1>2, <1>11, <2>1 DEF RememberShort, rowVars
  <1>12. ASSUME NEW i \in bucket.items, ShortExpires(i)
         PROVE  LinksKnown'
    BY <1>2, <1>12 DEF ShortExpires, rowVars
  <1>13. CASE Retrieve \/ SweepLooks
    BY <1>2, <1>13 DEF Retrieve, SweepLooks, rowVars
  <1>14. CASE SweepRemoves
    BY <1>1, <1>2, <1>14 DEF SweepRemoves, rowVars, Recall
  <1>15. CASE DeleteRows
    BY <1>1, <1>15 DEF DeleteRows, LinksKnown, Recall
  <1>16. CASE DeleteBucket \/ DeleteLock
    BY <1>2, <1>16 DEF DeleteBucket, DeleteLock, rowVars
  <1>17. CASE DeleteLog
    BY <1>1, <1>2, <1>17 DEF DeleteLog, rowVars, Recall
  <1>18. CASE MemoryCrash
    BY <1>1, <1>2, <1>18 DEF MemoryCrash, Recall
  <1>19. CASE UNCHANGED memoryVars
    BY <1>2, <1>19 DEF memoryVars, rowVars
  <1> QED
    BY <1>3, <1>4, <1>5, <1>6, <1>7, <1>8, <1>9, <1>10, <1>11, <1>12, <1>13, <1>14, <1>15,
       <1>16, <1>17, <1>18, <1>19 DEF SessionMemoryNext

(* What is stored after the sweep has looked is noted as late.              *)
LEMMA SweptStep == MemoryInv /\ [SessionMemoryNext]_memoryVars => SweptLate'
  <1> SUFFICES ASSUME MemoryInv, [SessionMemoryNext]_memoryVars PROVE SweptLate'
    OBVIOUS
  <1>1. /\ SweptLate /\ memHist \in Recall
        /\ bucket \in [items : SUBSET [n : Nat, expired : BOOLEAN], there : BOOLEAN]
        /\ spent \in [events : Nat, small : Nat, deletes : Nat, crashes : Nat]
    BY HistIs DEF MemoryInv
  <1>2. ASSUME UNCHANGED <<bucket, sweeper>>, memHist'.late = memHist.late,
               memHist'.swept = memHist.swept
        PROVE  SweptLate'
    BY <1>1, <1>2 DEF SweptLate
  <1>3. ASSUME NEW w \in Writer, NEW kind \in {"message", "note"}, WriterStarts(w, kind)
        PROVE  SweptLate'
    BY <1>1, <1>2, <1>3 DEF WriterStarts, shortVars, Recall
  <1>4. ASSUME NEW w \in Writer, LinkItem(w)
        PROVE  SweptLate'
    <2>1. memHist'.late = memHist.late /\ memHist'.swept = memHist.swept
      BY <1>1, <1>4 DEF LinkItem, Recall
    <2> QED
      BY <1>2, <1>4, <2>1 DEF LinkItem, shortVars
  <1>5. ASSUME NEW w \in Writer, WriteNewline(w)
        PROVE  SweptLate'
    <2>1. memHist'.late = memHist.late /\ memHist'.swept = memHist.swept
      BY <1>1, <1>5 DEF WriteNewline, Recall
    <2> QED
      BY <1>2, <1>5, <2>1 DEF WriteNewline, shortVars
  <1>6. ASSUME NEW w \in Writer,
               \/ InsertItem(w) \/ TakeLockEntry(w) \/ OpenLog(w) \/ WriteLine(w)
               \/ RecordMessage(w)
        PROVE  SweptLate'
    BY <1>2, <1>6 DEF InsertItem, TakeLockEntry, OpenLog, WriteLine, RecordMessage, shortVars
  <1>7. ASSUME NEW n, NEW ok \in BOOLEAN,
               EmbeddingArrives(n, ok) \/ UpdateItem(n) \/ DeleteItem(n)
        PROVE  SweptLate'
    BY <1>2, <1>7 DEF EmbeddingArrives, UpdateItem, DeleteItem, shortVars
  <1>8. CASE RememberShort
    <2> DEFINE n == spent.small + 1
    <2>1. /\ memHist'.swept = memHist.swept /\ sweeper' = sweeper
          /\ memHist'.late = IF sweeper = "removing" THEN memHist.late \cup {n}
                             ELSE memHist.late
      BY <1>1, <1>8 DEF RememberShort, Recall
    <2>2. bucket'.items = bucket.items \cup {[n |-> n, expired |-> FALSE]}
      BY <1>8 DEF RememberShort
    <2>3. [n |-> n, expired |-> FALSE].n = n
      OBVIOUS
    <2> HIDE DEF n
    <2> QED
      BY <1>1, <2>1, <2>2, <2>3 DEF SweptLate
  <1>9. ASSUME NEW i \in bucket.items, ShortExpires(i)
        PROVE  SweptLate'
    <2>1. [i EXCEPT !.expired = TRUE].expired
      BY <1>1
    <2>2. /\ bucket'.items = (bucket.items \ {i}) \cup {[i EXCEPT !.expired = TRUE]}
          /\ UNCHANGED <<sweeper, memHist>>
      BY <1>1, <1>9 DEF ShortExpires
    <2> QED
      BY <1>1, <2>1, <2>2 DEF SweptLate
  <1>10. /\ Unexpired \subseteq bucket.items
         /\ \A i \in Unexpired : ~i.expired
    BY DEF Unexpired
  <1>11. CASE Retrieve \/ SweepLooks
    <2>1. /\ bucket'.items = Unexpired /\ UNCHANGED memHist
          /\ sweeper' = "removing" => sweeper = "removing" \/ Unexpired = {}
      BY <1>1, <1>11 DEF Retrieve, SweepLooks
    <2> QED
      BY <1>1, <1>10, <2>1 DEF SweptLate
  <1>12. CASE SweepRemoves
    <2>1. /\ memHist'.late = memHist.late /\ sweeper' = "idle"
          /\ memHist'.swept = memHist.swept \cup {i.n : i \in Unexpired}
      BY <1>1, <1>12 DEF SweepRemoves, Recall
    <2>2. \A i \in Unexpired : i.n \in memHist.late
      BY <1>1, <1>10, <1>12 DEF SweepRemoves, SweptLate
    <2> QED
      BY <1>1, <2>1, <2>2 DEF SweptLate
  <1>13. CASE DeleteRows
    BY <1>1, <1>2, <1>13 DEF DeleteRows, shortVars, Recall
  <1>14. CASE DeleteBucket
    BY <1>1, <1>14 DEF DeleteBucket, NoBucket, SweptLate
  <1>15. CASE DeleteLog
    BY <1>1, <1>2, <1>15 DEF DeleteLog, shortVars, Recall
  <1>16. CASE DeleteLock \/ UNCHANGED memoryVars
    BY <1>2, <1>16 DEF DeleteLock, memoryVars, shortVars
  <1>17. CASE MemoryCrash
    <2>1. memHist'.late = memHist.late /\ memHist'.swept = memHist.swept /\ sweeper' = "idle"
      BY <1>1, <1>17 DEF MemoryCrash, Recall
    <2> QED
      BY <1>1, <2>1 DEF SweptLate
  <1> QED
    BY <1>3, <1>4, <1>5, <1>6, <1>7, <1>8, <1>9, <1>11, <1>12, <1>13, <1>14, <1>15,
       <1>16, <1>17 DEF SessionMemoryNext

(* A deletion that began quietly is not quiet any more once a request or a  *)
(* crash comes in.                                                          *)
LEMMA ErasedStep == MemoryInv /\ [SessionMemoryNext]_memoryVars => ErasedQuietly'
  <1> SUFFICES ASSUME MemoryInv, [SessionMemoryNext]_memoryVars PROVE ErasedQuietly'
    OBVIOUS
  <1>1. /\ ErasedQuietly /\ LinksKnown /\ memHist \in Recall
        /\ bucket \in [items : SUBSET [n : Nat, expired : BOOLEAN], there : BOOLEAN]
    BY HistIs DEF MemoryInv
  <1>2. Resting.pc = "idle"
    BY DEF Resting
  <1>3. ASSUME ~memHist'.quiet PROVE ErasedQuietly'
    BY <1>3 DEF ErasedQuietly
  <1>4. ASSUME UNCHANGED <<writer, embeds, userRows, memItems, memLinks, eraser, bucket,
                           logFile>>,
               memHist'.quiet = memHist.quiet, memHist'.orphaned = memHist.orphaned
        PROVE  ErasedQuietly'
    BY <1>1, <1>4 DEF ErasedQuietly
  <1>5. ASSUME NEW w \in Writer, NEW kind \in {"message", "note"}, WriterStarts(w, kind)
        PROVE  ErasedQuietly'
    BY <1>1, <1>3, <1>5 DEF WriterStarts, Recall
  <1>6. ASSUME NEW w \in Writer,
               \/ InsertItem(w) \/ LinkItem(w) \/ TakeLockEntry(w) \/ OpenLog(w)
               \/ WriteLine(w) \/ WriteNewline(w) \/ RecordMessage(w)
        PROVE  ErasedQuietly'
    <2>1. writer[w].pc # "idle"
      BY <1>6 DEF InsertItem, LinkItem, TakeLockEntry, OpenLog, WriteLine, WriteNewline,
                  RecordMessage
    <2>2. ~memHist.quiet
      BY <1>1, <1>2, <2>1 DEF ErasedQuietly
    <2>3. memHist'.quiet = memHist.quiet
      BY <1>1, <1>6 DEF InsertItem, LinkItem, TakeLockEntry, OpenLog, WriteLine, WriteNewline,
                        RecordMessage, Recall
    <2> QED
      BY <1>3, <2>2, <2>3
  <1>7. ASSUME NEW n \in embeds, NEW ok \in BOOLEAN, EmbeddingArrives(n, ok)
        PROVE  ErasedQuietly'
    BY <1>1, <1>7 DEF EmbeddingArrives, ErasedQuietly
  <1>8. ASSUME NEW n, UpdateItem(n) \/ DeleteItem(n)
        PROVE  ErasedQuietly'
    BY <1>1, <1>8 DEF UpdateItem, DeleteItem, ErasedQuietly
  <1>9. CASE RememberShort
    BY <1>1, <1>3, <1>9 DEF RememberShort, Recall
  <1>10. ASSUME NEW i \in bucket.items, ShortExpires(i)
         PROVE  ErasedQuietly'
    BY <1>1, <1>10 DEF ShortExpires, ErasedQuietly, logVars, rowVars
  <1>11. Unexpired \subseteq bucket.items
    BY DEF Unexpired
  <1>12. CASE Retrieve \/ SweepLooks
    <2>1. bucket'.items = Unexpired
      BY <1>1, <1>12 DEF Retrieve, SweepLooks
    <2> QED
      BY <1>1, <1>11, <1>12, <2>1
         DEF Retrieve, SweepLooks, ErasedQuietly, logVars, rowVars
  <1>13. CASE SweepRemoves
    <2>1. memHist'.quiet = memHist.quiet /\ memHist'.orphaned = memHist.orphaned
          /\ bucket'.items = {}
      BY <1>1, <1>13 DEF SweepRemoves, Recall, NoBucket
    <2> QED
      BY <1>1, <1>13, <2>1 DEF SweepRemoves, ErasedQuietly, logVars, rowVars
  <1>14. CASE DeleteRows
    <2>1. /\ memHist'.quiet <=> embeds = {} /\ \A w \in Writer : writer[w] = Resting
          /\ memHist'.orphaned = memHist.orphaned
      BY <1>1, <1>14 DEF DeleteRows, Recall
    <2>2. memLinks' \subseteq memHist.orphaned
      BY <1>1, <1>14 DEF DeleteRows, LinksKnown
    <2> QED
      BY <1>14, <2>1, <2>2 DEF DeleteRows, ErasedQuietly
  <1>15. CASE DeleteBucket
    BY <1>1, <1>15 DEF DeleteBucket, ErasedQuietly, NoBucket, logVars, rowVars
  <1>16. CASE DeleteLog
    <2>1. memHist'.quiet = memHist.quiet /\ memHist'.orphaned = memHist.orphaned
      BY <1>1, <1>16 DEF DeleteLog, Recall
    <2> QED
      BY <1>1, <1>16, <2>1 DEF DeleteLog, ErasedQuietly, rowVars, shortVars
  <1>17. CASE DeleteLock
    BY <1>1, <1>17 DEF DeleteLock, ErasedQuietly, rowVars, shortVars
  <1>18. CASE MemoryCrash
    BY <1>1, <1>3, <1>18 DEF MemoryCrash, Recall
  <1>19. CASE UNCHANGED memoryVars
    BY <1>4, <1>19 DEF memoryVars, logVars, rowVars, shortVars
  <1> QED
    BY <1>5, <1>6, <1>7, <1>8, <1>9, <1>10, <1>12, <1>13, <1>14, <1>15, <1>16, <1>17, <1>18,
       <1>19 DEF SessionMemoryNext

-----------------------------------------------------------------------------
(* The log.                                                                *)

(* What is kept about the log.                                              *)
LogInv == WritersOK /\ LogsOK /\ KeptOK

(* What is known of the logs.                                               *)
LEMMA LogIs ==
  ASSUME MemoryInv
  PROVE  /\ WritersOK /\ LogsOK /\ KeptOK
         /\ logs \in Seq(Seq(Piece)) /\ DOMAIN logs = 1..Len(logs) /\ Len(logs) \in Nat
         /\ \A f \in DOMAIN logs : logs[f] \in Seq(Piece)
         /\ spent.events \in Nat /\ spent.crashes \in Nat /\ memHist.kept \subseteq Nat
         /\ Resting.pc = "idle"
  <1>1. logs \in Seq(Seq(Piece)) /\ WritersOK /\ LogsOK /\ KeptOK
    BY DEF MemoryInv, MemoryTypes
  <1>2. /\ DOMAIN logs = 1..Len(logs) /\ Len(logs) \in Nat
        /\ \A f \in DOMAIN logs : logs[f] \in Seq(Piece)
    BY <1>1
  <1>3. spent.events \in Nat /\ spent.crashes \in Nat /\ memHist.kept \subseteq Nat
    BY HistIs DEF Recall
  <1> QED
    BY <1>1, <1>2, <1>3 DEF Resting

(* A step that leaves the log and the writers alone keeps it.               *)
LEMMA LogRests ==
  ASSUME MemoryInv, UNCHANGED <<logs, logFile, writer>>, memHist'.kept = memHist.kept,
         spent'.events = spent.events, spent'.crashes \in Nat, spent'.crashes >= spent.crashes
  PROVE  LogInv'
  <1>1. spent'.crashes = 0 => spent.crashes = 0
    BY LogIs
  <1> QED
    BY <1>1, LogIs DEF LogInv, WritersOK, LogsOK, KeptOK

(* A writer starts with a number nobody has.                                *)
LEMMA LogStart ==
  ASSUME MemoryInv, NEW w \in Writer, NEW kind \in {"message", "note"}, WriterStarts(w, kind)
  PROVE  LogInv'
  <1> DEFINE n == spent.events + 1
             q == [pc |-> IF kind = "note" THEN "insert" ELSE "lock",
                   kind |-> kind, n |-> n, lock |-> NoLock, file |-> NoFile]
  <1>1. n \in Nat /\ n > spent.events
    BY LogIs
  <1>2. q \in Active /\ q.n = n /\ q.pc \in {"insert", "lock"}
    BY <1>1 DEF Active, NoLock, NoFile
  <1>3. /\ spent'.events = n /\ spent'.crashes = spent.crashes /\ memHist'.kept = memHist.kept
        /\ UNCHANGED <<logs, logFile>>
    BY HistIs DEF WriterStarts, Request, Spend, Recall, logVars
  <1>4. writer' = [writer EXCEPT ![w] = q]
    BY DEF WriterStarts
  <1> HIDE DEF q, n
  <1>5. writer'[w] = q /\ \A v \in Writer : v # w => writer'[v] = writer[v]
    BY <1>2, <1>4, WriterSteps
  <1>6. \A f \in DOMAIN logs : ~Has(logs[f], n)
    BY <1>1, LogIs DEF LogsOK
  <1>7. \A v \in Writer : writer[v] # Resting => writer[v].n # n /\ writer[v].n \in 1..n
    BY <1>1, LogIs DEF WritersOK
  <1>8. n \in 1..n
    BY <1>1, LogIs
  <1>9. WritersOK'
    <2>1. \A v \in Writer : writer'[v] # Resting => writer'[v].n \in 1..spent'.events
      BY <1>2, <1>3, <1>5, <1>7, <1>8
    <2>2. \A u, v \in Writer :
            writer'[u] # Resting /\ writer'[v] # Resting /\ writer'[u].n = writer'[v].n
            => u = v
      BY <1>2, <1>5, <1>7, LogIs DEF WritersOK
    <2>3. \A v \in Writer :
            writer'[v].pc \in {"insert", "link", "lock", "open", "line"} =>
              \A f \in DOMAIN logs : ~Has(logs[f], writer'[v].n)
      BY <1>2, <1>5, <1>6, LogIs DEF WritersOK
    <2>4. \A v \in Writer : writer'[v].pc \in {"line", "newline"} =>
            v # w /\ writer'[v] = writer[v]
      BY <1>2, <1>5
    <2>5. \A v \in Writer : writer'[v].pc \in {"line", "newline"} =>
            writer'[v].file \in DOMAIN logs
      BY <2>4, LogIs DEF WritersOK
    <2>6. \A v \in Writer : writer'[v].pc = "newline" =>
            Has(logs[writer'[v].file], writer'[v].n)
      BY <2>4, LogIs DEF WritersOK
    <2> QED
      BY <1>3, <2>1, <2>2, <2>3, <2>5, <2>6 DEF WritersOK
  <1>10. LogsOK'
    <2>1. ASSUME NEW f \in DOMAIN logs, NEW m \in Nat, Has(logs[f], m)
          PROVE  m <= n
      BY <1>1, <2>1, LogIs DEF LogsOK
    <2> QED
      BY <1>3, <2>1, LogIs DEF LogsOK
  <1> QED
    BY <1>3, <1>9, <1>10, LogIs DEF LogInv, KeptOK

(* Before it opens the log a writer changes only itself.                   *)
LEMMA LogNears ==
  ASSUME MemoryInv, NEW w \in Writer, writer[w].pc \in {"insert", "link", "lock"},
         NEW q \in Active, q.pc \in {"link", "lock", "open"}, q.n = writer[w].n,
         writer' = [writer EXCEPT ![w] = q],
         UNCHANGED <<logs, logFile, spent>>, memHist'.kept = memHist.kept
  PROVE  LogInv'
  <1>1. writer'[w] = q /\ \A v \in Writer : v # w => writer'[v] = writer[v]
    BY WriterSteps
  <1>2. writer[w] # Resting /\ q # Resting
    BY LogIs
  <1>3. WritersOK'
    BY <1>1, <1>2, LogIs DEF WritersOK
  <1> QED
    BY <1>3, LogIs DEF LogInv, LogsOK, KeptOK

(* The log is opened, or made anew.                                         *)
LEMMA LogOpen ==
  ASSUME MemoryInv, NEW w \in Writer, OpenLog(w)
  PROVE  LogInv'
  <1> DEFINE f == IF logFile = NoFile THEN Len(logs) + 1 ELSE logFile
             q == [writer[w] EXCEPT !.pc = "line", !.file = f]
  <1>1. writer[w] \in Active /\ writer[w].pc = "open" /\ writer[w] # Resting
    BY WriterIs DEF OpenLog
  <1>2. /\ f \in Nat /\ logFile' = f /\ f # NoFile
        /\ logs' = IF logFile = NoFile THEN Append(logs, << >>) ELSE logs
    BY LogIs DEF OpenLog, MemoryInv, MemoryTypes, NoFile
  <1>3. q \in Active /\ q.pc = "line" /\ q.file = f /\ q.n = writer[w].n
    BY <1>1, <1>2 DEF Active
  <1>4. writer' = [writer EXCEPT ![w] = q]
    BY DEF OpenLog
  <1> HIDE DEF q
  <1>5. writer'[w] = q /\ \A v \in Writer : v # w => writer'[v] = writer[v]
    BY <1>3, <1>4, WriterSteps
  <1>6. UNCHANGED <<spent, memHist>>
    BY DEF OpenLog
  <1>7. /\ f \in DOMAIN logs' /\ DOMAIN logs \subseteq DOMAIN logs'
        /\ \A g \in DOMAIN logs : logs'[g] = logs[g]
        /\ \A g \in DOMAIN logs' : g \in DOMAIN logs \/ logs'[g] = << >>
    <2>1. CASE logFile = NoFile
      BY <1>2, <2>1, LogIs
    <2>2. CASE logFile # NoFile
      BY <1>2, <2>2, LogIs DEF KeptOK
    <2> QED
      BY <2>1, <2>2
  <1>8. \A x : ~Has(<< >>, x) /\ Once(<< >>, x)
    BY DEF Has, Once
  <1>9. q # Resting
    BY <1>3, LogIs
  <1> HIDE DEF f
  <1>10. WritersOK'
    <2>1. \A v \in Writer : writer'[v] # Resting =>
             writer[v] # Resting /\ writer'[v].n = writer[v].n
      BY <1>1, <1>3, <1>5
    <2>2. \A v \in Writer : writer'[v].pc \in {"insert", "link", "lock", "open", "line"} =>
             writer[v].pc \in {"insert", "link", "lock", "open", "line"}
      BY <1>1, <1>5
    <2>3. \A v \in Writer :
            writer'[v].pc \in {"insert", "link", "lock", "open", "line"} =>
              \A g \in DOMAIN logs' : ~Has(logs'[g], writer'[v].n)
      <3> SUFFICES ASSUME NEW v \in Writer,
                          writer'[v].pc \in {"insert", "link", "lock", "open", "line"},
                          NEW g \in DOMAIN logs'
                   PROVE  ~Has(logs'[g], writer'[v].n)
        OBVIOUS
      <3>1. writer'[v].n = writer[v].n
        BY <1>3, <1>5
      <3> QED
        BY <1>7, <1>8, <2>2, <3>1, LogIs DEF WritersOK
    <2>4. \A v \in Writer : writer'[v].pc \in {"line", "newline"} =>
            writer'[v].file \in DOMAIN logs'
      BY <1>3, <1>5, <1>7, LogIs DEF WritersOK
    <2>5. \A v \in Writer : writer'[v].pc = "newline" =>
            Has(logs'[writer'[v].file], writer'[v].n)
      <3> SUFFICES ASSUME NEW v \in Writer, writer'[v].pc = "newline"
                   PROVE  Has(logs'[writer'[v].file], writer'[v].n)
        OBVIOUS
      <3>1. v # w /\ writer'[v] = writer[v]
        BY <1>3, <1>5
      <3>2. writer[v].file \in DOMAIN logs /\ Has(logs[writer[v].file], writer[v].n)
        BY <3>1, LogIs DEF WritersOK
      <3> QED
        BY <1>7, <3>1, <3>2
    <2>6. \A v \in Writer : writer'[v] # Resting => writer'[v].n \in 1..spent'.events
      BY <1>6, <2>1, LogIs DEF WritersOK
    <2>7. \A u, v \in Writer :
            writer'[u] # Resting /\ writer'[v] # Resting /\ writer'[u].n = writer'[v].n
            => u = v
      BY <2>1, LogIs DEF WritersOK
    <2> QED
      BY <2>3, <2>4, <2>5, <2>6, <2>7 DEF WritersOK
  <1>11. LogsOK'
    <2> SUFFICES ASSUME NEW g \in DOMAIN logs'
                 PROVE  /\ \A n \in Nat : Has(logs'[g], n) => n <= spent.events
                        /\ \A n \in Nat : n # NewLine => Once(logs'[g], n)
                        /\ spent.crashes = 0 => ~Has(logs'[g], Torn)
      BY <1>6 DEF LogsOK
    <2>1. CASE g \in DOMAIN logs
      BY <1>7, <2>1, LogIs DEF LogsOK
    <2>2. CASE logs'[g] = << >>
      BY <1>8, <2>2
    <2> QED
      BY <1>7, <2>1, <2>2
  <1>12. KeptOK'
    <2>1. \A n \in memHist.kept : n # NewLine /\ logFile # NoFile /\ Has(logs[logFile], n)
                                  /\ logFile \in DOMAIN logs
      BY LogIs DEF KeptOK
    <2>2. logFile # NoFile => f = logFile
      BY DEF f
    <2> QED
      BY <1>2, <1>6, <1>7, <2>1, <2>2 DEF KeptOK
  <1> QED
    BY <1>10, <1>11, <1>12 DEF LogInv

(* Its line is written: the number is now in the log, once.                 *)
LEMMA LogLine ==
  ASSUME MemoryInv, NEW w \in Writer, WriteLine(w)
  PROVE  LogInv'
  <1> DEFINE f == writer[w].file
             n == writer[w].n
  <1>1. writer[w] \in Active /\ writer[w].pc = "line" /\ writer[w] # Resting
    BY WriterIs DEF WriteLine
  <1>2. /\ writer'[w] \in Active /\ writer'[w].pc = "newline"
        /\ writer'[w].n = n /\ writer'[w].file = f
        /\ \A v \in Writer : v # w => writer'[v] = writer[v]
    BY <1>1, WriterMoves DEF WriteLine
  <1>3. UNCHANGED <<logFile, spent, memHist>>
    BY DEF WriteLine
  <1>4. /\ f \in DOMAIN logs /\ f \in Nat /\ n \in Piece /\ n \in 1..spent.events
        /\ \A g \in DOMAIN logs : ~Has(logs[g], n)
    BY <1>1, LogIs DEF Piece, WritersOK, Active
  <1>5. logs' = [logs EXCEPT ![f] = Append(@, n)]
    BY DEF WriteLine
  <1>6. \A v \in Writer : v # w /\ writer[v] # Resting => writer[v].n # n
    BY <1>1, LogIs DEF WritersOK
  <1>7. writer'[w] # Resting
    BY <1>2, LogIs
  <1> HIDE DEF f, n
  <1>8. /\ DOMAIN logs' = DOMAIN logs
        /\ \A g \in DOMAIN logs : /\ logs[g] \in Seq(Piece)
                                  /\ logs'[g] = IF g = f THEN Append(logs[g], n) ELSE logs[g]
    BY <1>4, <1>5, LogGrows
  <1>9. \A g \in DOMAIN logs : \A x : Has(logs'[g], x) <=> Has(logs[g], x) \/ (g = f /\ x = n)
    BY <1>4, <1>5, LogGrows
  <1>10. \A g \in DOMAIN logs : \A x : Once(logs[g], x) => Once(logs'[g], x)
    <2>1. \A g \in DOMAIN logs : \A x :
            Once(logs[g], x) /\ (x = n => ~Has(logs[g], x)) => Once(logs'[g], x)
      BY <1>4, <1>5, LogGrows
    <2> QED
      BY <1>4, <2>1
  <1>11. WritersOK'
    <2>1. \A v \in Writer : writer'[v] # Resting =>
             writer[v] # Resting /\ writer'[v].n = writer[v].n
      BY <1>1, <1>2 DEF n
    <2>2. \A v \in Writer :
            writer'[v].pc \in {"insert", "link", "lock", "open", "line"} =>
              \A g \in DOMAIN logs' : ~Has(logs'[g], writer'[v].n)
      <3> SUFFICES ASSUME NEW v \in Writer,
                          writer'[v].pc \in {"insert", "link", "lock", "open", "line"},
                          NEW g \in DOMAIN logs
                   PROVE  ~Has(logs'[g], writer'[v].n)
        BY <1>8
      <3>1. v # w /\ writer'[v] = writer[v] /\ writer[v] # Resting
        BY <1>2, LogIs
      <3> QED
        BY <1>6, <1>9, <3>1, LogIs DEF WritersOK
    <2>3. \A v \in Writer : writer'[v].pc \in {"line", "newline"} =>
            writer'[v].file \in DOMAIN logs'
      BY <1>2, <1>4, <1>8, LogIs DEF WritersOK
    <2>4. \A v \in Writer : writer'[v].pc = "newline" =>
            Has(logs'[writer'[v].file], writer'[v].n)
      <3> SUFFICES ASSUME NEW v \in Writer, writer'[v].pc = "newline"
                   PROVE  Has(logs'[writer'[v].file], writer'[v].n)
        OBVIOUS
      <3>1. CASE v = w
        BY <1>2, <1>4, <1>9, <3>1
      <3>2. CASE v # w
        BY <1>2, <1>9, <3>2, LogIs DEF WritersOK
      <3> QED
        BY <3>1, <3>2
    <2>6. \A v \in Writer : writer'[v] # Resting => writer'[v].n \in 1..spent'.events
      BY <1>3, <2>1, LogIs DEF WritersOK
    <2>7. \A u, v \in Writer :
            writer'[u] # Resting /\ writer'[v] # Resting /\ writer'[u].n = writer'[v].n
            => u = v
      BY <2>1, LogIs DEF WritersOK
    <2> QED
      BY <2>2, <2>3, <2>4, <2>6, <2>7 DEF WritersOK
  <1>12. LogsOK'
    <2>1. n <= spent.events /\ n # Torn
      BY <1>4, LogIs DEF Torn
    <2> QED
      BY <1>3, <1>8, <1>9, <1>10, <2>1, LogIs DEF LogsOK
  <1>13. KeptOK'
    BY <1>3, <1>8, <1>9, LogIs DEF KeptOK
  <1> QED
    BY <1>11, <1>12, <1>13 DEF LogInv

(* The line ends, and is kept if the file still has the name.               *)
LEMMA LogNewline ==
  ASSUME MemoryInv, NEW w \in Writer, WriteNewline(w)
  PROVE  LogInv'
  <1> DEFINE f == writer[w].file
             n == writer[w].n
             q == IF writer[w].kind = "message" THEN [writer[w] EXCEPT !.pc = "message"]
                  ELSE Resting
  <1>1. writer[w] \in Active /\ writer[w].pc = "newline" /\ writer[w] # Resting
    BY WriterIs DEF WriteNewline
  <1>2. q \in Active \cup {Resting} /\ (q = Resting \/ (q.pc = "message" /\ q.n = n))
    BY <1>1 DEF Active
  <1>3. writer' = [writer EXCEPT ![w] = q]
    BY DEF WriteNewline
  <1>4. /\ f \in DOMAIN logs /\ f \in Nat /\ n \in 1..spent.events /\ Has(logs[f], n)
    BY <1>1, LogIs DEF WritersOK, Active
  <1>5. logs' = [logs EXCEPT ![f] = Append(@, NewLine)] /\ UNCHANGED <<logFile, spent>>
    BY DEF WriteNewline
  <1>6. memHist'.kept = IF f = logFile THEN memHist.kept \cup {n} ELSE memHist.kept
    BY HistIs DEF WriteNewline, Recall
  <1> HIDE DEF f, n, q
  <1>7. writer'[w] = q /\ \A v \in Writer : v # w => writer'[v] = writer[v]
    BY <1>2, <1>3, WriterSteps
  <1>0. NewLine \in Piece
    BY DEF Piece, NewLine
  <1>8. DOMAIN logs' = DOMAIN logs
    BY <1>0, <1>4, <1>5, LogGrows
  <1>9. \A g \in DOMAIN logs : \A x : x # NewLine => (Has(logs'[g], x) <=> Has(logs[g], x))
    BY <1>0, <1>4, <1>5, LogGrows
  <1>10. \A g \in DOMAIN logs : \A x : x # NewLine /\ Once(logs[g], x) => Once(logs'[g], x)
    BY <1>0, <1>4, <1>5, LogGrows
  <1>11. \A v \in Writer : writer[v] # Resting => writer[v].n # NewLine
    BY LogIs DEF WritersOK, NewLine
  <1>12. \A v \in Writer : writer'[v] # Resting =>
           writer[v] # Resting /\ writer'[v].n = writer[v].n
    BY <1>1, <1>2, <1>7 DEF n
  <1>13. WritersOK'
    <2>1. \A v \in Writer :
            writer'[v].pc \in {"insert", "link", "lock", "open", "line", "newline"} =>
              v # w /\ writer'[v] = writer[v] /\ writer[v] # Resting /\ writer[v].n # NewLine
      BY <1>2, <1>7, <1>11, LogIs
    <2>2. \A v \in Writer :
            writer'[v].pc \in {"insert", "link", "lock", "open", "line"} =>
              \A g \in DOMAIN logs' : ~Has(logs'[g], writer'[v].n)
      <3> SUFFICES ASSUME NEW v \in Writer,
                          writer'[v].pc \in {"insert", "link", "lock", "open", "line"},
                          NEW g \in DOMAIN logs
                   PROVE  ~Has(logs'[g], writer'[v].n)
        BY <1>8
      <3>1. writer'[v] = writer[v] /\ writer[v].n # NewLine
        BY <2>1
      <3>2. ~Has(logs[g], writer[v].n)
        BY <3>1, LogIs DEF WritersOK
      <3> QED
        BY <1>9, <3>1, <3>2
    <2>3. \A v \in Writer : writer'[v].pc \in {"line", "newline"} =>
            writer'[v].file \in DOMAIN logs'
      BY <1>8, <2>1, LogIs DEF WritersOK
    <2>4. \A v \in Writer : writer'[v].pc = "newline" =>
            Has(logs'[writer'[v].file], writer'[v].n)
      BY <1>8, <1>9, <2>1, LogIs DEF WritersOK
    <2>6. \A v \in Writer : writer'[v] # Resting => writer'[v].n \in 1..spent'.events
      BY <1>5, <1>12, LogIs DEF WritersOK
    <2>7. \A u, v \in Writer :
            writer'[u] # Resting /\ writer'[v] # Resting /\ writer'[u].n = writer'[v].n
            => u = v
      BY <1>12, LogIs DEF WritersOK
    <2> QED
      BY <2>2, <2>3, <2>4, <2>6, <2>7 DEF WritersOK
  <1>14. LogsOK'
    <2> SUFFICES ASSUME NEW g \in DOMAIN logs
                 PROVE  /\ \A m \in Nat : Has(logs'[g], m) => m <= spent.events
                        /\ \A m \in Nat : m # NewLine => Once(logs'[g], m)
                        /\ spent.crashes = 0 => ~Has(logs'[g], Torn)
      BY <1>5, <1>8 DEF LogsOK
    <2>1. ASSUME NEW m \in Nat, Has(logs'[g], m) PROVE m <= spent.events
      <3>1. CASE m = NewLine
        BY <3>1, LogIs DEF NewLine
      <3>2. CASE m # NewLine
        BY <1>9, <2>1, <3>2, LogIs DEF LogsOK
      <3> QED
        BY <3>1, <3>2
    <2>2. Torn # NewLine
      BY DEF Torn, NewLine
    <2> QED
      BY <1>9, <1>10, <2>1, <2>2, LogIs DEF LogsOK
  <1>15. KeptOK'
    <2>1. n # NewLine /\ logFile # NoFile => logFile \in DOMAIN logs
      BY LogIs DEF KeptOK
    <2>2. n # NewLine
      BY <1>4, LogIs DEF NewLine
    <2>3. f # NoFile
      BY <1>4, LogIs DEF NoFile
    <2> QED
      BY <1>4, <1>5, <1>6, <1>8, <1>9, <2>1, <2>2, <2>3, LogIs DEF KeptOK
  <1> QED
    BY <1>13, <1>14, <1>15 DEF LogInv

(* A writer ends.                                                           *)
LEMMA LogEnds ==
  ASSUME MemoryInv, NEW w \in Writer, RecordMessage(w)
  PROVE  LogInv'
  <1>1. /\ writer'[w] = Resting /\ \A v \in Writer : v # w => writer'[v] = writer[v]
    BY WriterSteps DEF RecordMessage
  <1>2. UNCHANGED <<logs, logFile, spent, memHist>>
    BY DEF RecordMessage, logVars
  <1>3. WritersOK'
    BY <1>1, <1>2, LogIs DEF WritersOK
  <1> QED
    BY <1>2, <1>3, LogIs DEF LogInv, LogsOK, KeptOK

(* The log is deleted, and with it what was kept.                           *)
LEMMA LogDeleted == ASSUME MemoryInv, DeleteLog PROVE LogInv'
  <1>1. memHist'.kept = {} /\ logFile' = NoFile /\ UNCHANGED <<logs, writer, spent>>
    BY HistIs DEF DeleteLog, Recall
  <1> QED
    BY <1>1, LogIs DEF LogInv, WritersOK, LogsOK, KeptOK

(* A crash ends all writers, and may leave a torn line.                     *)
LEMMA LogCrash == ASSUME MemoryInv, MemoryCrash PROVE LogInv'
  <1>1. /\ DOMAIN logs' = DOMAIN logs
        /\ \A g \in DOMAIN logs :
              /\ logs[g] \in Seq(Piece)
              /\ logs'[g] = logs[g] \/ logs'[g] = Append(logs[g], Torn)
    BY CrashedLogs
  <1>2. /\ memHist'.kept = memHist.kept /\ logFile' = logFile
        /\ spent'.events = spent.events /\ spent'.crashes = spent.crashes + 1
    BY HistIs DEF MemoryCrash, Trouble, Spend, Recall
  <1>3. \A w \in Writer : writer'[w] = Resting
    BY DEF MemoryCrash
  <1>4. Torn \in Piece /\ Torn \notin Nat
    BY DEF Piece, Torn
  <1>5. \A g \in DOMAIN logs : \A x \in Nat :
           (Has(logs'[g], x) <=> Has(logs[g], x)) /\ (Once(logs[g], x) => Once(logs'[g], x))
    <2> SUFFICES ASSUME NEW g \in DOMAIN logs, NEW x \in Nat
                 PROVE  /\ Has(logs'[g], x) <=> Has(logs[g], x)
                        /\ Once(logs[g], x) => Once(logs'[g], x)
      OBVIOUS
    <2> DEFINE s == logs[g]
    <2>1. s \in Seq(Piece) /\ (logs'[g] = s \/ logs'[g] = Append(s, Torn)) /\ x # Torn
      BY <1>1, <1>4
    <2> HIDE DEF s
    <2>2. /\ Has(Append(s, Torn), x) <=> Has(s, x)
          /\ Once(s, x) => Once(Append(s, Torn), x)
      BY <1>4, <2>1, HasMore
    <2> QED
      BY <2>1, <2>2 DEF s
  <1>6. WritersOK'
    BY <1>3, LogIs DEF WritersOK
  <1>7. spent'.crashes # 0
    BY <1>2, LogIs
  <1>8. LogsOK'
    BY <1>1, <1>2, <1>5, <1>7, LogIs DEF LogsOK
  <1>9. KeptOK'
    BY <1>1, <1>2, <1>5, LogIs DEF KeptOK
  <1> QED
    BY <1>6, <1>8, <1>9 DEF LogInv

(* Every step keeps what is known of the log.                               *)
LEMMA LogStep == MemoryInv /\ [SessionMemoryNext]_memoryVars => LogInv'
  <1> SUFFICES ASSUME MemoryInv, [SessionMemoryNext]_memoryVars PROVE LogInv'
    OBVIOUS
  <1>0. /\ memHist \in Recall
        /\ spent \in [events : Nat, small : Nat, deletes : Nat, crashes : Nat]
        /\ spent.crashes \in Nat /\ spent.crashes >= spent.crashes
    BY HistIs
  <1>1. ASSUME NEW w \in Writer, NEW kind \in {"message", "note"}, WriterStarts(w, kind)
        PROVE  LogInv'
    BY <1>1, LogStart
  <1>2. ASSUME NEW w \in Writer, InsertItem(w) \/ LinkItem(w)
        PROVE  LogInv'
    <2>1. PICK p \in {"link", "lock"} : writer' = [writer EXCEPT ![w].pc = p]
      BY <1>2 DEF InsertItem, LinkItem, Moves
    <2> DEFINE q == [writer[w] EXCEPT !.pc = p]
    <2>2. writer[w].pc \in {"insert", "link"} /\ writer[w] \in Active
      BY <1>2, WriterIs DEF InsertItem, LinkItem
    <2>3. q \in Active /\ q.pc \in {"link", "lock", "open"} /\ q.n = writer[w].n
      BY <2>2 DEF Active
    <2>4. writer' = [writer EXCEPT ![w] = q]
      BY <2>1
    <2>5. memHist'.kept = memHist.kept /\ UNCHANGED <<logs, logFile, spent>>
      BY <1>0, <1>2 DEF InsertItem, LinkItem, Recall, logVars
    <2> HIDE DEF q
    <2> QED
      BY <2>2, <2>3, <2>4, <2>5, LogNears
  <1>3. ASSUME NEW w \in Writer, TakeLockEntry(w)
        PROVE  LogInv'
    <2> DEFINE l == IF lockNow = NoLock THEN Len(lockHolder) + 1 ELSE lockNow
               q == [writer[w] EXCEPT !.pc = "open", !.lock = l]
    <2>1. l \in Nat
      BY DEF MemoryInv, MemoryTypes
    <2>2. writer[w].pc \in {"insert", "link", "lock"} /\ writer[w] \in Active
      BY <1>3, WriterIs DEF TakeLockEntry
    <2>3. q \in Active /\ q.pc \in {"link", "lock", "open"} /\ q.n = writer[w].n
      BY <2>1, <2>2 DEF Active
    <2>4. writer' = [writer EXCEPT ![w] = q]
      BY <1>3 DEF TakeLockEntry
    <2>5. UNCHANGED <<logs, logFile, spent, memHist>>
      BY <1>3 DEF TakeLockEntry
    <2> HIDE DEF q
    <2> QED
      BY <2>2, <2>3, <2>4, <2>5, LogNears
  <1>4. ASSUME NEW w \in Writer,
               OpenLog(w) \/ WriteLine(w) \/ WriteNewline(w) \/ RecordMessage(w)
        PROVE  LogInv'
    BY <1>4, LogOpen, LogLine, LogNewline, LogEnds
  <1>5. ASSUME NEW n, NEW ok \in BOOLEAN,
               EmbeddingArrives(n, ok) \/ UpdateItem(n) \/ DeleteItem(n)
        PROVE  LogInv'
    <2>1. spent'.events = spent.events /\ spent'.crashes = spent.crashes
      BY <1>0, <1>5 DEF EmbeddingArrives, UpdateItem, DeleteItem, Request, Spend
    <2> QED
      BY <1>0, <1>5, <2>1, LogRests DEF EmbeddingArrives, UpdateItem, DeleteItem, logVars
  <1>6. CASE RememberShort
    <2>1. /\ spent'.events = spent.events /\ spent'.crashes = spent.crashes
          /\ memHist'.kept = memHist.kept
      BY <1>0, <1>6 DEF RememberShort, Request, Spend, Recall
    <2> QED
      BY <1>0, <1>6, <2>1, LogRests DEF RememberShort, logVars
  <1>7. ASSUME \/ \E i \in bucket.items : ShortExpires(i)
               \/ Retrieve \/ SweepLooks \/ DeleteBucket \/ UNCHANGED memoryVars
        PROVE  LogInv'
    <2>1. UNCHANGED <<logVars, writer, spent, memHist>>
      BY <1>7 DEF ShortExpires, Retrieve, SweepLooks, DeleteBucket, memoryVars
    <2> QED
      BY <1>0, <2>1, LogRests DEF logVars
  <1>8. CASE SweepRemoves
    <2>1. memHist'.kept = memHist.kept
      BY <1>0, <1>8 DEF SweepRemoves, Recall
    <2> QED
      BY <1>0, <1>8, <2>1, LogRests DEF SweepRemoves, logVars
  <1>9. CASE DeleteRows
    <2>1. /\ spent'.events = spent.events /\ spent'.crashes = spent.crashes
          /\ memHist'.kept = memHist.kept
      BY <1>0, <1>9 DEF DeleteRows, Trouble, Spend, Recall
    <2> QED
      BY <1>0, <1>9, <2>1, LogRests DEF DeleteRows, logVars
  <1>10. CASE DeleteLock
    BY <1>0, <1>10, LogRests DEF DeleteLock
  <1> QED
    BY <1>1, <1>2, <1>3, <1>4, <1>5, <1>6, <1>7, <1>8, <1>9, <1>10, LogDeleted, LogCrash
       DEF SessionMemoryNext

(* Every step keeps the invariant.                                          *)
LEMMA MemoryStep == MemoryInv /\ [SessionMemoryNext]_memoryVars => MemoryInv'
  BY TypesStep, LinksStep, SweptStep, ErasedStep, LogStep DEF MemoryInv, LogInv

(* A session deleted while nothing of it is being written leaves no row,    *)
(* item, bucket or log, and no link but of items deleted before             *)
(* (memory/mod.rs, delete_session).                                         *)
THEOREM DeletionCompleteHolds == SessionMemorySpec => []DeletionComplete
  <1>1. MemoryInv => DeletionComplete
    BY DEF MemoryInv, ErasedQuietly, DeletionComplete
  <1> QED
    BY <1>1, MemoryStarts, MemoryStep, PTL DEF SessionMemorySpec

(* What replay gives back: everything in the log but its line ends, each    *)
(* thing that is in the log once.                                           *)
LEMMA ReplayIs ==
  ASSUME MemoryInv
  PROVE  /\ LogText \in Seq(Piece)
         /\ \A y : Has(Replayed, y) <=> Has(LogText, y) /\ y # NewLine
         /\ \A y : Once(LogText, y) => Once(Replayed, y)
  <1>1. LogText \in Seq(Piece)
    <2>1. CASE logFile = NoFile
      BY <2>1 DEF LogText
    <2>2. CASE logFile # NoFile
      <3>1. logFile \in DOMAIN logs
        BY <2>2, LogIs DEF KeptOK
      <3>2. logs[logFile] \in Seq(Piece)
        BY <3>1, LogIs
      <3> QED
        BY <2>2, <3>2 DEF LogText
    <2> QED
      BY <2>1, <2>2
  <1>2. Replayed = Omitted(LogText, NewLine)
    BY DEF Replayed, Omitted
  <1> QED
    BY <1>1, <1>2, OmittedKeeps

(* Nothing logged is lost or replayed twice, only a crash spoils a log, an  *)
(* item nobody edited is found by its text, and the sweep takes nothing     *)
(* live but what came late (session_log.rs:26-94, memory/mod.rs:257).       *)
THEOREM NothingLostHolds == SessionMemorySpec => []NothingLost
  <1>1. MemoryInv => NothingLost
    <2> SUFFICES ASSUME MemoryInv PROVE NothingLost
      OBVIOUS
    <2>0. logFile # NoFile => logFile \in DOMAIN logs /\ LogText = logs[logFile]
      BY LogIs DEF KeptOK, LogText
    <2>1. \A y : y \in ToSet(LogText) <=> Has(LogText, y)
      BY DEF ToSet, Has
    <2>2. \A y : y \in ToSet(Replayed) <=> Has(Replayed, y)
      BY DEF ToSet, Has
    <2>3. \A y : Has(LogText, y) => logFile # NoFile
      BY DEF LogText, Has
    <2>4. ReplayFails => spent.crashes > 0
      <3> SUFFICES ASSUME ReplayFails PROVE spent.crashes > 0
        OBVIOUS
      <3>1. Has(LogText, Torn)
        BY <2>1 DEF ReplayFails
      <3>2. spent.crashes # 0
        BY <2>0, <2>3, <3>1, LogIs DEF LogsOK
      <3> QED
        BY <3>2, LogIs
    <2>5. memHist.kept \subseteq ToSet(Replayed)
      <3>1. ASSUME NEW n \in memHist.kept PROVE n \in ToSet(Replayed)
        <4>1. n # NewLine /\ logFile # NoFile /\ Has(logs[logFile], n)
          BY LogIs DEF KeptOK
        <4> QED
          BY <2>0, <2>2, <4>1, ReplayIs
      <3> QED
        BY <3>1
    <2>6. ASSUME ~ReplayFails PROVE IsInjective(Replayed)
      <3>1. \A y : Has(LogText, y) => y \in Piece /\ y # Torn
        BY <2>1, <2>6, ReplayIs DEF Has, ReplayFails
      <3>2. \A y : Has(Replayed, y) => y \in Nat /\ y # NewLine /\ Has(LogText, y)
        BY <3>1, ReplayIs DEF Piece
      <3>3. \A y : Has(Replayed, y) => Once(LogText, y)
        BY <2>0, <2>3, <3>2, LogIs DEF LogsOK
      <3>4. \A y : Has(Replayed, y) => Once(Replayed, y)
        BY <3>3, ReplayIs
      <3> QED
        BY <3>4 DEF Has, Once, IsInjective
    <2>7. \A m \in memItems : m.text = 1 => FoundBy(m, 1)
      BY HistIs DEF MemoryItem, FoundBy
    <2>8. memHist.swept \subseteq memHist.late
      BY DEF MemoryInv, SweptLate
    <2> QED
      BY <2>4, <2>5, <2>6, <2>7, <2>8 DEF NothingLost
  <1> QED
    BY <1>1, MemoryStarts, MemoryStep, PTL DEF SessionMemorySpec

-----------------------------------------------------------------------------
(* Workspaces: rows and bytes                                              *)

(* The requests there are: one that creates a workspace, deletes one,      *)
(* uploads a file or deletes one; the last three know their workspace.     *)
Creation == [pc : {"slug", "insert"}, id : Nat, slug : Nat \ {0}, managed : BOOLEAN]
Deletion == [pc : {"drop", "purge"}, id : Nat, root : Directory]
Upload == [pc : {"write", "record"}, id : Nat, root : Directory, path : WsPath, content : Nat]
Removal == [pc : {"unlink"}, id : Nat, root : Directory, path : WsPath]
Known == Deletion \cup Upload \cup Removal
IsCreation(q) == q.pc \in {"slug", "insert"}
IsKnown(q) == q.pc \in {"drop", "purge", "write", "record", "unlink"}

(* The types, as far as the proof needs them.                              *)
WsTypes ==
  /\ wsRows \subseteq [id : Nat, slug : Nat \ {0}, root : Directory]
  /\ wsDisk \in [Directory -> [WsPath -> Nat]]
  /\ wsFiles \subseteq [ws : Nat, path : WsPath, content : Nat]
  /\ wsReq \in [WsRequest -> {WsIdle} \cup Creation \cup Known]
  /\ wsMade \in 0..MaxWorkspaces /\ wsUploads \in Nat /\ wsFailed \subseteq Nat

(* The numbers of workspaces given out and not used yet, and the others.   *)
Creating == {wsReq[r].id : r \in {s \in WsRequest : IsCreation(wsReq[s])}}
Done == (1..wsMade) \ Creating

(* Numbers are given out once. A creation is never further than one slug   *)
(* past the creations that are done, so a slug is never beyond what names  *)
(* a directory; rows and requests that know a workspace have numbers that  *)
(* are done, which no creation brings back.                                *)
Numbered ==
  /\ \A r \in WsRequest : IsCreation(wsReq[r]) =>
       wsReq[r].id \in 1..wsMade /\ wsReq[r].slug <= Cardinality(Done) + 1
  /\ \A r, s \in WsRequest :
       IsCreation(wsReq[r]) /\ IsCreation(wsReq[s]) /\ wsReq[r].id = wsReq[s].id => r = s
  /\ \A w \in wsRows : w.id \in Done /\ w.slug <= Cardinality(Done)
  /\ \A r \in WsRequest : IsKnown(wsReq[r]) => wsReq[r].id \in Done

(* A number and a slug each identify a row, and a row has the directory of *)
(* its slug or one given by the user.                                      *)
RowsApart ==
  /\ \A w \in wsRows : w.root \in {w.slug, Elsewhere}
  /\ \A v, w \in wsRows : v.id = w.id \/ v.slug = w.slug => v = w

(* A place counts as raced when two requests have it in hand, when two     *)
(* workspaces have its directory, and when a request has it in hand that   *)
(* came for another workspace than the one whose directory it is now.      *)
RacesNoted ==
  /\ \A r, s \in WsRequest : r # s => Reach(wsReq[r]) \cap Reach(wsReq[s]) \subseteq wsRaced
  /\ \A v, w \in wsRows : v # w /\ v.root = w.root => {w.root} \X WsPath \subseteq wsRaced
  /\ \A r \in WsRequest, w \in wsRows :
       IsKnown(wsReq[r]) /\ w.root = wsReq[r].root /\ w.id # wsReq[r].id
       => Reach(wsReq[r]) \subseteq wsRaced

(* A request that knows a workspace that still has its row has the         *)
(* directory of that row, and is not the purge that follows the deletion.  *)
RootsTrue ==
  \A r \in WsRequest, w \in wsRows : IsKnown(wsReq[r]) /\ w.id = wsReq[r].id =>
     wsReq[r].root = w.root /\ wsReq[r].pc # "purge"

(* Between its two steps: an upload has its bytes on disk, and a deletion  *)
(* has no row any more, unless the place is raced.                         *)
InHandTrue ==
  \A r \in WsRequest :
    LET q == wsReq[r] IN
    /\ q.pc = "record" /\ <<q.root, q.path>> \notin wsRaced =>
         wsDisk[q.root][q.path] = q.content
    /\ q.pc = "unlink" /\ FileRow(q.id, q.path) # {} => <<q.root, q.path>> \in wsRaced

(* What an upload has written and not recorded.                            *)
Unrecorded(q) == IF q.pc = "record" THEN {<<q.root, q.path>>} ELSE {}

(* What FilesMatchRows says of a file, of the row of its workspace.        *)
FilesTrue ==
  \A f \in wsFiles : \E w \in wsRows :
    /\ w.id = f.ws
    /\ \/ <<w.root, f.path>> \in wsRaced
       \/ \E r \in WsRequest : <<w.root, f.path>> \in Unrecorded(wsReq[r])
       \/ wsDisk[w.root][f.path] \in {f.content} \cup wsFailed

(* The invariant.                                                          *)
WsInv == WsTypes /\ Numbered /\ RowsApart /\ RacesNoted /\ RootsTrue /\ InHandTrue /\ FilesTrue

(* What a request has in hand, by its step.                                *)
LEMMA ReachIs ==
  ASSUME NEW q
  PROVE  /\ q.pc \in {"write", "record", "unlink"} => Reach(q) = {<<q.root, q.path>>}
         /\ q.pc \in {"drop", "purge"} => Reach(q) = {q.root} \X WsPath
         /\ ~IsKnown(q) => Reach(q) = {}
  <1>1. CASE q.pc \in {"write", "record", "unlink"}
    BY <1>1 DEF Reach, IsKnown
  <1>2. CASE q.pc \in {"drop", "purge"}
    BY <1>2 DEF Reach, IsKnown
  <1>3. CASE ~IsKnown(q)
    BY <1>3 DEF Reach, IsKnown
  <1> QED
    BY <1>1, <1>2, <1>3 DEF IsKnown

(* The two sorts of requests, and a request that rests is neither.         *)
LEMMA Kinds ==
  /\ \A q \in Creation : IsCreation(q) /\ ~IsKnown(q)
  /\ \A q \in Known : IsKnown(q) /\ ~IsCreation(q)
  /\ ~IsCreation(WsIdle) /\ ~IsKnown(WsIdle)
  BY DEF Creation, Known, Deletion, Upload, Removal, IsCreation, IsKnown, WsIdle

(* The invariant holds at the start.                                       *)
LEMMA WsStarts == WorkspacesInit => WsInv
  <1> SUFFICES ASSUME WorkspacesInit PROVE WsInv
    OBVIOUS
  <1>1. \A r \in WsRequest : wsReq[r] = WsIdle
    BY DEF WorkspacesInit
  <1>2. \A r \in WsRequest : ~IsCreation(wsReq[r]) /\ ~IsKnown(wsReq[r])
                          /\ Reach(wsReq[r]) = {}
    BY <1>1, Kinds, ReachIs
  <1>3. WsTypes
    BY WorkspacesAssumption DEF WorkspacesInit, WsTypes, Directory, Missing
  <1>4. wsRows = {} /\ wsFiles = {}
    BY DEF WorkspacesInit
  <1>5. Numbered /\ RowsApart /\ RacesNoted /\ RootsTrue /\ FilesTrue
    BY <1>2, <1>4 DEF Numbered, RowsApart, RacesNoted, RootsTrue, FilesTrue
  <1>6. InHandTrue
    BY <1>2 DEF InHandTrue, IsKnown
  <1> QED
    BY <1>3, <1>5, <1>6 DEF WsInv

(* One request moves and the others stay.                                  *)
LEMMA Turn ==
  ASSUME WsInv, NEW r \in WsRequest, NEW q \in {WsIdle} \cup Creation \cup Known,
         wsReq' = [wsReq EXCEPT ![r] = q]
  PROVE  /\ wsReq' \in [WsRequest -> {WsIdle} \cup Creation \cup Known]
         /\ wsReq'[r] = q
         /\ \A s \in WsRequest : s # r => wsReq'[s] = wsReq[s]
  BY DEF WsInv, WsTypes

(* What a request carries, by its step.                                    *)
LEMMA ReqIs ==
  ASSUME WsInv, NEW r \in WsRequest
  PROVE  /\ wsReq[r] \in {WsIdle} \cup Creation \cup Known
         /\ IsCreation(wsReq[r]) => wsReq[r] \in Creation
         /\ IsKnown(wsReq[r]) => wsReq[r] \in Known
         /\ wsReq[r].pc \in {"drop", "purge"} => wsReq[r] \in Deletion
         /\ wsReq[r].pc \in {"write", "record"} => wsReq[r] \in Upload
         /\ wsReq[r].pc = "unlink" => wsReq[r] \in Removal
  <1>1. wsReq[r] \in {WsIdle} \cup Creation \cup Known
    BY DEF WsInv, WsTypes
  <1>2. /\ IsCreation(wsReq[r]) => wsReq[r] \in Creation
        /\ IsKnown(wsReq[r]) => wsReq[r] \in Known
    BY <1>1, Kinds
  <1>3. /\ wsReq[r].pc \in {"drop", "purge"} => wsReq[r] \in Deletion
        /\ wsReq[r].pc \in {"write", "record"} => wsReq[r] \in Upload
        /\ wsReq[r].pc = "unlink" => wsReq[r] \in Removal
    BY <1>2 DEF IsKnown, Known, Deletion, Upload, Removal
  <1> QED
    BY <1>1, <1>2, <1>3

(* Two requests that have a place in hand together are still noted when    *)
(* one goes on.                                                            *)
LEMMA Noted ==
  ASSUME WsInv, NEW r \in WsRequest, NEW q \in {WsIdle} \cup Creation \cup Known,
         wsReq' = [wsReq EXCEPT ![r] = q], wsRaced \subseteq wsRaced',
         Reach(q) \cap InHand(r) \subseteq wsRaced'
  PROVE  \A s, t \in WsRequest : s # t =>
            Reach(wsReq'[s]) \cap Reach(wsReq'[t]) \subseteq wsRaced'
  <1>1. wsReq'[r] = q /\ \A s \in WsRequest : s # r => wsReq'[s] = wsReq[s]
    BY Turn
  <1>2. \A s \in WsRequest : s # r => Reach(wsReq[s]) \subseteq InHand(r)
    BY DEF InHand
  <1>3. \A s \in WsRequest : s # r => Reach(q) \cap Reach(wsReq[s]) \subseteq wsRaced'
    BY <1>2
  <1>4. \A s, t \in WsRequest : s # t => Reach(wsReq[s]) \cap Reach(wsReq[t]) \subseteq wsRaced
    BY DEF WsInv, RacesNoted
  <1> QED
    BY <1>1, <1>3, <1>4

(* What is done: finitely many.                                            *)
LEMMA DoneIs ==
  ASSUME WsInv
  PROVE  /\ IsFiniteSet(Done) /\ Cardinality(Done) \in Nat /\ Cardinality(Done) <= wsMade
         /\ \A k \in 1..wsMade : k \notin Done => Cardinality(Done) + 1 <= wsMade
         /\ wsMade \in 0..MaxWorkspaces /\ wsMade \in Nat
  <1>1. wsMade \in Nat /\ wsMade \in 0..MaxWorkspaces
    BY WorkspacesAssumption DEF WsInv, WsTypes
  <1>2. IsFiniteSet(1..wsMade) /\ Cardinality(1..wsMade) = wsMade
    BY <1>1, FS_Interval
  <1>3. Done \subseteq 1..wsMade
    BY DEF Done
  <1>4. IsFiniteSet(Done) /\ Cardinality(Done) <= wsMade
    BY <1>2, <1>3, FS_Subset
  <1>5. Cardinality(Done) \in Nat
    BY <1>4, FS_CardinalityType
  <1>6. ASSUME NEW k \in 1..wsMade, k \notin Done
        PROVE  Cardinality(Done) + 1 <= wsMade
    <2>1. IsFiniteSet(Done \cup {k}) /\ Cardinality(Done \cup {k}) = Cardinality(Done) + 1
      BY <1>4, <1>6, FS_AddElement
    <2>2. Done \cup {k} \subseteq 1..wsMade
      BY <1>3
    <2>3. Cardinality(Done \cup {k}) <= wsMade
      BY <1>2, <2>2, FS_Subset
    <2> QED
      BY <2>1, <2>3
  <1> QED
    BY <1>1, <1>4, <1>5, <1>6

(* The numbering survives a request that goes on, one that finishes its    *)
(* creation with a row or without included.                                *)
LEMMA NumberedKept ==
  ASSUME WsInv, NEW r \in WsRequest, NEW q \in {WsIdle} \cup Creation \cup Known,
         wsReq' = [wsReq EXCEPT ![r] = q], wsMade' = wsMade,
         IsCreation(q) => /\ IsCreation(wsReq[r]) /\ q.id = wsReq[r].id
                          /\ q.slug <= Cardinality(Done) + 1,
         IsKnown(q) => q.id \in Done,
         \A w \in wsRows' :
           \/ w \in wsRows
           \/ /\ IsCreation(wsReq[r]) /\ ~IsCreation(q)
              /\ w.id = wsReq[r].id /\ w.slug = wsReq[r].slug
  PROVE  Numbered'
  <1>1. wsReq'[r] = q /\ \A s \in WsRequest : s # r => wsReq'[s] = wsReq[s]
    BY Turn
  <1>2. Numbered
    BY DEF WsInv
  <1>3. \A k : k \in Creating <=> \E s \in WsRequest : IsCreation(wsReq[s]) /\ wsReq[s].id = k
    BY DEF Creating
  <1>4. \A k : k \in Creating' <=>
          \E s \in WsRequest : IsCreation(wsReq'[s]) /\ wsReq'[s].id = k
    BY DEF Creating, IsCreation
  <1>5. CASE IsCreation(q) \/ ~IsCreation(wsReq[r])
    <2>1. \A s \in WsRequest : IsCreation(wsReq'[s]) <=> IsCreation(wsReq[s])
      BY <1>1, <1>5
    <2>2. \A s \in WsRequest : IsCreation(wsReq[s]) => wsReq'[s].id = wsReq[s].id
      BY <1>1, <1>5
    <2>3. \A k : k \in Creating' <=> k \in Creating
      BY <1>3, <1>4, <2>1, <2>2
    <2>4. Done' = Done
      BY <2>3 DEF Done
    <2>5. \A w \in wsRows' : w \in wsRows
      BY <1>5
    <2>6. \A s \in WsRequest : IsCreation(wsReq'[s]) => wsReq'[s].slug <= Cardinality(Done) + 1
      BY <1>1, <1>2 DEF Numbered
    <2>7. \A s \in WsRequest : IsKnown(wsReq'[s]) => wsReq'[s].id \in Done
      BY <1>1, <1>2 DEF Numbered
    <2> QED
      BY <1>2, <2>1, <2>2, <2>4, <2>5, <2>6, <2>7 DEF Numbered, IsCreation, IsKnown
  <1>6. CASE ~IsCreation(q) /\ IsCreation(wsReq[r])
    <2> DEFINE k == wsReq[r].id
    <2>0. k \in 1..wsMade /\ k \in Creating /\ k \notin Done
      BY <1>2, <1>3, <1>6 DEF Numbered, Done
    <2>1. \A s \in WsRequest : s # r /\ IsCreation(wsReq[s]) => wsReq[s].id # k
      BY <1>2, <1>6 DEF Numbered
    <2>2. \A s \in WsRequest : IsCreation(wsReq'[s]) => s # r /\ wsReq'[s] = wsReq[s]
      BY <1>1, <1>6
    <2>3. \A i : i \in Creating' <=> i \in Creating /\ i # k
      BY <1>1, <1>3, <1>4, <2>1, <2>2
    <2>4. Done' = Done \cup {k}
      BY <2>0, <2>3 DEF Done
    <2> HIDE DEF k
    <2>5. Cardinality(Done') = Cardinality(Done) + 1
      BY <2>0, <2>4, DoneIs, FS_AddElement
    <2>6. Cardinality(Done) \in Nat
      BY DoneIs
    <2>7. \A s \in WsRequest : IsCreation(wsReq'[s]) =>
            /\ wsReq'[s].id \in 1..wsMade
            /\ wsReq'[s].slug <= Cardinality(Done')+ 1
      <3> SUFFICES ASSUME NEW s \in WsRequest, IsCreation(wsReq'[s])
                   PROVE  /\ wsReq'[s].id \in 1..wsMade
                          /\ wsReq'[s].slug <= Cardinality(Done') + 1
        OBVIOUS
      <3>1. wsReq'[s] = wsReq[s] /\ IsCreation(wsReq[s])
        BY <2>2
      <3>2. wsReq[s].slug \in Nat
        BY <3>1, ReqIs DEF Creation
      <3>3. wsReq[s].slug <= Cardinality(Done) + 1 /\ wsReq[s].id \in 1..wsMade
        BY <1>2, <3>1 DEF Numbered
      <3> QED
        BY <2>5, <2>6, <3>1, <3>2, <3>3
    <2>8. \A s, t \in WsRequest :
            IsCreation(wsReq'[s]) /\ IsCreation(wsReq'[t])
            /\ wsReq'[s].id = wsReq'[t].id => s = t
      BY <1>2, <2>2 DEF Numbered
    <2>9. \A w \in wsRows' : w.id \in Done' /\ w.slug <= Cardinality(Done')
      <3> SUFFICES ASSUME NEW w \in wsRows'
                   PROVE  w.id \in Done' /\ w.slug <= Cardinality(Done')
        OBVIOUS
      <3>1. CASE w \in wsRows
        <4>1. w.id \in Done /\ w.slug <= Cardinality(Done) /\ w.slug \in Nat
          BY <1>2, <3>1 DEF Numbered, WsInv, WsTypes
        <4> QED
          BY <2>4, <2>5, <2>6, <4>1
      <3>2. CASE w.id = k /\ w.slug = wsReq[r].slug
        BY <1>2, <1>6, <2>4, <2>5, <3>2 DEF Numbered
      <3> QED
        BY <3>1, <3>2 DEF k
    <2>10. \A s \in WsRequest : IsKnown(wsReq'[s]) => wsReq'[s].id \in Done'
      BY <1>1, <1>2, <2>4 DEF Numbered
    <2> QED
      BY <2>7, <2>8, <2>9, <2>10 DEF Numbered, IsCreation, IsKnown
  <1> QED
    BY <1>5, <1>6

(* A request that goes on, with rows of workspaces gone at most.           *)
HandsOn(r, q) ==
  /\ wsReq' = [wsReq EXCEPT ![r] = q] /\ wsMade' = wsMade
  /\ wsRows' \subseteq wsRows /\ wsRaced \subseteq wsRaced'
  /\ Reach(q) \cap InHand(r) \subseteq wsRaced'
  /\ IsCreation(q) => /\ IsCreation(wsReq[r]) /\ q.id = wsReq[r].id
                      /\ q.slug <= Cardinality(Done) + 1
  /\ IsKnown(q) =>
       \/ /\ IsKnown(wsReq[r]) /\ q.id = wsReq[r].id /\ q.root = wsReq[r].root
          /\ Reach(q) = Reach(wsReq[r])
          /\ q.pc # "purge"
       \/ /\ IsKnown(wsReq[r]) /\ q.id = wsReq[r].id /\ q.root = wsReq[r].root
          /\ Reach(q) = Reach(wsReq[r])
          /\ \A w \in wsRows' : w.id # q.id
       \/ \E w \in wsRows : /\ w.id = q.id /\ w.root = q.root
                            /\ Reach(q) \subseteq {w.root} \X WsPath
                            /\ q.pc # "purge"

(* What is said of numbers, rows, races and directories survives such a    *)
(* step.                                                                   *)
LEMMA HandsKept ==
  ASSUME WsInv, NEW r \in WsRequest, NEW q \in {WsIdle} \cup Creation \cup Known,
         HandsOn(r, q)
  PROVE  Numbered' /\ RowsApart' /\ RacesNoted' /\ RootsTrue'
  <1>1. wsReq'[r] = q /\ \A s \in WsRequest : s # r => wsReq'[s] = wsReq[s]
    BY Turn DEF HandsOn
  <1>2. Numbered /\ RowsApart /\ RacesNoted /\ RootsTrue
    BY DEF WsInv
  <1>3. wsRows' \subseteq wsRows /\ wsRaced \subseteq wsRaced'
    BY DEF HandsOn
  <1>4. Numbered'
    <2>1. IsKnown(q) => q.id \in Done
      BY <1>2 DEF HandsOn, Numbered
    <2>2. /\ wsReq' = [wsReq EXCEPT ![r] = q] /\ wsMade' = wsMade
          /\ IsCreation(q) => /\ IsCreation(wsReq[r]) /\ q.id = wsReq[r].id
                              /\ q.slug <= Cardinality(Done) + 1
      BY DEF HandsOn
    <2>3. \A w \in wsRows' : w \in wsRows
      BY <1>3
    <2> QED
      BY <2>1, <2>2, <2>3, NumberedKept
  <1>5. RowsApart'
    BY <1>2, <1>3 DEF RowsApart
  <1>6. \A s, t \in WsRequest : s # t =>
            Reach(wsReq'[s]) \cap Reach(wsReq'[t]) \subseteq wsRaced'
    BY Noted DEF HandsOn
  <1>7. \A w \in wsRows' : IsKnown(q) /\ w.root = q.root /\ w.id # q.id
                           => Reach(q) \subseteq wsRaced'
    <2> SUFFICES ASSUME NEW w \in wsRows, IsKnown(q), w.root = q.root, w.id # q.id
                 PROVE  Reach(q) \subseteq wsRaced
      BY <1>3
    <2>1. CASE /\ IsKnown(wsReq[r]) /\ q.id = wsReq[r].id /\ q.root = wsReq[r].root
               /\ Reach(q) = Reach(wsReq[r])
      BY <1>2, <2>1 DEF RacesNoted
    <2>2. ASSUME NEW v \in wsRows, v.id = q.id, v.root = q.root,
                 Reach(q) \subseteq {v.root} \X WsPath
          PROVE  Reach(q) \subseteq wsRaced
      BY <1>2, <2>2 DEF RacesNoted
    <2> QED
      BY <2>1, <2>2 DEF HandsOn
  <1>8. \A w \in wsRows' : IsKnown(q) /\ w.id = q.id => q.root = w.root /\ q.pc # "purge"
    <2> SUFFICES ASSUME NEW w \in wsRows', IsKnown(q), w.id = q.id
                 PROVE  q.root = w.root /\ q.pc # "purge"
      OBVIOUS
    <2>0. w \in wsRows
      BY <1>3
    <2>1. CASE /\ IsKnown(wsReq[r]) /\ q.id = wsReq[r].id /\ q.root = wsReq[r].root
               /\ q.pc # "purge"
      BY <1>2, <2>0, <2>1 DEF RootsTrue
    <2>2. ASSUME NEW v \in wsRows, v.id = q.id, v.root = q.root, q.pc # "purge"
          PROVE  q.root = w.root /\ q.pc # "purge"
      BY <1>2, <2>0, <2>2 DEF RowsApart
    <2> QED
      BY <2>1, <2>2 DEF HandsOn
  <1>9. RacesNoted'
    <2>1. \A v, w \in wsRows' : v # w /\ v.root = w.root
              => {w.root} \X WsPath \subseteq wsRaced'
      BY <1>2, <1>3 DEF RacesNoted
    <2>2. \A s \in WsRequest, w \in wsRows' :
            IsKnown(wsReq'[s]) /\ w.root = wsReq'[s].root /\ w.id # wsReq'[s].id
            => Reach(wsReq'[s]) \subseteq wsRaced'
      <3> SUFFICES ASSUME NEW s \in WsRequest, NEW w \in wsRows', IsKnown(wsReq'[s]),
                          w.root = wsReq'[s].root, w.id # wsReq'[s].id
                   PROVE  Reach(wsReq'[s]) \subseteq wsRaced'
        OBVIOUS
      <3>1. CASE s = r
        BY <1>1, <1>7, <3>1
      <3>2. CASE s # r
        BY <1>1, <1>2, <1>3, <3>2 DEF RacesNoted
      <3> QED
        BY <3>1, <3>2
    <2> QED
      BY <1>6, <2>1, <2>2 DEF RacesNoted, Reach, IsKnown
  <1>10. RootsTrue'
    <2> SUFFICES ASSUME NEW s \in WsRequest, NEW w \in wsRows', IsKnown(wsReq'[s]),
                        w.id = wsReq'[s].id
                 PROVE  wsReq'[s].root = w.root /\ wsReq'[s].pc # "purge"
      BY DEF RootsTrue, IsKnown
    <2>1. CASE s = r
      BY <1>1, <1>8, <2>1
    <2>2. CASE s # r
      BY <1>1, <1>2, <1>3, <2>2 DEF RootsTrue
    <2> QED
      BY <2>1, <2>2
  <1> QED
    BY <1>4, <1>5, <1>9, <1>10

(* A place that a request has in hand and a file is at: raced, if the file  *)
(* is another workspace's.                                                 *)
LEMMA Theirs ==
  ASSUME WsInv, NEW r \in WsRequest, IsKnown(wsReq[r]), NEW w \in wsRows,
         w.id # wsReq[r].id, NEW p, <<w.root, p>> \in Reach(wsReq[r])
  PROVE  <<w.root, p>> \in wsRaced
  <1>1. w.root = wsReq[r].root
    BY ReachIs DEF IsKnown
  <1> QED
    BY <1>1 DEF WsInv, RacesNoted

(* What the others have in hand stays true when one goes on.               *)
LEMMA OthersKept ==
  ASSUME WsInv, NEW r \in WsRequest, NEW q \in {WsIdle} \cup Creation \cup Known,
         HandsOn(r, q),
         \A d, p : <<d, p>> \notin Reach(wsReq[r]) /\ d \in Directory /\ p \in WsPath
                    => wsDisk'[d][p] = wsDisk[d][p],
         \A f \in wsFiles' : f \in wsFiles \/ \E d : /\ RowOf(f.ws) # {}
                                                      /\ \A w \in RowOf(f.ws) : w.root = d
                                                      /\ <<d, f.path>> \in Reach(wsReq[r])
  PROVE  \A s \in WsRequest : s # r =>
           /\ wsReq'[s].pc = "record" /\ <<wsReq'[s].root, wsReq'[s].path>> \notin wsRaced' =>
                wsDisk'[wsReq'[s].root][wsReq'[s].path] = wsReq'[s].content
           /\ wsReq'[s].pc = "unlink" /\ FileRow(wsReq[s].id, wsReq[s].path)' # {} =>
                <<wsReq'[s].root, wsReq'[s].path>> \in wsRaced'
  <1>1. wsReq'[r] = q /\ \A s \in WsRequest : s # r => wsReq'[s] = wsReq[s]
    BY Turn DEF HandsOn
  <1>2. /\ \A s \in WsRequest : s # r => Reach(wsReq[r]) \cap Reach(wsReq[s]) \subseteq wsRaced
        /\ wsRaced \subseteq wsRaced'
    BY DEF WsInv, RacesNoted, HandsOn
  <1> SUFFICES ASSUME NEW s \in WsRequest, s # r
               PROVE  /\ wsReq[s].pc = "record"
                         /\ <<wsReq[s].root, wsReq[s].path>> \notin wsRaced' =>
                           wsDisk'[wsReq[s].root][wsReq[s].path] = wsReq[s].content
                      /\ wsReq[s].pc = "unlink"
                         /\ (\E f \in wsFiles' : /\ f.ws = wsReq[s].id
                                                 /\ f.path = wsReq[s].path) =>
                           <<wsReq[s].root, wsReq[s].path>> \in wsRaced'
    BY <1>1 DEF FileRow
  <1> DEFINE d == wsReq[s].root
             p == wsReq[s].path
  <1>3. wsReq[s].pc \in {"record", "unlink"} => Reach(wsReq[s]) = {<<d, p>>}
    BY ReachIs
  <1>4. wsReq[s].pc \in {"record", "unlink"} /\ <<d, p>> \notin wsRaced' =>
          <<d, p>> \notin Reach(wsReq[r])
    BY <1>2, <1>3
  <1>5. ASSUME wsReq[s].pc = "record", <<d, p>> \notin wsRaced'
        PROVE  wsDisk'[d][p] = wsReq[s].content
    <2>1. d \in Directory /\ p \in WsPath
      BY <1>5, ReqIs DEF Upload
    <2>2. wsDisk[d][p] = wsReq[s].content
      BY <1>2, <1>5 DEF WsInv, InHandTrue
    <2> QED
      BY <1>4, <1>5, <2>1, <2>2
  <1>6. ASSUME wsReq[s].pc = "unlink", NEW f \in wsFiles', f.ws = wsReq[s].id, f.path = p,
               <<d, p>> \notin wsRaced'
        PROVE  FALSE
    <2>1. CASE f \in wsFiles
      <3>1. FileRow(wsReq[s].id, p) # {}
        BY <1>6, <2>1 DEF FileRow
      <3> QED
        BY <1>2, <1>6, <3>1 DEF WsInv, InHandTrue
    <2>2. ASSUME NEW e, NEW w \in RowOf(f.ws), w.root = e, <<e, f.path>> \in Reach(wsReq[r])
          PROVE  FALSE
      <3>1. d = e
        BY <1>6, <2>2 DEF RowOf, WsInv, RootsTrue, IsKnown
      <3> QED
        BY <1>4, <1>6, <2>2, <3>1
    <2> QED
      BY <2>1, <2>2
  <1> QED
    BY <1>5, <1>6

(* A file that is as it was stays true when a request goes on.             *)
LEMMA FileKept ==
  ASSUME WsInv, NEW r \in WsRequest, NEW q \in {WsIdle} \cup Creation \cup Known,
         HandsOn(r, q),
         \A d, p : <<d, p>> \notin Reach(wsReq[r]) /\ d \in Directory /\ p \in WsPath
                    => wsDisk'[d][p] = wsDisk[d][p],
         NEW f \in wsFiles, NEW w \in wsRows', w.id = f.ws,
         wsFailed \subseteq wsFailed',
         \/ w.id # wsReq[r].id
         \/ wsDisk' = wsDisk /\ Unrecorded(wsReq[r]) = {}
         \/ Unrecorded(q) = Reach(wsReq[r])
         \/ <<w.root, f.path>> \notin Reach(wsReq[r])
  PROVE  \/ <<w.root, f.path>> \in wsRaced'
         \/ \E s \in WsRequest : <<w.root, f.path>> \in Unrecorded(wsReq'[s])
         \/ wsDisk'[w.root][f.path] \in {f.content} \cup wsFailed'
  <1>1. wsReq'[r] = q /\ \A s \in WsRequest : s # r => wsReq'[s] = wsReq[s]
    BY Turn DEF HandsOn
  <1>2. w \in wsRows /\ wsRaced \subseteq wsRaced'
    BY DEF HandsOn
  <1>3. \/ <<w.root, f.path>> \in wsRaced
        \/ \E s \in WsRequest : <<w.root, f.path>> \in Unrecorded(wsReq[s])
        \/ wsDisk[w.root][f.path] \in {f.content} \cup wsFailed
    BY <1>2 DEF WsInv, FilesTrue, RowsApart
  <1>4. w.root \in Directory /\ f.path \in WsPath
    BY <1>2 DEF WsInv, WsTypes
  <1>5. CASE <<w.root, f.path>> \in Reach(wsReq[r])
    <2>1. IsKnown(wsReq[r])
      BY <1>5, ReachIs
    <2>2. CASE w.id # wsReq[r].id
      BY <1>2, <1>5, <2>1, <2>2, Theirs
    <2>3. CASE Unrecorded(q) = Reach(wsReq[r])
      BY <1>1, <1>5, <2>3
    <2>4. CASE wsDisk' = wsDisk /\ Unrecorded(wsReq[r]) = {}
      BY <1>1, <1>2, <1>3, <2>4
    <2> QED
      BY <1>5, <2>2, <2>3, <2>4
  <1>6. CASE <<w.root, f.path>> \notin Reach(wsReq[r])
    <2>1. wsDisk'[w.root][f.path] = wsDisk[w.root][f.path]
      BY <1>4, <1>6
    <2>2. ASSUME NEW s \in WsRequest, <<w.root, f.path>> \in Unrecorded(wsReq[s])
          PROVE  <<w.root, f.path>> \in Unrecorded(wsReq'[s])
      <3>1. Unrecorded(wsReq[r]) \subseteq Reach(wsReq[r])
        BY ReachIs DEF Unrecorded
      <3> QED
        BY <1>1, <1>6, <2>2, <3>1
    <2> QED
      BY <1>2, <1>3, <2>1, <2>2
  <1> QED
    BY <1>5, <1>6

(* A request that goes on, the disk and the files' rows as they were.      *)
LEMMA QuietStep ==
  ASSUME WsInv, NEW r \in WsRequest, NEW q \in {WsIdle} \cup Creation \cup Known,
         HandsOn(r, q), wsRows' = wsRows, UNCHANGED <<wsDisk, wsFiles, wsFailed>>,
         wsUploads' \in Nat, wsReq[r].pc # "record", q.pc \notin {"record", "unlink"}
  PROVE  WsInv'
  <1>1. Numbered' /\ RowsApart' /\ RacesNoted' /\ RootsTrue'
    BY HandsKept
  <1>2. wsReq' \in [WsRequest -> {WsIdle} \cup Creation \cup Known] /\ wsReq'[r] = q
        /\ wsMade' = wsMade
    BY Turn DEF HandsOn
  <1>3. WsTypes'
    BY <1>2 DEF WsInv, WsTypes
  <1>4. \A s \in WsRequest : s # r =>
           /\ wsReq'[s].pc = "record" /\ <<wsReq'[s].root, wsReq'[s].path>> \notin wsRaced' =>
                wsDisk'[wsReq'[s].root][wsReq'[s].path] = wsReq'[s].content
           /\ wsReq'[s].pc = "unlink" /\ FileRow(wsReq[s].id, wsReq[s].path)' # {} =>
                <<wsReq'[s].root, wsReq'[s].path>> \in wsRaced'
    BY OthersKept
  <1>5. InHandTrue'
    BY <1>2, <1>4 DEF InHandTrue
  <1>6. FilesTrue'
    <2> SUFFICES ASSUME NEW f \in wsFiles
                 PROVE  \E w \in wsRows' :
                          /\ w.id = f.ws
                          /\ \/ <<w.root, f.path>> \in wsRaced'
                             \/ \E s \in WsRequest : <<w.root, f.path>> \in Unrecorded(wsReq'[s])
                             \/ wsDisk'[w.root][f.path] \in {f.content} \cup wsFailed'
      BY DEF FilesTrue, Unrecorded
    <2>1. PICK w \in wsRows' : w.id = f.ws
      BY DEF WsInv, FilesTrue
    <2>0. Unrecorded(wsReq[r]) = {}
      BY DEF Unrecorded
    <2>2. \/ <<w.root, f.path>> \in wsRaced'
          \/ \E s \in WsRequest : <<w.root, f.path>> \in Unrecorded(wsReq'[s])
          \/ wsDisk'[w.root][f.path] \in {f.content} \cup wsFailed'
      BY <2>0, <2>1, FileKept
    <2> QED
      BY <2>1, <2>2
  <1> QED
    BY <1>1, <1>3, <1>5, <1>6 DEF WsInv

(* The slug is looked up: no step further than the rows there are.         *)
LEMMA Looking ==
  ASSUME WsInv, NEW r \in WsRequest, LookUpSlug(r)
  PROVE  WsInv'
  <1>1. wsReq[r] \in Creation /\ wsReq[r].pc = "slug" /\ IsCreation(wsReq[r])
    BY ReqIs DEF LookUpSlug, IsCreation
  <1>2. wsReq[r].slug \in Nat \ {0} /\ wsReq[r].slug <= Cardinality(Done) + 1
        /\ Cardinality(Done) \in Nat
    BY <1>1, DoneIs DEF WsInv, Numbered, Creation
  <1> DEFINE q == IF \E w \in wsRows : w.slug = wsReq[r].slug
                  THEN [wsReq[r] EXCEPT !.slug = @ + 1]
                  ELSE [wsReq[r] EXCEPT !.pc = "insert"]
  <1>3. Goes(r, q) /\ UNCHANGED <<wsRows, wsDisk, wsFiles, wsMade, wsUploads, wsFailed>>
    BY DEF LookUpSlug, metaVars
  <1>4. q \in Creation /\ q.id = wsReq[r].id /\ q.slug <= Cardinality(Done) + 1
    <2>1. CASE \E w \in wsRows : w.slug = wsReq[r].slug
      <3>1. wsReq[r].slug <= Cardinality(Done)
        BY <2>1 DEF WsInv, Numbered
      <3>2. q = [wsReq[r] EXCEPT !.slug = wsReq[r].slug + 1]
        BY <2>1
      <3> QED
        BY <1>1, <1>2, <3>1, <3>2 DEF Creation
    <2>2. CASE ~\E w \in wsRows : w.slug = wsReq[r].slug
      BY <1>1, <1>2, <2>2 DEF Creation
    <2> QED
      BY <2>1, <2>2
  <1> HIDE DEF q
  <1>5. IsCreation(q) /\ ~IsKnown(q) /\ Reach(q) = {} /\ Reach(wsReq[r]) = {}
    BY <1>1, <1>4, Kinds, ReachIs
  <1>6. q \in {WsIdle} \cup Creation \cup Known
    BY <1>4
  <1>7. HandsOn(r, q)
    BY <1>1, <1>3, <1>4, <1>5 DEF HandsOn, Goes
  <1>8. q.pc \notin {"record", "unlink"} /\ wsUploads \in Nat
    BY <1>5 DEF IsKnown, WsInv, WsTypes
  <1> QED
    BY <1>1, <1>3, <1>5, <1>6, <1>7, <1>8, QuietStep

(* A deletion reads its row.                                               *)
LEMMA Deleting ==
  ASSUME WsInv, NEW r \in WsRequest, NEW id, DeleteStarts(r, id)
  PROVE  WsInv'
  <1>1. PICK w \in RowOf(id) : Goes(r, [pc |-> "drop", id |-> id, root |-> w.root])
    BY DEF DeleteStarts
  <1> DEFINE q == [pc |-> "drop", id |-> id, root |-> w.root]
  <1>2. /\ w \in wsRows /\ w.id = id /\ id \in Nat /\ w.root \in Directory
        /\ UNCHANGED <<wsRows, wsDisk, wsFiles, wsMade, wsUploads, wsFailed>> /\ wsReq[r] = WsIdle
    BY DEF DeleteStarts, metaVars, RowOf, WsInv, WsTypes
  <1>3. q \in Deletion /\ q.id = id /\ q.root = w.root /\ q.pc = "drop"
    BY <1>2 DEF Deletion
  <1>4. Goes(r, q)
    BY <1>1
  <1> HIDE DEF q
  <1>5. q \in Known
    BY <1>3 DEF Known
  <1>6. ~IsCreation(q) /\ Reach(q) = {w.root} \X WsPath /\ Reach(wsReq[r]) = {}
    BY <1>2, <1>3, <1>5, Kinds, ReachIs
  <1>7. HandsOn(r, q)
    BY <1>2, <1>3, <1>4, <1>6 DEF HandsOn, Goes
  <1>8. wsUploads \in Nat
    BY DEF WsInv, WsTypes
  <1> QED
    BY <1>2, <1>3, <1>5, <1>6, <1>7, <1>8, QuietStep DEF WsIdle

(* An upload reads the row of its workspace.                               *)
LEMMA Uploading ==
  ASSUME WsInv, NEW r \in WsRequest, NEW id, NEW path \in WsPath, UploadStarts(r, id, path)
  PROVE  WsInv'
  <1>1. PICK w \in RowOf(id) :
          Goes(r, [pc |-> "write", id |-> id, root |-> w.root, path |-> path,
                   content |-> wsUploads + 1])
    BY DEF UploadStarts
  <1> DEFINE q == [pc |-> "write", id |-> id, root |-> w.root, path |-> path,
                   content |-> wsUploads + 1]
  <1>2. /\ w \in wsRows /\ w.id = id /\ id \in Nat /\ w.root \in Directory
        /\ wsUploads \in Nat /\ wsUploads' = wsUploads + 1
        /\ UNCHANGED <<wsRows, wsDisk, wsFiles, wsMade, wsFailed>> /\ wsReq[r] = WsIdle
    BY DEF UploadStarts, metaVars, RowOf, WsInv, WsTypes
  <1>3. /\ q \in Upload /\ q.id = id /\ q.root = w.root /\ q.pc = "write"
        /\ q.path = path
    BY <1>2 DEF Upload
  <1>4. Goes(r, q)
    BY <1>1
  <1> HIDE DEF q
  <1>5. q \in Known
    BY <1>3 DEF Known
  <1>6. /\ ~IsCreation(q) /\ Reach(q) = {<<w.root, path>>} /\ Reach(wsReq[r]) = {}
    BY <1>2, <1>3, <1>5, Kinds, ReachIs
  <1>7. HandsOn(r, q)
    BY <1>2, <1>3, <1>4, <1>6 DEF HandsOn, Goes
  <1>8. wsUploads' \in Nat
    BY <1>2
  <1> QED
    BY <1>2, <1>3, <1>5, <1>6, <1>7, <1>8, QuietStep DEF WsIdle

(* The bytes are written.                                                  *)
LEMMA Writing ==
  ASSUME WsInv, NEW r \in WsRequest, WriteFile(r)
  PROVE  WsInv'
  <1> DEFINE p == wsReq[r]
             q == [p EXCEPT !.pc = "record"]
  <1>1. /\ p \in Upload /\ p.pc = "write" /\ Goes(r, q)
        /\ wsDisk' = [wsDisk EXCEPT ![p.root][p.path] = p.content]
        /\ UNCHANGED <<wsRows, wsFiles, wsMade, wsUploads, wsFailed>>
    BY ReqIs DEF WriteFile, metaVars
  <1>2. /\ q \in Upload /\ q.pc = "record" /\ q.id = p.id /\ q.root = p.root /\ q.path = p.path
        /\ q.content = p.content
    BY <1>1 DEF Upload
  <1>3. p.root \in Directory /\ p.path \in WsPath /\ p.content \in Nat
    BY <1>1 DEF Upload
  <1> HIDE DEF q
  <1>4. q \in Known /\ p \in Known
    BY <1>1, <1>2 DEF Known
  <1>5. /\ ~IsCreation(q) /\ IsKnown(p) /\ Reach(p) = {<<p.root, p.path>>}
        /\ Reach(q) = Reach(p)
    BY <1>1, <1>2, <1>4, Kinds, ReachIs
  <1>6. HandsOn(r, q)
    BY <1>1, <1>2, <1>5 DEF HandsOn, Goes
  <1>7. /\ wsDisk' \in [Directory -> [WsPath -> Nat]]
        /\ wsDisk'[p.root][p.path] = p.content
        /\ \A e \in Directory, x \in WsPath :
             <<e, x>> # <<p.root, p.path>> => wsDisk'[e][x] = wsDisk[e][x]
    BY <1>1, <1>3 DEF WsInv, WsTypes
  <1>8. Numbered' /\ RowsApart' /\ RacesNoted' /\ RootsTrue'
    BY <1>4, <1>6, HandsKept
  <1>9. wsReq' \in [WsRequest -> {WsIdle} \cup Creation \cup Known] /\ wsReq'[r] = q
    BY <1>4, <1>6, Turn DEF HandsOn
  <1>10. WsTypes'
    BY <1>1, <1>7, <1>9 DEF WsInv, WsTypes
  <1>11. \A d, x : <<d, x>> \notin Reach(wsReq[r]) /\ d \in Directory /\ x \in WsPath
                    => wsDisk'[d][x] = wsDisk[d][x]
    BY <1>5, <1>7
  <1>12. \A s \in WsRequest : s # r =>
           /\ wsReq'[s].pc = "record" /\ <<wsReq'[s].root, wsReq'[s].path>> \notin wsRaced' =>
                wsDisk'[wsReq'[s].root][wsReq'[s].path] = wsReq'[s].content
           /\ wsReq'[s].pc = "unlink" /\ FileRow(wsReq[s].id, wsReq[s].path)' # {} =>
                <<wsReq'[s].root, wsReq'[s].path>> \in wsRaced'
    BY <1>1, <1>4, <1>6, <1>11, OthersKept
  <1>13. InHandTrue'
    <2> SUFFICES ASSUME NEW s \in WsRequest
                 PROVE  /\ wsReq'[s].pc = "record"
                           /\ <<wsReq'[s].root, wsReq'[s].path>> \notin wsRaced' =>
                             wsDisk'[wsReq'[s].root][wsReq'[s].path] = wsReq'[s].content
                        /\ wsReq'[s].pc = "unlink"
                           /\ FileRow(wsReq[s].id, wsReq[s].path)' # {} =>
                             <<wsReq'[s].root, wsReq'[s].path>> \in wsRaced'
      BY DEF InHandTrue
    <2>1. CASE s = r
      <3>1. wsDisk'[q.root][q.path] = q.content /\ q.pc # "unlink"
        BY <1>2, <1>7
      <3> QED
        BY <1>9, <2>1, <3>1
    <2>2. CASE s # r
      BY <1>12, <2>2
    <2> QED
      BY <2>1, <2>2
  <1>14. FilesTrue'
    <2> SUFFICES ASSUME NEW f \in wsFiles
                 PROVE  \E w \in wsRows' :
                          /\ w.id = f.ws
                          /\ \/ <<w.root, f.path>> \in wsRaced'
                             \/ \E s \in WsRequest : <<w.root, f.path>> \in Unrecorded(wsReq'[s])
                             \/ wsDisk'[w.root][f.path] \in {f.content} \cup wsFailed'
      BY <1>1 DEF FilesTrue, Unrecorded
    <2>1. PICK w \in wsRows' : w.id = f.ws
      BY <1>1 DEF WsInv, FilesTrue
    <2>2. \/ <<w.root, f.path>> \in wsRaced'
          \/ \E s \in WsRequest : <<w.root, f.path>> \in Unrecorded(wsReq'[s])
          \/ wsDisk'[w.root][f.path] \in {f.content} \cup wsFailed'
      <3>1. Unrecorded(q) = Reach(wsReq[r]) /\ wsFailed \subseteq wsFailed'
        BY <1>1, <1>2, <1>5 DEF Unrecorded
      <3> QED
        BY <1>1, <1>4, <1>6, <1>11, <2>1, <3>1, FileKept
    <2> QED
      BY <2>1, <2>2
  <1> QED
    BY <1>8, <1>10, <1>13, <1>14 DEF WsInv

(* The row of a file is written, or its workspace is gone.                 *)
LEMMA Recording ==
  ASSUME WsInv, NEW r \in WsRequest, UpsertFileRow(r)
  PROVE  WsInv'
  <1> DEFINE p == wsReq[r]
             row == [ws |-> p.id, path |-> p.path, content |-> p.content]
  <1>1. /\ p \in Upload /\ p.pc = "record" /\ Goes(r, WsIdle)
        /\ wsFiles' = IF RowOf(p.id) = {} THEN wsFiles
                      ELSE (wsFiles \ FileRow(p.id, p.path)) \cup {row}
        /\ UNCHANGED <<wsRows, wsDisk, wsMade, wsUploads, wsFailed>>
    BY ReqIs DEF UpsertFileRow, metaVars
  <1>2. /\ p.root \in Directory /\ p.path \in WsPath /\ p.content \in Nat /\ p.id \in Nat
    BY <1>1 DEF Upload
  <1>3. row \in [ws : Nat, path : WsPath, content : Nat]
        /\ row.ws = p.id /\ row.path = p.path /\ row.content = p.content
    BY <1>2
  <1> HIDE DEF row
  <1>4. p \in Known
    BY <1>1 DEF Known
  <1>5. IsKnown(p) /\ Reach(p) = {<<p.root, p.path>>} /\ Reach(WsIdle) = {}
    BY <1>1, <1>4, Kinds, ReachIs
  <1>6. HandsOn(r, WsIdle)
    BY <1>1, <1>5, Kinds DEF HandsOn, Goes
  <1>8. Numbered' /\ RowsApart' /\ RacesNoted' /\ RootsTrue'
    BY <1>6, HandsKept
  <1>9. wsReq' \in [WsRequest -> {WsIdle} \cup Creation \cup Known] /\ wsReq'[r] = WsIdle
    BY <1>6, Turn DEF HandsOn
  <1>10. WsTypes'
    BY <1>1, <1>3, <1>9 DEF WsInv, WsTypes
  <1>11. \A w \in RowOf(p.id) : w \in wsRows /\ w.id = p.id /\ w.root = p.root
    BY <1>5 DEF RowOf, WsInv, RootsTrue
  <1>12. \A f \in wsFiles' : \/ f \in wsFiles
                             \/ /\ f = row /\ RowOf(p.id) # {}
    BY <1>1
  <1>13. \A s \in WsRequest : s # r =>
           /\ wsReq'[s].pc = "record" /\ <<wsReq'[s].root, wsReq'[s].path>> \notin wsRaced' =>
                wsDisk'[wsReq'[s].root][wsReq'[s].path] = wsReq'[s].content
           /\ wsReq'[s].pc = "unlink" /\ FileRow(wsReq[s].id, wsReq[s].path)' # {} =>
                <<wsReq'[s].root, wsReq'[s].path>> \in wsRaced'
    <2>1. \A f \in wsFiles' : f \in wsFiles \/ \E d : /\ RowOf(f.ws) # {}
                                                       /\ \A w \in RowOf(f.ws) : w.root = d
                                                       /\ <<d, f.path>> \in Reach(wsReq[r])
      BY <1>3, <1>5, <1>11, <1>12
    <2> QED
      BY <1>1, <1>6, <2>1, OthersKept
  <1>14. InHandTrue'
    <2>1. wsReq'[r].pc \notin {"record", "unlink"}
      BY <1>9 DEF WsIdle
    <2> QED
      BY <1>13, <2>1 DEF InHandTrue
  <1>15. FilesTrue'
    <2> SUFFICES ASSUME NEW f \in wsFiles'
                 PROVE  \E w \in wsRows' :
                          /\ w.id = f.ws
                          /\ \/ <<w.root, f.path>> \in wsRaced'
                             \/ \E s \in WsRequest : <<w.root, f.path>> \in Unrecorded(wsReq'[s])
                             \/ wsDisk'[w.root][f.path] \in {f.content} \cup wsFailed'
      BY DEF FilesTrue, Unrecorded
    <2>1. CASE f = row /\ RowOf(p.id) # {}
      <3>1. PICK w \in RowOf(p.id) : TRUE
        BY <2>1
      <3>2. w \in wsRows' /\ w.id = f.ws /\ w.root = p.root /\ f.path = p.path
            /\ f.content = p.content
        BY <1>1, <1>3, <1>11, <2>1
      <3>3. <<p.root, p.path>> \in wsRaced \/ wsDisk[p.root][p.path] = p.content
        BY <1>1 DEF WsInv, InHandTrue
      <3> QED
        BY <1>1, <3>2, <3>3 DEF Goes
    <2>2. CASE f \in wsFiles /\ ~(f = row /\ RowOf(p.id) # {})
      <3>1. PICK w \in wsRows' : w.id = f.ws
        BY <1>1, <2>2 DEF WsInv, FilesTrue
      <3>2. w.id # p.id \/ <<w.root, f.path>> \notin Reach(p)
        <4> SUFFICES ASSUME w.id = p.id, f.path = p.path PROVE FALSE
          BY <1>5
        <4>1. w \in RowOf(p.id)
          BY <1>1, <3>1 DEF RowOf
        <4>2. f \in FileRow(p.id, p.path)
          BY <2>2, <3>1 DEF FileRow
        <4> QED
          BY <1>1, <2>2, <4>1, <4>2
      <3>3. \/ <<w.root, f.path>> \in wsRaced'
            \/ \E s \in WsRequest : <<w.root, f.path>> \in Unrecorded(wsReq'[s])
            \/ wsDisk'[w.root][f.path] \in {f.content} \cup wsFailed'
        BY <1>1, <1>6, <2>2, <3>1, <3>2, FileKept
      <3> QED
        BY <3>1, <3>3
    <2> QED
      BY <1>12, <2>1, <2>2
  <1> QED
    BY <1>8, <1>10, <1>14, <1>15 DEF WsInv

(* The directory is removed: no row of its workspace is left, so a file    *)
(* there is raced.                                                         *)
LEMMA Purging ==
  ASSUME WsInv, NEW r \in WsRequest, NEW ok \in BOOLEAN, PurgeDirectory(r, ok)
  PROVE  WsInv'
  <1> DEFINE p == wsReq[r]
             empty == [x \in WsPath |-> Missing]
  <1>1. /\ p \in Deletion /\ p.pc = "purge" /\ Goes(r, WsIdle)
        /\ wsDisk' = wsDisk \/ wsDisk' = [wsDisk EXCEPT ![p.root] = empty]
        /\ UNCHANGED <<wsRows, wsFiles, wsMade, wsUploads, wsFailed>>
    BY ReqIs DEF PurgeDirectory, metaVars
  <1>2. p.root \in Directory /\ empty \in [WsPath -> Nat] /\ p \in Known
    BY <1>1 DEF Deletion, Known, Missing
  <1> HIDE DEF empty
  <1>3. /\ wsDisk' \in [Directory -> [WsPath -> Nat]]
        /\ \A e \in Directory : e # p.root => wsDisk'[e] = wsDisk[e]
    BY <1>1, <1>2 DEF WsInv, WsTypes
  <1>4. IsKnown(p) /\ Reach(p) = {p.root} \X WsPath /\ Reach(WsIdle) = {}
    BY <1>1, <1>2, Kinds, ReachIs
  <1>5. HandsOn(r, WsIdle)
    BY <1>1, <1>4, Kinds DEF HandsOn, Goes
  <1>6. Numbered' /\ RowsApart' /\ RacesNoted' /\ RootsTrue'
    BY <1>5, HandsKept
  <1>7. wsReq' \in [WsRequest -> {WsIdle} \cup Creation \cup Known] /\ wsReq'[r] = WsIdle
    BY <1>5, Turn DEF HandsOn
  <1>8. WsTypes'
    BY <1>1, <1>3, <1>7 DEF WsInv, WsTypes
  <1>9. \A d, x : <<d, x>> \notin Reach(wsReq[r]) /\ d \in Directory /\ x \in WsPath
                   => wsDisk'[d][x] = wsDisk[d][x]
    BY <1>3, <1>4
  <1>10. \A s \in WsRequest : s # r =>
           /\ wsReq'[s].pc = "record" /\ <<wsReq'[s].root, wsReq'[s].path>> \notin wsRaced' =>
                wsDisk'[wsReq'[s].root][wsReq'[s].path] = wsReq'[s].content
           /\ wsReq'[s].pc = "unlink" /\ FileRow(wsReq[s].id, wsReq[s].path)' # {} =>
                <<wsReq'[s].root, wsReq'[s].path>> \in wsRaced'
    BY <1>1, <1>5, <1>9, OthersKept
  <1>11. InHandTrue'
    <2>1. wsReq'[r].pc \notin {"record", "unlink"}
      BY <1>7 DEF WsIdle
    <2> QED
      BY <1>10, <2>1 DEF InHandTrue
  <1>12. FilesTrue'
    <2> SUFFICES ASSUME NEW f \in wsFiles
                 PROVE  \E w \in wsRows' :
                          /\ w.id = f.ws
                          /\ \/ <<w.root, f.path>> \in wsRaced'
                             \/ \E s \in WsRequest : <<w.root, f.path>> \in Unrecorded(wsReq'[s])
                             \/ wsDisk'[w.root][f.path] \in {f.content} \cup wsFailed'
      BY <1>1 DEF FilesTrue, Unrecorded
    <2>1. PICK w \in wsRows' : w.id = f.ws
      BY <1>1 DEF WsInv, FilesTrue
    <2>2. w.id # p.id
      BY <1>1, <1>4, <2>1 DEF WsInv, RootsTrue
    <2>3. \/ <<w.root, f.path>> \in wsRaced'
          \/ \E s \in WsRequest : <<w.root, f.path>> \in Unrecorded(wsReq'[s])
          \/ wsDisk'[w.root][f.path] \in {f.content} \cup wsFailed'
      BY <1>1, <1>5, <1>9, <2>1, <2>2, FileKept
    <2> QED
      BY <2>1, <2>3
  <1> QED
    BY <1>6, <1>8, <1>11, <1>12 DEF WsInv

(* The row goes, and its files with it.                                    *)
LEMMA Dropping ==
  ASSUME WsInv, NEW r \in WsRequest, DropWorkspace(r)
  PROVE  WsInv'
  <1> DEFINE p == wsReq[r]
             q == [p EXCEPT !.pc = "purge"]
  <1>1. /\ p \in Deletion /\ p.pc = "drop" /\ wsReq' = [wsReq EXCEPT ![r].pc = "purge"]
        /\ wsRaced' = wsRaced \cup (Reach(p) \cap InHand(r))
        /\ wsRows' = wsRows \ RowOf(p.id) /\ wsFiles' = {f \in wsFiles : f.ws # p.id}
        /\ UNCHANGED <<wsDisk, wsMade, wsUploads, wsFailed>>
    BY ReqIs DEF DropWorkspace
  <1>2. q \in Deletion /\ q.pc = "purge" /\ q.id = p.id /\ q.root = p.root
        /\ wsReq' = [wsReq EXCEPT ![r] = q]
    BY <1>1 DEF Deletion, WsInv, WsTypes
  <1> HIDE DEF q
  <1>3. q \in Known /\ p \in Known
    BY <1>1, <1>2 DEF Known
  <1>4. ~IsCreation(q) /\ IsKnown(p) /\ Reach(p) = {p.root} \X WsPath /\ Reach(q) = Reach(p)
    <2>1. ~IsCreation(q) /\ IsKnown(p)
      BY <1>3, Kinds
    <2>2. Reach(p) = {p.root} \X WsPath
      BY <1>1, ReachIs
    <2>3. Reach(q) = {q.root} \X WsPath
      BY <1>2, ReachIs
    <2> QED
      BY <1>2, <2>1, <2>2, <2>3
  <1>5. \A w \in wsRows' : w \in wsRows /\ w.id # q.id
    BY <1>1, <1>2 DEF RowOf
  <1>6. HandsOn(r, q)
    BY <1>1, <1>2, <1>4, <1>5 DEF HandsOn
  <1>7. Numbered' /\ RowsApart' /\ RacesNoted' /\ RootsTrue'
    BY <1>3, <1>6, HandsKept
  <1>8. wsReq' \in [WsRequest -> {WsIdle} \cup Creation \cup Known] /\ wsReq'[r] = q
    BY <1>3, <1>6, Turn DEF HandsOn
  <1>9. WsTypes'
    BY <1>1, <1>8 DEF WsInv, WsTypes
  <1>10. \A s \in WsRequest : s # r =>
           /\ wsReq'[s].pc = "record" /\ <<wsReq'[s].root, wsReq'[s].path>> \notin wsRaced' =>
                wsDisk'[wsReq'[s].root][wsReq'[s].path] = wsReq'[s].content
           /\ wsReq'[s].pc = "unlink" /\ FileRow(wsReq[s].id, wsReq[s].path)' # {} =>
                <<wsReq'[s].root, wsReq'[s].path>> \in wsRaced'
    BY <1>1, <1>3, <1>6, OthersKept
  <1>11. InHandTrue'
    BY <1>2, <1>8, <1>10 DEF InHandTrue
  <1>12. FilesTrue'
    <2> SUFFICES ASSUME NEW f \in wsFiles'
                 PROVE  \E w \in wsRows' :
                          /\ w.id = f.ws
                          /\ \/ <<w.root, f.path>> \in wsRaced'
                             \/ \E s \in WsRequest : <<w.root, f.path>> \in Unrecorded(wsReq'[s])
                             \/ wsDisk'[w.root][f.path] \in {f.content} \cup wsFailed'
      BY DEF FilesTrue, Unrecorded
    <2>0. f \in wsFiles /\ f.ws # p.id
      BY <1>1
    <2>1. PICK w \in wsRows : w.id = f.ws
      BY <2>0 DEF WsInv, FilesTrue
    <2>2. w \in wsRows'
      BY <1>1, <2>0, <2>1 DEF RowOf
    <2>3. \/ <<w.root, f.path>> \in wsRaced'
          \/ \E s \in WsRequest : <<w.root, f.path>> \in Unrecorded(wsReq'[s])
          \/ wsDisk'[w.root][f.path] \in {f.content} \cup wsFailed'
      BY <1>1, <1>3, <1>6, <2>0, <2>1, <2>2, FileKept
    <2> QED
      BY <2>1, <2>2, <2>3
  <1> QED
    BY <1>7, <1>9, <1>11, <1>12 DEF WsInv

(* The row of a file goes before its bytes.                                *)
LEMMA Removing ==
  ASSUME WsInv, NEW r \in WsRequest, NEW id, NEW path \in WsPath, DeleteFileRow(r, id, path)
  PROVE  WsInv'
  <1>1. PICK w \in RowOf(id) :
          Goes(r, [pc |-> "unlink", id |-> id, root |-> w.root, path |-> path])
    BY DEF DeleteFileRow
  <1> DEFINE q == [pc |-> "unlink", id |-> id, root |-> w.root, path |-> path]
  <1>2. /\ w \in wsRows /\ w.id = id /\ id \in Nat /\ w.root \in Directory
        /\ wsFiles' = wsFiles \ FileRow(id, path)
        /\ UNCHANGED <<wsRows, wsDisk, wsMade, wsUploads, wsFailed>> /\ wsReq[r] = WsIdle
    BY DEF DeleteFileRow, metaVars, RowOf, WsInv, WsTypes
  <1>3. q \in Removal /\ q.id = id /\ q.root = w.root /\ q.pc = "unlink" /\ q.path = path
    BY <1>2 DEF Removal
  <1>4. Goes(r, q)
    BY <1>1
  <1> HIDE DEF q
  <1>5. q \in Known
    BY <1>3 DEF Known
  <1>6. ~IsCreation(q) /\ Reach(q) = {<<w.root, path>>} /\ Reach(wsReq[r]) = {}
    BY <1>2, <1>3, <1>5, Kinds, ReachIs
  <1>7. HandsOn(r, q)
    BY <1>2, <1>3, <1>4, <1>6 DEF HandsOn, Goes
  <1>8. Numbered' /\ RowsApart' /\ RacesNoted' /\ RootsTrue'
    BY <1>5, <1>7, HandsKept
  <1>9. wsReq' \in [WsRequest -> {WsIdle} \cup Creation \cup Known] /\ wsReq'[r] = q
    BY <1>5, <1>7, Turn DEF HandsOn
  <1>10. WsTypes'
    BY <1>2, <1>9 DEF WsInv, WsTypes
  <1>11. \A s \in WsRequest : s # r =>
           /\ wsReq'[s].pc = "record" /\ <<wsReq'[s].root, wsReq'[s].path>> \notin wsRaced' =>
                wsDisk'[wsReq'[s].root][wsReq'[s].path] = wsReq'[s].content
           /\ wsReq'[s].pc = "unlink" /\ FileRow(wsReq[s].id, wsReq[s].path)' # {} =>
                <<wsReq'[s].root, wsReq'[s].path>> \in wsRaced'
    BY <1>2, <1>5, <1>7, OthersKept
  <1>12. FileRow(wsReq[r].id, wsReq[r].path)' = {}
    BY <1>2, <1>3, <1>9 DEF FileRow
  <1>13. InHandTrue'
    <2> SUFFICES ASSUME NEW s \in WsRequest
                 PROVE  /\ wsReq'[s].pc = "record"
                           /\ <<wsReq'[s].root, wsReq'[s].path>> \notin wsRaced' =>
                             wsDisk'[wsReq'[s].root][wsReq'[s].path] = wsReq'[s].content
                        /\ wsReq'[s].pc = "unlink"
                           /\ FileRow(wsReq[s].id, wsReq[s].path)' # {} =>
                             <<wsReq'[s].root, wsReq'[s].path>> \in wsRaced'
      BY DEF InHandTrue
    <2>1. CASE s = r
      BY <1>3, <1>9, <1>12, <2>1
    <2>2. CASE s # r
      BY <1>11, <2>2
    <2> QED
      BY <2>1, <2>2
  <1>14. FilesTrue'
    <2> SUFFICES ASSUME NEW f \in wsFiles
                 PROVE  \E v \in wsRows' :
                          /\ v.id = f.ws
                          /\ \/ <<v.root, f.path>> \in wsRaced'
                             \/ \E s \in WsRequest : <<v.root, f.path>> \in Unrecorded(wsReq'[s])
                             \/ wsDisk'[v.root][f.path] \in {f.content} \cup wsFailed'
      BY <1>2 DEF FilesTrue, Unrecorded
    <2>1. PICK v \in wsRows' : v.id = f.ws
      BY <1>2 DEF WsInv, FilesTrue
    <2>2. \/ <<v.root, f.path>> \in wsRaced'
          \/ \E s \in WsRequest : <<v.root, f.path>> \in Unrecorded(wsReq'[s])
          \/ wsDisk'[v.root][f.path] \in {f.content} \cup wsFailed'
      BY <1>2, <1>5, <1>6, <1>7, <2>1, FileKept
    <2> QED
      BY <2>1, <2>2
  <1> QED
    BY <1>8, <1>10, <1>13, <1>14 DEF WsInv

(* The bytes of a file go.                                                 *)
LEMMA Unlinking ==
  ASSUME WsInv, NEW r \in WsRequest, UnlinkFile(r)
  PROVE  WsInv'
  <1> DEFINE p == wsReq[r]
  <1>1. /\ p \in Removal /\ p.pc = "unlink" /\ Goes(r, WsIdle)
        /\ wsDisk' = [wsDisk EXCEPT ![p.root][p.path] = Missing]
        /\ UNCHANGED <<wsRows, wsFiles, wsMade, wsUploads, wsFailed>>
    BY ReqIs DEF UnlinkFile, metaVars
  <1>2. p.root \in Directory /\ p.path \in WsPath /\ Missing \in Nat /\ p \in Known
    BY <1>1 DEF Removal, Known, Missing
  <1>3. IsKnown(p) /\ Reach(p) = {<<p.root, p.path>>} /\ Reach(WsIdle) = {}
    BY <1>1, <1>2, Kinds, ReachIs
  <1>4. HandsOn(r, WsIdle)
    BY <1>1, <1>3, Kinds DEF HandsOn, Goes
  <1>5. /\ wsDisk' \in [Directory -> [WsPath -> Nat]]
        /\ \A e \in Directory, x \in WsPath :
             <<e, x>> # <<p.root, p.path>> => wsDisk'[e][x] = wsDisk[e][x]
    BY <1>1, <1>2 DEF WsInv, WsTypes
  <1>6. Numbered' /\ RowsApart' /\ RacesNoted' /\ RootsTrue'
    BY <1>4, HandsKept
  <1>7. wsReq' \in [WsRequest -> {WsIdle} \cup Creation \cup Known] /\ wsReq'[r] = WsIdle
    BY <1>4, Turn DEF HandsOn
  <1>8. WsTypes'
    BY <1>1, <1>5, <1>7 DEF WsInv, WsTypes
  <1>9. \A d, x : <<d, x>> \notin Reach(wsReq[r]) /\ d \in Directory /\ x \in WsPath
                   => wsDisk'[d][x] = wsDisk[d][x]
    BY <1>3, <1>5
  <1>10. \A s \in WsRequest : s # r =>
           /\ wsReq'[s].pc = "record" /\ <<wsReq'[s].root, wsReq'[s].path>> \notin wsRaced' =>
                wsDisk'[wsReq'[s].root][wsReq'[s].path] = wsReq'[s].content
           /\ wsReq'[s].pc = "unlink" /\ FileRow(wsReq[s].id, wsReq[s].path)' # {} =>
                <<wsReq'[s].root, wsReq'[s].path>> \in wsRaced'
    BY <1>1, <1>4, <1>9, OthersKept
  <1>11. InHandTrue'
    <2>1. wsReq'[r].pc \notin {"record", "unlink"}
      BY <1>7 DEF WsIdle
    <2> QED
      BY <1>10, <2>1 DEF InHandTrue
  <1>12. FilesTrue'
    <2> SUFFICES ASSUME NEW f \in wsFiles
                 PROVE  \E w \in wsRows' :
                          /\ w.id = f.ws
                          /\ \/ <<w.root, f.path>> \in wsRaced'
                             \/ \E s \in WsRequest : <<w.root, f.path>> \in Unrecorded(wsReq'[s])
                             \/ wsDisk'[w.root][f.path] \in {f.content} \cup wsFailed'
      BY <1>1 DEF FilesTrue, Unrecorded
    <2>1. PICK w \in wsRows' : w.id = f.ws
      BY <1>1 DEF WsInv, FilesTrue
    <2>2. CASE w.id = p.id /\ f.path = p.path
      <3>1. w.root = p.root
        BY <1>1, <1>3, <2>1, <2>2 DEF WsInv, RootsTrue
      <3>2. FileRow(p.id, p.path) # {}
        BY <2>1, <2>2 DEF FileRow
      <3>3. <<p.root, p.path>> \in wsRaced
        BY <1>1, <3>2 DEF WsInv, InHandTrue
      <3> QED
        BY <1>1, <2>1, <2>2, <3>1, <3>3 DEF Goes
    <2>3. CASE ~(w.id = p.id /\ f.path = p.path)
      <3>1. w.id # p.id \/ <<w.root, f.path>> \notin Reach(p)
        BY <1>3, <2>3
      <3>2. \/ <<w.root, f.path>> \in wsRaced'
            \/ \E s \in WsRequest : <<w.root, f.path>> \in Unrecorded(wsReq'[s])
            \/ wsDisk'[w.root][f.path] \in {f.content} \cup wsFailed'
        BY <1>1, <1>4, <1>9, <2>1, <3>1, FileKept
      <3> QED
        BY <2>1, <3>2
    <2> QED
      BY <2>2, <2>3
  <1> QED
    BY <1>6, <1>8, <1>11, <1>12 DEF WsInv

(* A request that fails. An upload that has written and not recorded leaves *)
(* bytes that are known to be those of a failed one.                       *)
LEMMA Failing ==
  ASSUME WsInv, NEW r \in WsRequest, RequestFails(r)
  PROVE  WsInv'
  <1> DEFINE p == wsReq[r]
  <1>1. /\ Goes(r, WsIdle) /\ wsFailed \subseteq wsFailed'
        /\ UNCHANGED <<wsRows, wsDisk, wsFiles, wsMade, wsUploads>>
    BY DEF RequestFails
  <1>2. /\ ~IsKnown(WsIdle) /\ ~IsCreation(WsIdle) /\ Reach(WsIdle) = {}
        /\ WsIdle.pc \notin {"record", "unlink"}
    <2>1. WsIdle.pc = "idle"
      BY DEF WsIdle
    <2> QED
      BY <2>1, Kinds, ReachIs
  <1>3. HandsOn(r, WsIdle)
    BY <1>1, <1>2 DEF HandsOn, Goes
  <1>4. CASE p.pc # "record"
    <2>1. wsFailed' = wsFailed /\ wsUploads \in Nat
      BY <1>4 DEF RequestFails, WsInv, WsTypes
    <2> QED
      BY <1>1, <1>2, <1>3, <1>4, <2>1, QuietStep
  <1>5. CASE p.pc = "record"
    <2>1. p \in Upload /\ p \in Known /\ wsFailed' = wsFailed \cup {p.content}
      BY <1>5, ReqIs DEF RequestFails, Known
    <2>2. /\ p.root \in Directory /\ p.path \in WsPath /\ p.content \in Nat
          /\ Reach(p) = {<<p.root, p.path>>}
      BY <1>5, <2>1, ReachIs DEF Upload
    <2>3. Numbered' /\ RowsApart' /\ RacesNoted' /\ RootsTrue'
      BY <1>3, HandsKept
    <2>4. wsReq' \in [WsRequest -> {WsIdle} \cup Creation \cup Known] /\ wsReq'[r] = WsIdle
      BY <1>3, Turn DEF HandsOn
    <2>5. WsTypes'
      BY <1>1, <2>1, <2>2, <2>4 DEF WsInv, WsTypes
    <2>6. \A s \in WsRequest : s # r =>
             /\ wsReq'[s].pc = "record" /\ <<wsReq'[s].root, wsReq'[s].path>> \notin wsRaced' =>
                  wsDisk'[wsReq'[s].root][wsReq'[s].path] = wsReq'[s].content
             /\ wsReq'[s].pc = "unlink" /\ FileRow(wsReq[s].id, wsReq[s].path)' # {} =>
                  <<wsReq'[s].root, wsReq'[s].path>> \in wsRaced'
      BY <1>1, <1>3, OthersKept
    <2>7. InHandTrue'
      BY <1>2, <2>4, <2>6 DEF InHandTrue
    <2>8. FilesTrue'
      <3> SUFFICES ASSUME NEW f \in wsFiles
                   PROVE  \E w \in wsRows' :
                            /\ w.id = f.ws
                            /\ \/ <<w.root, f.path>> \in wsRaced'
                               \/ \E s \in WsRequest : <<w.root, f.path>> \in Unrecorded(wsReq'[s])
                               \/ wsDisk'[w.root][f.path] \in {f.content} \cup wsFailed'
        BY <1>1 DEF FilesTrue, Unrecorded
      <3>1. PICK w \in wsRows' : w.id = f.ws
        BY <1>1 DEF WsInv, FilesTrue
      <3>2. CASE <<w.root, f.path>> = <<p.root, p.path>>
        <4>1. <<p.root, p.path>> \in wsRaced \/ wsDisk[p.root][p.path] = p.content
          BY <1>5 DEF WsInv, InHandTrue
        <4>2. wsRaced \subseteq wsRaced' /\ w.root = p.root /\ f.path = p.path
          BY <1>3, <3>2 DEF HandsOn
        <4> QED
          BY <1>1, <2>1, <3>1, <4>1, <4>2
      <3>3. CASE <<w.root, f.path>> # <<p.root, p.path>>
        <4>1. <<w.root, f.path>> \notin Reach(p)
          BY <2>2, <3>3
        <4>2. \/ <<w.root, f.path>> \in wsRaced'
              \/ \E s \in WsRequest : <<w.root, f.path>> \in Unrecorded(wsReq'[s])
              \/ wsDisk'[w.root][f.path] \in {f.content} \cup wsFailed'
          BY <1>1, <1>3, <3>1, <4>1, FileKept
        <4> QED
          BY <3>1, <4>2
      <3> QED
        BY <3>2, <3>3
    <2> QED
      BY <2>3, <2>5, <2>7, <2>8 DEF WsInv
  <1> QED
    BY <1>4, <1>5

(* A creation takes a number.                                              *)
LEMMA Starting ==
  ASSUME WsInv, NEW r \in WsRequest, NEW managed \in BOOLEAN, CreateStarts(r, managed)
  PROVE  WsInv'
  <1> DEFINE q == [pc |-> "slug", id |-> wsMade + 1, slug |-> 1, managed |-> managed]
  <1>1. /\ Goes(r, q) /\ wsReq[r] = WsIdle /\ wsMade < MaxWorkspaces /\ wsMade' = wsMade + 1
        /\ UNCHANGED <<wsRows, wsDisk, wsFiles, wsUploads, wsFailed>>
    BY DEF CreateStarts, metaVars
  <1>2. /\ wsMade \in Nat /\ wsMade + 1 \in 0..MaxWorkspaces /\ wsMade <= wsMade + 1
        /\ MaxWorkspaces \in Nat
    BY <1>1, DoneIs, WorkspacesAssumption
  <1>3. q \in Creation /\ q.id = wsMade + 1 /\ q.slug = 1 /\ q.pc = "slug"
    BY <1>2 DEF Creation
  <1> HIDE DEF q
  <1>4. /\ IsCreation(q) /\ ~IsKnown(q) /\ Reach(q) = {} /\ Reach(wsReq[r]) = {}
        /\ ~IsCreation(wsReq[r])
    BY <1>1, <1>3, Kinds, ReachIs
  <1>5. q \in {WsIdle} \cup Creation \cup Known /\ wsReq' = [wsReq EXCEPT ![r] = q]
        /\ wsRaced' = wsRaced
    BY <1>1, <1>3, <1>4 DEF Goes
  <1>6. /\ wsReq' \in [WsRequest -> {WsIdle} \cup Creation \cup Known] /\ wsReq'[r] = q
        /\ \A s \in WsRequest : s # r => wsReq'[s] = wsReq[s]
    BY <1>5, Turn
  <1>7. Numbered /\ RowsApart /\ RacesNoted /\ RootsTrue /\ InHandTrue /\ FilesTrue
    BY DEF WsInv
  <1>8. \A s \in WsRequest : /\ Reach(wsReq'[s]) = Reach(wsReq[s])
                             /\ IsKnown(wsReq'[s]) <=> IsKnown(wsReq[s])
                             /\ IsKnown(wsReq'[s]) => s # r /\ wsReq'[s] = wsReq[s]
    <2>1. ~IsKnown(wsReq[r])
      BY <1>1, Kinds
    <2> QED
      BY <1>4, <1>6, <2>1
  <1>9. Done' = Done
    <2>1. \A k : k \in Creating <=>
            \E s \in WsRequest : IsCreation(wsReq[s]) /\ wsReq[s].id = k
      BY DEF Creating
    <2>2. \A k : k \in Creating' <=>
            \E s \in WsRequest : IsCreation(wsReq'[s]) /\ wsReq'[s].id = k
      BY DEF Creating, IsCreation
    <2>3. Creating' = Creating \cup {wsMade + 1}
      BY <1>3, <1>4, <1>6, <2>1, <2>2
    <2>4. 1..(wsMade + 1) = 1..wsMade \cup {wsMade + 1}
      BY <1>2
    <2>5. wsMade + 1 \notin 1..wsMade
      BY <1>2
    <2> QED
      BY <1>1, <2>3, <2>4, <2>5 DEF Done
  <1>10. Numbered'
    <2>1. \A s \in WsRequest : IsCreation(wsReq'[s]) =>
            wsReq'[s].id \in 1..wsMade' /\ wsReq'[s].slug <= Cardinality(Done) + 1
      <3>1. \A s \in WsRequest : IsCreation(wsReq[s]) =>
              wsReq[s].id \in 1..wsMade' /\ wsReq[s].slug <= Cardinality(Done) + 1
        BY <1>1, <1>2, <1>7 DEF Numbered
      <3>2. q.id \in 1..wsMade' /\ q.slug <= Cardinality(Done) + 1
        BY <1>1, <1>2, <1>3, DoneIs
      <3> QED
        BY <1>6, <3>1, <3>2
    <2>2. \A s, t \in WsRequest :
            IsCreation(wsReq'[s]) /\ IsCreation(wsReq'[t])
            /\ wsReq'[s].id = wsReq'[t].id => s = t
      <3>1. \A s \in WsRequest : IsCreation(wsReq[s]) => wsReq[s].id # q.id
        BY <1>2, <1>3, <1>7 DEF Numbered
      <3> QED
        BY <1>6, <1>7, <3>1 DEF Numbered
    <2>3. \A s \in WsRequest : IsKnown(wsReq'[s]) => wsReq'[s].id \in Done
      BY <1>7, <1>8 DEF Numbered
    <2>4. \A w \in wsRows' : w.id \in Done /\ w.slug <= Cardinality(Done)
      BY <1>1, <1>7 DEF Numbered
    <2> QED
      BY <1>9, <2>1, <2>2, <2>3, <2>4 DEF Numbered, IsCreation, IsKnown
  <1>11. WsTypes'
    BY <1>1, <1>2, <1>6 DEF WsInv, WsTypes
  <1>12. RowsApart'
    BY <1>1, <1>7 DEF RowsApart
  <1>13. RacesNoted'
    <2>1. \A s, t \in WsRequest : s # t =>
              Reach(wsReq'[s]) \cap Reach(wsReq'[t]) \subseteq wsRaced'
      BY <1>5, <1>7, <1>8 DEF RacesNoted
    <2>2. \A s \in WsRequest, w \in wsRows' :
            IsKnown(wsReq'[s]) /\ w.root = wsReq'[s].root /\ w.id # wsReq'[s].id
            => Reach(wsReq'[s]) \subseteq wsRaced'
      BY <1>1, <1>5, <1>7, <1>8 DEF RacesNoted
    <2>3. \A v, w \in wsRows' : v # w /\ v.root = w.root
              => {w.root} \X WsPath \subseteq wsRaced'
      BY <1>1, <1>5, <1>7 DEF RacesNoted
    <2> QED
      BY <2>1, <2>2, <2>3 DEF RacesNoted, Reach, IsKnown
  <1>14. RootsTrue'
    <2>1. \A s \in WsRequest, w \in wsRows' : IsKnown(wsReq'[s]) /\ w.id = wsReq'[s].id =>
            wsReq'[s].root = w.root /\ wsReq'[s].pc # "purge"
      BY <1>1, <1>7, <1>8 DEF RootsTrue
    <2> QED
      BY <2>1 DEF RootsTrue, IsKnown
  <1>15. InHandTrue'
    <2>1. q.pc \notin {"record", "unlink"}
      BY <1>3
    <2>2. \A s \in WsRequest : wsReq'[s].pc \in {"record", "unlink"} => wsReq'[s] = wsReq[s]
      BY <1>6, <2>1
    <2> QED
      BY <1>1, <1>5, <1>7, <2>2 DEF InHandTrue, FileRow
  <1>16. FilesTrue'
    <2>0. \A s \in WsRequest : Unrecorded(wsReq[s]) = Unrecorded(wsReq'[s])
      <3>1. Unrecorded(WsIdle) = {} /\ Unrecorded(q) = {}
        BY <1>3 DEF Unrecorded, WsIdle
      <3> QED
        BY <1>1, <1>6, <3>1
    <2>1. \A f \in wsFiles' : \E w \in wsRows' :
            /\ w.id = f.ws
            /\ \/ <<w.root, f.path>> \in wsRaced'
               \/ \E s \in WsRequest : <<w.root, f.path>> \in Unrecorded(wsReq'[s])
               \/ wsDisk'[w.root][f.path] \in {f.content} \cup wsFailed'
      BY <1>1, <1>3, <1>5, <1>6, <1>7, <2>0 DEF FilesTrue
    <2> QED
      BY <2>1 DEF FilesTrue, Unrecorded
  <1> QED
    BY <1>10, <1>11, <1>12, <1>13, <1>14, <1>15, <1>16 DEF WsInv

(* A row is inserted: its slug is free, its number was never used, and     *)
(* what it shares a directory with is noted.                               *)
LEMMA Inserting ==
  ASSUME WsInv, NEW r \in WsRequest, InsertWorkspace(r)
  PROVE  WsInv'
  <1> DEFINE p == wsReq[r]
             root == IF p.managed THEN p.slug ELSE Elsewhere
             row == [id |-> p.id, slug |-> p.slug, root |-> root]
  <1>1. p \in Creation /\ IsCreation(p) /\ ~IsKnown(p) /\ Reach(p) = {}
    <2>1. p \in Creation
      BY ReqIs DEF InsertWorkspace, IsCreation
    <2> QED
      BY <2>1, Kinds, ReachIs
  <1>2. /\ ~IsKnown(WsIdle) /\ ~IsCreation(WsIdle) /\ Reach(WsIdle) = {}
        /\ WsIdle.pc \notin {"record", "unlink"}
    <2>1. WsIdle.pc = "idle"
      BY DEF WsIdle
    <2> QED
      BY <2>1, Kinds, ReachIs
  <1>3. UNCHANGED <<wsDisk, wsFiles, wsMade, wsUploads, wsFailed>>
    BY DEF InsertWorkspace
  <1>4. wsUploads \in Nat
    BY DEF WsInv, WsTypes
  <1>5. CASE \E w \in wsRows : w.slug = p.slug
    <2>1. Goes(r, WsIdle) /\ UNCHANGED wsRows
      BY <1>5 DEF InsertWorkspace
    <2>2. HandsOn(r, WsIdle)
      BY <1>2, <1>3, <2>1 DEF HandsOn, Goes
    <2> QED
      BY <1>1, <1>2, <1>3, <1>4, <2>1, <2>2, QuietStep DEF IsCreation
  <1>6. CASE ~\E w \in wsRows : w.slug = p.slug
    <2>1. /\ wsRows' = wsRows \cup {row} /\ wsReq' = [wsReq EXCEPT ![r] = WsIdle]
          /\ wsRaced' = wsRaced \cup {x \in InHand(r) : x[1] = root}
                \cup (IF \E w \in wsRows : w.root = root THEN {root} \X WsPath ELSE {})
      BY <1>6 DEF InsertWorkspace
    <2>2. p.id \in Nat /\ p.slug \in Nat \ {0}
      BY <1>1 DEF Creation
    <2>3. p.id \in 1..wsMade /\ p.slug <= Cardinality(Done) + 1 /\ p.id \notin Done
      BY <1>1 DEF WsInv, Numbered, Done, Creating
    <2>4. p.slug \in Directory
      <3>1. /\ Cardinality(Done) + 1 <= wsMade /\ wsMade \in 0..MaxWorkspaces
            /\ Cardinality(Done) \in Nat
        BY <2>3, DoneIs
      <3> QED
        BY <2>2, <2>3, <3>1, WorkspacesAssumption DEF Directory
    <2>5. Elsewhere \in Directory
      BY WorkspacesAssumption DEF Elsewhere, Directory
    <2>6. root \in Directory /\ root \in {p.slug, Elsewhere}
      BY <2>4, <2>5
    <2> HIDE DEF root
    <2>7. /\ row \in [id : Nat, slug : Nat \ {0}, root : Directory]
          /\ row.id = p.id /\ row.slug = p.slug /\ row.root = root
      BY <2>2, <2>6
    <2> HIDE DEF row
    <2>8. /\ wsReq' \in [WsRequest -> {WsIdle} \cup Creation \cup Known] /\ wsReq'[r] = WsIdle
          /\ \A s \in WsRequest : s # r => wsReq'[s] = wsReq[s]
      BY <2>1, Turn
    <2>9. Numbered /\ RowsApart /\ RacesNoted /\ RootsTrue /\ InHandTrue /\ FilesTrue
      BY DEF WsInv
    <2>10. \A w \in wsRows : w.id # row.id /\ w.slug # row.slug
      BY <1>6, <2>3, <2>7, <2>9 DEF Numbered
    <2>11. \A s \in WsRequest : /\ Reach(wsReq'[s]) = Reach(wsReq[s])
                                /\ IsKnown(wsReq'[s]) => s # r /\ wsReq'[s] = wsReq[s]
                                                        /\ wsReq[s].id # row.id
      BY <1>1, <1>2, <2>3, <2>7, <2>8, <2>9 DEF Numbered
    <2>12. wsRaced \subseteq wsRaced'
      BY <2>1
    <2>13. Numbered'
      <3>1. WsIdle \in {WsIdle} \cup Creation \cup Known
        OBVIOUS
      <3>2. \A w \in wsRows' :
              \/ w \in wsRows
              \/ /\ IsCreation(p) /\ ~IsCreation(WsIdle)
                 /\ w.id = p.id /\ w.slug = p.slug
        BY <1>1, <1>2, <2>1, <2>7
      <3> QED
        BY <1>2, <1>3, <2>1, <3>1, <3>2, NumberedKept
    <2>14. WsTypes'
      BY <1>3, <2>1, <2>7, <2>8 DEF WsInv, WsTypes
    <2>15. RowsApart'
      BY <2>1, <2>6, <2>7, <2>9, <2>10 DEF RowsApart
    <2>16. RacesNoted'
      <3>1. \A s, t \in WsRequest : s # t =>
                Reach(wsReq'[s]) \cap Reach(wsReq'[t]) \subseteq wsRaced'
        BY <2>9, <2>11, <2>12 DEF RacesNoted
      <3>2. \A s \in WsRequest, w \in wsRows' :
              IsKnown(wsReq'[s]) /\ w.root = wsReq'[s].root /\ w.id # wsReq'[s].id
              => Reach(wsReq'[s]) \subseteq wsRaced'
        <4> SUFFICES ASSUME NEW s \in WsRequest, NEW w \in wsRows', IsKnown(wsReq'[s]),
                            w.root = wsReq'[s].root, w.id # wsReq'[s].id
                     PROVE  Reach(wsReq'[s]) \subseteq wsRaced'
          OBVIOUS
        <4>1. s # r /\ wsReq'[s] = wsReq[s]
          BY <2>11
        <4>2. CASE w \in wsRows
          BY <2>9, <2>12, <4>1, <4>2 DEF RacesNoted
        <4>3. CASE w = row
          <5>1. wsReq[s].root = root
            BY <2>7, <4>1, <4>3
          <5>2. Reach(wsReq[s]) \subseteq InHand(r)
            BY <4>1 DEF InHand
          <5>3. \A x \in Reach(wsReq[s]) : x[1] = root
            BY <4>1, <5>1, ReachIs DEF IsKnown
          <5> QED
            BY <2>1, <4>1, <5>2, <5>3
        <4> QED
          BY <2>1, <4>2, <4>3
      <3>3. \A v, w \in wsRows' : v # w /\ v.root = w.root
                => {w.root} \X WsPath \subseteq wsRaced'
        <4> SUFFICES ASSUME NEW v \in wsRows', NEW w \in wsRows', v # w, v.root = w.root
                     PROVE  {w.root} \X WsPath \subseteq wsRaced'
          OBVIOUS
        <4>1. CASE v \in wsRows /\ w \in wsRows
          BY <2>9, <2>12, <4>1 DEF RacesNoted
        <4>2. CASE v = row /\ w \in wsRows
          BY <2>1, <2>7, <4>2
        <4>3. CASE w = row /\ v \in wsRows
          BY <2>1, <2>7, <4>3
        <4> QED
          BY <2>1, <4>1, <4>2, <4>3
      <3> QED
        BY <3>1, <3>2, <3>3 DEF RacesNoted, Reach, IsKnown
    <2>17. RootsTrue'
      <3>1. \A s \in WsRequest, w \in wsRows' : IsKnown(wsReq'[s]) /\ w.id = wsReq'[s].id =>
              wsReq'[s].root = w.root /\ wsReq'[s].pc # "purge"
        BY <2>1, <2>9, <2>11 DEF RootsTrue
      <3> QED
        BY <3>1 DEF RootsTrue, IsKnown
    <2>18. InHandTrue'
      <3>1. \A s \in WsRequest : wsReq'[s].pc \in {"record", "unlink"} => wsReq'[s] = wsReq[s]
        BY <1>2, <2>8
      <3> QED
        BY <1>3, <2>9, <2>12, <3>1 DEF InHandTrue, FileRow
    <2>19. FilesTrue'
      <3>0. \A s \in WsRequest : Unrecorded(wsReq[s]) = Unrecorded(wsReq'[s])
        <4>1. p.pc # "record"
          BY <1>1 DEF IsCreation
        <4> QED
          BY <1>2, <2>8, <4>1 DEF Unrecorded
      <3>1. \A f \in wsFiles' : \E w \in wsRows' :
              /\ w.id = f.ws
              /\ \/ <<w.root, f.path>> \in wsRaced'
                 \/ \E s \in WsRequest : <<w.root, f.path>> \in Unrecorded(wsReq'[s])
                 \/ wsDisk'[w.root][f.path] \in {f.content} \cup wsFailed'
        BY <1>3, <2>1, <2>9, <2>12, <3>0 DEF FilesTrue
      <3> QED
        BY <3>1 DEF FilesTrue, Unrecorded
    <2> QED
      BY <2>13, <2>14, <2>15, <2>16, <2>17, <2>18, <2>19 DEF WsInv
  <1> QED
    BY <1>5, <1>6

(* Sessions and meetings are not in the invariant.                         *)
LEMMA RowsRest ==
  ASSUME WsInv, UNCHANGED rowsRest
  PROVE  WsInv'
  <1>1. UNCHANGED <<wsRows, wsDisk, wsFiles, wsReq, wsMade, wsUploads, wsRaced, wsFailed>>
    BY DEF rowsRest
  <1>2. WsTypes' /\ RowsApart' /\ FilesTrue'
    BY <1>1 DEF WsInv, WsTypes, RowsApart, FilesTrue, Reach
  <1>3. Numbered'
    <2>1. Done' = Done
      BY <1>1 DEF Done, Creating, IsCreation
    <2> QED
      BY <1>1, <2>1 DEF WsInv, Numbered, IsCreation, IsKnown
  <1>4. RacesNoted'
    BY <1>1 DEF WsInv, RacesNoted, IsKnown, Reach
  <1>5. RootsTrue'
    BY <1>1 DEF WsInv, RootsTrue, IsKnown
  <1>6. InHandTrue'
    BY <1>1 DEF WsInv, InHandTrue, FileRow
  <1> QED
    BY <1>2, <1>3, <1>4, <1>5, <1>6 DEF WsInv

(* The invariant survives every step.                                      *)
LEMMA WsStep ==
  ASSUME WsInv, [WorkspacesNext]_workspacesVars
  PROVE  WsInv'
  <1>1. ASSUME NEW r \in WsRequest, NEW managed \in BOOLEAN, CreateStarts(r, managed)
        PROVE  WsInv'
    BY <1>1, Starting
  <1>2. ASSUME NEW r \in WsRequest, LookUpSlug(r) PROVE WsInv'
    BY <1>2, Looking
  <1>3. ASSUME NEW r \in WsRequest, InsertWorkspace(r) PROVE WsInv'
    BY <1>3, Inserting
  <1>4. ASSUME NEW r \in WsRequest, DropWorkspace(r) PROVE WsInv'
    BY <1>4, Dropping
  <1>5. ASSUME NEW r \in WsRequest, NEW ok \in BOOLEAN, PurgeDirectory(r, ok) PROVE WsInv'
    BY <1>5, Purging
  <1>6. ASSUME NEW r \in WsRequest, NEW w \in wsRows, DeleteStarts(r, w.id) PROVE WsInv'
    BY <1>6, Deleting
  <1>7. ASSUME NEW r \in WsRequest, NEW w \in wsRows, NEW path \in WsPath,
               UploadStarts(r, w.id, path)
        PROVE  WsInv'
    BY <1>7, Uploading
  <1>8. ASSUME NEW r \in WsRequest, NEW w \in wsRows, NEW path \in WsPath,
               DeleteFileRow(r, w.id, path)
        PROVE  WsInv'
    BY <1>8, Removing
  <1>9. ASSUME NEW r \in WsRequest, WriteFile(r) PROVE WsInv'
    BY <1>9, Writing
  <1>10. ASSUME NEW r \in WsRequest, UpsertFileRow(r) PROVE WsInv'
    BY <1>10, Recording
  <1>11. ASSUME NEW r \in WsRequest, UnlinkFile(r) PROVE WsInv'
    BY <1>11, Unlinking
  <1>17. ASSUME NEW r \in WsRequest, RequestFails(r) PROVE WsInv'
    BY <1>17, Failing
  <1>12. ASSUME NEW s \in WsSession, NEW id, AssignSession(s, id) PROVE WsInv'
    BY <1>12, RowsRest DEF AssignSession
  <1>13. ASSUME NEW id, OpenMeeting(id) PROVE WsInv'
    BY <1>13, RowsRest DEF OpenMeeting
  <1>14. ASSUME NEW m, PostMessage(m) PROVE WsInv'
    BY <1>14, RowsRest DEF PostMessage
  <1>15. ASSUME NEW m, CloseMeeting(m) PROVE WsInv'
    BY <1>15, RowsRest DEF CloseMeeting
  <1>16. ASSUME UNCHANGED workspacesVars PROVE WsInv'
    BY <1>16, RowsRest DEF workspacesVars, metaVars, rowsRest
  <1> QED
    BY <1>1, <1>2, <1>3, <1>4, <1>5, <1>6, <1>7, <1>8, <1>9, <1>10, <1>11, <1>12, <1>13,
       <1>14, <1>15, <1>16, <1>17 DEF WorkspacesNext

(* The invariant says what FilesMatchRows says: a number identifies a row, *)
(* so the root of the workspace is that of the row.                        *)
LEMMA WsShows == WsInv => FilesMatchRows
  <1> SUFFICES ASSUME WsInv PROVE FilesMatchRows
    OBVIOUS
  <1>1. RowsApart /\ FilesTrue
    BY DEF WsInv
  <1>2. ASSUME NEW w \in wsRows PROVE RootOf(w.id) = w.root
    <2>1. (CHOOSE v \in wsRows : v.id = w.id) = w
      BY <1>1 DEF RowsApart
    <2> QED
      BY <2>1 DEF RootOf
  <1>3. \A f \in wsFiles : RowOf(f.ws) # {}
    BY <1>1 DEF FilesTrue, RowOf
  <1>4. \A f \in wsFiles :
          <<RootOf(f.ws), f.path>> \notin wsRaced
                                              \cup UNION {Reach(wsReq[r]) : r \in WsRequest}
          => wsDisk[RootOf(f.ws)][f.path] \in {f.content} \cup wsFailed
    <2> SUFFICES ASSUME NEW f \in wsFiles,
                        <<RootOf(f.ws), f.path>> \notin wsRaced,
                        \A r \in WsRequest : <<RootOf(f.ws), f.path>> \notin Reach(wsReq[r])
                 PROVE  wsDisk[RootOf(f.ws)][f.path] \in {f.content} \cup wsFailed
      OBVIOUS
    <2>1. PICK w \in wsRows :
            /\ w.id = f.ws
            /\ \/ <<w.root, f.path>> \in wsRaced
               \/ \E r \in WsRequest : <<w.root, f.path>> \in Unrecorded(wsReq[r])
               \/ wsDisk[w.root][f.path] \in {f.content} \cup wsFailed
      BY <1>1 DEF FilesTrue
    <2>2. RootOf(f.ws) = w.root
      BY <1>2, <2>1
    <2>3. \A r \in WsRequest : Unrecorded(wsReq[r]) \subseteq Reach(wsReq[r])
      BY ReachIs DEF Unrecorded
    <2> QED
      BY <2>1, <2>2, <2>3
  <1>5. \A v, w \in wsRows : v # w =>
          v.slug # w.slug /\ (v.root = w.root => v.root = Elsewhere)
    BY <1>1 DEF RowsApart
  <1> QED
    BY <1>3, <1>4, <1>5 DEF FilesMatchRows

(* However requests about workspaces and their files overlap, a listed     *)
(* file that no request has in hand has the bytes its row describes, or    *)
(* those of an upload that failed after them, unless its place was raced;  *)
(* its workspace has its row, and no two workspaces share a slug or a      *)
(* directory of their own, wherever requests end (create_workspace,        *)
(* delete_workspace, upload_workspace_file and delete_workspace_file of      *)
(* workspaces.rs).                                                         *)
THEOREM FilesMatchRowsHolds == WorkspacesSpec => []FilesMatchRows
  <1>1. WorkspacesInit => WsInv
    BY WsStarts
  <1>2. WsInv /\ [WorkspacesNext]_workspacesVars => WsInv'
    BY WsStep
  <1>3. WsInv => FilesMatchRows
    BY WsShows
  <1> QED
    BY <1>1, <1>2, <1>3, PTL DEF WorkspacesSpec

-----------------------------------------------------------------------------
(* Schedules                                                               *)

(* Rows as they are stored, and entries as the scheduler has read them.    *)
Rows == [cron : Nat, enabled : BOOLEAN, there : BOOLEAN, next : Int]
Entries == [s : Nat, cron : Nat, slot : Int]

AutoTypes ==
  /\ time \in Nat /\ schedules \in Seq(Rows)
  /\ due \in Seq(Entries) /\ started \in Seq(Entries)
  /\ ranNow \in Seq(Entries) /\ Len(ranNow) <= 1
(* The scheduler has a schedule in hand once.                              *)
HeldOnce ==
  /\ \A i \in DOMAIN due : due[i].s \in DOMAIN schedules
  /\ \A i, j \in DOMAIN due : due[i].s = due[j].s => i = j
  /\ ranNow # << >> => /\ ranNow[1].s \in DOMAIN schedules
                       /\ \A i \in DOMAIN due : due[i].s # ranNow[1].s
(* What the scheduler read of a schedule nobody touched is still so.        *)
AsRead ==
  /\ \A i \in DOMAIN due :
       /\ due[i].slot <= time /\ due[i].slot # Null
       /\ due[i].s \notin overtaken => /\ due[i].cron = schedules[due[i].s].cron
                                       /\ due[i].slot = schedules[due[i].s].next
  /\ ranNow # << >> /\ ranNow[1].s \notin overtaken =>
       ranNow[1].cron = schedules[ranNow[1].s].cron
(* A next time is one of the expression.                                   *)
NextIsOwn ==
  \A s \in DOMAIN schedules \ overtaken :
    IF schedules[s].cron = Past THEN schedules[s].next \in {Null, Empty}
    ELSE FiresAt(schedules[s].cron, schedules[s].next)
(* A schedule that is not just being run is ahead of all its runs.          *)
RunsBehind ==
  /\ \A i \in DOMAIN started :
       started[i].s \in DOMAIN schedules /\ started[i].slot <= time
  /\ \A s \in DOMAIN schedules \ overtaken :
       schedules[s].next \in Nat /\ (ranNow # << >> => ranNow[1].s # s) =>
         \A i \in DOMAIN started : started[i].s = s => started[i].slot < schedules[s].next
(* The runs of a schedule were for different times, its own.               *)
SlotsOnce ==
  /\ \A i, j \in DOMAIN started :
       i # j /\ started[i].s = started[j].s /\ started[i].s \notin overtaken
         => started[i].slot # started[j].slot \/ started[i].slot = Empty
  /\ \A i \in DOMAIN started : started[i].s \notin overtaken =>
       started[i].slot = Empty \/ FiresAt(started[i].cron, started[i].slot)
(* The invariant.                                                          *)
AutoInv == AutoTypes /\ HeldOnce /\ AsRead /\ NextIsOwn /\ RunsBehind /\ SlotsOnce

(* The next time of an expression is after now, and one of its own.        *)
LEMMA NextRunIs ==
  ASSUME NEW c \in Nat, NEW t \in Nat
  PROVE  /\ c = Past => NextRun(c, t) = Null
         /\ c # Past => NextRun(c, t) \in Nat /\ NextRun(c, t) > t /\ FiresAt(c, NextRun(c, t))
  <1>1. CASE c = Past
    BY <1>1 DEF NextRun
  <1>2. CASE c # Past
    <2> DEFINE q == t \div c + 1
    <2>1. c \in Nat \ {0}
      BY <1>2 DEF Past
    <2>2. q \in Nat /\ q * c > t
      BY <2>1
    <2> HIDE DEF q
    <2>3. (q * c) % c = 0 /\ q * c \in Nat
      BY <2>1, <2>2
    <2>4. NextRun(c, t) = q * c
      BY <1>2 DEF NextRun, q
    <2> QED
      BY <1>2, <2>2, <2>3, <2>4 DEF FiresAt
  <1> QED
    BY <1>1, <1>2

(* What the scheduler has in hand.                                         *)
LEMMA TakenIs ==
  ASSUME AutoTypes, NEW s
  PROVE  /\ s \in Taken <=> \/ \E i \in DOMAIN due : due[i].s = s
                            \/ ranNow # << >> /\ ranNow[1].s = s
         /\ ranNow # << >> => 1 \in DOMAIN ranNow /\ ranNow[1] \in Entries
  <1>1. ranNow \in Seq(Entries) /\ Len(ranNow) \in {0, 1}
    <2>1. ranNow \in Seq(Entries) /\ Len(ranNow) <= 1
      BY DEF AutoTypes
    <2>2. Len(ranNow) \in Nat
      BY <2>1
    <2>3. \A n \in Nat : n <= 1 => n \in {0, 1}
      OBVIOUS
    <2> QED
      BY <2>1, <2>2, <2>3
  <1>2. ranNow # << >> => DOMAIN ranNow = {1}
    BY <1>1
  <1>3. ranNow = << >> => DOMAIN ranNow = {}
    BY <1>1
  <1>4. s \in Taken <=> \/ \E i \in DOMAIN due : due[i].s = s
                        \/ \E i \in DOMAIN ranNow : ranNow[i].s = s
    BY DEF Taken, ToSet
  <1>5. ranNow # << >> => 1 \in DOMAIN ranNow /\ ranNow[1] \in Entries
    BY <1>1, <1>2
  <1> QED
    BY <1>2, <1>3, <1>4, <1>5

(* There is no schedule yet.                                               *)
LEMMA AutoStarts == AutomationInit => AutoInv
  <1> SUFFICES ASSUME AutomationInit PROVE AutoInv
    OBVIOUS
  <1>1. /\ time = 0 /\ schedules = << >> /\ due = << >> /\ ranNow = << >> /\ started = << >>
        /\ DOMAIN schedules = {} /\ DOMAIN due = {} /\ DOMAIN started = {} /\ Len(ranNow) = 0
    BY DEF AutomationInit
  <1>2. AutoTypes
    BY <1>1 DEF AutoTypes
  <1> QED
    BY <1>1, <1>2 DEF AutoInv, HeldOnce, AsRead, NextIsOwn, RunsBehind, SlotsOnce

(* Time passes, or nothing the invariant looks at changes.                 *)
LEMMA Waits ==
  ASSUME AutoInv, UNCHANGED <<schedules, due, ranNow, started, overtaken>>,
         time' \in Nat, time' >= time
  PROVE  AutoInv'
  <1>0. /\ \A i \in DOMAIN due : due[i].slot \in Int
        /\ \A i \in DOMAIN started : started[i].slot \in Int
        /\ time \in Nat
    <2>1. /\ \A i \in DOMAIN due : due[i] \in Entries
          /\ \A i \in DOMAIN started : started[i] \in Entries
          /\ time \in Nat
      BY DEF AutoInv, AutoTypes
    <2>2. \A e \in Entries : e.slot \in Int
      BY DEF Entries
    <2> QED
      BY <2>1, <2>2
  <1>1. AutoTypes'
    BY DEF AutoInv, AutoTypes
  <1>2. HeldOnce'
    BY DEF AutoInv, HeldOnce
  <1>3. AsRead'
    BY <1>0 DEF AutoInv, AsRead
  <1>4. NextIsOwn'
    BY DEF AutoInv, NextIsOwn
  <1>5. RunsBehind'
    BY <1>0 DEF AutoInv, RunsBehind
  <1>6. SlotsOnce'
    BY DEF AutoInv, SlotsOnce
  <1> QED
    BY <1>1, <1>2, <1>3, <1>4, <1>5, <1>6 DEF AutoInv

(* A new schedule: nobody has run it, and its next time is one of its own.  *)
LEMMA Creates ==
  ASSUME AutoInv, NEW cron \in Interval \cup {Past}, NEW on \in BOOLEAN,
         CreateSchedule(cron, on)
  PROVE  AutoInv'
  <1> DEFINE x == [cron |-> cron, enabled |-> on, there |-> TRUE, next |-> NextRun(cron, time)]
             n == Len(schedules) + 1
  <1>1. /\ schedules' = Append(schedules, x)
        /\ UNCHANGED <<time, due, ranNow, started, overtaken>>
    BY DEF CreateSchedule, tickVars, autoHist
  <1>2. time \in Nat /\ cron \in Nat /\ schedules \in Seq(Rows)
    BY AutomationAssumption DEF AutoInv, AutoTypes, Past
  <1>3. /\ cron = Past => NextRun(cron, time) = Null
        /\ cron # Past => NextRun(cron, time) \in Nat /\ FiresAt(cron, NextRun(cron, time))
    BY <1>2, NextRunIs
  <1>4. x \in Rows /\ x.cron = cron /\ x.next = NextRun(cron, time)
    BY <1>2, <1>3 DEF Rows, Null
  <1> HIDE DEF x
  <1>5. /\ schedules' \in Seq(Rows) /\ Len(schedules) \in Nat
        /\ DOMAIN schedules = 1..Len(schedules) /\ DOMAIN schedules' = 1..n
        /\ \A s \in DOMAIN schedules : schedules'[s] = schedules[s]
        /\ schedules'[n] = x
    BY <1>1, <1>2, <1>4
  <1>6. /\ n \notin DOMAIN schedules /\ DOMAIN schedules \subseteq DOMAIN schedules'
        /\ \A s \in DOMAIN schedules' : s \in DOMAIN schedules \/ s = n
    BY <1>5
  <1> HIDE DEF n
  <1>7. AutoTypes'
    BY <1>1, <1>5 DEF AutoInv, AutoTypes
  <1>8. HeldOnce'
    BY <1>1, <1>6 DEF AutoInv, HeldOnce
  <1>9. AsRead'
    BY <1>1, <1>5 DEF AutoInv, HeldOnce, AsRead
  <1>10. NextIsOwn'
    <2> SUFFICES ASSUME NEW s \in DOMAIN schedules' \ overtaken
                 PROVE  IF schedules'[s].cron = Past THEN schedules'[s].next \in {Null, Empty}
                        ELSE FiresAt(schedules'[s].cron, schedules'[s].next)
      BY <1>1 DEF NextIsOwn
    <2>1. CASE s = n
      BY <1>3, <1>4, <1>5, <2>1
    <2>2. CASE s \in DOMAIN schedules
      BY <1>5, <2>2 DEF AutoInv, NextIsOwn
    <2> QED
      BY <1>6, <2>1, <2>2
  <1>11. RunsBehind'
    <2>1. \A i \in DOMAIN started : started[i].s \in DOMAIN schedules /\ started[i].s # n
      BY <1>6 DEF AutoInv, RunsBehind
    <2>2. ASSUME NEW s \in DOMAIN schedules' \ overtaken, schedules'[s].next \in Nat,
                 ranNow # << >> => ranNow[1].s # s, NEW i \in DOMAIN started, started[i].s = s
          PROVE  started[i].slot < schedules'[s].next
      <3>1. s \in DOMAIN schedules /\ schedules'[s] = schedules[s]
        BY <1>5, <2>1, <2>2
      <3> QED
        BY <2>2, <3>1 DEF AutoInv, RunsBehind
    <2> QED
      BY <1>1, <1>6, <2>1, <2>2 DEF AutoInv, RunsBehind
  <1>12. SlotsOnce'
    BY <1>1 DEF AutoInv, SlotsOnce
  <1> QED
    BY <1>7, <1>8, <1>9, <1>10, <1>11, <1>12 DEF AutoInv

(* A row is edited: the next time of one nobody has in hand stays its own.  *)
LEMMA Edits ==
  ASSUME AutoInv, NEW s \in DOMAIN schedules, Edited(s), NEW x \in Rows,
         schedules' = [schedules EXCEPT ![s] = x],
         s \notin overtaken \cup Taken =>
           /\ IF x.cron = Past THEN x.next \in {Null, Empty} ELSE FiresAt(x.cron, x.next)
           /\ x.next \in Nat =>
                \A i \in DOMAIN started : started[i].s = s => started[i].slot < x.next
  PROVE  AutoInv'
  <1>1. /\ UNCHANGED <<time, due, ranNow, started>>
        /\ overtaken' = IF s \in Taken THEN overtaken \cup {s} ELSE overtaken
    BY DEF Edited, tickVars
  <1>2. /\ overtaken \subseteq overtaken'
        /\ s \notin overtaken' => s \notin overtaken \cup Taken
    BY <1>1
  <1>3. /\ schedules' \in Seq(Rows) /\ DOMAIN schedules' = DOMAIN schedules
        /\ schedules'[s] = x
        /\ \A u \in DOMAIN schedules : u # s => schedules'[u] = schedules[u]
    BY SeqUpdated DEF AutoInv, AutoTypes
  <1>4. AutoTypes'
    BY <1>1, <1>3 DEF AutoInv, AutoTypes
  <1>5. HeldOnce'
    BY <1>1, <1>3 DEF AutoInv, HeldOnce
  <1>6. AsRead'
    <2>1. \A i \in DOMAIN due : due[i].s \notin overtaken' =>
            due[i].s # s /\ schedules'[due[i].s] = schedules[due[i].s]
      BY <1>2, <1>3, TakenIs DEF AutoInv, HeldOnce
    <2>2. ranNow # << >> /\ ranNow[1].s \notin overtaken' =>
            ranNow[1].s # s /\ schedules'[ranNow[1].s] = schedules[ranNow[1].s]
      BY <1>2, <1>3, TakenIs DEF AutoInv, HeldOnce
    <2>3. \A u : u \notin overtaken' => u \notin overtaken
      BY <1>2
    <2> QED
      BY <1>1, <2>1, <2>2, <2>3 DEF AutoInv, AsRead
  <1>7. NextIsOwn'
    BY <1>2, <1>3 DEF AutoInv, NextIsOwn
  <1>8. RunsBehind'
    <2>1. ASSUME NEW u \in DOMAIN schedules \ overtaken', schedules'[u].next \in Nat,
                 ranNow # << >> => ranNow[1].s # u, NEW i \in DOMAIN started, started[i].s = u
          PROVE  started[i].slot < schedules'[u].next
      <3>1. CASE u = s
        BY <1>2, <1>3, <2>1, <3>1
      <3>2. CASE u # s
        BY <1>2, <1>3, <2>1, <3>2 DEF AutoInv, RunsBehind
      <3> QED
        BY <3>1, <3>2
    <2> QED
      BY <1>1, <1>3, <2>1 DEF AutoInv, RunsBehind
  <1>9. SlotsOnce'
    BY <1>1, <1>2 DEF AutoInv, SlotsOnce
  <1> QED
    BY <1>4, <1>5, <1>6, <1>7, <1>8, <1>9 DEF AutoInv

(* A new expression: its next time is after all runs there were.           *)
LEMMA CronEdits ==
  ASSUME AutoInv, NEW s \in DOMAIN schedules, NEW cron \in Interval \cup {Past},
         UpdateCron(s, cron)
  PROVE  AutoInv'
  <1> DEFINE next == IF NextRun(cron, time) = Null THEN Empty ELSE NextRun(cron, time)
             x == [cron |-> cron, enabled |-> schedules[s].enabled,
                   there |-> schedules[s].there, next |-> next]
  <1>1. /\ time \in Nat /\ cron \in Nat /\ schedules[s] \in Rows
    BY AutomationAssumption DEF AutoInv, AutoTypes, Past
  <1>2. /\ cron = Past => NextRun(cron, time) = Null
        /\ cron # Past => /\ NextRun(cron, time) \in Nat /\ NextRun(cron, time) > time
                          /\ FiresAt(cron, NextRun(cron, time))
    BY <1>1, NextRunIs
  <1>3. /\ cron = Past => next = Empty
        /\ cron # Past => next \in Nat /\ next > time /\ FiresAt(cron, next)
    BY <1>2 DEF Null
  <1>4. schedules' = [schedules EXCEPT ![s].cron = cron, ![s].next = next] /\ Edited(s)
    BY DEF UpdateCron
  <1> HIDE DEF next
  <1>5. x \in Rows /\ x.cron = cron /\ x.next = next
    <2>1. next \in Int
      BY <1>3 DEF Empty
    <2> QED
      BY <1>1, <2>1 DEF Rows
  <1>6. schedules' = [schedules EXCEPT ![s] = x]
    <2> DEFINE a == [schedules[s] EXCEPT !.cron = cron]
               f == [schedules EXCEPT ![s] = a]
    <2>1. f = [schedules EXCEPT ![s].cron = cron]
      OBVIOUS
    <2>2. schedules' = [f EXCEPT ![s].next = next]
      BY <1>4, <2>1
    <2>3. f[s] = a
      OBVIOUS
    <2>4. [a EXCEPT !.next = next] = x
      <3>1. schedules[s] = [cron |-> schedules[s].cron, enabled |-> schedules[s].enabled,
                            there |-> schedules[s].there, next |-> schedules[s].next]
        BY <1>1 DEF Rows
      <3>2. \A c, e, t, n : [[cron |-> c, enabled |-> e, there |-> t, next |-> n]
                               EXCEPT !.cron = cron]
                            = [cron |-> cron, enabled |-> e, there |-> t, next |-> n]
        OBVIOUS
      <3>3. \A c, e, t, n : [[cron |-> c, enabled |-> e, there |-> t, next |-> n]
                               EXCEPT !.next = next]
                            = [cron |-> c, enabled |-> e, there |-> t, next |-> next]
        OBVIOUS
      <3>4. a = [cron |-> cron, enabled |-> schedules[s].enabled,
                 there |-> schedules[s].there, next |-> schedules[s].next]
        <4> DEFINE c == schedules[s].cron
                   e == schedules[s].enabled
                   t == schedules[s].there
                   n == schedules[s].next
        <4> HIDE DEF c, e, t, n
        <4>1. schedules[s] = [cron |-> c, enabled |-> e, there |-> t, next |-> n]
          BY <3>1 DEF c, e, t, n
        <4>2. a = [cron |-> cron, enabled |-> e, there |-> t, next |-> n]
          BY <3>2, <4>1
        <4> QED
          BY <4>2 DEF c, e, t, n
      <3> HIDE DEF a
      <3> QED
        BY <3>3, <3>4 DEF x
    <2> HIDE DEF a
    <2>5. [f EXCEPT ![s].next = next] = [f EXCEPT ![s] = x]
      BY <2>3, <2>4
    <2>6. [f EXCEPT ![s] = x] = [schedules EXCEPT ![s] = x]
      OBVIOUS
    <2> QED
      BY <2>2, <2>5, <2>6
  <1> HIDE DEF x
  <1>7. ASSUME NEW i \in DOMAIN started, next \in Nat PROVE started[i].slot < next
    <2>1. started[i].slot <= time /\ started[i] \in Entries
      BY DEF AutoInv, AutoTypes, RunsBehind
    <2>2. started[i].slot \in Int
      BY <2>1 DEF Entries
    <2>3. next > time
      BY <1>3, <1>7 DEF Empty
    <2> QED
      BY <1>1, <1>7, <2>1, <2>2, <2>3
  <1> QED
    BY <1>3, <1>4, <1>5, <1>6, <1>7, Edits

(* Edits that leave the expression and the next time alone.                *)
LEMMA FlagEdits ==
  ASSUME AutoInv, NEW s \in DOMAIN schedules, NEW x \in Rows, Edited(s),
         schedules' = [schedules EXCEPT ![s] = x],
         x.cron = schedules[s].cron, x.next = schedules[s].next
  PROVE  AutoInv'
  <1>1. s \notin Taken => (ranNow # << >> => ranNow[1].s # s)
    BY TakenIs DEF AutoInv
  <1>2. s \notin overtaken \cup Taken =>
          /\ IF x.cron = Past THEN x.next \in {Null, Empty} ELSE FiresAt(x.cron, x.next)
          /\ x.next \in Nat =>
               \A i \in DOMAIN started : started[i].s = s => started[i].slot < x.next
    BY <1>1 DEF AutoInv, NextIsOwn, RunsBehind
  <1> QED
    BY <1>2, Edits

(* A schedule is turned on or off.                                         *)
LEMMA EnabledEdits ==
  ASSUME AutoInv, NEW s \in DOMAIN schedules, NEW on \in BOOLEAN, UpdateEnabled(s, on)
  PROVE  AutoInv'
  <1> DEFINE x == [schedules[s] EXCEPT !.enabled = on]
  <1>1. schedules[s] \in Rows
    BY DEF AutoInv, AutoTypes
  <1>2. x \in Rows /\ x.cron = schedules[s].cron /\ x.next = schedules[s].next
    BY <1>1 DEF Rows
  <1>3. schedules' = [schedules EXCEPT ![s] = x] /\ Edited(s)
    BY DEF UpdateEnabled
  <1> QED
    BY <1>2, <1>3, FlagEdits

(* A schedule is deleted.                                                  *)
LEMMA Deletes ==
  ASSUME AutoInv, NEW s \in DOMAIN schedules, DeleteSchedule(s)
  PROVE  AutoInv'
  <1> DEFINE x == [schedules[s] EXCEPT !.there = FALSE]
  <1>1. schedules[s] \in Rows
    BY DEF AutoInv, AutoTypes
  <1>2. x \in Rows /\ x.cron = schedules[s].cron /\ x.next = schedules[s].next
    BY <1>1 DEF Rows
  <1>3. schedules' = [schedules EXCEPT ![s] = x] /\ Edited(s)
    BY DEF DeleteSchedule
  <1> QED
    BY <1>2, <1>3, FlagEdits

(* The due schedules are read, each once and as it is.                     *)
LEMMA ReadsDue == ASSUME AutoInv, TickReads PROVE AutoInv'
  <1>1. PICK n \in 1..Len(schedules) : \E q \in [1..n -> {s \in DOMAIN schedules : IsDue(s)}] :
          /\ \A i, j \in 1..n : i < j => q[i] # q[j]
          /\ due' = [i \in 1..n |-> Entry(q[i])]
    BY DEF TickReads
  <1>2. PICK q \in [1..n -> {s \in DOMAIN schedules : IsDue(s)}] :
          /\ \A i, j \in 1..n : i < j => q[i] # q[j]
          /\ due' = [i \in 1..n |-> Entry(q[i])]
    BY <1>1
  <1>3. /\ due = << >> /\ ranNow = << >>
        /\ UNCHANGED <<time, schedules, ranNow, started, overtaken>>
    BY DEF TickReads, autoHist
  <1>4. schedules \in Seq(Rows) /\ Len(schedules) \in Nat /\ n \in Nat
    BY DEF AutoInv, AutoTypes
  <1>5. ASSUME NEW i \in 1..n
        PROVE  /\ q[i] \in DOMAIN schedules /\ IsDue(q[i]) /\ due'[i] = Entry(q[i])
               /\ due'[i] \in Entries /\ due'[i].s = q[i]
               /\ due'[i].cron = schedules[q[i]].cron
               /\ due'[i].slot = schedules[q[i]].next
               /\ due'[i].slot <= time /\ due'[i].slot # Null
    <2>1. q[i] \in DOMAIN schedules /\ IsDue(q[i]) /\ due'[i] = Entry(q[i])
      BY <1>2
    <2>2. schedules[q[i]] \in Rows /\ q[i] \in Nat
      BY <1>4, <2>1
    <2>3. schedules[q[i]].cron \in Nat /\ schedules[q[i]].next \in Int
      BY <2>2 DEF Rows
    <2>4. Entry(q[i]) \in Entries
      BY <2>2, <2>3 DEF Entry, Entries
    <2>5. /\ Entry(q[i]).s = q[i] /\ Entry(q[i]).cron = schedules[q[i]].cron
          /\ Entry(q[i]).slot = schedules[q[i]].next
      BY DEF Entry
    <2> QED
      BY <2>1, <2>4, <2>5 DEF IsDue
  <1>6. due' \in Seq(Entries) /\ DOMAIN due' = 1..n
    <2>1. due' \in [1..n -> Entries]
      BY <1>2, <1>5
    <2> QED
      BY <1>4, <2>1, SeqIs
  <1>7. AutoTypes'
    BY <1>3, <1>6 DEF AutoInv, AutoTypes
  <1>8. HeldOnce'
    <2>1. \A i, j \in 1..n : due'[i].s = due'[j].s => i = j
      <3>1. \A i, j \in 1..n : i < j \/ j < i \/ i = j
        BY <1>4
      <3> QED
        BY <1>2, <1>5, <3>1
    <2> QED
      BY <1>3, <1>5, <1>6, <2>1 DEF HeldOnce
  <1>9. AsRead'
    BY <1>3, <1>5, <1>6 DEF AsRead
  <1>10. NextIsOwn'
    BY <1>3 DEF AutoInv, NextIsOwn
  <1>11. RunsBehind'
    BY <1>3 DEF AutoInv, RunsBehind
  <1>12. SlotsOnce'
    BY <1>3 DEF AutoInv, SlotsOnce
  <1> QED
    BY <1>7, <1>8, <1>9, <1>10, <1>11, <1>12 DEF AutoInv

(* What the scheduler runs next is ahead of every run of it.                *)
LEMMA Runs ==
  ASSUME AutoInv, NEW o \in {"missing", "started", "unstored"}, TickRuns(o)
  PROVE  AutoInv'
  <1> DEFINE d == Head(due)
  <1>1. /\ due # << >> /\ ranNow = << >> /\ due' = Tail(due) /\ ranNow' = <<d>>
        /\ started' = IF o = "started" THEN Append(started, d) ELSE started
        /\ UNCHANGED <<time, schedules, overtaken>>
    BY DEF TickRuns
  <1>2. /\ due \in Seq(Entries) /\ started \in Seq(Entries) /\ Len(started) \in Nat
        /\ schedules \in Seq(Rows) /\ time \in Nat
    <2>1. due \in Seq(Entries) /\ started \in Seq(Entries)
      BY DEF AutoInv, AutoTypes
    <2>2. schedules \in Seq(Rows) /\ time \in Nat
      BY DEF AutoInv, AutoTypes
    <2>3. Len(started) \in Nat
      BY <2>1
    <2> QED
      BY <2>1, <2>2, <2>3
  <1>3. /\ 1 \in DOMAIN due /\ d = due[1] /\ d \in Entries
        /\ due' \in Seq(Entries) /\ DOMAIN due' = 1..Len(due) - 1
        /\ DOMAIN due = 1..Len(due) /\ Len(due) \in Nat
        /\ \A i \in DOMAIN due' : i + 1 \in DOMAIN due /\ i + 1 # 1 /\ due'[i] = due[i + 1]
    <2>1. /\ Len(due) \in Nat \ {0} /\ d = due[1] /\ DOMAIN due = 1..Len(due)
          /\ due' \in Seq(Entries) /\ Len(due') = Len(due) - 1
          /\ \A k \in 1..Len(due) - 1 : due'[k] = due[k + 1]
      BY <1>1, <1>2, TailOf
    <2>2. DOMAIN due' = 1..Len(due')
      BY <2>1
    <2>3. 1 \in DOMAIN due
      BY <2>1
    <2>4. d \in Entries
      BY <1>2, <2>1, <2>3
    <2>5. \A i \in 1..Len(due) - 1 : i + 1 \in 1..Len(due) /\ i + 1 # 1
      BY <2>1
    <2> HIDE DEF d
    <2> QED
      BY <2>1, <2>2, <2>3, <2>4, <2>5
  <1>4. /\ ranNow' \in Seq(Entries) /\ Len(ranNow') = 1 /\ ranNow' # << >> /\ ranNow'[1] = d
    <2>1. \A e \in Entries : /\ <<e>> \in Seq(Entries) /\ Len(<<e>>) = 1 /\ <<e>> # << >>
                             /\ <<e>>[1] = e
      OBVIOUS
    <2> HIDE DEF d
    <2> QED
      BY <1>1, <1>3, <2>1
  <1> HIDE DEF d
  <1>5. /\ d.s \in DOMAIN schedules /\ d.slot <= time /\ d.slot # Null
        /\ d.s \notin overtaken => /\ d.cron = schedules[d.s].cron
                                   /\ d.slot = schedules[d.s].next
    BY <1>3 DEF AutoInv, HeldOnce, AsRead
  <1>6. /\ started' \in Seq(Entries) /\ DOMAIN started \subseteq DOMAIN started'
        /\ \A i \in DOMAIN started : started'[i] = started[i]
        /\ \A i \in DOMAIN started' : i \in DOMAIN started \/ started'[i] = d
        /\ \A i, j \in DOMAIN started' : i \in DOMAIN started \/ j \in DOMAIN started \/ i = j
    <2>1. CASE o = "started"
      <3>1. started' = Append(started, d)
        BY <1>1, <2>1
      <3> QED
        BY <1>2, <1>3, <3>1, Appended
    <2>2. CASE o # "started"
      BY <1>1, <1>2, <2>2
    <2> QED
      BY <2>1, <2>2
  <1>7. AutoTypes'
    BY <1>1, <1>3, <1>4, <1>6 DEF AutoInv, AutoTypes
  <1>8. HeldOnce'
    <2>1. \A i \in DOMAIN due' : due'[i].s \in DOMAIN schedules /\ due'[i].s # d.s
      BY <1>3 DEF AutoInv, HeldOnce
    <2>2. \A i, j \in DOMAIN due' : due'[i].s = due'[j].s => i = j
      <3> SUFFICES ASSUME NEW i \in DOMAIN due', NEW j \in DOMAIN due', due'[i].s = due'[j].s
                   PROVE  i = j
        OBVIOUS
      <3>1. /\ i + 1 \in DOMAIN due /\ j + 1 \in DOMAIN due
            /\ due[i + 1].s = due[j + 1].s
        BY <1>3
      <3>2. i + 1 = j + 1
        BY <3>1 DEF AutoInv, HeldOnce
      <3>3. i \in Int /\ j \in Int
        BY <1>3
      <3> QED
        BY <3>2, <3>3
    <2> QED
      BY <1>1, <1>4, <1>5, <2>1, <2>2 DEF HeldOnce
  <1>9. AsRead'
    <2>1. \A i \in DOMAIN due' :
            /\ due'[i].slot <= time /\ due'[i].slot # Null
            /\ due'[i].s \notin overtaken => /\ due'[i].cron = schedules[due'[i].s].cron
                                             /\ due'[i].slot = schedules[due'[i].s].next
      BY <1>3 DEF AutoInv, AsRead
    <2> QED
      BY <1>1, <1>4, <1>5, <2>1 DEF AsRead
  <1>10. NextIsOwn'
    BY <1>1 DEF AutoInv, NextIsOwn
  <1>11. RunsBehind'
    <2>1. ASSUME NEW s \in DOMAIN schedules \ overtaken, schedules[s].next \in Nat, d.s # s,
                 NEW i \in DOMAIN started', started'[i].s = s
          PROVE  started'[i].slot < schedules[s].next
      <3>1. i \in DOMAIN started /\ started'[i] = started[i]
        BY <1>6, <2>1
      <3> QED
        BY <1>1, <2>1, <3>1 DEF AutoInv, RunsBehind
    <2>2. \A i \in DOMAIN started' :
            started'[i].s \in DOMAIN schedules /\ started'[i].slot <= time
      BY <1>5, <1>6 DEF AutoInv, RunsBehind
    <2> QED
      BY <1>1, <1>4, <2>1, <2>2 DEF RunsBehind
  <1>12. SlotsOnce'
    <2>1. ASSUME d.s \notin overtaken PROVE d.slot = Empty \/ FiresAt(d.cron, d.slot)
      <3>1. IF d.cron = Past THEN d.slot \in {Null, Empty} ELSE FiresAt(d.cron, d.slot)
        BY <1>5, <2>1 DEF AutoInv, NextIsOwn
      <3> QED
        BY <1>5, <3>1
    <2>2. ASSUME NEW i \in DOMAIN started, started[i].s = d.s, d.s \notin overtaken
          PROVE  started[i].slot # d.slot \/ d.slot = Empty
      <3>1. CASE d.slot \in Nat
        <4>1. started[i].slot < d.slot
          BY <1>1, <1>5, <2>2, <3>1 DEF AutoInv, RunsBehind
        <4>2. started[i] \in Entries
          BY <1>2
        <4>3. started[i].slot \in Int
          BY <4>2 DEF Entries
        <4>4. \A a, c \in Int : a < c => a # c
          OBVIOUS
        <4> QED
          BY <3>1, <4>1, <4>3, <4>4
      <3>2. CASE d.slot \notin Nat
        <4>1. d.slot \in Int
          BY <1>3 DEF Entries
        <4>2. \A a \in Int : a > 0 => a \in Nat
          OBVIOUS
        <4>3. ~FiresAt(d.cron, d.slot)
          BY <3>2, <4>1, <4>2 DEF FiresAt
        <4> QED
          BY <2>1, <2>2, <4>3
      <3> QED
        BY <3>1, <3>2
    <2>3. ASSUME NEW i \in DOMAIN started', NEW j \in DOMAIN started', i # j,
                 started'[i].s = started'[j].s, started'[i].s \notin overtaken
          PROVE  started'[i].slot # started'[j].slot \/ started'[i].slot = Empty
      <3>1. CASE i \in DOMAIN started /\ j \in DOMAIN started
        BY <1>6, <2>3, <3>1 DEF AutoInv, SlotsOnce
      <3>2. CASE i \in DOMAIN started /\ j \notin DOMAIN started
        BY <1>6, <2>2, <2>3, <3>2
      <3>3. CASE i \notin DOMAIN started /\ j \in DOMAIN started
        BY <1>6, <2>2, <2>3, <3>3
      <3> QED
        BY <1>6, <2>3, <3>1, <3>2, <3>3
    <2>4. \A i \in DOMAIN started' : started'[i].s \notin overtaken =>
            started'[i].slot = Empty \/ FiresAt(started'[i].cron, started'[i].slot)
      BY <1>6, <2>1 DEF AutoInv, SlotsOnce
    <2> QED
      BY <1>1, <2>3, <2>4 DEF SlotsOnce
  <1> QED
    BY <1>7, <1>8, <1>9, <1>10, <1>11, <1>12 DEF AutoInv

(* The row gets its next time, or the write fails and it is exempt.         *)
LEMMA Advances ==
  ASSUME AutoInv, NEW ok \in BOOLEAN, TickAdvances(ok)
  PROVE  AutoInv'
  <1> DEFINE r == ranNow[1]
             x == [schedules[r.s] EXCEPT !.next = NextRun(r.cron, time)]
  <1>1. /\ ranNow # << >> /\ ranNow' = << >> /\ UNCHANGED <<time, due, started>>
        /\ ok => /\ schedules' = [schedules EXCEPT ![r.s] = x] /\ overtaken' = overtaken
        /\ ~ok => schedules' = schedules /\ overtaken' = overtaken \cup {r.s}
    BY DEF TickAdvances
  <1>2. /\ r \in Entries /\ r.s \in DOMAIN schedules /\ time \in Nat
        /\ \A i \in DOMAIN due : due[i].s # r.s
        /\ r.s \notin overtaken => r.cron = schedules[r.s].cron
    BY <1>1, TakenIs DEF AutoInv, AutoTypes, HeldOnce, AsRead
  <1>3. /\ schedules \in Seq(Rows) /\ schedules[r.s] \in Rows
    BY <1>2 DEF AutoInv, AutoTypes
  <1>4. /\ r.cron \in Nat
        /\ r.cron = Past => NextRun(r.cron, time) = Null
        /\ r.cron # Past => /\ NextRun(r.cron, time) \in Nat /\ NextRun(r.cron, time) > time
                            /\ FiresAt(r.cron, NextRun(r.cron, time))
    <2>1. r.cron \in Nat
      BY <1>2 DEF Entries
    <2> QED
      BY <1>2, <2>1, NextRunIs
  <1>5. x \in Rows /\ x.cron = schedules[r.s].cron /\ x.next = NextRun(r.cron, time)
    <2>1. NextRun(r.cron, time) \in Int
      BY <1>4 DEF Null
    <2> QED
      BY <1>3, <2>1 DEF Rows
  <1> HIDE DEF r, x
  <1>6. /\ ranNow' = << >> /\ Len(ranNow') = 0 /\ ranNow' \in Seq(Entries)
        /\ schedules' \in Seq(Rows) /\ DOMAIN schedules' = DOMAIN schedules
        /\ \A u \in DOMAIN schedules : u # r.s => schedules'[u] = schedules[u]
        /\ \A u : u \notin overtaken' => u \notin overtaken
        /\ r.s \notin overtaken' => schedules'[r.s] = x
    <2>1. CASE ok
      BY <1>1, <1>2, <1>3, <1>5, <2>1, SeqUpdated
    <2>2. CASE ~ok
      BY <1>1, <1>3, <2>2
    <2> QED
      BY <2>1, <2>2
  <1>7. AutoTypes'
    BY <1>1, <1>6 DEF AutoInv, AutoTypes
  <1>8. HeldOnce'
    BY <1>1, <1>6 DEF AutoInv, HeldOnce
  <1>9. AsRead'
    <2>1. \A i \in DOMAIN due : schedules'[due[i].s] = schedules[due[i].s]
      BY <1>2, <1>6 DEF AutoInv, HeldOnce
    <2> QED
      BY <1>1, <1>6, <2>1 DEF AutoInv, AsRead
  <1>10. NextIsOwn'
    <2> SUFFICES ASSUME NEW s \in DOMAIN schedules \ overtaken'
                 PROVE  IF schedules'[s].cron = Past THEN schedules'[s].next \in {Null, Empty}
                        ELSE FiresAt(schedules'[s].cron, schedules'[s].next)
      BY <1>6 DEF NextIsOwn
    <2>1. CASE s = r.s
      BY <1>2, <1>4, <1>5, <1>6, <2>1
    <2>2. CASE s # r.s
      BY <1>6, <2>2 DEF AutoInv, NextIsOwn
    <2> QED
      BY <2>1, <2>2
  <1>11. RunsBehind'
    <2>1. ASSUME NEW s \in DOMAIN schedules \ overtaken', schedules'[s].next \in Nat,
                 NEW i \in DOMAIN started, started[i].s = s
          PROVE  started[i].slot < schedules'[s].next
      <3>1. CASE s = r.s
        <4>1. schedules'[s].next = NextRun(r.cron, time) /\ NextRun(r.cron, time) > time
          BY <1>4, <1>5, <1>6, <2>1, <3>1 DEF Null
        <4>2. started[i].slot <= time /\ started[i] \in Entries
          BY DEF AutoInv, AutoTypes, RunsBehind
        <4>3. started[i].slot \in Int
          BY <4>2 DEF Entries
        <4> QED
          BY <1>2, <2>1, <4>1, <4>2, <4>3
      <3>2. CASE s # r.s
        BY <1>6, <2>1, <3>2 DEF AutoInv, RunsBehind, r
      <3> QED
        BY <3>1, <3>2
    <2> QED
      BY <1>1, <1>6, <2>1 DEF AutoInv, RunsBehind
  <1>12. SlotsOnce'
    BY <1>1, <1>6 DEF AutoInv, SlotsOnce
  <1> QED
    BY <1>7, <1>8, <1>9, <1>10, <1>11, <1>12 DEF AutoInv

(* What the scheduler had in hand is exempt, and its rows stay.             *)
LEMMA Crashes == ASSUME AutoInv, SchedulerCrash PROVE AutoInv'
  <1>1. /\ due' = << >> /\ ranNow' = << >> /\ UNCHANGED <<time, schedules, started>>
        /\ overtaken' = overtaken \cup Taken
    BY DEF SchedulerCrash
  <1>2. /\ DOMAIN due' = {} /\ Len(ranNow') = 0 /\ due' \in Seq(Entries)
        /\ ranNow' \in Seq(Entries)
    BY <1>1
  <1>3. AutoTypes' /\ HeldOnce' /\ AsRead'
    BY <1>1, <1>2 DEF AutoInv, AutoTypes, HeldOnce, AsRead
  <1>4. NextIsOwn'
    BY <1>1 DEF AutoInv, NextIsOwn
  <1>5. RunsBehind'
    <2>1. \A s : s \notin overtaken' => s \notin overtaken /\ s \notin Taken
      BY <1>1
    <2>2. \A s : s \notin Taken => (ranNow # << >> => ranNow[1].s # s)
      BY TakenIs DEF AutoInv
    <2> QED
      BY <1>1, <2>1, <2>2 DEF AutoInv, RunsBehind
  <1>6. SlotsOnce'
    BY <1>1 DEF AutoInv, SlotsOnce
  <1> QED
    BY <1>3, <1>4, <1>5, <1>6 DEF AutoInv

(* Every step of the component, one by one.                                *)
LEMMA AutoStep == AutoInv /\ [AutomationNext]_automationVars => AutoInv'
  <1> SUFFICES ASSUME AutoInv, [AutomationNext]_automationVars PROVE AutoInv'
    OBVIOUS
  <1>0. time \in Nat
    BY DEF AutoInv, AutoTypes
  <1>1. ASSUME SaveTemplate \/ DeleteTemplate \/ MinutePasses \/ UNCHANGED automationVars
        PROVE  AutoInv'
    <2>1. /\ UNCHANGED <<schedules, due, ranNow, started, overtaken>>
          /\ time' = time \/ time' = time + 1
      BY <1>1 DEF SaveTemplate, DeleteTemplate, MinutePasses, automationVars,
                  tickVars, autoHist
    <2> QED
      BY <1>0, <2>1, Waits
  <1> QED
    BY <1>1, Creates, CronEdits, EnabledEdits, Deletes, ReadsDue, Runs, Advances, Crashes
       DEF AutomationNext

(* A schedule runs at the times of its own expression, each at most once,   *)
(* for any number of schedules, edits, minutes, errors and crashes          *)
(* (CronScheduler::run_loop, src/src/scheduler.rs).                         *)
THEOREM ScheduleKeptHolds == AutomationSpec => []ScheduleKept
  <1>1. AutoInv => ScheduleKept
    BY DEF AutoInv, NextIsOwn, SlotsOnce, ScheduleKept
  <1> QED
    BY <1>1, AutoStarts, AutoStep, PTL DEF AutomationSpec

-----------------------------------------------------------------------------
(* Cluster: what a record says of its sub-runs.                            *)

(* A sub-run that was not submitted has no watcher.                        *)
WatchedIsSubmitted == \A r \in SubRun : status[r] = "none" => watcher[r] = "none"

UnheardIsOver == \A r \in unheard : watcher[r] = "over"

(* The sub-run r ended with outcome o, and its watcher has said so.         *)
Reported(r, o) ==
  watcher[r] = "over" /\ r \notin unheard /\ status[r] \in {o, "deleted"}

MessagesTrue ==
  \A k \in 1..Len(bus) :
    /\ Reported(bus[k].run, bus[k].status)
    /\ bus[k].run[1] \in Recorded =>
         records[bus[k].run[1]].subs[bus[k].run[2]] = "queued"

MessagesOnce == \A k, l \in 1..Len(bus) : bus[k].run = bus[l].run => k = l

RecordsTrue ==
  \A c \in Recorded : \A i \in Sub :
    records[c].subs[i] \in Outcome => Reported(<<c, i>>, records[c].subs[i])

StatusTrue ==
  \A c \in Recorded :
    records[c].status =
      IF AllDone(records[c].subs) THEN Verdict(records[c].subs) ELSE "running"

IInv == /\ Types /\ WatchedIsSubmitted /\ UnheardIsOver /\ MessagesTrue
        /\ MessagesOnce /\ RecordsTrue /\ StatusTrue

LEMMA IInvInit == ClusterInit => IInv
  <1> SUFFICES ASSUME ClusterInit PROVE IInv
    OBVIOUS
  <1>1. Recorded = {} /\ Len(bus) = 0
    BY DEF ClusterInit, Recorded
  <1>2. records \in [Recorded -> Record]
    BY DEF ClusterInit, Recorded
  <1>3. Types
    BY <1>1, <1>2, ParametersAssumption DEF ClusterInit, Types
  <1> QED
    BY <1>1, <1>3
    DEF ClusterInit, IInv, WatchedIsSubmitted, UnheardIsOver, MessagesTrue, MessagesOnce,
        RecordsTrue, StatusTrue

(* What a place on the bus and a record hold.                              *)
LEMMA Holds ==
  ASSUME Types
  PROVE  /\ \A k \in 1..Len(bus) :
              /\ bus[k].run \in SubRun /\ bus[k].status \in Outcome
              /\ bus[k].usage \in Nat
         /\ \A c \in Recorded : /\ c \in ClusterRun
                                /\ records[c].subs \in [Sub -> {"queued"} \cup Outcome]
  <1>1. \A k \in 1..Len(bus) : bus[k] \in Message
    BY DEF Types
  <1>2. \A c \in Recorded : records[c] \in Record
    BY DEF Types
  <1> QED
    BY <1>1, <1>2 DEF Message, Record, Types

-----------------------------------------------------------------------------
(* One lemma per action: the invariant is kept.                            *)

LEMMA SubmitNextKeeps ==
  ASSUME IInv, NEW c \in ClusterRun, SubmitNext(c)
  PROVE  IInv'
  <1>1. PICK i \in Sub \ Submitted(c) :
          /\ status' = [status EXCEPT ![<<c, i>>] = "active"]
          /\ watcher' = [watcher EXCEPT ![<<c, i>>] = "polling"]
    BY DEF SubmitNext
  <1> DEFINE s == <<c, i>>
  <1>2. s \in SubRun
    BY DEF SubRun
  <1>3. status[s] = "none" /\ watcher[s] = "none"
    BY <1>1, <1>2 DEF Submitted, IInv, WatchedIsSubmitted
  <1>4. UNCHANGED <<phase, usage, bus, records, unheard, errors, Recorded>>
    BY DEF SubmitNext, Recorded
  <1> HIDE DEF s
  <1>5. Types'
    BY <1>1, <1>2, <1>4 DEF IInv, Types, s
  <1>6. \A r \in SubRun : r # s => status'[r] = status[r] /\ watcher'[r] = watcher[r]
    BY <1>1 DEF IInv, Types, s
  <1>7. status'[s] = "active" /\ watcher'[s] = "polling"
    BY <1>1, <1>2 DEF IInv, Types, s
  <1>8. \A r \in SubRun, o \in Outcome : Reported(r, o) => Reported(r, o)'
    BY <1>3, <1>4, <1>6 DEF Reported
  <1>9. MessagesTrue'
    BY <1>4, <1>8, Holds DEF IInv, MessagesTrue
  <1>10. RecordsTrue'
    BY <1>4, <1>8, Holds DEF IInv, RecordsTrue, SubRun
  <1>11. WatchedIsSubmitted' /\ UnheardIsOver'
    BY <1>3, <1>4, <1>6, <1>7 DEF IInv, WatchedIsSubmitted, UnheardIsOver, Types
  <1> QED
    BY <1>4, <1>5, <1>9, <1>10, <1>11 DEF IInv, MessagesOnce, StatusTrue

LEMMA SubmitFailsKeeps ==
  ASSUME IInv, NEW c \in ClusterRun, SubmitFails(c)
  PROVE  IInv'
  <1>1. UNCHANGED <<status, usage, watcher, bus, records, unheard, Recorded>>
    BY DEF SubmitFails, Recorded
  <1>2. Types'
    BY <1>1, ParametersAssumption DEF IInv, Types, SubmitFails
  <1> QED
    BY <1>1, <1>2
    DEF IInv, WatchedIsSubmitted, UnheardIsOver, MessagesTrue, MessagesOnce,
        RecordsTrue, StatusTrue, Reported

LEMMA InsertRecordKeeps ==
  ASSUME IInv, NEW c \in ClusterRun, InsertRecord(c)
  PROVE  IInv'
  <1> DEFINE new == [subs |-> [i \in Sub |-> "queued"], total |-> 0, status |-> "running"]
  <1>1. new \in Record /\ ~AllDone(new.subs)
    <2>1. 1 \in Sub
      BY ParametersAssumption DEF Sub
    <2> QED
      BY <2>1 DEF Record, AllDone, Outcome
  <1>2. UNCHANGED <<status, usage, watcher, bus, unheard, errors>>
    BY DEF InsertRecord
  <1>3. Recorded' = Recorded \cup {c}
    BY DEF InsertRecord, Recorded
  <1>4. \A d \in Recorded' :
          records'[d] = IF d \in Recorded THEN records[d] ELSE new
    BY DEF InsertRecord, Recorded
  <1>5. \A i \in Sub : new.subs[i] = "queued"
    OBVIOUS
  <1>6. new.status = "running"
    OBVIOUS
  <1> HIDE DEF new
  <1>7. records' \in [Recorded' -> Record]
    BY <1>1, <1>4 DEF InsertRecord, IInv, Types, Recorded
  <1>8. Types'
    BY <1>2, <1>3, <1>7 DEF InsertRecord, IInv, Types
  <1>9. \A r, o : Reported(r, o) => Reported(r, o)'
    BY <1>2 DEF Reported
  <1>10. MessagesTrue'
    BY <1>2, <1>3, <1>4, <1>5, <1>9, Holds DEF IInv, MessagesTrue, SubRun
  <1>11. RecordsTrue'
    BY <1>3, <1>4, <1>5, <1>9 DEF IInv, RecordsTrue, Outcome
  <1>12. StatusTrue'
    BY <1>1, <1>3, <1>4, <1>6 DEF IInv, StatusTrue
  <1> QED
    BY <1>2, <1>8, <1>10, <1>11, <1>12
    DEF IInv, WatchedIsSubmitted, UnheardIsOver, MessagesOnce

(* A run that ends was active, so that nothing has been reported of it.     *)
LEMMA RunEndsKeeps ==
  ASSUME IInv, NEW s \in SubRun, RunEnds(s)
  PROVE  IInv'
  <1>1. UNCHANGED <<phase, watcher, bus, records, unheard, errors, Recorded>>
    BY DEF RunEnds, Recorded
  <1>2. Types'
    <2>1. PICK u \in Usages : usage' = [usage EXCEPT ![s] = u]
      BY DEF RunEnds
    <2>2. usage' \in [SubRun -> Nat]
      BY <2>1, ParametersAssumption DEF IInv, Types
    <2>3. PICK o \in Outcome : status' = [status EXCEPT ![s] = o]
      BY DEF RunEnds
    <2>4. status' \in [SubRun -> {"none", "active", "deleted"} \cup Outcome]
      BY <2>3 DEF IInv, Types
    <2> QED
      BY <1>1, <2>2, <2>4 DEF IInv, Types
  <1>3. \A r \in SubRun : r # s => status'[r] = status[r]
    BY DEF RunEnds, IInv, Types
  <1>4. status[s] = "active" /\ status'[s] # "none"
    BY DEF RunEnds, IInv, Types, Outcome
  <1>5. \A r \in SubRun, o \in Outcome : Reported(r, o) => Reported(r, o)'
    BY <1>1, <1>3, <1>4 DEF Reported, Outcome
  <1>6. MessagesTrue'
    BY <1>1, <1>5, Holds DEF IInv, MessagesTrue
  <1>7. RecordsTrue'
    BY <1>1, <1>5, Holds DEF IInv, RecordsTrue, SubRun
  <1>8. WatchedIsSubmitted'
    BY <1>1, <1>3, <1>4 DEF IInv, WatchedIsSubmitted
  <1> QED
    BY <1>1, <1>2, <1>6, <1>7, <1>8 DEF IInv, UnheardIsOver, MessagesOnce, StatusTrue

LEMMA RunDeletedKeeps ==
  ASSUME IInv, NEW s \in SubRun, RunDeleted(s)
  PROVE  IInv'
  <1>1. UNCHANGED <<phase, usage, watcher, bus, records, unheard, errors, Recorded>>
    BY DEF RunDeleted, Recorded
  <1>2. Types'
    BY <1>1 DEF RunDeleted, IInv, Types
  <1>3. /\ \A r \in SubRun : r # s => status'[r] = status[r]
        /\ status'[s] = "deleted"
    BY DEF RunDeleted, IInv, Types
  <1>4. \A r \in SubRun, o \in Outcome : Reported(r, o) => Reported(r, o)'
    BY <1>1, <1>3 DEF Reported
  <1>5. MessagesTrue'
    BY <1>1, <1>4, Holds DEF IInv, MessagesTrue
  <1>6. RecordsTrue'
    BY <1>1, <1>4, Holds DEF IInv, RecordsTrue, SubRun
  <1>7. WatchedIsSubmitted'
    BY <1>1, <1>3 DEF IInv, WatchedIsSubmitted
  <1> QED
    BY <1>1, <1>2, <1>5, <1>6, <1>7 DEF IInv, UnheardIsOver, MessagesOnce, StatusTrue

(* The watcher was polling: nothing had been reported of s.                 *)
LEMMA PollEndedKeeps ==
  ASSUME IInv, NEW s \in SubRun, PollEnded(s)
  PROVE  IInv'
  <1> DEFINE m == [run |-> s, status |-> status[s], usage |-> usage[s]]
  <1>1. UNCHANGED <<phase, status, usage, records, unheard, errors, Recorded>>
    BY DEF PollEnded, Recorded
  <1>2. m \in Message /\ bus' = Append(bus, m) /\ bus \in Seq(Message)
    BY DEF PollEnded, IInv, Types, Message
  <1>3. m.run = s /\ m.status = status[s]
    OBVIOUS
  <1>4. s \notin unheard /\ watcher[s] = "polling"
    BY DEF PollEnded, IInv, UnheardIsOver
  <1>5. /\ \A r \in SubRun : r # s => watcher'[r] = watcher[r]
        /\ watcher'[s] = "over"
    BY DEF PollEnded, IInv, Types, AfterSend
  <1> HIDE DEF m
  <1>6. /\ Len(bus') = Len(bus) + 1
        /\ \A k \in 1..Len(bus) : bus'[k] = bus[k]
        /\ bus'[Len(bus) + 1] = m
        /\ Len(bus) \in Nat
    BY <1>2
  <1>7. Types'
    <2>1. bus' \in Seq(Message)
      BY <1>2
    <2>2. watcher' \in [SubRun -> {"none", "polling", "over"}]
      BY DEF PollEnded, IInv, Types, AfterSend
    <2> QED
      BY <1>1, <2>1, <2>2 DEF IInv, Types
  <1>8. \A r \in SubRun, o \in Outcome : Reported(r, o) => Reported(r, o)'
    BY <1>1, <1>4, <1>5 DEF Reported
  <1>9. Reported(s, status[s])'
    BY <1>1, <1>4, <1>5 DEF Reported
  <1>10. \A k \in 1..Len(bus) : bus[k].run # s
    BY <1>4 DEF IInv, MessagesTrue, Reported
  <1>11. s[1] \in Recorded => records[s[1]].subs[s[2]] = "queued"
    BY <1>4, Holds DEF IInv, RecordsTrue, Reported, SubRun
  <1>12. MessagesTrue'
    <2> SUFFICES ASSUME NEW k \in 1..Len(bus')
                 PROVE  (/\ Reported(bus[k].run, bus[k].status)
                         /\ bus[k].run[1] \in Recorded =>
                              records[bus[k].run[1]].subs[bus[k].run[2]] = "queued")'
      BY DEF MessagesTrue
    <2>1. CASE k \in 1..Len(bus)
      BY <1>1, <1>6, <1>8, <2>1, Holds DEF IInv, MessagesTrue
    <2>2. CASE k = Len(bus) + 1
      BY <1>1, <1>3, <1>6, <1>9, <1>11, <2>2
    <2> QED
      BY <1>6, <2>1, <2>2
  <1>13. MessagesOnce'
    BY <1>3, <1>6, <1>10 DEF IInv, MessagesOnce
  <1>14. RecordsTrue'
    BY <1>1, <1>8, Holds DEF IInv, RecordsTrue, SubRun
  <1>15. WatchedIsSubmitted' /\ UnheardIsOver'
    BY <1>1, <1>4, <1>5 DEF IInv, WatchedIsSubmitted, UnheardIsOver, Types,
      PollEnded, Outcome
  <1> QED
    BY <1>1, <1>7, <1>12, <1>13, <1>14, <1>15 DEF IInv, StatusTrue

LEMMA PollLostKeeps ==
  ASSUME IInv, NEW s \in SubRun, PollLost(s)
  PROVE  IInv'
  <1>1. UNCHANGED <<phase, status, usage, records, bus, Recorded>>
    BY DEF PollLost, Recorded
  <1>2. watcher[s] = "polling" /\ unheard' = unheard \cup {s}
    BY DEF PollLost
  <1>3. /\ \A r \in SubRun : r # s => watcher'[r] = watcher[r]
        /\ watcher'[s] = "over"
    BY DEF PollLost, IInv, Types
  <1>4. Types'
    <2>1. errors' \in 0..MaxErrors
      BY ParametersAssumption DEF PollLost, IInv, Types
    <2>2. watcher' \in [SubRun -> {"none", "polling", "over"}]
      BY DEF PollLost, IInv, Types
    <2> QED
      BY <1>1, <1>2, <2>1, <2>2 DEF IInv, Types
  <1>5. \A r \in SubRun, o \in Outcome : Reported(r, o) => Reported(r, o)'
    BY <1>1, <1>2, <1>3 DEF Reported
  <1>6. MessagesTrue'
    BY <1>1, <1>5, Holds DEF IInv, MessagesTrue
  <1>7. RecordsTrue'
    BY <1>1, <1>5, Holds DEF IInv, RecordsTrue, SubRun
  <1>8. WatchedIsSubmitted' /\ UnheardIsOver'
    BY <1>1, <1>2, <1>3 DEF IInv, WatchedIsSubmitted, UnheardIsOver, Types
  <1> QED
    BY <1>1, <1>4, <1>6, <1>7, <1>8 DEF IInv, MessagesOnce, StatusTrue

(* The message taken from the bus is the only one of its sub-run, and the   *)
(* record, if there is one, has nothing of it yet.                          *)
LEMMA ReceiveKeeps ==
  ASSUME IInv, Receive
  PROVE  IInv'
  <1> DEFINE m == Head(bus)
             s == m.run
  <1>1. /\ UNCHANGED <<phase, status, usage, watcher, errors>>
        /\ bus # << >> /\ bus' = Tail(bus) /\ bus \in Seq(Message)
    BY DEF Receive, IInv, Types
  <1>2. /\ Len(bus) \in Nat /\ Len(bus) > 0 /\ Len(bus') = Len(bus) - 1
        /\ m = bus[1]
        /\ \A k \in 1..Len(bus') : bus'[k] = bus[k + 1]
        /\ bus' \in Seq(Message)
    BY <1>1
  <1>3. /\ s \in SubRun /\ m.status \in Outcome /\ m.usage \in Nat
        /\ Reported(s, m.status)
        /\ s[1] \in Recorded => records[s[1]].subs[s[2]] = "queued"
    BY <1>2, Holds DEF IInv, MessagesTrue
  <1>4. \A k \in 1..Len(bus') :
          /\ bus'[k].run # s /\ bus'[k].run \in SubRun /\ bus'[k].status \in Outcome
          /\ Reported(bus'[k].run, bus'[k].status)
          /\ bus'[k].run[1] \in Recorded =>
               records[bus'[k].run[1]].subs[bus'[k].run[2]] = "queued"
    <2> SUFFICES ASSUME NEW k \in 1..Len(bus')
                 PROVE  /\ bus'[k].run # s /\ bus'[k].run \in SubRun
                        /\ bus'[k].status \in Outcome
                        /\ Reported(bus'[k].run, bus'[k].status)
                        /\ bus'[k].run[1] \in Recorded =>
                             records[bus'[k].run[1]].subs[bus'[k].run[2]] = "queued"
      OBVIOUS
    <2>1. k + 1 \in 1..Len(bus) /\ 1 \in 1..Len(bus) /\ k + 1 # 1
      BY <1>2
    <2>2. bus'[k] = bus[k + 1]
      BY <1>2
    <2>3. bus[k + 1].run # s
      BY <1>2, <2>1 DEF IInv, MessagesOnce
    <2> QED
      BY <2>1, <2>2, <2>3, Holds DEF IInv, MessagesTrue
  <1>5. MessagesOnce'
    <2> SUFFICES ASSUME NEW k \in 1..Len(bus'), NEW l \in 1..Len(bus'),
                        bus'[k].run = bus'[l].run
                 PROVE  k = l
      BY DEF MessagesOnce
    <2>1. k + 1 \in 1..Len(bus) /\ l + 1 \in 1..Len(bus)
      BY <1>2
    <2> QED
      BY <1>2, <2>1 DEF IInv, MessagesOnce
  <1>6. WatchedIsSubmitted'
    BY <1>1 DEF IInv, WatchedIsSubmitted
  <1> HIDE DEF m
  <1>7. CASE s[1] \in Recorded
    <2> DEFINE c == s[1]
               i == s[2]
               new == Heard(records[c], m)
    <2>1. c \in ClusterRun /\ i \in Sub /\ s = <<c, i>>
      BY <1>3 DEF SubRun
    <2>2. unheard' = unheard /\ records' = [records EXCEPT ![c] = new]
      BY <1>7 DEF Receive, m
    <2>3. records[c] \in Record
      BY <1>7 DEF IInv, Types
    <2>4. /\ new.subs = [records[c].subs EXCEPT ![i] = m.status]
          /\ new.total = records[c].total + m.usage
          /\ new.status = IF AllDone(new.subs) THEN Verdict(new.subs)
                          ELSE records[c].status
          /\ new = [subs |-> new.subs, total |-> new.total, status |-> new.status]
      BY DEF Heard, Added
    <2>5. records[c].status = "running"
      <3>1. ~AllDone(records[c].subs)
        BY <1>3, <1>7, <2>1 DEF AllDone, Outcome
      <3> QED
        BY <1>7, <3>1 DEF IInv, StatusTrue
    <2> HIDE DEF new, s, c, i
    <2>6. new \in Record
      <3>1. new.subs \in [Sub -> {"queued"} \cup Outcome]
        BY <1>3, <2>3, <2>4 DEF Record, s
      <3>2. new.total \in Nat
        BY <1>3, <2>3, <2>4 DEF Record
      <3>3. new.status \in {"running", "succeeded", "failed", "partial"}
        BY <2>4, <2>5 DEF Verdict
      <3> QED
        BY <2>4, <3>1, <3>2, <3>3 DEF Record
    <2>7. /\ Recorded' = Recorded /\ c \in Recorded /\ records'[c] = new
          /\ \A d \in Recorded : d # c => records'[d] = records[d]
      BY <1>7, <2>2 DEF IInv, Types, Recorded, c
    <2>8. records' \in [Recorded' -> Record]
      BY <2>2, <2>6, <2>7 DEF IInv, Types
    <2>9. Types'
      BY <1>1, <1>2, <2>2, <2>7, <2>8 DEF IInv, Types
    <2>10. /\ new.subs[i] = m.status
           /\ \A j \in Sub : j # i => new.subs[j] = records[c].subs[j]
      BY <2>1, <2>3, <2>4 DEF Record
    <2>11. \A r, o : Reported(r, o) => Reported(r, o)'
      BY <1>1, <2>2 DEF Reported
    <2>12. MessagesTrue'
      <3> SUFFICES ASSUME NEW k \in 1..Len(bus')
                   PROVE  (/\ Reported(bus[k].run, bus[k].status)
                           /\ bus[k].run[1] \in Recorded =>
                                records[bus[k].run[1]].subs[bus[k].run[2]] = "queued")'
        BY DEF MessagesTrue
      <3> DEFINE b == bus'[k]
                 q == b.run
      <3>1. /\ q # s /\ q \in SubRun
            /\ Reported(q, b.status)
            /\ q[1] \in Recorded => records[q[1]].subs[q[2]] = "queued"
        BY <1>4
      <3>2. q[1] \in ClusterRun /\ q[2] \in Sub /\ q = <<q[1], q[2]>>
        BY <3>1 DEF SubRun
      <3> HIDE DEF q
      <3>3. q[1] \in Recorded => records'[q[1]].subs[q[2]] = "queued"
        BY <2>1, <2>7, <2>10, <3>1, <3>2
      <3> HIDE DEF b
      <3>4. watcher'[q] = "over" /\ q \notin unheard' /\ status'[q] \in {b.status, "deleted"}
        BY <1>1, <2>2, <3>1 DEF Reported
      <3> QED
        BY <2>7, <3>3, <3>4 DEF Reported, b, q
    <2>13. RecordsTrue'
      <3> SUFFICES ASSUME NEW d \in Recorded, NEW j \in Sub,
                          records'[d].subs[j] \in Outcome
                   PROVE  Reported(<<d, j>>, records[d].subs[j])'
        BY <2>7 DEF RecordsTrue
      <3>1. CASE d = c /\ j = i
        BY <1>1, <1>3, <2>1, <2>2, <2>7, <2>10, <3>1 DEF Reported
      <3>2. CASE d # c \/ j # i
        <4>1. records'[d].subs[j] = records[d].subs[j]
          BY <2>7, <2>10, <3>2
        <4>2. Reported(<<d, j>>, records[d].subs[j])
          BY <4>1 DEF IInv, RecordsTrue
        <4> QED
          BY <1>1, <2>2, <4>1, <4>2 DEF Reported
      <3> QED
        BY <3>1, <3>2
    <2>14. StatusTrue'
      BY <2>4, <2>5, <2>7 DEF IInv, StatusTrue
    <2> QED
      BY <1>1, <1>5, <1>6, <2>2, <2>9, <2>12, <2>13, <2>14 DEF IInv, UnheardIsOver
  <1>8. CASE s[1] \notin Recorded
    <2>1. unheard' = unheard \cup {s} /\ records' = records /\ Recorded' = Recorded
      BY <1>8 DEF Receive, m, Recorded
    <2> HIDE DEF s
    <2>2. Types'
      BY <1>1, <1>2, <1>3, <2>1 DEF IInv, Types
    <2>3. UnheardIsOver'
      BY <1>1, <1>3, <2>1 DEF IInv, UnheardIsOver, Reported
    <2>4. MessagesTrue'
      <3> SUFFICES ASSUME NEW k \in 1..Len(bus')
                   PROVE  (/\ Reported(bus[k].run, bus[k].status)
                           /\ bus[k].run[1] \in Recorded =>
                                records[bus[k].run[1]].subs[bus[k].run[2]] = "queued")'
        BY DEF MessagesTrue
      <3> QED
        BY <1>1, <1>4, <2>1 DEF Reported
    <2>5. RecordsTrue'
      <3> SUFFICES ASSUME NEW d \in Recorded, NEW j \in Sub,
                          records[d].subs[j] \in Outcome
                   PROVE  Reported(<<d, j>>, records[d].subs[j])'
        BY <2>1 DEF RecordsTrue
      <3>1. Reported(<<d, j>>, records[d].subs[j])
        BY DEF IInv, RecordsTrue
      <3>2. <<d, j>> # s
        BY <1>8
      <3> QED
        BY <1>1, <2>1, <3>1, <3>2 DEF Reported
    <2> QED
      BY <1>5, <1>6, <2>1, <2>2, <2>3, <2>4, <2>5 DEF IInv, StatusTrue
  <1> QED
    BY <1>7, <1>8

LEMMA IInvStep == IInv /\ [ClusterNext]_clusterVars => IInv'
  <1> SUFFICES ASSUME IInv, [ClusterNext]_clusterVars PROVE IInv'
    OBVIOUS
  <1>1. CASE UNCHANGED clusterVars
    BY <1>1 DEF IInv, clusterVars, Types, Recorded, WatchedIsSubmitted, UnheardIsOver,
      MessagesTrue, MessagesOnce, RecordsTrue, StatusTrue, Reported
  <1>2. CASE ClusterNext
    BY <1>2, SubmitNextKeeps, InsertRecordKeeps, SubmitFailsKeeps, RunEndsKeeps,
      RunDeletedKeeps, PollEndedKeeps, PollLostKeeps, ReceiveKeeps
    DEF ClusterNext, Submit, Poll
  <1> QED
    BY <1>1, <1>2

(* The invariant the other theorems rest on: what is on the bus or in a     *)
(* record was reported once, by a watcher that has stopped.                 *)
THEOREM Inductive == ClusterSpec => []IInv
  BY IInvInit, IInvStep, PTL DEF ClusterSpec

-----------------------------------------------------------------------------
(* The verdict counts successes; all of them or none is what it tells apart. *)
LEMMA VerdictCounts ==
  ASSUME NEW subs \in [Sub -> {"queued"} \cup Outcome]
  PROVE  /\ Verdict(subs) = "succeeded" <=> \A i \in Sub : subs[i] = "succeeded"
         /\ Verdict(subs) = "failed" <=> \A i \in Sub : subs[i] # "succeeded"
  <1> DEFINE S == {i \in Sub : subs[i] = "succeeded"}
  <1>1. IsFiniteSet(Sub) /\ Cardinality(Sub) = Subtasks /\ Subtasks > 0
    BY ParametersAssumption, FS_Interval DEF Sub
  <1>2. S \in SUBSET Sub
    OBVIOUS
  <1>3. IsFiniteSet(S) /\ (Cardinality(S) = Subtasks => S = Sub)
    BY <1>1, <1>2, FS_Subset
  <1>4. Cardinality(S) = 0 <=> S = {}
    BY <1>3, FS_EmptySet
  <1>5. Succeeded(subs) = Cardinality(S)
    BY DEF Succeeded
  <1>6. Succeeded(subs) = Subtasks <=> S = Sub
    BY <1>1, <1>3, <1>5
  <1>7. Verdict(subs) = "succeeded" <=> S = Sub
    BY <1>1, <1>6 DEF Verdict
  <1>8. Verdict(subs) = "failed" <=> S = {}
    BY <1>1, <1>4, <1>5 DEF Verdict
  <1> QED
    BY <1>7, <1>8

(* VerdictTrueHolds: a finished record speaks for all of its sub-runs, for  *)
(* any number of them and of cluster runs.                                  *)
THEOREM VerdictTrueHolds == ClusterSpec => []VerdictTrue
  <1>1. IInv => VerdictTrue
    <2> SUFFICES ASSUME IInv, NEW c \in Recorded, Finished(c)
                 PROVE
           /\ \A i \in Sub :
                /\ status[<<c, i>>] # "active" /\ <<c, i>> \notin unheard
                /\ status[<<c, i>>] \in {records[c].subs[i], "deleted"}
           /\ records[c].status = "succeeded" <=>
                \A i \in Sub : records[c].subs[i] = "succeeded"
           /\ records[c].status = "failed" <=>
                \A i \in Sub : records[c].subs[i] # "succeeded"
      BY DEF VerdictTrue
    <2>1. /\ AllDone(records[c].subs)
          /\ records[c].status = Verdict(records[c].subs)
      BY DEF IInv, StatusTrue, Finished
    <2>2. \A i \in Sub : /\ records[c].subs[i] \in Outcome
                          /\ Reported(<<c, i>>, records[c].subs[i])
      BY <2>1 DEF IInv, RecordsTrue, AllDone
    <2>3. records[c].subs \in [Sub -> {"queued"} \cup Outcome]
      BY Holds DEF IInv
    <2> QED
      BY <2>1, <2>2, <2>3, VerdictCounts DEF Reported, Outcome
  <1> QED
    BY <1>1, Inductive, PTL

(* EndedIsFinalHolds: a finished record never changes and no record is lost. *)
THEOREM EndedIsFinalHolds == ClusterSpec => EndedIsFinal
  <1>1. IInv /\ [ClusterNext]_clusterVars => [KeepsFinished]_clusterVars
    <2> SUFFICES ASSUME IInv, ClusterNext, NEW c \in Recorded
                 PROVE  c \in Recorded' /\ (Finished(c) => records'[c] = records[c])
      BY DEF KeepsFinished
    <2>1. CASE records' = records
      BY <2>1 DEF Recorded
    <2>2. ASSUME NEW d \in ClusterRun, InsertRecord(d)
          PROVE  c \in Recorded' /\ records'[c] = records[c]
      BY <2>2 DEF InsertRecord, Recorded
    <2>3. CASE Receive /\ records' # records
      <3> DEFINE m == Head(bus)
      <3>1. /\ m.run[1] \in Recorded
            /\ records' = [records EXCEPT ![m.run[1]] = Heard(records[m.run[1]], m)]
        BY <2>3 DEF Receive
      <3>2. m = bus[1] /\ 1 \in 1..Len(bus)
        BY <2>3 DEF Receive, IInv, Types
      <3>3. /\ m.run \in SubRun
            /\ records[m.run[1]].subs[m.run[2]] = "queued"
        BY <3>1, <3>2, Holds DEF IInv, MessagesTrue
      <3> HIDE DEF m
      <3>4. ~AllDone(records[m.run[1]].subs)
        BY <3>3 DEF AllDone, SubRun, Outcome
      <3>5. records[m.run[1]].status = "running"
        BY <3>1, <3>4 DEF IInv, StatusTrue
      <3> QED
        BY <3>1, <3>5 DEF Finished, Recorded, IInv, Types
    <2> QED
      BY <2>1, <2>2, <2>3
      DEF ClusterNext, Submit, SubmitNext, SubmitFails, RunEnds, RunDeleted, Poll, PollEnded,
          PollLost
  <1> QED
    BY <1>1, Inductive, PTL DEF ClusterSpec, EndedIsFinal

-----------------------------------------------------------------------------
(* A message says what its sub-run has used.                               *)
MessagesCount == \A k \in 1..Len(bus) : bus[k].usage = usage[bus[k].run]

Counted(c) == {i \in Sub : records[c].subs[i] \in Outcome}

LEMMA TotalsTyped ==
  ASSUME Types
  PROVE  /\ IsFiniteSet(Sub)
         /\ \A c \in ClusterRun : UsageOf(c) \in [Sub -> Nat]
         /\ \A c \in Recorded : Counted(c) \in SUBSET Sub /\ c \in ClusterRun
  <1>1. IsFiniteSet(Sub)
    BY ParametersAssumption, FS_Interval DEF Sub
  <1>2. \A c \in ClusterRun : UsageOf(c) \in [Sub -> Nat]
    BY DEF Types, UsageOf, SubRun
  <1> QED
    BY <1>1, <1>2 DEF Types, Counted

(* Where neither the usages nor the records change, the totals stand.       *)
LEMMA TotalsStand ==
  ASSUME Types, TotalExact, UNCHANGED <<usage, records>>
  PROVE  TotalExact'
  BY DEF TotalExact, UsageOf, Recorded

(* A run that ends now has not been counted, nor is its message under way.  *)
LEMMA RunEndsCounts ==
  ASSUME IInv, MessagesCount, TotalExact, NEW s \in SubRun, RunEnds(s)
  PROVE  MessagesCount' /\ TotalExact'
  <1>1. /\ UNCHANGED <<bus, records, Recorded>> /\ status[s] = "active"
        /\ \A r \in SubRun : r # s => usage'[r] = usage[r]
        /\ usage' \in [SubRun -> Nat]
    BY ParametersAssumption DEF RunEnds, Recorded, IInv, Types
  <1>2. MessagesCount'
    <2>1. \A k \in 1..Len(bus) : bus[k].run \in SubRun /\ bus[k].run # s
      BY <1>1, Holds DEF IInv, MessagesTrue, Reported, Outcome
    <2> QED
      BY <1>1, <2>1 DEF MessagesCount
  <1>3. ASSUME NEW c \in Recorded
        PROVE  records[c].total = SumFunctionOnSet(UsageOf(c)', Counted(c))
    <2>1. \A i \in Counted(c) : UsageOf(c)[i] = UsageOf(c)'[i]
      <3> SUFFICES ASSUME NEW i \in Counted(c) PROVE usage[<<c, i>>] = usage'[<<c, i>>]
        BY DEF UsageOf, Counted
      <3>1. <<c, i>> \in SubRun
        BY TotalsTyped DEF IInv, Counted, SubRun
      <3>2. status[<<c, i>>] # "active"
        BY DEF IInv, RecordsTrue, Reported, Outcome, Counted
      <3> QED
        BY <1>1, <3>1, <3>2
    <2>2. UsageOf(c)' \in [Sub -> Nat] /\ c \in ClusterRun
      BY <1>1, TotalsTyped DEF IInv, UsageOf, SubRun
    <2>3. SumFunctionOnSet(UsageOf(c), Counted(c)) = SumFunctionOnSet(UsageOf(c)', Counted(c))
      BY <2>1, <2>2, TotalsTyped, SumAgrees DEF IInv
    <2> QED
      BY <2>3 DEF TotalExact, Counted
  <1> QED
    BY <1>1, <1>2, <1>3 DEF TotalExact, Counted

LEMMA InsertRecordCounts ==
  ASSUME IInv, MessagesCount, TotalExact, NEW c \in ClusterRun, InsertRecord(c)
  PROVE  MessagesCount' /\ TotalExact'
  <1>1. MessagesCount' /\ UNCHANGED usage
    BY DEF MessagesCount, InsertRecord
  <1>2. /\ Recorded' = Recorded \cup {c}
        /\ \A d \in Recorded : records'[d] = records[d]
        /\ c \notin Recorded =>
             records'[c] = [subs |-> [i \in Sub |-> "queued"], total |-> 0, status |-> "running"]
    BY DEF InsertRecord, Recorded
  <1>3. ASSUME NEW d \in Recorded'
        PROVE  records'[d].total = SumFunctionOnSet(UsageOf(d)', Counted(d)')
    <2>1. UsageOf(d)' = UsageOf(d)
      BY <1>1 DEF UsageOf
    <2>2. CASE d \in Recorded
      BY <1>2, <2>1, <2>2 DEF TotalExact, Counted
    <2>3. CASE d \notin Recorded
      <3>1. d = c /\ records'[d].total = 0 /\ Counted(d)' = {}
        BY <1>2, <2>3 DEF Counted, Outcome
      <3>2. SumFunctionOnSet(UsageOf(d), {}) = 0
        BY <3>1, TotalsTyped, SumUnfolds DEF IInv
      <3> QED
        BY <2>1, <3>1, <3>2
    <2> QED
      BY <2>2, <2>3
  <1> QED
    BY <1>1, <1>3 DEF TotalExact, Counted

(* The message adds what one sub-run has used, which was not counted yet.   *)
LEMMA ReceiveCounts ==
  ASSUME IInv, MessagesCount, TotalExact, Receive
  PROVE  MessagesCount' /\ TotalExact'
  <1>0. PICK m \in Message : m = Head(bus)
    BY DEF Receive, IInv, Types
  <1> DEFINE c == m.run[1]
             i == m.run[2]
  <1>1. /\ UNCHANGED usage /\ bus # << >> /\ bus' = Tail(bus) /\ bus \in Seq(Message)
    BY DEF Receive, IInv, Types
  <1>2. /\ Len(bus) \in Nat /\ Len(bus) > 0 /\ Len(bus') = Len(bus) - 1
        /\ m = bus[1]
        /\ \A k \in 1..Len(bus') : bus'[k] = bus[k + 1]
    BY <1>0, <1>1
  <1>3. MessagesCount'
    BY <1>1, <1>2 DEF MessagesCount
  <1>4. /\ m.run \in SubRun /\ m.status \in Outcome /\ m.usage = usage[m.run]
        /\ c \in Recorded => records[c].subs[i] = "queued"
    BY <1>2, Holds DEF IInv, MessagesTrue, MessagesCount
  <1>5. c \in ClusterRun /\ i \in Sub /\ m.run = <<c, i>>
    BY <1>4 DEF SubRun
  <1>6. CASE c \notin Recorded
    <2>1. UNCHANGED records
      BY <1>0, <1>6 DEF Receive
    <2> QED
      BY <1>1, <1>3, <2>1, TotalsStand DEF IInv
  <1>7. CASE c \in Recorded
    <2>1. records' = [records EXCEPT ![c] = Heard(records[c], m)]
      BY <1>0, <1>7 DEF Receive
    <2>2. /\ Recorded' = Recorded
          /\ \A d \in Recorded : d # c => records'[d] = records[d]
          /\ records'[c] = Heard(records[c], m)
      BY <1>7, <2>1 DEF Recorded
    <2>3. /\ records'[c].subs = [records[c].subs EXCEPT ![i] = m.status]
          /\ records'[c].total = records[c].total + m.usage
      BY <2>2 DEF Heard, Added
    <2>4. records[c].subs \in [Sub -> {"queued"} \cup Outcome]
      BY <1>7, Holds DEF IInv
    <2>5. i \notin Counted(c) /\ i \in Counted(c)' /\ Counted(c)' \ {i} = Counted(c)
          /\ Counted(c)' \in SUBSET Sub
      BY <1>4, <1>5, <1>7, <2>3, <2>4 DEF Counted, Outcome
    <2>6. UsageOf(c)[i] = m.usage /\ UsageOf(c) \in [Sub -> Nat]
      BY <1>4, <1>5, TotalsTyped DEF UsageOf, IInv
    <2>7. SumFunctionOnSet(UsageOf(c), Counted(c)') =
            m.usage + SumFunctionOnSet(UsageOf(c), Counted(c))
      BY <2>5, <2>6, TotalsTyped, SumTakesOut DEF IInv
    <2>8. records[c].total = SumFunctionOnSet(UsageOf(c), Counted(c)) /\ m.usage \in Nat
          /\ SumFunctionOnSet(UsageOf(c), Counted(c)) \in Nat
      <3>1. Counted(c) \in SUBSET Sub /\ m.usage \in Nat
        BY <1>7, <1>4, <1>5, <2>6, TotalsTyped DEF IInv
      <3> QED
        BY <1>7, <2>6, <3>1, TotalsTyped, SumIsNatural DEF TotalExact, Counted, IInv
    <2>9. ASSUME NEW d \in Recorded
          PROVE  records'[d].total = SumFunctionOnSet(UsageOf(d)', Counted(d)')
      <3>1. UsageOf(d)' = UsageOf(d)
        BY <1>1 DEF UsageOf
      <3>2. CASE d = c
        BY <2>3, <2>7, <2>8, <3>1, <3>2
      <3>3. CASE d # c
        BY <2>2, <3>1, <3>3 DEF TotalExact, Counted
      <3> QED
        BY <3>2, <3>3
    <2> QED
      BY <1>3, <2>2, <2>9 DEF TotalExact, Counted
  <1> QED
    BY <1>6, <1>7

(* TotalExactHolds: the total of a record is the usage of the sub-runs it   *)
(* shows as ended, each counted once, for any number of them.               *)
THEOREM TotalExactHolds == ClusterSpec => []TotalExact
  <1>1. ClusterInit => MessagesCount /\ TotalExact
    BY DEF ClusterInit, MessagesCount, TotalExact, Recorded
  <1>2. IInv /\ MessagesCount /\ TotalExact /\ [ClusterNext]_clusterVars => (MessagesCount /\ TotalExact)'
    <2> SUFFICES ASSUME IInv, MessagesCount, TotalExact, [ClusterNext]_clusterVars
                 PROVE  (MessagesCount /\ TotalExact)'
      OBVIOUS
    <2>1. CASE UNCHANGED <<usage, records, bus>>
      BY <2>1, TotalsStand DEF MessagesCount, IInv
    <2>2. ASSUME NEW s \in SubRun, PollEnded(s) PROVE (MessagesCount /\ TotalExact)'
      <3> DEFINE m == [run |-> s, status |-> status[s], usage |-> usage[s]]
      <3>1. /\ UNCHANGED <<usage, records>> /\ bus' = Append(bus, m) /\ bus \in Seq(Message)
            /\ m \in Message
        BY <2>2 DEF PollEnded, IInv, Types, Message
      <3>2. m.run = s /\ m.usage = usage[s]
        OBVIOUS
      <3> HIDE DEF m
      <3>3. \A k \in 1..Len(bus') :
              \/ k \in 1..Len(bus) /\ bus'[k] = bus[k]
              \/ bus'[k] = m
        BY <3>1
      <3>4. MessagesCount'
        BY <3>1, <3>2, <3>3 DEF MessagesCount
      <3> QED
        BY <3>1, <3>4, TotalsStand DEF IInv
    <2> QED
      BY <2>1, <2>2, RunEndsCounts, InsertRecordCounts, ReceiveCounts
      DEF ClusterNext, clusterVars, Submit, Poll, SubmitNext, SubmitFails, RunDeleted, PollLost
  <1> QED
    BY <1>1, <1>2, Inductive, PTL DEF ClusterSpec

=============================================================================
