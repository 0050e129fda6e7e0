-------------------------- MODULE EventStreamProofs --------------------------
(***************************************************************************)
(* What EventStream promises, for every number of events, failing inserts   *)
(* and broken connections, every batch size and every page size.            *)
(*                                                                         *)
(* IInv has three parts.  TypeInv adds to the types that a run has a row    *)
(* from its first event on.  TokenInv treats the log, the batcher's buffer  *)
(* and its channel as one queue whose tokens rise: a flush or a take moves  *)
(* tokens from one part to the next and none past another.  StreamInv says  *)
(* that what the stream has listed continues what it has sent, and that     *)
(* after one look at an ended run (ticks = 1) what is sent or listed        *)
(* reaches beyond the last row recorded under the guard, or fills a page:   *)
(* that is why the second look may end the stream.                         *)
(***************************************************************************)
EXTENDS EventStream, DataLemmas

(* The tokens of s are in the order in which they were produced.            *)
Rising(s) ==
  \A i, j \in 1..Len(s) :
    i < j /\ s[i].kind = "token" /\ s[j].kind = "token" => s[i].n < s[j].n

(* The tokens of s were produced before those of t.                        *)
Before(s, t) ==
  \A i \in 1..Len(s), j \in 1..Len(t) :
    s[i].kind = "token" /\ t[j].kind = "token" => s[i].n < t[j].n

(* The events of s are among the first m the sink was called with.         *)
Known(s, m) == \A i \in 1..Len(s) : s[i].n =< m

(* The log, the batcher's buffer and its channel are one queue.            *)
TokenInv ==
  /\ Rising(log) /\ Rising(buf) /\ Rising(channel)
  /\ Before(log, buf) /\ Before(log, channel) /\ Before(buf, channel)
  /\ Known(log, emitted) /\ Known(buf, emitted) /\ Known(channel, emitted)

TypeInv == EventTypes /\ Len(log) >= 1

(* What the stream has not sent follows what it has, as long as no row is   *)
(* deleted.                                                                *)
Contiguous ==
  erased = 0 =>
    /\ Range(shown) = 1..seenSeq
    /\ lastSeq =< seenSeq
    /\ \A i \in 1..Len(batch) : batch[i] = lastSeq + i

InOrder == \A i, j \in 1..Len(shown) : i < j => shown[i] < shown[j]

Connected ==
  /\ hook # "open" => stream = "down"
  /\ stream # "send" => batch = << >>
  /\ hook = "closed" \/ ticks = 1 => run = "ended"
  /\ ticks = 1 /\ stream # "down" => lastSeq > 0

(* What is on its way reaches beyond the end or fills a page.              *)
LastLook ==
  erased = 0 /\ stream = "send" =>
    /\ lastSeq + Len(batch) >= 1
    /\ ticks = 1 => \/ lastSeq + Len(batch) >= ended
                    \/ lastSeq + Len(batch) > PageLimit

StreamInv == Contiguous /\ InOrder /\ Connected /\ LastLook /\ CompleteAtEnd

IInv == TypeInv /\ TokenInv /\ StreamInv

-----------------------------------------------------------------------------
(* The elements of two sequences put together.                             *)
LEMMA Joined ==
  ASSUME NEW S, NEW s \in Seq(S), NEW t \in Seq(S)
  PROVE  /\ s \o t \in Seq(S) /\ Len(s \o t) = Len(s) + Len(t)
         /\ \A i \in 1..Len(s) : (s \o t)[i] = s[i]
         /\ \A i \in 1..Len(t) : (s \o t)[Len(s) + i] = t[i]
  OBVIOUS

(* A sequence of places stays one when there are more places.              *)
LEMMA Wider ==
  ASSUME NEW m \in Nat, NEW n \in Nat, m =< n, NEW s \in Seq(1..m)
  PROVE  s \in Seq(1..n)
  OBVIOUS

(* An insert leaves the rows there are where they are.                     *)
LEMMA InsertKeepsRows ==
  ASSUME TypeInv, NEW es \in Seq(Event), Insert(es)
  PROVE  /\ log' \in Seq(Event) /\ lost' \in Seq(Event)
         /\ Len(log') >= Len(log)
         /\ log' \in {log, log \o es}
  <1>1. log \in Seq(Event) /\ lost \in Seq(Event)
    BY DEF TypeInv, EventTypes
  <1>2. log \o es \in Seq(Event) /\ lost \o es \in Seq(Event) /\ Len(log \o es) >= Len(log)
    BY <1>1
  <1>3. CASE log' = log \o es /\ lost' = lost
    BY <1>1, <1>2, <1>3
  <1>4. CASE log' = log /\ lost' = lost \o es
    BY <1>1, <1>2, <1>4
  <1> QED
    BY <1>3, <1>4 DEF Insert

(* Whoever leaves the rows alone or adds some leaves every bound true.      *)
LEMMA BoundsWiden ==
  ASSUME TypeInv, log' \in Seq(Event), Len(log') >= Len(log)
  PROVE  /\ {erased, ended, lastSeq, seenSeq, wsSeq} \subseteq 0..Len(log')
         /\ batch \in Seq(1..Len(log')) /\ shown \in Seq(1..Len(log'))
  <1>1. Len(log) \in Nat /\ Len(log') \in Nat
    BY DEF TypeInv, EventTypes
  <1>2. {erased, ended, lastSeq, seenSeq, wsSeq} \subseteq 0..Len(log')
    BY <1>1 DEF TypeInv, EventTypes
  <1> QED
    BY <1>1, <1>2, Wider DEF TypeInv, EventTypes

(* The places of the rows a listing finds.                                 *)
LEMMA ListedIs ==
  ASSUME TypeInv, NEW after \in 0..Len(log)
  PROVE  /\ Listed(after) \in Seq(1..Len(log))
         /\ \A i \in 1..Len(Listed(after)) : Listed(after)[i] > after
         /\ erased = 0 =>
              /\ \A i \in 1..Len(Listed(after)) : Listed(after)[i] = after + i
              /\ \/ after + Len(Listed(after)) = Len(log)
                 \/ Len(Listed(after)) = PageLimit
  <1> DEFINE from == IF after > erased THEN after ELSE erased
             upto == IF from + PageLimit < Len(log) THEN from + PageLimit ELSE Len(log)
             n == IF upto > from THEN upto - from ELSE 0
  <1>1. Len(log) \in Nat /\ erased \in 0..Len(log) /\ PageLimit \in Nat \ {0}
    BY EventBounds DEF TypeInv, EventTypes
  <1>2. from \in 0..Len(log) /\ from >= after /\ n \in Nat /\ from + n =< Len(log)
    <2>1. from \in 0..Len(log) /\ from >= after
      BY <1>1
    <2> HIDE DEF from
    <2>2. upto \in 0..Len(log)
      BY <1>1, <2>1
    <2> HIDE DEF upto
    <2> QED
      BY <1>1, <2>1, <2>2
  <1>3. Listed(after) = [i \in 1..n |-> from + i]
    BY DEF Listed
  <1>4. ASSUME erased = 0 PROVE from = after /\ (after + n = Len(log) \/ n = PageLimit)
    <2>1. from = after
      BY <1>1, <1>4
    <2>2. CASE after + PageLimit < Len(log)
      BY <1>1, <2>1, <2>2
    <2>3. CASE ~(after + PageLimit < Len(log))
      BY <1>1, <2>1, <2>3
    <2> QED
      BY <2>1, <2>2, <2>3
  <1> HIDE DEF from, n, upto
  <1>5. /\ Listed(after) \in Seq(1..Len(log)) /\ Len(Listed(after)) = n
        /\ \A i \in 1..n : Listed(after)[i] = from + i
    <2>1. \A i \in 1..n : from + i \in 1..Len(log)
      BY <1>1, <1>2
    <2> QED
      BY <1>2, <1>3, <2>1
  <1> QED
    BY <1>1, <1>2, <1>4, <1>5

(* The hook adds an event it does not have and keeps the order.            *)
LEMMA ShownIs ==
  ASSUME TypeInv, InOrder, NEW seq \in 1..Len(log)
  PROVE  /\ Shown(seq) \in Seq(1..Len(log))
         /\ Range(Shown(seq)) = Range(shown) \cup {seq}
         /\ \A i, j \in 1..Len(Shown(seq)) : i < j => Shown(seq)[i] < Shown(seq)[j]
  <1>1. Len(log) \in Nat /\ shown \in Seq(1..Len(log)) /\ Len(shown) \in Nat
    BY DEF TypeInv, EventTypes
  <1>2. Range(shown) = {shown[i] : i \in 1..Len(shown)}
    BY <1>1 DEF Range
  <1>3. CASE seq \in Range(shown)
    BY <1>1, <1>3 DEF Shown, InOrder
  <1>4. CASE seq \notin Range(shown)
    <2> DEFINE Fits(i) == /\ \A j \in 1..(i - 1) : shown[j] =< seq
                          /\ \A j \in i..Len(shown) : shown[j] > seq
               T == {i \in 1..Len(shown) : shown[i] > seq}
    <2>1. \E i \in 1..(Len(shown) + 1) : Fits(i)
      <3>1. CASE T = {}
        <4>1. Fits(Len(shown) + 1)
          BY <1>1, <3>1
        <4> QED
          BY <1>1, <4>1
      <3>2. CASE T # {}
        <4>1. T \in SUBSET Nat
          BY <1>1
        <4>2. PICK x \in T : \A y \in T : x =< y
          BY <3>2, <4>1, LeastNumber
        <4>3. \A j \in 1..(x - 1) : shown[j] =< seq
          BY <1>1, <4>2
        <4>4. \A j \in x..Len(shown) : shown[j] > seq
          BY <1>1, <4>2 DEF InOrder
        <4>5. Fits(x) /\ x \in 1..(Len(shown) + 1)
          BY <1>1, <4>2, <4>3, <4>4
        <4> HIDE DEF Fits
        <4> QED
          BY <4>5
      <3> QED
        BY <3>1, <3>2
    <2> DEFINE p == Place(seq)
    <2>2. p \in 1..(Len(shown) + 1) /\ Fits(p)
      <3>1. p = CHOOSE i \in 1..(Len(shown) + 1) : Fits(i)
        BY DEF Place
      <3> HIDE DEF Fits
      <3> QED
        BY <2>1, <3>1
    <2>3. \A j \in 1..Len(shown) : shown[j] # seq
      BY <1>2, <1>4
    <2>4. /\ \A j \in 1..(p - 1) : shown[j] < seq
          /\ \A j \in p..Len(shown) : shown[j] > seq
      BY <1>1, <2>2, <2>3
    <2> DEFINE a == SubSeq(shown, 1, p - 1)
               b == SubSeq(shown, p, Len(shown))
               c == a \o <<seq>>
               t == c \o b
    <2> HIDE DEF p, Fits
    <2>5. /\ t \in Seq(1..Len(log)) /\ Len(t) = Len(shown) + 1
          /\ \A i \in 1..(p - 1) : t[i] = shown[i]
          /\ t[p] = seq
          /\ \A i \in (p + 1)..(Len(shown) + 1) : t[i] = shown[i - 1]
      <3>1. /\ a \in Seq(1..Len(log)) /\ Len(a) = p - 1
            /\ \A i \in 1..(p - 1) : a[i] = shown[i]
        BY <1>1, <2>2
      <3>2. /\ b \in Seq(1..Len(log)) /\ Len(b) = Len(shown) - p + 1
            /\ \A i \in 1..(Len(shown) - p + 1) : b[i] = shown[p + i - 1]
        BY <1>1, <2>2
      <3> HIDE DEF a, b
      <3>3. /\ t \in Seq(1..Len(log)) /\ Len(t) = Len(a) + 1 + Len(b)
            /\ \A i \in 1..Len(a) : t[i] = a[i]
            /\ t[Len(a) + 1] = seq
            /\ \A i \in 1..Len(b) : t[Len(a) + 1 + i] = b[i]
        <4>1. /\ c \in Seq(1..Len(log)) /\ Len(c) = Len(a) + 1
              /\ \A i \in 1..Len(a) : c[i] = a[i]
              /\ c[Len(a) + 1] = seq
          BY <3>1
        <4> HIDE DEF c
        <4>2. /\ t \in Seq(1..Len(log)) /\ Len(t) = Len(c) + Len(b)
              /\ \A i \in 1..Len(c) : t[i] = c[i]
              /\ \A i \in 1..Len(b) : t[Len(c) + i] = b[i]
          <5>1. c \in Seq(1..Len(log)) /\ b \in Seq(1..Len(log))
            BY <3>2, <4>1
          <5> QED
            BY <5>1, Joined
        <4> HIDE DEF t
        <4> QED
          BY <3>1, <3>2, <4>1, <4>2
      <3>4. ASSUME NEW i \in (p + 1)..(Len(shown) + 1) PROVE t[i] = shown[i - 1]
        <4>1. i - p \in 1..Len(b) /\ Len(a) + 1 + (i - p) = i /\ p + (i - p) - 1 = i - 1
          BY <1>1, <2>2, <3>1, <3>2
        <4> HIDE DEF t
        <4> QED
          BY <3>2, <3>3, <4>1
      <3> HIDE DEF t
      <3> QED
        BY <1>1, <2>2, <3>1, <3>2, <3>3, <3>4
    <2>6. Shown(seq) = t
      BY <1>4 DEF Shown, InsertAt, p
    <2> HIDE DEF t
    <2>7. ASSUME NEW i \in 1..Len(t), NEW j \in 1..Len(t), i < j PROVE t[i] < t[j]
      <3>1. p \in Int /\ i \in Int /\ j \in Int /\ Len(shown) \in Nat
        BY <1>1, <2>2
      <3>2. \A k \in 1..Len(t) :
              /\ k < p => k \in 1..Len(shown) /\ t[k] = shown[k] /\ shown[k] < seq
              /\ k = p => t[k] = seq
              /\ k > p => k - 1 \in 1..Len(shown) /\ t[k] = shown[k - 1] /\ shown[k - 1] > seq
        <4> SUFFICES ASSUME NEW k \in 1..Len(t)
                     PROVE  /\ k < p => k \in 1..Len(shown) /\ t[k] = shown[k] /\ shown[k] < seq
                            /\ k = p => t[k] = seq
                            /\ k > p => /\ k - 1 \in 1..Len(shown) /\ t[k] = shown[k - 1]
                                        /\ shown[k - 1] > seq
          OBVIOUS
        <4>1. CASE k < p
          <5>1. k \in 1..(p - 1) /\ k \in 1..Len(shown)
            BY <2>2, <2>5, <3>1, <4>1
          <5> QED
            BY <2>4, <2>5, <3>1, <4>1, <5>1
        <4>2. CASE k = p
          BY <2>5, <3>1, <4>2
        <4>3. CASE k > p
          <5>1. /\ k \in (p + 1)..(Len(shown) + 1) /\ k - 1 \in p..Len(shown)
                /\ k - 1 \in 1..Len(shown)
            BY <2>2, <2>5, <3>1, <4>3
          <5> QED
            BY <2>4, <2>5, <3>1, <4>3, <5>1, SMTT(30)
        <4> QED
          BY <3>1, <4>1, <4>2, <4>3
      <3>3. \A k \in 1..Len(shown) : shown[k] \in Int
        BY <1>1
      <3>4. seq \in Int
        BY <1>1
      <3> HIDE DEF t
      <3>5. CASE j < p \/ i > p
        <4>1. (i < p /\ j < p) \/ (i > p /\ j > p)
          BY <2>7, <3>1, <3>5
        <4>2. CASE i < p /\ j < p
          BY <2>7, <3>1, <3>2, <4>2 DEF InOrder
        <4>3. CASE i > p /\ j > p
          <5>1. i - 1 < j - 1 /\ i - 1 \in 1..Len(shown) /\ j - 1 \in 1..Len(shown)
            BY <2>7, <3>1, <3>2, <4>3
          <5>2. t[i] = shown[i - 1] /\ t[j] = shown[j - 1]
            BY <3>2, <4>3
          <5> QED
            BY <5>1, <5>2 DEF InOrder
        <4> QED
          BY <4>1, <4>2, <4>3
      <3>6. CASE ~(j < p) /\ ~(i > p)
        <4>1. (i = p /\ j > p) \/ (i < p /\ j = p) \/ (i < p /\ j > p)
          BY <2>7, <3>1, <3>6
        <4> QED
          BY <3>2, <3>3, <3>4, <4>1
      <3> QED
        BY <3>5, <3>6
    <2>8. Range(t) = {t[i] : i \in 1..Len(t)}
      BY <2>5 DEF Range
    <2>9. Range(t) = Range(shown) \cup {seq}
      <3>1. ASSUME NEW i \in 1..Len(t) PROVE t[i] \in Range(shown) \cup {seq}
        <4>1. CASE i < p
          <5>1. i \in 1..Len(shown) /\ t[i] = shown[i]
            BY <1>1, <2>2, <2>5, <4>1
          <5> QED
            BY <1>2, <5>1
        <4>2. CASE i = p
          BY <2>5, <4>2
        <4>3. CASE i > p
          <5>1. i - 1 \in 1..Len(shown) /\ t[i] = shown[i - 1]
            BY <1>1, <2>2, <2>5, <4>3, SMTT(30)
          <5> QED
            BY <1>2, <5>1
        <4> QED
          BY <2>2, <4>1, <4>2, <4>3
      <3>2. ASSUME NEW i \in 1..Len(shown) PROVE shown[i] \in Range(t)
        <4>1. CASE i < p
          <5>1. i \in 1..Len(t) /\ t[i] = shown[i]
            BY <1>1, <2>2, <2>5, <4>1
          <5> QED
            BY <2>8, <5>1
        <4>2. CASE i >= p
          <5>1. i + 1 \in 1..Len(t) /\ i + 1 \in (p + 1)..(Len(shown) + 1) /\ (i + 1) - 1 = i
            BY <1>1, <2>2, <2>5, <4>2
          <5>2. t[i + 1] = shown[i]
            BY <2>5, <5>1
          <5> QED
            BY <2>8, <5>1, <5>2
        <4> QED
          BY <1>1, <2>2, <4>1, <4>2
      <3>3. seq \in Range(t)
        BY <2>2, <2>5, <2>8
      <3> QED
        BY <1>2, <2>8, <3>1, <3>2, <3>3
    <2> QED
      BY <2>5, <2>6, <2>7, <2>9
  <1> QED
    BY <1>3, <1>4

-----------------------------------------------------------------------------
LEMMA TypeInit == EventInit => TypeInv
  <1> SUFFICES ASSUME EventInit PROVE TypeInv
    OBVIOUS
  <1>1. [kind |-> "run", n |-> 0] \in Event /\ [kind |-> "mention", n |-> 0] \in Event
    BY EventBounds DEF Event
  <1> DEFINE queued == [kind |-> "run", n |-> 0]
             mention == [kind |-> "mention", n |-> 0]
  <1>3. log = <<queued>> \/ log = <<mention, queued>>
    BY DEF EventInit
  <1> HIDE DEF queued, mention
  <1>4. queued \in Event /\ mention \in Event
    BY <1>1 DEF queued, mention
  <1>2. log \in Seq(Event) /\ Len(log) >= 1
    <2>1. CASE log = <<queued>>
      BY <1>4, <2>1
    <2>2. CASE log = <<mention, queued>>
      BY <1>4, <2>2
    <2> QED
      BY <1>3, <2>1, <2>2
  <1> QED
    BY <1>2, EventBounds DEF EventInit, TypeInv, EventTypes

LEMMA TypeStep == TypeInv /\ InOrder /\ [EventNext]_eventVars => TypeInv'
  <1> SUFFICES ASSUME TypeInv, InOrder, [EventNext]_eventVars PROVE TypeInv'
    OBVIOUS
  <1> USE EventBounds
  <1> USE DEF writeVars, streamVars, hookVars, wsVars
  <1>0. \A s \in {log, channel, buf, lost} : s \in Seq(Event) /\ Len(s) \in Nat
    BY SMTT(30) DEF TypeInv, EventTypes
  <1>1. CASE EmitNode
    <2>1. emitted \in 0..MaxEmitted /\ emitted' = emitted + 1 /\ emitted < MaxEmitted
      BY <1>1 DEF EmitNode, TypeInv, EventTypes
    <2>2. emitted' \in 0..MaxEmitted /\ inFlight' \subseteq 1..emitted'
      BY <1>1, <2>1 DEF EmitNode, TypeInv, EventTypes
    <2>3. UNCHANGED <<run, entry, row, log, erased, channel, buf, lost, ended,
                      streamVars, hookVars, wsVars>>
      BY <1>1 DEF EmitNode
    <2> QED
      BY <2>2, <2>3 DEF TypeInv, EventTypes
  <1>2. CASE EmitToken
    <2>0. emitted \in 0..MaxEmitted /\ emitted' = emitted + 1 /\ emitted < MaxEmitted
      BY <1>2 DEF EmitToken, TypeInv, EventTypes
    <2>a. emitted' \in 0..MaxEmitted
      BY <2>0
    <2>1. [kind |-> "token", n |-> emitted'] \in Event
      BY <2>a DEF Event
    <2>2. channel' \in Seq(Event)
      BY <1>0, <1>2, <2>1 DEF EmitToken
    <2> QED
      BY <1>2, <2>0, <2>a, <2>2 DEF EmitToken, TypeInv, EventTypes
  <1>3. ASSUME NEW n \in inFlight, RecordNode(n) PROVE TypeInv'
    <2>0. n \in 1..emitted /\ emitted \in 0..MaxEmitted
      BY <1>3 DEF TypeInv, EventTypes
    <2>1. <<[kind |-> "node", n |-> n]>> \in Seq(Event)
      <3>1. n \in 0..MaxEmitted
        BY <2>0
      <3> QED
        BY <3>1 DEF Event
    <2>2. log' \in Seq(Event) /\ lost' \in Seq(Event) /\ Len(log') >= Len(log)
      BY <1>3, <2>1, InsertKeepsRows DEF RecordNode
    <2> QED
      BY <1>3, <2>2, BoundsWiden, SMTT(30) DEF RecordNode, TypeInv, EventTypes
  <1>4. CASE BatchTake
    <2>1. Head(channel) \in Event /\ Tail(channel) \in Seq(Event)
      BY <1>0, <1>4 DEF BatchTake
    <2>2. buf' \in Seq(Event) /\ channel' \in Seq(Event)
      BY <1>0, <1>4, <2>1 DEF BatchTake, Buffered
    <2> QED
      BY <1>4, <2>2 DEF BatchTake, TypeInv, EventTypes
  <1>5. CASE BatchFlush
    <2>1. log' \in Seq(Event) /\ lost' \in Seq(Event) /\ Len(log') >= Len(log)
      BY <1>0, <1>5, InsertKeepsRows DEF BatchFlush
    <2>2. buf' \in Seq(Event)
      BY <1>5 DEF BatchFlush
    <2> QED
      BY <1>5, <2>1, <2>2, BoundsWiden, SMTT(30) DEF BatchFlush, TypeInv, EventTypes
  <1>6. CASE FinishBegins
    <2>1. row' \in BOOLEAN
      BY <1>6 DEF FinishBegins, TypeInv, EventTypes
    <2> QED
      BY <1>6, <2>1 DEF FinishBegins, TypeInv, EventTypes
  <1>7. CASE FinishRecords
    <2>1. <<[kind |-> "run", n |-> 0]>> \in Seq(Event)
      BY DEF Event
    <2>2. log' \in Seq(Event) /\ lost' \in Seq(Event) /\ Len(log') >= Len(log)
      BY <1>7, <2>1, InsertKeepsRows DEF FinishRecords
    <2> QED
      BY <1>7, <2>2, BoundsWiden, SMTT(30) DEF FinishRecords, TypeInv, EventTypes
  <1>8. CASE FinishReleases
    BY <1>0, <1>8 DEF FinishReleases, TypeInv, EventTypes
  <1>9. CASE DeleteRows
    <2>1. Len(log) \in Nat /\ erased' \in 0..Len(log) /\ row' = FALSE
      BY <1>0, <1>9 DEF DeleteRows
    <2>2. UNCHANGED <<run, entry, log, emitted, inFlight, channel, buf, lost, ended,
                      streamVars, hookVars, wsVars>>
      BY <1>9 DEF DeleteRows
    <2>3. {entry, row}' \subseteq BOOLEAN
      BY <2>1, <2>2 DEF TypeInv, EventTypes
    <2>4. {erased, ended, lastSeq, seenSeq, wsSeq}' \subseteq 0..Len(log)
      BY <2>1, <2>2 DEF TypeInv, EventTypes
    <2> QED
      BY <2>2, <2>3, <2>4 DEF TypeInv, EventTypes
  <1>10. CASE DeleteEntry
    BY <1>10 DEF DeleteEntry, TypeInv, EventTypes
  <1>11. CASE StreamLists
    <2>1. batch' \in Seq(1..Len(log))
      BY <1>11, ListedIs DEF StreamLists, TypeInv, EventTypes
    <2> QED
      BY <1>11, <2>1 DEF StreamLists, TypeInv, EventTypes
  <1>19. CASE StreamFails
    BY <1>19 DEF StreamFails, TypeInv, EventTypes
  <1>12. CASE StreamSends
    <2>1. /\ Head(batch) \in 1..Len(log) /\ Tail(batch) \in Seq(1..Len(log))
          /\ seenSeq \in 0..Len(log)
      BY <1>12, SMTT(30) DEF StreamSends, TypeInv, EventTypes
    <2>2. shown' \in Seq(1..Len(log))
      BY <1>12, <2>1, ShownIs DEF StreamSends
    <2>3. seenSeq' \in 0..Len(log) /\ lastSeq' \in 0..Len(log) /\ batch' \in Seq(1..Len(log))
      BY <1>0, <1>12, <2>1 DEF StreamSends
    <2>4. UNCHANGED <<writeVars, wsVars, stream, ticks, hook, breaks>>
      BY <1>12 DEF StreamSends
    <2> QED
      BY <2>2, <2>3, <2>4 DEF TypeInv, EventTypes
  <1>13. CASE StreamLooks
    BY <1>13 DEF StreamLooks, LastTick, AfterTerminal, TypeInv, EventTypes
  <1>14. CASE StreamBreaks
    BY <1>14 DEF StreamBreaks, TypeInv, EventTypes
  <1>15. CASE Connect
    BY <1>0, <1>15 DEF Connect, TypeInv, EventTypes
  <1>16. CASE WsSends
    <2>1. wsSeq' \in 0..Len(log)
      <3> DEFINE seqs == Listed(wsSeq)
      <3>1. seqs \in Seq(1..Len(log)) /\ wsSeq \in 0..Len(log)
        BY ListedIs DEF TypeInv, EventTypes
      <3> HIDE DEF seqs
      <3>2. seqs # << >> => Last(seqs) \in 1..Len(log)
        BY <3>1 DEF Last
      <3>3. wsSeq' \in {wsSeq, IF seqs = << >> THEN wsSeq ELSE Last(seqs)}
        BY <1>16 DEF WsSends, seqs
      <3> QED
        BY <1>0, <3>1, <3>2, <3>3
    <2> QED
      BY <1>16, <2>1 DEF WsSends, TypeInv, EventTypes
  <1>17. CASE WsLooks
    BY <1>17 DEF WsLooks, RunSeen, TypeInv, EventTypes
  <1>18. CASE UNCHANGED eventVars
    BY <1>18 DEF eventVars, TypeInv, EventTypes
  <1> QED
    BY <1>1, <1>2, <1>3, <1>4, <1>5, <1>6, <1>7, <1>8, <1>9, <1>10, <1>11, <1>12, <1>13,
       <1>14, <1>15, <1>16, <1>17, <1>18, <1>19
       DEF EventNext, Recorder, Browser, WebSocket

-----------------------------------------------------------------------------
(* What holds of two pieces of the queue holds of the two put together.     *)
LEMMA TokensJoin ==
  ASSUME NEW s \in Seq(Event), NEW t \in Seq(Event), NEW u \in Seq(Event), NEW m \in Nat
  PROVE  /\ Rising(s) /\ Rising(t) /\ Before(s, t) => Rising(s \o t)
         /\ Before(s, u) /\ Before(t, u) => Before(s \o t, u)
         /\ Before(u, s) /\ Before(u, t) => Before(u, s \o t)
         /\ Known(s, m) /\ Known(t, m) => Known(s \o t, m)
  <1> DEFINE st == s \o t
  <1>1. Len(s) \in Nat /\ Len(t) \in Nat /\ Len(st) = Len(s) + Len(t)
    BY Joined
  <1>2. ASSUME NEW i \in 1..Len(st)
        PROVE  \/ i =< Len(s) /\ i \in 1..Len(s) /\ st[i] = s[i]
               \/ i > Len(s) /\ i - Len(s) \in 1..Len(t) /\ st[i] = t[i - Len(s)]
    <2>1. CASE i =< Len(s)
      <3>1. i \in 1..Len(s)
        BY <1>1, <2>1
      <3> QED
        BY <2>1, <3>1, Joined
    <2>2. CASE i > Len(s)
      <3>1. i - Len(s) \in 1..Len(t) /\ Len(s) + (i - Len(s)) = i
        BY <1>1, <2>2
      <3> QED
        BY <2>2, <3>1, Joined
    <2> QED
      BY <1>1, <2>1, <2>2
  <1> HIDE DEF st
  <1>3. ASSUME Rising(s), Rising(t), Before(s, t) PROVE Rising(st)
    <2> SUFFICES ASSUME NEW i \in 1..Len(st), NEW j \in 1..Len(st), i < j,
                        st[i].kind = "token", st[j].kind = "token"
                 PROVE  st[i].n < st[j].n
      BY DEF Rising
    <2>1. CASE j =< Len(s)
      <3>1. i =< Len(s)
        BY <1>1, <2>1
      <3> QED
        BY <1>1, <1>2, <1>3, <2>1, <3>1 DEF Rising
    <2>2. CASE i =< Len(s) /\ j > Len(s)
      <3>1. i \in 1..Len(s) /\ st[i] = s[i] /\ j - Len(s) \in 1..Len(t) /\ st[j] = t[j - Len(s)]
        BY <1>1, <1>2, <2>2
      <3> QED
        BY <1>3, <3>1 DEF Before
    <2>3. CASE i > Len(s)
      <3>1. j > Len(s)
        BY <1>1, <2>3
      <3>2. i - Len(s) \in 1..Len(t) /\ st[i] = t[i - Len(s)]
        BY <1>1, <1>2, <2>3
      <3>3. j - Len(s) \in 1..Len(t) /\ st[j] = t[j - Len(s)]
        BY <1>1, <1>2, <3>1
      <3>4. i - Len(s) < j - Len(s)
        BY <1>1
      <3> QED
        BY <1>3, <3>2, <3>3, <3>4 DEF Rising
    <2> QED
      BY <1>1, <2>1, <2>2, <2>3
  <1>4. Before(s, u) /\ Before(t, u) => Before(st, u)
    BY <1>2 DEF Before
  <1>5. Before(u, s) /\ Before(u, t) => Before(u, st)
    BY <1>2 DEF Before
  <1>6. Known(s, m) /\ Known(t, m) => Known(st, m)
    BY <1>2 DEF Known
  <1> QED
    BY <1>3, <1>4, <1>5, <1>6 DEF st

(* What holds of a queue holds of its head and of what follows it.          *)
LEMMA TokensSplit ==
  ASSUME NEW s \in Seq(Event), s # << >>, NEW u \in Seq(Event), NEW m \in Nat
  PROVE  /\ <<Head(s)>> \in Seq(Event) /\ Tail(s) \in Seq(Event)
         /\ Rising(s) => Rising(<<Head(s)>>) /\ Rising(Tail(s))
                         /\ Before(<<Head(s)>>, Tail(s))
         /\ Before(u, s) => Before(u, <<Head(s)>>) /\ Before(u, Tail(s))
         /\ Known(s, m) => Known(<<Head(s)>>, m) /\ Known(Tail(s), m)
  <1> DEFINE h == <<Head(s)>>
             t == Tail(s)
  <1>1. /\ h \in Seq(Event) /\ t \in Seq(Event)
        /\ Len(s) \in Nat /\ Len(s) >= 1
        /\ Len(h) = 1 /\ h[1] = s[1] /\ Len(t) = Len(s) - 1
        /\ \A i \in 1..Len(t) : t[i] = s[i + 1]
    OBVIOUS
  <1> HIDE DEF h, t
  <1>2. 1 \in 1..Len(s) /\ \A i \in 1..Len(t) : i + 1 \in 1..Len(s) /\ 1 < i + 1
    BY <1>1
  <1>3. ASSUME Rising(s) PROVE Rising(h) /\ Rising(t) /\ Before(h, t)
    <2>1. Rising(h)
      BY <1>1 DEF Rising
    <2>2. Rising(t)
      <3> SUFFICES ASSUME NEW i \in 1..Len(t), NEW j \in 1..Len(t), i < j,
                          t[i].kind = "token", t[j].kind = "token"
                   PROVE  t[i].n < t[j].n
        BY DEF Rising
      <3>1. i + 1 < j + 1
        BY <1>1
      <3> QED
        BY <1>1, <1>2, <1>3, <3>1 DEF Rising
    <2>3. Before(h, t)
      BY <1>1, <1>2, <1>3 DEF Rising, Before
    <2> QED
      BY <2>1, <2>2, <2>3
  <1>4. ASSUME Before(u, s) PROVE Before(u, h) /\ Before(u, t)
    <2>1. ASSUME NEW i \in 1..Len(u), NEW j \in 1..Len(h),
                 u[i].kind = "token", h[j].kind = "token"
          PROVE  u[i].n < h[j].n
      <3>1. h[j] = s[1]
        BY <1>1
      <3> QED
        BY <1>2, <1>4, <2>1, <3>1 DEF Before
    <2>2. ASSUME NEW i \in 1..Len(u), NEW j \in 1..Len(t),
                 u[i].kind = "token", t[j].kind = "token"
          PROVE  u[i].n < t[j].n
      BY <1>1, <1>2, <1>4, <2>2 DEF Before
    <2> QED
      BY <2>1, <2>2 DEF Before
  <1>5. Known(s, m) => Known(h, m) /\ Known(t, m)
    BY <1>1, <1>2, SMTT(30) DEF Known
  <1> QED
    BY <1>1, <1>3, <1>4, <1>5 DEF h, t

(* An event's number is a number.                                          *)
LEMMA NumbersAre == \A s \in Seq(Event) : \A i \in 1..Len(s) : s[i].n \in Int
  <1> SUFFICES ASSUME NEW s \in Seq(Event), NEW i \in 1..Len(s) PROVE s[i].n \in Int
    OBVIOUS
  <1>1. s[i] \in Event
    OBVIOUS
  <1>2. s[i].n \in 0..MaxEmitted
    BY <1>1 DEF Event
  <1> QED
    BY <1>2, EventBounds

LEMMA TokenInit == EventInit => TokenInv
  <1> SUFFICES ASSUME EventInit PROVE TokenInv
    OBVIOUS
  <1>1. /\ \A i \in 1..Len(log) : log[i].kind # "token" /\ log[i].n = 0
        /\ Len(buf) = 0 /\ Len(channel) = 0 /\ emitted = 0
    BY DEF EventInit
  <1> QED
    BY <1>1 DEF TokenInv, Rising, Before, Known

LEMMA TokenStep == TypeInv /\ TokenInv /\ [EventNext]_eventVars => TokenInv'
  <1> SUFFICES ASSUME TypeInv, TokenInv, [EventNext]_eventVars PROVE TokenInv'
    OBVIOUS
  <1>0. /\ log \in Seq(Event) /\ buf \in Seq(Event) /\ channel \in Seq(Event)
        /\ emitted \in 0..MaxEmitted
    BY DEF TypeInv, EventTypes
  <1>1. /\ Rising(log) /\ Rising(buf) /\ Rising(channel)
        /\ Before(log, buf) /\ Before(log, channel) /\ Before(buf, channel)
        /\ Known(log, emitted) /\ Known(buf, emitted) /\ Known(channel, emitted)
    BY DEF TokenInv
  <1>2. CASE UNCHANGED <<log, buf, channel, emitted>>
    BY <1>1, <1>2 DEF TokenInv
  <1>3. \A s \in Seq(Event) : Known(s, emitted) => Known(s, emitted + 1)
    <2> SUFFICES ASSUME NEW s \in Seq(Event), Known(s, emitted), NEW i \in 1..Len(s)
                 PROVE  s[i].n =< emitted + 1
      BY DEF Known
    <2>1. s[i].n \in Int /\ s[i].n =< emitted
      BY NumbersAre DEF Known
    <2> QED
      BY <1>0, <2>1
  <1>4. CASE EmitNode
    <2>1. UNCHANGED <<log, buf, channel>> /\ emitted' = emitted + 1
      BY <1>4 DEF EmitNode
    <2> QED
      BY <1>0, <1>1, <1>3, <2>1 DEF TokenInv
  <1>5. CASE EmitToken
    <2> DEFINE e == [kind |-> "token", n |-> emitted + 1]
    <2>1. /\ UNCHANGED <<log, buf>> /\ emitted' = emitted + 1
          /\ channel' = Append(channel, e)
      BY <1>5 DEF EmitToken
    <2>2. e \in Event /\ e.n = emitted + 1
      BY <1>0, <1>5, EventBounds DEF EmitToken, Event
    <2> HIDE DEF e
    <2> DEFINE t == <<e>>
    <2>3. t \in Seq(Event) /\ Len(t) = 1 /\ t[1] = e /\ channel' = channel \o t
      BY <1>0, <2>1, <2>2
    <2> HIDE DEF t
    <2>4. \A s \in Seq(Event) : Known(s, emitted) => Before(s, t)
      <3> SUFFICES ASSUME NEW s \in Seq(Event), Known(s, emitted),
                          NEW i \in 1..Len(s), NEW j \in 1..Len(t)
                   PROVE  s[i].n < t[j].n
        BY DEF Before
      <3>1. t[j].n = emitted + 1
        BY <2>2, <2>3
      <3>2. s[i].n \in Int /\ s[i].n =< emitted
        BY NumbersAre DEF Known
      <3> QED
        BY <1>0, <3>1, <3>2
    <2>5. Rising(t) /\ Known(t, emitted + 1)
      BY <1>0, <2>2, <2>3 DEF Rising, Known
    <2>6. Rising(channel') /\ Before(log, channel') /\ Before(buf, channel')
      BY <1>0, <1>1, <2>3, <2>4, <2>5, TokensJoin
    <2>7. emitted + 1 \in Nat
      BY <1>0
    <2>8. Known(channel', emitted + 1)
      BY <1>0, <1>1, <1>3, <2>3, <2>5, <2>7, TokensJoin
    <2> QED
      BY <1>0, <1>1, <1>3, <2>1, <2>6, <2>8 DEF TokenInv
  <1>6. CASE BatchTake
    <2> DEFINE h == <<Head(channel)>>
               t == Tail(channel)
    <2>1. /\ UNCHANGED <<log, emitted>> /\ channel # << >>
          /\ buf' = Append(buf, Head(channel)) /\ channel' = t
      BY <1>6 DEF BatchTake, Buffered
    <2>2. /\ h \in Seq(Event) /\ t \in Seq(Event)
          /\ Rising(h) /\ Rising(t) /\ Before(h, t)
          /\ Before(log, h) /\ Before(log, t) /\ Before(buf, h) /\ Before(buf, t)
          /\ Known(h, emitted) /\ Known(t, emitted)
      BY <1>0, <1>1, <2>1, TokensSplit
    <2>3. buf' = buf \o h
      BY <1>0, <2>1, <2>2
    <2> HIDE DEF h, t
    <2>4. /\ Rising(buf') /\ Before(log, buf') /\ Before(buf', t)
          /\ Known(buf', emitted)
      BY <1>0, <1>1, <2>2, <2>3, TokensJoin
    <2> QED
      BY <1>1, <2>1, <2>2, <2>4 DEF TokenInv
  <1>7. ASSUME NEW e \in Event, e.kind # "token", e.n =< emitted, Insert(<<e>>),
               UNCHANGED <<buf, channel, emitted>>
        PROVE  TokenInv'
    <2>1. CASE log' = log
      BY <1>2, <1>7, <2>1
    <2> DEFINE t == <<e>>
    <2>2. CASE log' = log \o t
      <3>1. t \in Seq(Event) /\ Len(t) = 1 /\ t[1] = e
        OBVIOUS
      <3> HIDE DEF t
      <3>2. /\ Rising(t) /\ Known(t, emitted)
            /\ Before(log, t) /\ Before(t, buf) /\ Before(t, channel)
        BY <1>7, <3>1 DEF Rising, Known, Before
      <3>3. /\ Rising(log') /\ Known(log', emitted)
            /\ Before(log', buf) /\ Before(log', channel)
        BY <1>0, <1>1, <2>2, <3>1, <3>2, TokensJoin
      <3> QED
        BY <1>1, <1>7, <3>3 DEF TokenInv
    <2> QED
      BY <1>7, <2>1, <2>2 DEF Insert
  <1>8. CASE BatchFlush
    <2>1. buf' = << >> /\ UNCHANGED <<channel, emitted>>
      BY <1>8 DEF BatchFlush
    <2>2. Len(buf') = 0
      BY <2>1
    <2>3. /\ Rising(buf') /\ Known(buf', emitted) /\ Before(buf', channel)
          /\ Before(log', buf')
      BY <2>2 DEF Rising, Known, Before
    <2>4. CASE log' = log
      BY <1>1, <2>1, <2>3, <2>4 DEF TokenInv
    <2>5. CASE log' = log \o buf
      <3>1. Rising(log') /\ Known(log', emitted) /\ Before(log', channel)
        BY <1>0, <1>1, <2>5, TokensJoin
      <3> QED
        BY <1>1, <2>1, <2>3, <3>1 DEF TokenInv
    <2> QED
      BY <1>8, <2>4, <2>5 DEF BatchFlush, Insert
  <1>9. ASSUME NEW n \in inFlight, RecordNode(n) PROVE TokenInv'
    <2>0. n \in 1..emitted
      BY DEF TypeInv, EventTypes
    <2>1. n \in 0..MaxEmitted /\ n =< emitted
      BY <1>0, <2>0, EventBounds
    <2>2. [kind |-> "node", n |-> n] \in Event
      BY <2>1 DEF Event
    <2> QED
      BY <1>0, <1>7, <1>9, <2>1, <2>2 DEF RecordNode
  <1>10. CASE FinishRecords
    <2>1. [kind |-> "run", n |-> 0] \in Event /\ 0 =< emitted
      BY <1>0, EventBounds DEF Event
    <2> QED
      BY <1>7, <1>10, <2>1 DEF FinishRecords
  <1> QED
    BY <1>2, <1>4, <1>5, <1>6, <1>8, <1>9, <1>10
    DEF EventNext, Recorder, Browser, WebSocket, eventVars, writeVars, FinishBegins,
        FinishReleases, DeleteRows, DeleteEntry, StreamLists, StreamFails, StreamSends,
        StreamLooks, StreamBreaks, Connect, WsSends, WsLooks

-----------------------------------------------------------------------------
LEMMA StreamInit == EventInit => StreamInv
  <1> SUFFICES ASSUME EventInit PROVE StreamInv
    OBVIOUS
  <1>1. Contiguous
    BY DEF EventInit, Contiguous, Range
  <1>2. InOrder /\ Connected /\ LastLook /\ CompleteAtEnd
    BY DEF EventInit, InOrder, Connected, LastLook, CompleteAtEnd
  <1> QED
    BY <1>1, <1>2 DEF StreamInv

(* The recorder and the WebSocket touch nothing of the stream; the guard is *)
(* taken and released while nobody has been told of an end.                *)
LEMMA OthersKeepStream ==
  ASSUME TypeInv, StreamInv, UNCHANGED <<streamVars, hookVars>>,
         \/ UNCHANGED <<run, erased, ended>>
         \/ run # "ended" /\ UNCHANGED <<erased, ended>>
         \/ run # "ended" /\ run' = "ended" /\ UNCHANGED erased
         \/ erased' > 0 /\ UNCHANGED run
  PROVE  StreamInv'
  <1> USE DEF streamVars, hookVars
  <1>1. CASE UNCHANGED <<run, erased, ended>>
    BY <1>1 DEF StreamInv, Contiguous, InOrder, Connected, LastLook, CompleteAtEnd
  <1>2. CASE run # "ended" /\ UNCHANGED erased
    <2>1. hook # "closed" /\ ticks # 1
      BY <1>2 DEF StreamInv, Connected
    <2>2. Contiguous' /\ InOrder'
      BY <1>2 DEF StreamInv, Contiguous, InOrder
    <2>3. Connected'
      BY <2>1 DEF StreamInv, Connected
    <2>4. LastLook' /\ CompleteAtEnd'
      BY <1>2, <2>1 DEF StreamInv, LastLook, CompleteAtEnd
    <2> QED
      BY <2>2, <2>3, <2>4 DEF StreamInv
  <1>3. CASE erased' > 0 /\ UNCHANGED run
    <2>1. erased' # 0
      BY <1>3
    <2> QED
      BY <1>3, <2>1 DEF StreamInv, Contiguous, InOrder, Connected, LastLook, CompleteAtEnd
  <1> QED
    BY <1>1, <1>2, <1>3

LEMMA ListsKeepStream ==
  ASSUME TypeInv, StreamInv, StreamLists
  PROVE  StreamInv'
  <1> USE DEF writeVars, hookVars, wsVars
  <1>1. /\ UNCHANGED <<erased, ended, run, log, lastSeq, ticks, hook, seenSeq, shown>>
        /\ stream = "list" /\ stream' = "send" /\ batch' = Listed(lastSeq)
    BY DEF StreamLists
  <1>2. /\ Len(log) \in Nat /\ Len(log) >= 1 /\ lastSeq \in 0..Len(log)
        /\ ended \in 0..Len(log) /\ PageLimit \in Nat /\ PageLimit >= 1
    BY EventBounds, SMTT(30) DEF TypeInv, EventTypes
  <1> DEFINE b == Listed(lastSeq)
  <1>3. /\ b \in Seq(1..Len(log))
        /\ erased = 0 =>
             /\ \A i \in 1..Len(b) : b[i] = lastSeq + i
             /\ lastSeq + Len(b) = Len(log) \/ Len(b) = PageLimit
    BY <1>2, ListedIs
  <1> HIDE DEF b
  <1>4. Len(b) \in Nat /\ batch' = b
    BY <1>1, <1>3 DEF b
  <1>5. Contiguous'
    BY <1>1, <1>3, <1>4 DEF StreamInv, Contiguous
  <1>6. InOrder' /\ Connected'
    BY <1>1, <1>2 DEF StreamInv, InOrder, Connected
  <1>7. LastLook'
    <2> SUFFICES ASSUME erased = 0
                 PROVE  /\ lastSeq + Len(b) >= 1
                        /\ ticks = 1 => \/ lastSeq + Len(b) >= ended
                                        \/ lastSeq + Len(b) > PageLimit
      BY <1>1, <1>4 DEF LastLook
    <2>1. ticks = 1 => lastSeq > 0
      BY <1>1 DEF StreamInv, Connected
    <2> QED
      BY <1>2, <1>3, <1>4, <2>1
  <1>8. CompleteAtEnd'
    BY <1>1 DEF StreamInv, CompleteAtEnd
  <1> QED
    BY <1>5, <1>6, <1>7, <1>8 DEF StreamInv

LEMMA SendsKeepStream ==
  ASSUME TypeInv, StreamInv, StreamSends
  PROVE  StreamInv'
  <1> USE DEF writeVars, wsVars
  <1>1. /\ UNCHANGED <<erased, ended, run, log, stream, ticks, hook>>
        /\ stream = "send" /\ batch # << >> /\ batch' = Tail(batch)
        /\ lastSeq' = Head(batch) /\ shown' = Shown(Head(batch))
        /\ seenSeq' = IF Head(batch) > seenSeq THEN Head(batch) ELSE seenSeq
    BY DEF StreamSends
  <1>2. /\ Len(log) \in Nat /\ lastSeq \in 0..Len(log) /\ seenSeq \in 0..Len(log)
        /\ batch \in Seq(1..Len(log))
    BY DEF TypeInv, EventTypes
  <1>3. /\ Head(batch) \in 1..Len(log) /\ Head(batch) = batch[1]
        /\ Len(batch) \in Nat /\ Len(batch) >= 1 /\ Len(batch') = Len(batch) - 1
        /\ \A i \in 1..Len(batch') : batch'[i] = batch[i + 1] /\ i + 1 \in 1..Len(batch)
    BY <1>1, <1>2
  <1>4. /\ Range(shown') = Range(shown) \cup {Head(batch)}
        /\ \A i, j \in 1..Len(shown') : i < j => shown'[i] < shown'[j]
    BY <1>1, <1>3, ShownIs DEF StreamInv
  <1>5. InOrder'
    BY <1>4 DEF InOrder
  <1>6. ASSUME erased = 0
        PROVE  /\ lastSeq' = lastSeq + 1
               /\ lastSeq' + Len(batch') = lastSeq + Len(batch)
               /\ Range(shown') = 1..seenSeq' /\ lastSeq' =< seenSeq'
               /\ \A i \in 1..Len(batch') : batch'[i] = lastSeq' + i
    <2>1. /\ Range(shown) = 1..seenSeq /\ lastSeq =< seenSeq
          /\ \A i \in 1..Len(batch) : batch[i] = lastSeq + i
      BY <1>6 DEF StreamInv, Contiguous
    <2>2. lastSeq' = lastSeq + 1 /\ Head(batch) = lastSeq + 1
      BY <1>1, <1>3, <2>1
    <2>3. lastSeq' + Len(batch') = lastSeq + Len(batch)
      BY <1>2, <1>3, <2>2
    <2>4. Range(shown') = 1..seenSeq' /\ lastSeq' =< seenSeq'
      <3>1. CASE lastSeq + 1 > seenSeq
        <4>1. seenSeq = lastSeq /\ seenSeq' = seenSeq + 1
          BY <1>1, <1>2, <2>1, <2>2, <3>1
        <4>2. (1..seenSeq) \cup {seenSeq + 1} = 1..(seenSeq + 1)
          BY <1>2
        <4> QED
          BY <1>2, <1>4, <2>1, <2>2, <4>1, <4>2
      <3>2. CASE ~ (lastSeq + 1 > seenSeq)
        <4>1. lastSeq + 1 \in 1..seenSeq /\ seenSeq' = seenSeq
          BY <1>1, <1>2, <2>2, <3>2
        <4> QED
          BY <1>2, <1>4, <2>1, <2>2, <4>1
      <3> QED
        BY <3>1, <3>2
    <2>5. \A i \in 1..Len(batch') : batch'[i] = lastSeq' + i
      BY <1>2, <1>3, <2>1, <2>2
    <2> QED
      BY <2>2, <2>3, <2>4, <2>5
  <1>7. Contiguous'
    BY <1>1, <1>6 DEF Contiguous
  <1>8. Connected'
    <2>1. hook = "open"
      BY <1>1 DEF StreamInv, Connected
    <2>2. lastSeq' > 0
      BY <1>1, <1>2, <1>3
    <2> QED
      BY <1>1, <2>1, <2>2 DEF StreamInv, Connected
  <1>9. LastLook'
    BY <1>1, <1>6 DEF StreamInv, LastLook
  <1>10. CompleteAtEnd'
    BY <1>1 DEF StreamInv, Connected, CompleteAtEnd
  <1> QED
    BY <1>5, <1>7, <1>8, <1>9, <1>10 DEF StreamInv

(* The stream ends after its second look at an ended run, so what it sent   *)
(* before that look was listed after the end.                              *)
LEMMA LooksKeepStream ==
  ASSUME TypeInv, StreamInv, StreamLooks
  PROVE  StreamInv'
  <1> USE DEF writeVars, wsVars
  <1>1. /\ UNCHANGED <<erased, ended, run, log, lastSeq, batch, seenSeq, shown>>
        /\ stream = "send" /\ batch = << >>
    BY DEF StreamLooks
  <1>2. /\ Len(log) \in Nat /\ lastSeq \in 0..Len(log) /\ seenSeq \in 0..Len(log)
        /\ ended \in 0..Len(log) /\ ticks \in 0..1 /\ PageLimit \in Nat
    BY EventBounds DEF TypeInv, EventTypes
  <1>3. Contiguous' /\ InOrder'
    BY <1>1 DEF StreamInv, Contiguous, InOrder
  <1>4. hook = "open"
    BY <1>1 DEF StreamInv, Connected
  <1>5. CASE /\ stream' = "list" /\ ticks' = ticks + 1 /\ hook' = hook
             /\ RunSeen = "terminal" /\ lastSeq > 0
    <2>1. run = "ended"
      BY <1>5 DEF RunSeen
    <2> QED
      BY <1>1, <1>3, <1>4, <1>5, <2>1 DEF StreamInv, Connected, LastLook, CompleteAtEnd
  <1>6. CASE /\ stream' = "down" /\ ticks' = ticks /\ hook' = "closed"
             /\ RunSeen = "terminal" /\ ~ (lastSeq > 0 /\ ticks + 1 < 2)
    <2>1. run = "ended"
      BY <1>6 DEF RunSeen
    <2>2. CompleteAtEnd'
      <3> SUFFICES ASSUME erased = 0
                   PROVE  1..ended \subseteq Range(shown) \/ seenSeq > PageLimit
        BY <1>1 DEF CompleteAtEnd
      <3>1. Len(batch) = 0
        BY <1>1
      <3>2. /\ lastSeq >= 1
            /\ ticks = 1 => lastSeq >= ended \/ lastSeq > PageLimit
        BY <1>1, <1>2, <3>1 DEF StreamInv, LastLook
      <3>3. ticks = 1
        BY <1>2, <1>6, <3>2
      <3>4. Range(shown) = 1..seenSeq /\ lastSeq =< seenSeq
        BY DEF StreamInv, Contiguous
      <3> QED
        BY <1>2, <3>2, <3>3, <3>4
    <2> QED
      BY <1>1, <1>3, <1>6, <2>1, <2>2 DEF StreamInv, Connected, LastLook
  <1>7. CASE stream' = "list" /\ ticks' = 0 /\ hook' = hook
    BY <1>1, <1>3, <1>4, <1>7 DEF StreamInv, Connected, LastLook, CompleteAtEnd
  <1>8. CASE stream' = "down" /\ ticks' = ticks /\ hook' = "connecting"
    BY <1>1, <1>3, <1>8 DEF StreamInv, Connected, LastLook, CompleteAtEnd
  <1> QED
    BY <1>5, <1>6, <1>7, <1>8 DEF StreamLooks, LastTick, AfterTerminal

LEMMA BreaksKeepStream ==
  ASSUME TypeInv, StreamInv, StreamBreaks \/ StreamFails \/ Connect
  PROVE  StreamInv'
  <1> USE DEF writeVars, wsVars
  <1>1. UNCHANGED <<erased, ended, run, seenSeq, shown>> /\ hook' # "closed"
    BY DEF StreamBreaks, StreamFails, Connect
  <1>2. InOrder' /\ CompleteAtEnd'
    BY <1>1 DEF StreamInv, InOrder, CompleteAtEnd
  <1>3. seenSeq \in Nat
    BY DEF TypeInv, EventTypes
  <1>4. CASE StreamBreaks
    <2>1. /\ hook' = "connecting" /\ stream' = "down" /\ batch' = << >>
          /\ UNCHANGED <<lastSeq, ticks>>
      BY <1>4 DEF StreamBreaks
    <2>2. Len(batch') = 0
      BY <2>1
    <2>3. Contiguous'
      BY <1>1, <2>1, <2>2 DEF StreamInv, Contiguous
    <2> QED
      BY <1>1, <1>2, <2>1, <2>3 DEF StreamInv, Connected, LastLook
  <1>5. CASE Connect
    <2>1. /\ hook' = "open" /\ stream' = "list" /\ ticks' = 0 /\ batch' = batch
          /\ lastSeq' \in {0, seenSeq} /\ hook = "connecting"
      BY <1>5 DEF Connect
    <2>2. batch = << >>
      BY <2>1 DEF StreamInv, Connected
    <2>3. Len(batch') = 0
      BY <2>1, <2>2
    <2>4. Contiguous'
      BY <1>1, <1>3, <2>1, <2>3 DEF StreamInv, Contiguous
    <2> QED
      BY <1>1, <1>2, <2>1, <2>2, <2>4 DEF StreamInv, Connected, LastLook
  <1>6. CASE StreamFails
    <2>1. /\ hook' = "connecting" /\ stream' = "down" /\ batch' = batch /\ stream = "list"
          /\ UNCHANGED <<lastSeq, ticks>>
      BY <1>6 DEF StreamFails
    <2>2. batch = << >> /\ Len(batch') = 0
      BY <2>1 DEF StreamInv, Connected
    <2>3. Contiguous'
      BY <1>1, <2>1, <2>2 DEF StreamInv, Contiguous
    <2> QED
      BY <1>1, <1>2, <2>1, <2>2, <2>3 DEF StreamInv, Connected, LastLook
  <1> QED
    BY <1>4, <1>5, <1>6

LEMMA StreamStep == TypeInv /\ StreamInv /\ [EventNext]_eventVars => StreamInv'
  <1> SUFFICES ASSUME TypeInv, StreamInv, [EventNext]_eventVars PROVE StreamInv'
    OBVIOUS
  <1>1. CASE UNCHANGED <<streamVars, hookVars, run, erased, ended>>
    BY <1>1, OthersKeepStream
  <1>2. CASE FinishBegins \/ FinishRecords \/ FinishReleases
    BY <1>2, OthersKeepStream DEF FinishBegins, FinishRecords, FinishReleases
  <1>3. CASE DeleteRows
    <2>1. Len(log) \in Nat /\ Len(log) >= 1
      BY DEF TypeInv, EventTypes
    <2>2. erased' > 0 /\ UNCHANGED <<run, streamVars, hookVars>>
      BY <1>3, <2>1 DEF DeleteRows
    <2> QED
      BY <2>2, OthersKeepStream
  <1>4. CASE Browser \/ StreamBreaks
    BY <1>4, ListsKeepStream, SendsKeepStream, LooksKeepStream, BreaksKeepStream DEF Browser
  <1> QED
    BY <1>1, <1>2, <1>3, <1>4
    DEF EventNext, Recorder, WebSocket, eventVars, writeVars, EmitNode, EmitToken, RecordNode, BatchTake,
        BatchFlush, DeleteEntry, WsSends, WsLooks

-----------------------------------------------------------------------------
(* EventInvariant: IInv is an inductive invariant of the module.            *)
THEOREM EventInvariant == EventSpec => []IInv
  <1>1. EventInit => IInv
    BY TypeInit, TokenInit, StreamInit DEF IInv
  <1>2. IInv /\ [EventNext]_eventVars => IInv'
    BY TypeStep, TokenStep, StreamStep DEF IInv, StreamInv
  <1> QED
    BY <1>1, <1>2, PTL DEF EventSpec

(* EventTypeCorrect: every variable keeps its type; what a stream or a      *)
(* client has got are rows that were inserted.                             *)
THEOREM EventTypeCorrect == EventSpec => []EventTypes
  <1>1. IInv => EventTypes
    BY DEF IInv, TypeInv
  <1> QED
    BY <1>1, EventInvariant, PTL

(* BrowserFaithfulHolds: whatever events a run emits, whichever inserts     *)
(* fail and connections break, and however the polls fall between the steps *)
(* of finish_run, a browser's list has no hole and no double, is complete   *)
(* when it is told of the end (up to a page), and the tokens are in order.  *)
THEOREM BrowserFaithfulHolds == EventSpec => []BrowserFaithful
  <1>1. TypeInv /\ InOrder /\ Contiguous => NothingSkipped
    <2> SUFFICES ASSUME TypeInv, InOrder, Contiguous PROVE NothingSkipped
      OBVIOUS
    <2>1. Len(shown) \in Nat
      BY DEF TypeInv, EventTypes
    <2>2. \A i \in 1..Len(shown) - 1 : shown[i] < shown[i + 1]
      BY <2>1 DEF InOrder
    <2> QED
      BY <2>2 DEF NothingSkipped, Contiguous
  <1>2. TokenInv => TokensInOrder
    BY DEF TokenInv, TokensInOrder, Rising
  <1>3. IInv => BrowserFaithful
    BY <1>1, <1>2 DEF IInv, StreamInv, BrowserFaithful
  <1> QED
    BY <1>3, EventInvariant, PTL
=============================================================================
