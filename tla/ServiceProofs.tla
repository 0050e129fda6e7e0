--------------------------- MODULE ServiceProofs ---------------------------
(***************************************************************************)
(* What the webhook dispatcher (WebhookDelivery), the messaging gateway    *)
(* (Gateway), the MCP client (McpClient), the terminals (Terminal) and the *)
(* execution of a node (NodeExecution) promise, proved of each component's *)
(* own specification: every delivery is accounted for, the end of a run is *)
(* told once, a reply is the one that was asked for, a browser sees what a *)
(* terminal wrote, and an attempt leaves nothing behind.                   *)
(***************************************************************************)
EXTENDS WebhookDelivery, Gateway, McpClient, Terminal, NodeExecution, DataLemmas

-----------------------------------------------------------------------------
(* Webhook deliveries                                                      *)

(* What the dispatchers hold. One that waits for an answer or a row has the *)
(* key it sends under, one between two endpoints only what is left to do.   *)
Holds(q, ks) ==
  q \in [pc : {"send", "row"}, todo : {q.todo}, key : ks, attempt : 1..Attempts,
         delivered : BOOLEAN]
Carrying(d) == sending[d].pc \in {"send", "row"}

(* The keys are names of endpoints, whatever those are; a key is acted on   *)
(* once at most.                                                            *)
HookTypes ==
  /\ \E S : keys \in Seq(S)
  /\ acted \in [1..Len(keys) -> {0, 1}]
  /\ acted \in Seq({0, 1})
  /\ turnedDown \subseteq DOMAIN keys
  /\ DOMAIN sending = Dispatcher /\ sending = [d \in Dispatcher |-> sending[d]]
  /\ \A d \in Dispatcher :
       \/ sending[d] = NoDispatch
       \/ sending[d] = [pc |-> "next", todo |-> sending[d].todo]
       \/ Holds(sending[d], DOMAIN keys)

(* A key is sent by one dispatcher, and until its row is written: there is  *)
(* no row of it yet, and it is turned down when the last attempt has failed.*)
OneSender ==
  \A d, e \in Dispatcher :
    Carrying(d) /\ Carrying(e) /\ sending[d].key = sending[e].key => d = e
OnItsWay ==
  \A d \in Dispatcher : Carrying(d) =>
    LET q == sending[d]
    IN  /\ \A r \in deliveries : r.key # q.key
        /\ q.delivered => acted[q.key] = 1
        /\ q.delivered \in BOOLEAN
        /\ q.pc = "send" => q.delivered = FALSE /\ q.key \notin turnedDown
        /\ q.pc = "row" => (q.key \in turnedDown <=> ~q.delivered)

(* A row is of a key, says whether the receiver acted on it, and is the     *)
(* only one of its key; a key that was turned down has a dead row.          *)
RowsTrue ==
  /\ \A r \in deliveries :
       /\ r.key \in DOMAIN keys
       /\ r.delivered => acted[r.key] = 1
       /\ r.dead <=> r.key \in turnedDown
  /\ \A r, s \in deliveries : r.key = s.key => r = s
(* A key that nobody carries has its row, unless a crash, a dropped request *)
(* or a failed store lost it.                                               *)
AllAccounted ==
  \A k \in DOMAIN keys \ (Pending \cup unaccounted) : \E r \in deliveries : r.key = k

(* The inductive invariant of the deliveries.                               *)
HookInv == HookTypes /\ OneSender /\ OnItsWay /\ RowsTrue /\ AllAccounted

(* The keys under way are those that some dispatcher carries.               *)
LEMMA PendingIs ==
  \A k : k \in Pending <=> \E d \in Dispatcher : Carrying(d) /\ sending[d].key = k
  BY DEF Pending, Carrying

(* There are no keys at the start.                                          *)
LEMMA HookInit == WebhookInit => HookInv
  <1> SUFFICES ASSUME WebhookInit PROVE HookInv
    OBVIOUS
  <1>1. keys \in Seq({}) /\ acted \in [1..Len(keys) -> {0, 1}] /\ acted \in Seq({0, 1})
        /\ DOMAIN keys = {}
    BY DEF WebhookInit
  <1>2. \A d \in Dispatcher : sending[d] = NoDispatch /\ ~Carrying(d)
    BY DEF WebhookInit, Carrying, NoDispatch
  <1> QED
    BY <1>1, <1>2 DEF WebhookInit, HookInv, HookTypes, OneSender, OnItsWay, RowsTrue,
       AllAccounted

(* A dispatcher that carries nothing before and after a step.              *)
LEMMA HandsFree ==
  ASSUME HookInv, NEW d \in Dispatcher, ~Carrying(d), NEW job,
         job = NoDispatch \/ job = [pc |-> "next", todo |-> job.todo],
         sending' = [sending EXCEPT ![d] = job],
         UNCHANGED <<keys, acted, turnedDown, deliveries, unaccounted>>
  PROVE  HookInv'
  <1>1. /\ DOMAIN sending' = Dispatcher /\ sending' = [e \in Dispatcher |-> sending'[e]]
        /\ sending'[d] = job
        /\ \A e \in Dispatcher : e # d => sending'[e] = sending[e]
    BY DEF HookInv, HookTypes
  <1>2. ~(job.pc \in {"send", "row"})
    BY DEF NoDispatch
  <1>3. \A e \in Dispatcher : Carrying(e)' <=> Carrying(e)
    BY <1>1, <1>2 DEF Carrying
  <1>4. \A e \in Dispatcher : Carrying(e) => sending'[e] = sending[e]
    BY <1>1
  <1>5. \A k : k \in Pending' <=> k \in Pending
    BY <1>3, <1>4 DEF Pending, Carrying
  <1>6. HookTypes'
    BY <1>1, <1>3 DEF HookInv, HookTypes
  <1>7. OneSender'
    BY <1>3, <1>4 DEF HookInv, OneSender
  <1>8. OnItsWay'
    BY <1>3, <1>4 DEF HookInv, OnItsWay
  <1>9. RowsTrue' /\ AllAccounted'
    BY <1>5 DEF HookInv, RowsTrue, AllAccounted
  <1> QED
    BY <1>6, <1>7, <1>8, <1>9 DEF HookInv

(* What a dispatcher that carries a key holds.                             *)
LEMMA CarriedIs ==
  ASSUME HookTypes, NEW d \in Dispatcher
  PROVE  /\ Carrying(d) <=> Holds(sending[d], DOMAIN keys)
         /\ Carrying(d) => /\ sending[d].key \in DOMAIN keys
                           /\ sending[d].attempt \in 1..Attempts
  <1>1. CASE sending[d] = NoDispatch
    BY <1>1 DEF NoDispatch, Carrying, Holds
  <1>2. CASE sending[d] = [pc |-> "next", todo |-> sending[d].todo]
    <2>1. sending[d].pc = "next"
      BY <1>2
    <2> QED
      BY <2>1 DEF Carrying, Holds
  <1>3. CASE Holds(sending[d], DOMAIN keys)
    BY <1>3 DEF Carrying, Holds
  <1> QED
    BY <1>1, <1>2, <1>3 DEF HookTypes

(* What an attempt that is repeated leaves of the job. *)
LEMMA Again ==
  ASSUME NEW ks, NEW q, Holds(q, ks), NEW n \in 1..Attempts, NEW j,
         j = [q EXCEPT !.attempt = n]
  PROVE  /\ Holds(j, ks) /\ j.pc = q.pc /\ j.key = q.key /\ j.attempt = n
         /\ j.delivered = q.delivered
  BY DEF Holds
(* A job whose last attempt was refused waits for its row.                  *)
LEMMA Refused ==
  ASSUME NEW ks, NEW q, Holds(q, ks), NEW j, j = [q EXCEPT !.pc = "row"]
  PROVE  /\ Holds(j, ks) /\ j.pc = "row" /\ j.key = q.key /\ j.attempt = q.attempt
         /\ j.delivered = q.delivered
  BY DEF Holds
(* More keys do not spoil a job.                                            *)
LEMMA HoldsMore ==
  ASSUME NEW ks, NEW ls, ks \subseteq ls, NEW q, Holds(q, ks)
  PROVE  Holds(q, ls)
  BY DEF Holds

(* The next endpoint: a new key, of which there is no row, nor has anybody  *)
(* else it.                                                                 *)
LEMMA TakesKey ==
  ASSUME HookInv, NEW d \in Dispatcher, NextEndpoint(d), sending[d].todo # << >>
  PROVE  HookInv'
  <1> DEFINE k == Len(keys) + 1
             job == [pc |-> "send", todo |-> Tail(sending[d].todo), key |-> k, attempt |-> 1,
                     delivered |-> FALSE]
  <1>0. ~Carrying(d)
    BY DEF NextEndpoint, Carrying
  <1>1. /\ sending' = [sending EXCEPT ![d] = job]
        /\ keys' = Append(keys, Head(sending[d].todo).e)
        /\ acted' = Append(acted, 0)
        /\ UNCHANGED <<turnedDown, deliveries, unaccounted>>
    BY DEF NextEndpoint
  <1> DEFINE x == Head(sending[d].todo).e
  <1>2. PICK S : keys \in Seq(S)
    BY DEF HookInv, HookTypes
  <1>3. /\ Len(keys) \in Nat /\ DOMAIN keys = 1..Len(keys)
        /\ keys' \in Seq(S \cup {x}) /\ Len(keys') = k /\ DOMAIN keys' = 1..k
    <2> HIDE DEF x
    <2> DEFINE T == S \cup {x}
    <2>1. keys \in Seq(T) /\ x \in T
      BY <1>2
    <2> HIDE DEF T
    <2>2. keys' = Append(keys, x)
      BY <1>1 DEF x
    <2>3. keys' \in Seq(T) /\ Len(keys') = Len(keys) + 1
      BY <2>1, <2>2
    <2> QED
      BY <2>1, <2>3 DEF T
  <1>4. /\ acted' \in [1..k -> {0, 1}] /\ acted' \in Seq({0, 1}) /\ acted'[k] = 0
        /\ \A i \in DOMAIN keys : acted'[i] = acted[i]
    <2>1. acted \in Seq({0, 1}) /\ Len(acted) = Len(keys)
      BY <1>3 DEF HookInv, HookTypes
    <2>2. /\ acted' \in Seq({0, 1}) /\ Len(acted') = k /\ acted'[k] = 0
          /\ \A i \in 1..Len(keys) : acted'[i] = acted[i]
      BY <1>1, <1>3, <2>1
    <2> QED
      BY <1>3, <2>2
  <1>5. k \notin DOMAIN keys /\ k \in 1..k /\ \A i \in DOMAIN keys : i \in 1..k
    BY <1>3
  <1>6. /\ DOMAIN sending' = Dispatcher /\ sending' = [e \in Dispatcher |-> sending'[e]]
        /\ sending'[d] = job
        /\ \A e \in Dispatcher : e # d => sending'[e] = sending[e]
    <2> HIDE DEF job
    <2> QED
      BY <1>1 DEF HookInv, HookTypes
  <1>7. /\ job.pc = "send" /\ job.key = k /\ job.attempt = 1 /\ job.delivered = FALSE
        /\ Holds(job, 1..k)
    <2>1. k \in 1..k
      BY <1>5
    <2> QED
      BY <2>1 DEF Holds, Attempts
  <1> HIDE DEF job
  <1>8. Carrying(d)' /\ \A e \in Dispatcher : e # d => (Carrying(e)' <=> Carrying(e))
    BY <1>6, <1>7 DEF Carrying
  <1>9. \A e \in Dispatcher : Carrying(e) => sending[e].key \in DOMAIN keys /\ e # d
    BY <1>0, CarriedIs DEF HookInv
  <1> HIDE DEF k
  <1>10. HookTypes'
    <2>1. \E T : keys' \in Seq(T)
      BY <1>3
    <2>2. \A e \in Dispatcher :
            \/ sending'[e] = NoDispatch
            \/ sending'[e] = [pc |-> "next", todo |-> sending'[e].todo]
            \/ Holds(sending'[e], DOMAIN keys')
      <3> SUFFICES ASSUME NEW e \in Dispatcher
                   PROVE  \/ sending'[e] = NoDispatch
                          \/ sending'[e] = [pc |-> "next", todo |-> sending'[e].todo]
                          \/ Holds(sending'[e], DOMAIN keys')
        OBVIOUS
      <3>1. CASE e = d
        BY <1>3, <1>6, <1>7, <3>1
      <3>2. CASE e # d
        <4>1. DOMAIN keys \subseteq DOMAIN keys' /\ sending'[e] = sending[e]
          BY <1>3, <1>5, <1>6, <3>2
        <4> QED
          BY <4>1, HoldsMore DEF HookInv, HookTypes
      <3> QED
        BY <3>1, <3>2
    <2>3. turnedDown' \subseteq DOMAIN keys'
      BY <1>1, <1>3, <1>5 DEF HookInv, HookTypes
    <2> QED
      BY <1>3, <1>4, <1>6, <2>1, <2>2, <2>3 DEF HookTypes
  <1>11. OneSender'
    BY <1>5, <1>6, <1>7, <1>8, <1>9 DEF HookInv, OneSender
  <1>12. OnItsWay'
    <2>1. k \notin turnedDown /\ \A r \in deliveries : r.key # k
      BY <1>5 DEF HookInv, HookTypes, RowsTrue
    <2> SUFFICES ASSUME NEW e \in Dispatcher, Carrying(e)'
                 PROVE  /\ \A r \in deliveries : r.key # sending'[e].key
                        /\ sending'[e].delivered => acted'[sending'[e].key] = 1
                        /\ sending'[e].delivered \in BOOLEAN
                        /\ sending'[e].pc = "send" => /\ sending'[e].delivered = FALSE
                                                      /\ sending'[e].key \notin turnedDown
                        /\ sending'[e].pc = "row" => (sending'[e].key \in turnedDown
                                                        <=> ~sending'[e].delivered)
      BY <1>1 DEF OnItsWay
    <2>2. CASE e = d
      BY <1>6, <1>7, <2>1, <2>2
    <2>3. CASE e # d
      <3>1. Carrying(e) /\ sending'[e] = sending[e] /\ sending[e].key \in DOMAIN keys
        BY <1>6, <1>8, <1>9, <2>3
      <3> QED
        BY <1>4, <3>1 DEF HookInv, OnItsWay
    <2> QED
      BY <2>2, <2>3
  <1>13. RowsTrue'
    BY <1>1, <1>3, <1>4, <1>5 DEF HookInv, RowsTrue
  <1>14. AllAccounted'
    <2> SUFFICES ASSUME NEW i \in DOMAIN keys', i \notin Pending', i \notin unaccounted
                 PROVE  \E r \in deliveries : r.key = i
      BY <1>1 DEF AllAccounted
    <2>1. i # k
      BY <1>6, <1>7, <1>8 DEF Pending, Carrying
    <2>2. i \in DOMAIN keys
      BY <1>3, <2>1 DEF k
    <2>3. i \notin Pending
      BY <1>6, <1>8, <1>9 DEF Pending, Carrying
    <2> QED
      BY <2>2, <2>3 DEF HookInv, AllAccounted
  <1> QED
    BY <1>10, <1>11, <1>12, <1>13, <1>14 DEF HookInv

(* An attempt: whatever arrives, the receiver acts on a key once.           *)
LEMMA Attempted ==
  ASSUME HookInv, NEW d \in Dispatcher,
         NEW arrives \in BOOLEAN, NEW accepts \in BOOLEAN, NEW answered \in BOOLEAN,
         SendAttempt(d, arrives, accepts, answered)
  PROVE  HookInv'
  <1> DEFINE q == sending[d]
             k == q.key
             seen == acted[k] > 0
             ok == arrives /\ answered /\ (seen \/ accepts)
             job == sending'[d]
  <1>1. /\ q.pc = "send" /\ Carrying(d) /\ Holds(q, DOMAIN keys) /\ k \in DOMAIN keys
        /\ q.attempt \in 1..3 /\ q.delivered = FALSE /\ k \notin turnedDown
        /\ \A r \in deliveries : r.key # k
    <2>1. q.pc = "send" /\ Carrying(d)
      BY DEF SendAttempt, Carrying
    <2>2. /\ Holds(q, DOMAIN keys) /\ k \in DOMAIN keys /\ q.attempt \in 1..3
      BY <2>1, CarriedIs DEF HookInv, Attempts
    <2>3. /\ q.delivered = FALSE /\ k \notin turnedDown
          /\ \A r \in deliveries : r.key # k
      BY <2>1 DEF HookInv, OnItsWay
    <2> QED
      BY <2>1, <2>2, <2>3
  <1>2. UNCHANGED <<keys, deliveries, unaccounted>>
    BY DEF SendAttempt
  <1>3. /\ DOMAIN sending' = Dispatcher /\ sending' = [e \in Dispatcher |-> sending'[e]]
        /\ \A e \in Dispatcher : e # d => sending'[e] = sending[e]
    BY DEF SendAttempt, HookInv, HookTypes
  <1>4. /\ DOMAIN keys = 1..Len(keys) /\ acted \in [DOMAIN keys -> {0, 1}]
        /\ acted \in Seq({0, 1})
    BY DEF HookInv, HookTypes
  <1>5. /\ acted' \in [DOMAIN keys -> {0, 1}] /\ acted' \in Seq({0, 1})
        /\ \A i \in DOMAIN keys : i # k => acted'[i] = acted[i]
        /\ \A i \in DOMAIN keys : acted[i] = 1 => acted'[i] = 1
        /\ ok => acted'[k] = 1
    <2>1. acted' = IF arrives /\ accepts /\ ~seen THEN [acted EXCEPT ![k] = @ + 1] ELSE acted
      BY DEF SendAttempt
    <2>2. acted[k] \in {0, 1}
      BY <1>1, <1>4
    <2>3. CASE arrives /\ accepts /\ ~seen
      <3>0. acted[k] = 0
        BY <2>2, <2>3
      <3>1. acted' = [acted EXCEPT ![k] = 1]
        BY <2>1, <2>3, <3>0
      <3> QED
        BY <1>1, <1>4, <3>1
    <2>4. CASE ~(arrives /\ accepts /\ ~seen)
      BY <1>1, <1>4, <2>1, <2>2, <2>4
    <2> QED
      BY <2>3, <2>4
  <1>6. /\ turnedDown' = IF ~ok /\ q.attempt = 3 THEN turnedDown \cup {k} ELSE turnedDown
        /\ job = CASE ok -> [q EXCEPT !.pc = "row", !.delivered = TRUE]
                   [] ~ok /\ q.attempt < 3 -> [q EXCEPT !.attempt = @ + 1]
                   [] OTHER -> [q EXCEPT !.pc = "row"]
    <2>1. d \in DOMAIN sending
      BY DEF HookInv, HookTypes
    <2> QED
      BY <2>1 DEF SendAttempt, Attempts
  <1> HIDE DEF ok, seen
  <1>7. /\ Holds(job, DOMAIN keys) /\ job.key = k /\ job.attempt \in 1..3
        /\ job.pc \in {"send", "row"} /\ job.delivered \in BOOLEAN
        /\ job.delivered => acted'[k] = 1
        /\ job.pc = "send" => job.delivered = FALSE /\ k \notin turnedDown'
        /\ job.pc = "row" => (k \in turnedDown' <=> ~job.delivered)
    <2>1. CASE ok
      <3>1. job = [q EXCEPT !.pc = "row", !.delivered = TRUE] /\ turnedDown' = turnedDown
        BY <1>6, <2>1
      <3>2. /\ Holds(job, DOMAIN keys) /\ job.pc = "row" /\ job.key = k
            /\ job.attempt = q.attempt
            /\ job.delivered = TRUE
        <4>1. Holds(q, DOMAIN keys)
          BY <1>1
        <4> HIDE DEF job, q
        <4> QED
          BY <4>1, <3>1 DEF Holds, k
      <3> QED
        BY <1>1, <1>5, <2>1, <3>1, <3>2
    <2>2. CASE ~ok /\ q.attempt < 3
      <3> DEFINE n == q.attempt + 1
      <3>1. job = [q EXCEPT !.attempt = n] /\ turnedDown' = turnedDown
        BY <1>1, <1>6, <2>2
      <3>2. /\ Holds(job, DOMAIN keys) /\ job.pc = q.pc /\ job.key = k /\ job.attempt = n
            /\ job.delivered = q.delivered
        <4>1. n \in 1..Attempts
          BY <1>1, <2>2 DEF Attempts
        <4> HIDE DEF n
        <4> QED
          BY <1>1, <3>1, <4>1, Again
      <3>3. job.attempt \in 1..3
        BY <1>1, <2>2, <3>2
      <3>4. job.pc = "send" /\ job.delivered = FALSE
        BY <1>1, <3>2
      <3> HIDE DEF n, q, job
      <3> QED
        BY <1>1, <3>1, <3>2, <3>3, <3>4
    <2>3. CASE ~ok /\ ~(q.attempt < 3)
      <3>1. q.attempt = 3
        BY <1>1, <2>3
      <3>2. job = [q EXCEPT !.pc = "row"] /\ turnedDown' = turnedDown \cup {k}
        BY <1>6, <2>3, <3>1
      <3>3. /\ Holds(job, DOMAIN keys) /\ job.pc = "row" /\ job.key = k
            /\ job.attempt = q.attempt
            /\ job.delivered = q.delivered
        <4>1. Holds(q, DOMAIN keys)
          BY <1>1
        <4> HIDE DEF job, q
        <4> QED
          BY <4>1, <3>2, Refused DEF k
      <3> QED
        BY <1>1, <3>2, <3>3
    <2> QED
      BY <2>1, <2>2, <2>3
  <1>8. turnedDown' \in {turnedDown, turnedDown \cup {k}}
    BY <1>6
  <1> HIDE DEF q, k, job
  <1>9. \A e \in Dispatcher : /\ Carrying(e)' <=> Carrying(e)
                              /\ (Carrying(e) => sending'[e].key = sending[e].key)
    BY <1>1, <1>3, <1>7 DEF Carrying, job, q, k
  <1>10. HookTypes'
    <2>1. \A e \in Dispatcher :
            \/ sending'[e] = NoDispatch
            \/ sending'[e] = [pc |-> "next", todo |-> sending'[e].todo]
            \/ Holds(sending'[e], DOMAIN keys')
      <3> SUFFICES ASSUME NEW e \in Dispatcher
                   PROVE  \/ sending'[e] = NoDispatch
                          \/ sending'[e] = [pc |-> "next", todo |-> sending'[e].todo]
                          \/ Holds(sending'[e], DOMAIN keys')
        OBVIOUS
      <3>1. CASE e = d
        BY <1>1, <1>2, <1>7, <1>9, <3>1 DEF Attempts, job, q, k
      <3>2. CASE e # d
        BY <1>2, <1>3, <1>9, <3>2 DEF HookInv, HookTypes
      <3> QED
        BY <3>1, <3>2
    <2>2. turnedDown' \subseteq DOMAIN keys'
      BY <1>1, <1>2, <1>8 DEF HookInv, HookTypes
    <2>3. \E S : keys' \in Seq(S)
      BY <1>2 DEF HookInv, HookTypes
    <2> QED
      BY <1>2, <1>3, <1>4, <1>5, <2>1, <2>2, <2>3 DEF HookTypes
  <1>11. OneSender'
    BY <1>9 DEF HookInv, OneSender
  <1>12. OnItsWay'
    <2> SUFFICES ASSUME NEW e \in Dispatcher, Carrying(e)'
                 PROVE  /\ \A r \in deliveries : r.key # sending'[e].key
                        /\ sending'[e].delivered => acted'[sending'[e].key] = 1
                        /\ sending'[e].delivered \in BOOLEAN
                        /\ sending'[e].pc = "send" => /\ sending'[e].delivered = FALSE
                                                      /\ sending'[e].key \notin turnedDown'
                        /\ sending'[e].pc = "row" => (sending'[e].key \in turnedDown'
                                                        <=> ~sending'[e].delivered)
      BY <1>2 DEF OnItsWay
    <2>1. CASE e = d
      BY <1>1, <1>7, <2>1 DEF job, q, k
    <2>2. CASE e # d
      <3>1. /\ Carrying(e) /\ sending'[e] = sending[e] /\ sending[e].key # k
            /\ sending[e].key \in DOMAIN keys
        BY <1>1, <1>3, <1>9, <2>2, CarriedIs DEF HookInv, OneSender, k, q
      <3> QED
        BY <1>5, <1>8, <3>1 DEF HookInv, OnItsWay
    <2> QED
      BY <2>1, <2>2
  <1>13. RowsTrue'
    BY <1>1, <1>2, <1>5, <1>8 DEF HookInv, RowsTrue
  <1>14. AllAccounted'
    <2>1. Pending' = Pending
      BY <1>9, PendingIs, PendingIs' DEF Pending, Carrying
    <2> QED
      BY <1>2, <2>1 DEF HookInv, AllAccounted
  <1> QED
    BY <1>10, <1>11, <1>12, <1>13, <1>14 DEF HookInv

(* The row is written, or the store fails and the key is unaccounted.       *)
LEMMA Stored ==
  ASSUME HookInv, NEW d \in Dispatcher, NEW ok \in BOOLEAN, StoreDelivery(d, ok)
  PROVE  HookInv'
  <1> DEFINE q == sending[d]
             k == q.key
             row == [key |-> k, e |-> keys[k], attempts |-> q.attempt,
                     delivered |-> q.delivered, dead |-> ~q.delivered]
             job == [pc |-> "next", todo |-> q.todo]
  <1>1. /\ q.pc = "row" /\ Carrying(d) /\ k \in DOMAIN keys
        /\ \A r \in deliveries : r.key # k
        /\ q.delivered => acted[k] = 1
        /\ q.delivered \in BOOLEAN
        /\ k \in turnedDown <=> ~q.delivered
    <2>1. q.pc = "row" /\ Carrying(d)
      BY DEF StoreDelivery, Carrying
    <2> QED
      BY <2>1, CarriedIs DEF HookInv, OnItsWay
  <1>2. /\ sending' = [sending EXCEPT ![d] = job] /\ UNCHANGED <<keys, acted, turnedDown>>
        /\ \/ deliveries' = deliveries \cup {row} /\ unaccounted' = unaccounted
           \/ deliveries' = deliveries /\ unaccounted' = unaccounted \cup {k}
    BY DEF StoreDelivery
  <1>3. /\ DOMAIN sending' = Dispatcher /\ sending' = [e \in Dispatcher |-> sending'[e]]
        /\ sending'[d] = job
        /\ \A e \in Dispatcher : e # d => sending'[e] = sending[e]
    BY <1>2 DEF HookInv, HookTypes
  <1>4. ~Carrying(d)' /\ \A e \in Dispatcher : e # d => (Carrying(e)' <=> Carrying(e))
    BY <1>3 DEF Carrying
  <1>5. \A e \in Dispatcher : Carrying(e) /\ e # d => sending[e].key # k
    BY <1>1 DEF HookInv, OneSender
  <1>6. row.key = k /\ row.delivered = q.delivered /\ row.dead = ~q.delivered
    OBVIOUS
  <1>7. job = [pc |-> "next", todo |-> job.todo]
    OBVIOUS
  <1> HIDE DEF q, k, row, job
  <1>8. HookTypes'
    BY <1>2, <1>3, <1>4, <1>7 DEF HookInv, HookTypes
  <1>9. OneSender'
    BY <1>3, <1>4 DEF HookInv, OneSender
  <1>10. OnItsWay'
    <2> SUFFICES ASSUME NEW e \in Dispatcher, Carrying(e)'
                 PROVE  /\ \A r \in deliveries' : r.key # sending[e].key
                        /\ sending'[e] = sending[e] /\ Carrying(e)
      BY <1>2 DEF OnItsWay, HookInv
    <2>1. e # d /\ Carrying(e) /\ sending'[e] = sending[e]
      BY <1>3, <1>4
    <2>2. sending[e].key # k /\ \A r \in deliveries : r.key # sending[e].key
      BY <1>5, <2>1 DEF HookInv, OnItsWay
    <2> QED
      BY <1>2, <1>6, <2>1, <2>2
  <1>11. RowsTrue'
    BY <1>1, <1>2, <1>6 DEF HookInv, RowsTrue
  <1>12. AllAccounted'
    <2> SUFFICES ASSUME NEW i \in DOMAIN keys, i \notin Pending', i \notin unaccounted'
                 PROVE  \E r \in deliveries' : r.key = i
      BY <1>2 DEF AllAccounted
    <2>1. CASE i = k
      BY <1>2, <1>6, <2>1
    <2>2. CASE i # k
      <3>1. i \notin Pending
        BY <1>3, <1>4, <2>2 DEF Pending, Carrying, k, q
      <3> QED
        BY <1>2, <3>1 DEF HookInv, AllAccounted
    <2> QED
      BY <2>1, <2>2
  <1> QED
    BY <1>8, <1>9, <1>10, <1>11, <1>12 DEF HookInv

(* Dispatchers that die: what they carried is unaccounted.                  *)
LEMMA DispatchersDied ==
  ASSUME HookInv, NEW S \in SUBSET Dispatcher, Forget(S)
  PROVE  HookInv'
  <1>1. /\ \A e \in S : Carrying(e) => sending[e].key \in unaccounted'
        /\ unaccounted \subseteq unaccounted'
        /\ sending' = [e \in Dispatcher |-> IF e \in S THEN NoDispatch ELSE sending[e]]
        /\ UNCHANGED <<keys, acted, turnedDown, deliveries>>
    BY DEF Forget, Carrying
  <1>2. /\ \A e \in S : sending'[e] = NoDispatch /\ ~Carrying(e)'
        /\ \A e \in Dispatcher \ S : sending'[e] = sending[e] /\ (Carrying(e)' <=> Carrying(e))
    BY <1>1 DEF Carrying, NoDispatch
  <1>3. HookTypes'
    BY <1>1, <1>2 DEF HookInv, HookTypes
  <1>4. OneSender' /\ OnItsWay' /\ RowsTrue'
    BY <1>1, <1>2 DEF HookInv, OneSender, OnItsWay, RowsTrue
  <1>5. AllAccounted'
    <2> SUFFICES ASSUME NEW i \in DOMAIN keys, i \notin Pending', i \notin unaccounted'
                 PROVE  \E r \in deliveries : r.key = i
      BY <1>1 DEF AllAccounted
    <2>1. ASSUME NEW e \in Dispatcher, Carrying(e), sending[e].key = i PROVE FALSE
      <3>1. e \notin S
        BY <1>1, <2>1
      <3>2. Carrying(e)' /\ sending'[e].key = i
        BY <1>2, <2>1, <3>1
      <3> QED
        BY <3>2 DEF Pending, Carrying
    <2>2. i \notin Pending
      BY <2>1, PendingIs
    <2> QED
      BY <1>1, <2>2 DEF HookInv, AllAccounted
  <1> QED
    BY <1>3, <1>4, <1>5 DEF HookInv

(* Every step keeps the invariant.                                          *)
LEMMA HookStep == HookInv /\ [WebhookNext]_webhookVars => HookInv'
  <1> SUFFICES ASSUME HookInv, [WebhookNext]_webhookVars PROVE HookInv'
    OBVIOUS
  <1>1. CASE UNCHANGED <<sending, keys, acted, turnedDown, deliveries, unaccounted>>
    <2>1. HookTypes' /\ OneSender'
      BY <1>1 DEF HookInv, HookTypes, OneSender, Carrying
    <2>2. OnItsWay' /\ RowsTrue'
      BY <1>1 DEF HookInv, OnItsWay, RowsTrue, Carrying
    <2>3. AllAccounted'
      BY <1>1 DEF HookInv, AllAccounted, Pending
    <2> QED
      BY <2>1, <2>2, <2>3 DEF HookInv
  <1>2. ASSUME NEW d \in Dispatcher, DispatchEvent(d) PROVE HookInv'
    <2>1. ~Carrying(d)
      BY <1>2 DEF DispatchEvent, Carrying, NoDispatch
    <2> QED
      BY <1>2, <2>1, HandsFree DEF DispatchEvent
  <1>3. ASSUME NEW d \in Dispatcher, NEW row \in deliveries, ReplayDelivery(d, row)
        PROVE  HookInv'
    <2>1. ~Carrying(d)
      BY <1>3 DEF ReplayDelivery, Carrying, NoDispatch
    <2> QED
      BY <1>3, <2>1, HandsFree DEF ReplayDelivery
  <1>4. ASSUME NEW d \in Dispatcher, NextEndpoint(d) PROVE HookInv'
    <2>1. ~Carrying(d)
      BY <1>4 DEF NextEndpoint, Carrying
    <2>2. CASE sending[d].todo = << >>
      <3>1. /\ sending' = [sending EXCEPT ![d] = NoDispatch]
            /\ UNCHANGED <<keys, acted, turnedDown, deliveries, unaccounted>>
        BY <1>4, <2>2 DEF NextEndpoint
      <3> QED
        BY <2>1, <3>1, HandsFree
    <2> QED
      BY <1>4, <2>2, TakesKey
  <1>5. ASSUME NEW d \in Dispatcher, NEW arrives \in BOOLEAN, NEW accepts \in BOOLEAN,
               NEW answered \in BOOLEAN, SendAttempt(d, arrives, accepts, answered)
        PROVE  HookInv'
    BY <1>5, Attempted
  <1>6. ASSUME NEW d \in Dispatcher, NEW ok \in BOOLEAN, StoreDelivery(d, ok)
        PROVE  HookInv'
    BY <1>6, Stored
  <1>7. ASSUME NEW e \in Endpoint, NEW yes \in BOOLEAN, RegisterWebhook(e, yes)
        PROVE  HookInv'
    BY <1>1, <1>7 DEF RegisterWebhook
  <1>8. CASE DispatcherCrash \/ \E d \in RequestTask : RequestDropped(d)
    <2>1. PICK S \in SUBSET Dispatcher : Forget(S)
      BY <1>8, WebhookAssumption DEF DispatcherCrash, RequestDropped
    <2> QED
      BY <2>1, DispatchersDied
  <1>9. CASE UNCHANGED webhookVars
    BY <1>1, <1>9 DEF webhookVars
  <1> QED
    BY <1>2, <1>3, <1>4, <1>5, <1>6, <1>7, <1>8, <1>9 DEF WebhookNext

(* Every delivery started is accounted for by one row that says what        *)
(* happened to it, except what a crash, a dropped request or a failed store *)
(* lost, and no receiver acts twice on a key, whatever the endpoints,       *)
(* dispatchers and bounds (webhook/mod.rs, dispatch_with_endpoints).        *)
THEOREM DeliveriesAccountedHolds == WebhookSpec => []DeliveriesAccounted
  <1>1. HookInv => DeliveriesAccounted
    <2> SUFFICES ASSUME HookInv PROVE DeliveriesAccounted
      OBVIOUS
    <2>1. ASSUME NEW k \in DOMAIN keys \ (Pending \cup unaccounted)
          PROVE  Cardinality({r \in deliveries : r.key = k}) = 1
      <3>1. PICK x \in deliveries : x.key = k
        BY DEF HookInv, AllAccounted
      <3>2. {r \in deliveries : r.key = k} = {x}
        BY <3>1 DEF HookInv, RowsTrue
      <3> QED
        BY <3>2, FS_Singleton
    <2>2. \A k \in DOMAIN keys : acted[k] <= 1
      <3>1. \A k \in DOMAIN keys : acted[k] \in {0, 1}
        BY DEF HookInv, HookTypes
      <3> QED
        BY <3>1
    <2> QED
      BY <2>1, <2>2 DEF DeliveriesAccounted, HookInv, RowsTrue
  <1> QED
    BY <1>1, HookInit, HookStep, PTL DEF WebhookSpec

-----------------------------------------------------------------------------
(* The gateway                                                             *)

(* What a task of the gateway is, and a run started by one.                 *)
Task ==
  [surface : Surface, command : Command, channel : Channel, run : Nat, session : Nat,
   expired : BOOLEAN, lost : BOOLEAN, unheard : BOOLEAN,
   stage : {"resolve", "create", "act", "answer", "follow", "channel", "end"}]
ChatRun == [session : Nat, state : {"going", "over", "deleted"}]
IsFollowed(t) == t.run # 0 /\ t.command \in Followed(t.surface)

(* What can be shown of the first n runs: the result of one, in either way. *)
Way == {"edit", "message"}
Tellings(n) == (1..n) \X Way

(* told names runs there have been.                                         *)
GatewayTypes ==
  /\ mapped \in [Channel -> Nat] /\ sessionCount \in Nat
  /\ chatRuns \in Seq(ChatRun) /\ chat \in Seq(Task)
  /\ told \in Seq(Tellings(Len(chatRuns)))

(* A task has a run once it has acted; until it ends that run is not shown, *)
(* but by an edit nobody heard of, and then it is unless the task was lost. *)
TaskOK(t, tl) ==
  /\ t.stage \in {"resolve", "create", "act"} => t.run = 0
  /\ t.stage \in {"follow", "channel"} => IsFollowed(t)
  /\ t.stage # "end" => ~Has(tl, <<t.run, "message">>)
  /\ t.stage \notin {"channel", "end"} => ~Has(tl, <<t.run, "edit">>)
  /\ t.stage = "channel" /\ Has(tl, <<t.run, "edit">>) => t.unheard
  /\ Has(tl, <<t.run, "edit">>) /\ Has(tl, <<t.run, "message">>) => t.unheard
  /\ t.stage = "end" /\ ~t.lost /\ IsFollowed(t) =>
       Has(tl, <<t.run, "edit">>) \/ Has(tl, <<t.run, "message">>)
TasksOK ==
  \A i \in DOMAIN chat : TaskOK(chat[i], told) /\ chat[i].run \in 0..Len(chatRuns)
(* A run belongs to one task.                                               *)
OneTaskPerRun ==
  \A i, j \in DOMAIN chat : chat[i].run # 0 /\ chat[i].run = chat[j].run => i = j
(* No run is told of twice in one way.                                      *)
ToldOnce == \A k, l \in DOMAIN told : told[k] = told[l] => k = l

(* The inductive invariant of the gateway.                                  *)
GatewayInv == GatewayTypes /\ TasksOK /\ OneTaskPerRun /\ ToldOnce

(* It holds at the start, where there are no tasks.                         *)
LEMMA GatewayStarts == GatewayInit => GatewayInv
  <1> SUFFICES ASSUME GatewayInit PROVE GatewayInv
    OBVIOUS
  <1>1. DOMAIN chat = {} /\ DOMAIN told = {}
    BY DEF GatewayInit
  <1>2. GatewayTypes
    BY DEF GatewayInit, GatewayTypes
  <1> QED
    BY <1>1, <1>2 DEF GatewayInv, TasksOK, OneTaskPerRun, ToldOnce

(* Nobody is told twice of a run that nobody was told of.                  *)
LEMMA ToldMore ==
  ASSUME NEW S, NEW tl \in Seq(S), NEW x \in S, ~Has(tl, x),
         \A k, l \in DOMAIN tl : tl[k] = tl[l] => k = l
  PROVE  \A k, l \in DOMAIN Append(tl, x) : Append(tl, x)[k] = Append(tl, x)[l] => k = l
  <1>1. \A y : Once(tl, y)
    BY DEF Once
  <1>2. \A y : Once(Append(tl, x), y)
    BY <1>1, HasMore
  <1> QED
    BY <1>2 DEF Once

(* A task moves, and may start a run, or tell of its own.                   *)
LEMMA TaskMoves ==
  ASSUME GatewayInv, NEW i \in DOMAIN chat, NEW t \in Task, chat' = [chat EXCEPT ![i] = t],
         chatRuns' \in Seq(ChatRun), Len(chatRuns') >= Len(chatRuns),
         mapped' \in [Channel -> Nat], sessionCount' \in Nat,
         \/ t.run = chat[i].run
         \/ t.run = Len(chatRuns) + 1 /\ t.run =< Len(chatRuns'),
         TaskOK(t, told'),
         \/ told' = told
         \/ \E way \in Way : /\ ~Has(told, <<t.run, way>>) /\ t.run # 0
                            /\ t.run = chat[i].run /\ told' = Append(told, <<t.run, way>>)
  PROVE  GatewayInv'
  <1>1. /\ chat \in Seq(Task) /\ Len(chatRuns) \in Nat /\ Len(chatRuns') \in Nat
        /\ told \in Seq(Tellings(Len(chatRuns))) /\ chat[i] \in Task
        /\ \A j \in DOMAIN chat : chat[j] \in Task /\ chat[j].run \in 0..Len(chatRuns)
    BY DEF GatewayInv, GatewayTypes, TasksOK
  <1>2. /\ chat' \in Seq(Task) /\ DOMAIN chat' = DOMAIN chat /\ chat'[i] = t
        /\ \A j \in DOMAIN chat : j # i => chat'[j] = chat[j]
    BY <1>1
  <1>3. t.run \in Nat
    BY DEF Task
  <1>4. \A j \in DOMAIN chat : j # i /\ chat[j].run # 0 => chat[j].run # t.run
    BY <1>1 DEF GatewayInv, OneTaskPerRun
  <1>5. told' \in Seq(Tellings(Len(chatRuns'))) /\ ToldOnce'
    <2> DEFINE S == Tellings(Len(chatRuns'))
    <2>0. Tellings(Len(chatRuns)) \subseteq S
      BY <1>1 DEF Tellings
    <2>1. told \in Seq(S)
      <3> HIDE DEF S
      <3> QED
        BY <1>1, <2>0, SeqWidens
    <2>2. CASE told' = told
      BY <2>1, <2>2 DEF GatewayInv, ToldOnce
    <2>3. ASSUME NEW way \in Way, ~Has(told, <<t.run, way>>), t.run # 0,
                 t.run = chat[i].run, told' = Append(told, <<t.run, way>>)
          PROVE  told' \in Seq(S) /\ ToldOnce'
      <3> DEFINE x == <<t.run, way>>
      <3>1. x \in S
        BY <1>1, <2>3 DEF Tellings
      <3>2. ~Has(told, x)
        BY <2>3
      <3>3. \A k, l \in DOMAIN told : told[k] = told[l] => k = l
        BY DEF GatewayInv, ToldOnce
      <3>4. told' = Append(told, x)
        BY <2>3
      <3> HIDE DEF S, x
      <3>5. Append(told, x) \in Seq(S)
        BY <2>1, <3>1, HasMore
      <3>6. \A k, l \in DOMAIN Append(told, x) : Append(told, x)[k] = Append(told, x)[l] => k = l
        BY <2>1, <3>1, <3>2, <3>3, ToldMore
      <3>7. ToldOnce'
        BY <3>4, <3>6 DEF ToldOnce
      <3> QED
        BY <3>4, <3>5, <3>7
    <2> QED
      BY <2>2, <2>3
  <1>6. \A r, w : r # t.run => (Has(told', <<r, w>>) <=> Has(told, <<r, w>>))
    <2>1. CASE told' = told
      BY <2>1
    <2>2. ASSUME NEW way \in Way, t.run # 0, t.run = chat[i].run,
                 told' = Append(told, <<t.run, way>>), NEW r, NEW w, r # t.run
          PROVE  Has(told', <<r, w>>) <=> Has(told, <<r, w>>)
      <3> DEFINE S == Tellings(Len(chatRuns))
                 x == <<t.run, way>>
      <3>1. x \in S
        BY <1>1, <2>2 DEF Tellings
      <3>2. told \in Seq(S)
        BY <1>1
      <3>3. told' = Append(told, x) /\ <<r, w>> # x
        BY <2>2
      <3> HIDE DEF S, x
      <3>4. \A y : Has(Append(told, x), y) <=> Has(told, y) \/ y = x
        BY <3>1, <3>2, HasMore
      <3> QED
        BY <3>3, <3>4
    <2> QED
      BY <2>1, <2>2
  <1>7. \A w : ~Has(told', <<0, w>>) /\ ~Has(told, <<0, w>>)
    BY <1>1, <1>5 DEF Has, Tellings
  <1>8. TasksOK'
    <2> SUFFICES ASSUME NEW j \in DOMAIN chat
                 PROVE  TaskOK(chat'[j], told') /\ chat'[j].run \in 0..Len(chatRuns')
      BY <1>2 DEF TasksOK
    <2>1. CASE j = i
      <3>1. t.run \in 0..Len(chatRuns')
        BY <1>1, <1>3
      <3> QED
        BY <1>2, <2>1, <3>1
    <2>2. CASE j # i
      <3>1. chat[j].run \in 0..Len(chatRuns')
        BY <1>1
      <3>2. TaskOK(chat[j], told)
        BY DEF GatewayInv, TasksOK
      <3>3. \A w : Has(told', <<chat[j].run, w>>) <=> Has(told, <<chat[j].run, w>>)
        <4>1. CASE chat[j].run = 0
          BY <1>7, <4>1
        <4>2. CASE chat[j].run # 0
          <5>1. chat[j].run # t.run
            BY <1>4, <2>2, <4>2
          <5> QED
            BY <1>6, <5>1
        <4> QED
          BY <4>1, <4>2
      <3>5. TaskOK(chat[j], told')
        BY <3>2, <3>3 DEF TaskOK
      <3> QED
        BY <1>2, <2>2, <3>1, <3>5
    <2> QED
      BY <2>1, <2>2
  <1>9. OneTaskPerRun'
    BY <1>2, <1>4 DEF GatewayInv, OneTaskPerRun
  <1> QED
    BY <1>2, <1>5, <1>8, <1>9 DEF GatewayInv, GatewayTypes

(* What is known of a task at hand.                                         *)
LEMMA TaskIs ==
  ASSUME GatewayInv, NEW i \in DOMAIN chat
  PROVE  /\ chat[i] \in Task /\ TaskOK(chat[i], told)
         /\ chat[i].run \in 0..Len(chatRuns) /\ Len(chatRuns) \in Nat
         /\ chatRuns \in Seq(ChatRun)
         /\ mapped \in [Channel -> Nat] /\ sessionCount \in Nat
         /\ told \in Seq(Tellings(Len(chatRuns)))
         /\ \A w : ~Has(told, <<0, w>>) /\ ~Has(told, <<Len(chatRuns) + 1, w>>)
  <1>1. told \in Seq(Tellings(Len(chatRuns))) /\ Len(chatRuns) \in Nat
    BY DEF GatewayInv, GatewayTypes
  <1>2. \A k \in DOMAIN told : told[k] \in Tellings(Len(chatRuns))
    BY <1>1
  <1>3. \A w : ~Has(told, <<0, w>>) /\ ~Has(told, <<Len(chatRuns) + 1, w>>)
    BY <1>1, <1>2 DEF Has, Tellings
  <1>4. chat[i] \in Task
    BY DEF GatewayInv, GatewayTypes
  <1> QED
    BY <1>1, <1>3, <1>4 DEF GatewayInv, GatewayTypes, TasksOK

(* A task that starts no run moves: it keeps its own.                      *)
LEMMA TaskTurns ==
  ASSUME GatewayInv, NEW i \in DOMAIN chat, NEW t \in Task, chat' = [chat EXCEPT ![i] = t],
         chatRuns' = chatRuns, mapped' \in [Channel -> Nat], sessionCount' \in Nat,
         t.run = chat[i].run, TaskOK(t, told'),
         \/ told' = told
         \/ \E way \in Way : /\ ~Has(told, <<t.run, way>>) /\ t.run # 0
                            /\ told' = Append(told, <<t.run, way>>)
  PROVE  GatewayInv'
  <1>1. chatRuns' \in Seq(ChatRun) /\ Len(chatRuns') >= Len(chatRuns)
    BY TaskIs
  <1> QED
    BY <1>1, TaskMoves

(* A task at another stage is the same task.                                *)
LEMMA Staging ==
  ASSUME NEW i \in DOMAIN chat, chat[i] \in Task,
         NEW st \in {"resolve", "create", "act", "answer", "follow", "channel", "end"}
  PROVE  /\ Staged(i, st) \in Task /\ Staged(i, st).stage = st
         /\ Staged(i, st).run = chat[i].run /\ Staged(i, st).lost = chat[i].lost
         /\ Staged(i, st).unheard = chat[i].unheard
         /\ IsFollowed(Staged(i, st)) <=> IsFollowed(chat[i])
  BY DEF Staged, Task, IsFollowed

(* A command arrives: a task with no run.                                   *)
LEMMA Arriving ==
  ASSUME GatewayInv, NEW s \in Surface, NEW c \in Command, NEW ch \in Channel,
         CommandArrives(s, c, ch)
  PROVE  GatewayInv'
  <1> DEFINE t == NewTask(s, c, ch)
             n == Len(chat)
  <1>1. t \in Task /\ t.run = 0 /\ t.stage \in {"resolve", "act"}
    BY DEF NewTask, Task
  <1>2. /\ chat \in Seq(Task) /\ n \in Nat /\ DOMAIN chat = 1..n
        /\ Len(chatRuns) \in Nat /\ told \in Seq(Tellings(Len(chatRuns)))
    BY DEF GatewayInv, GatewayTypes
  <1>3. /\ chat' = Append(chat, t)
        /\ UNCHANGED <<mapped, sessionCount, chatRuns, told>>
    BY DEF CommandArrives
  <1> HIDE DEF t
  <1>4. /\ chat' \in Seq(Task) /\ DOMAIN chat' = 1..(n + 1) /\ chat'[n + 1] = t
        /\ \A i \in 1..n : chat'[i] = chat[i]
    BY <1>1, <1>2, <1>3
  <1> HIDE DEF n
  <1>5. \A i \in 1..(n + 1) : i \in 1..n \/ i = n + 1
    BY <1>2
  <1>6. \A w : ~Has(told, <<0, w>>)
    BY <1>2 DEF Has, Tellings
  <1>7. TaskOK(t, told) /\ t.run \in 0..Len(chatRuns)
    BY <1>1, <1>2, <1>6 DEF TaskOK
  <1>8. TasksOK'
    <2> SUFFICES ASSUME NEW i \in 1..(n + 1)
                 PROVE  TaskOK(chat'[i], told) /\ chat'[i].run \in 0..Len(chatRuns)
      BY <1>3, <1>4 DEF TasksOK
    <2> QED
      BY <1>2, <1>4, <1>5, <1>7 DEF GatewayInv, TasksOK
  <1>9. OneTaskPerRun'
    <2> SUFFICES ASSUME NEW i \in 1..(n + 1), NEW j \in 1..(n + 1),
                        chat'[i].run # 0, chat'[i].run = chat'[j].run
                 PROVE  i = j
      BY <1>4 DEF OneTaskPerRun
    <2>1. i \in 1..n /\ j \in 1..n
      BY <1>1, <1>4, <1>5
    <2> QED
      BY <1>2, <1>4, <2>1 DEF GatewayInv, OneTaskPerRun
  <1> QED
    BY <1>3, <1>4, <1>8, <1>9 DEF GatewayInv, GatewayTypes, ToldOnce

(* The session of the channel is found, or has to be created.               *)
LEMMA Finding ==
  ASSUME GatewayInv, NEW i \in DOMAIN chat, FindSession(i)
  PROVE  GatewayInv'
  <1> DEFINE s == mapped[chat[i].channel]
             st == IF s = 0 THEN "create" ELSE "act"
             t == [Staged(i, st) EXCEPT !.session = s]
  <1>1. chat[i] \in Task /\ s \in Nat
    BY TaskIs DEF Task
  <1>2. st \in {"create", "act"}
    OBVIOUS
  <1>3. /\ chat[i].stage = "resolve" /\ chat' = [chat EXCEPT ![i] = t]
        /\ UNCHANGED <<mapped, sessionCount, chatRuns, told>>
    BY DEF FindSession, ChatGoes
  <1> HIDE DEF s, st
  <1>4. t \in Task /\ t.run = chat[i].run /\ t.stage = st
    BY <1>1, <1>2, Staging DEF Task
  <1>5. TaskOK(t, told)
    BY <1>2, <1>3, <1>4, TaskIs DEF TaskOK
  <1> HIDE DEF t
  <1>6. told' = told /\ TaskOK(t, told')
    BY <1>3, <1>5
  <1> QED
    BY <1>3, <1>4, <1>6, TaskIs, TaskTurns

(* It is created; two tasks of one channel may both do so.                  *)
LEMMA Inserting ==
  ASSUME GatewayInv, NEW i \in DOMAIN chat, InsertSession(i)
  PROVE  GatewayInv'
  <1>1. /\ chat[i] \in Task /\ sessionCount \in Nat /\ chat[i].stage = "create"
        /\ UNCHANGED <<chatRuns, told>>
    BY TaskIs DEF InsertSession
  <1>2. chat[i].run = 0 /\ \A w : ~Has(told, <<0, w>>)
    BY <1>1, TaskIs DEF TaskOK
  <1>3. CASE /\ sessionCount' = sessionCount + 1
             /\ mapped' = [mapped EXCEPT ![chat[i].channel] = sessionCount + 1]
             /\ ChatGoes(i, [Staged(i, "act") EXCEPT !.session = sessionCount + 1])
    <2> DEFINE t == [Staged(i, "act") EXCEPT !.session = sessionCount + 1]
    <2>0. mapped \in [Channel -> Nat]
      BY TaskIs
    <2>1. sessionCount' \in Nat
      BY <1>1, <1>3
    <2>5. mapped' \in [Channel -> Nat]
      <3>1. mapped' = [mapped EXCEPT ![chat[i].channel] = sessionCount + 1]
        BY <1>3
      <3> DEFINE n == sessionCount + 1
      <3>2. n \in Nat
        BY <1>1
      <3> HIDE DEF n
      <3> QED
        BY <2>0, <3>1, <3>2 DEF n
    <2>2. t \in Task /\ t.run = chat[i].run /\ t.stage = "act"
      <3> DEFINE u == Staged(i, "act")
      <3>1. u \in Task /\ u.run = chat[i].run /\ u.stage = "act"
        BY <1>1, Staging
      <3>2. sessionCount + 1 \in Nat
        BY <1>1
      <3> HIDE DEF u
      <3> QED
        BY <3>1, <3>2 DEF Task, u
    <2>3. chat' = [chat EXCEPT ![i] = t]
      BY <1>3 DEF ChatGoes
    <2> HIDE DEF t
    <2>4. TaskOK(t, told')
      BY <1>1, <1>2, <2>2 DEF TaskOK
    <2> QED
      BY <1>1, <2>1, <2>2, <2>3, <2>4, <2>5, TaskIs, TaskTurns
  <1>4. CASE ChatGoes(i, Staged(i, "answer")) /\ UNCHANGED <<mapped, sessionCount>>
    <2> DEFINE t == Staged(i, "answer")
    <2>1. t \in Task /\ t.run = chat[i].run /\ t.stage = "answer"
      BY <1>1, Staging
    <2>2. chat' = [chat EXCEPT ![i] = t]
      BY <1>4 DEF ChatGoes
    <2> HIDE DEF t
    <2>3. TaskOK(t, told')
      BY <1>1, <1>2, <2>1 DEF TaskOK
    <2> QED
      BY <1>1, <1>4, <2>1, <2>2, <2>3, TaskIs, TaskTurns
  <1> QED
    BY <1>3, <1>4 DEF InsertSession

(* The command is carried out, which may start a run.                       *)
LEMMA Executing ==
  ASSUME GatewayInv, NEW i \in DOMAIN chat, Execute(i)
  PROVE  GatewayInv'
  <1>1. /\ chat[i] \in Task /\ chat[i].stage = "act"
        /\ UNCHANGED <<mapped, sessionCount, told>>
    BY TaskIs DEF Execute
  <1>2. chat[i].run = 0 /\ \A w : ~Has(told, <<0, w>>) /\ ~Has(told, <<Len(chatRuns) + 1, w>>)
    BY <1>1, TaskIs DEF TaskOK
  <1>3. CASE /\ chatRuns' = Append(chatRuns, [session |-> chat[i].session, state |-> "going"])
             /\ ChatGoes(i, [Staged(i, "answer") EXCEPT !.run = Len(chatRuns) + 1])
    <2> DEFINE t == [Staged(i, "answer") EXCEPT !.run = Len(chatRuns) + 1]
               r == [session |-> chat[i].session, state |-> "going"]
    <2>1. r \in ChatRun
      BY <1>1 DEF Task, ChatRun
    <2>2. chatRuns' = Append(chatRuns, r)
      BY <1>3
    <2>3. Len(chatRuns) \in Nat
      BY TaskIs
    <2>x. Staged(i, "answer") \in Task /\ Staged(i, "answer").stage = "answer"
      BY <1>1, Staging
    <2>y. \A x \in Task : \A n \in Nat :
            /\ [x EXCEPT !.run = n] \in Task
            /\ [x EXCEPT !.run = n].run = n /\ [x EXCEPT !.run = n].stage = x.stage
      BY DEF Task
    <2>4. t \in Task /\ t.run = Len(chatRuns) + 1 /\ t.stage = "answer"
      <3>1. Len(chatRuns) + 1 \in Nat
        BY <2>3
      <3> HIDE DEF Task, Staged
      <3> QED
        BY <2>x, <2>y, <3>1
    <2>5. chat' = [chat EXCEPT ![i] = t]
      BY <1>3 DEF ChatGoes
    <2> HIDE DEF t, r
    <2>6. /\ chatRuns' \in Seq(ChatRun) /\ Len(chatRuns') = Len(chatRuns) + 1
      BY <2>1, <2>2, TaskIs
    <2>7. TaskOK(t, told')
      BY <1>1, <1>2, <2>4 DEF TaskOK
    <2>8. Len(chatRuns') >= Len(chatRuns) /\ t.run =< Len(chatRuns')
      BY <2>3, <2>4, <2>6
    <2> QED
      BY <1>1, <2>4, <2>5, <2>6, <2>7, <2>8, TaskIs, TaskMoves
  <1>4. CASE ChatGoes(i, Staged(i, "answer")) /\ UNCHANGED chatRuns
    <2> DEFINE t == Staged(i, "answer")
    <2>1. t \in Task /\ t.run = chat[i].run /\ t.stage = "answer"
      BY <1>1, Staging
    <2>2. chat' = [chat EXCEPT ![i] = t]
      BY <1>4 DEF ChatGoes
    <2> HIDE DEF t
    <2>3. TaskOK(t, told')
      BY <1>1, <1>2, <2>1 DEF TaskOK
    <2> QED
      BY <1>1, <1>4, <2>1, <2>2, <2>3, TaskIs, TaskTurns
  <1> QED
    BY <1>3, <1>4 DEF Execute

(* The command is answered, and its run followed.                           *)
LEMMA Answering ==
  ASSUME GatewayInv, NEW i \in DOMAIN chat, AnswerCommand(i)
  PROVE  GatewayInv'
  <1> DEFINE st == IF chat[i].run # 0 /\ chat[i].command \in Followed(chat[i].surface)
                   THEN "follow" ELSE "end"
             t == Staged(i, st)
  <1>1. /\ chat[i] \in Task /\ chat[i].stage = "answer" /\ chat' = [chat EXCEPT ![i] = t]
        /\ UNCHANGED <<mapped, sessionCount, chatRuns, told>>
    BY TaskIs DEF AnswerCommand, ChatGoes
  <1>2. ~Has(told, <<chat[i].run, "edit">>) /\ ~Has(told, <<chat[i].run, "message">>)
    BY <1>1, TaskIs DEF TaskOK
  <1>3. st \in {"follow", "end"} /\ (st = "follow" <=> IsFollowed(chat[i]))
    BY DEF IsFollowed
  <1> HIDE DEF st
  <1>4. /\ t \in Task /\ t.run = chat[i].run /\ t.stage = st
        /\ IsFollowed(t) <=> IsFollowed(chat[i])
    BY <1>1, <1>3, Staging
  <1> HIDE DEF t
  <1>5. TaskOK(t, told')
    BY <1>1, <1>2, <1>3, <1>4 DEF TaskOK
  <1> QED
    BY <1>1, <1>4, <1>5, TaskIs, TaskTurns

(* A task that a follower has come to the end of, with or without a word.   *)
LEMMA Concluding ==
  ASSUME NEW i \in DOMAIN chat, chat[i] \in Task
  PROVE  /\ [Staged(i, "end") EXCEPT !.lost = TRUE] \in Task
         /\ [Staged(i, "end") EXCEPT !.lost = TRUE].run = chat[i].run
         /\ [Staged(i, "end") EXCEPT !.lost = TRUE].stage = "end"
         /\ [Staged(i, "end") EXCEPT !.lost = TRUE].unheard = chat[i].unheard
         /\ [Staged(i, "end") EXCEPT !.lost = TRUE].lost
  <1> DEFINE u == Staged(i, "end")
  <1>1. u \in Task /\ u.run = chat[i].run /\ u.stage = "end" /\ u.unheard = chat[i].unheard
    BY Staging
  <1> HIDE DEF u
  <1>2. /\ [u EXCEPT !.lost = TRUE] \in Task /\ [u EXCEPT !.lost = TRUE].run = u.run
        /\ [u EXCEPT !.lost = TRUE].stage = u.stage /\ [u EXCEPT !.lost = TRUE].lost
        /\ [u EXCEPT !.lost = TRUE].unheard = u.unheard
    BY <1>1 DEF Task
  <1> QED
    BY <1>1, <1>2 DEF u

(* A follower that ends without a word: what it lost is marked.            *)
LEMMA Silent ==
  ASSUME GatewayInv, NEW i \in DOMAIN chat, chat[i].stage \in {"follow", "channel"},
         chat' = [chat EXCEPT ![i] = [Staged(i, "end") EXCEPT !.lost = TRUE]],
         UNCHANGED <<mapped, sessionCount, chatRuns, told>>
  PROVE  GatewayInv'
  <1> DEFINE t == [Staged(i, "end") EXCEPT !.lost = TRUE]
  <1>1. chat[i] \in Task /\ ~Has(told, <<chat[i].run, "message">>)
    BY TaskIs DEF TaskOK
  <1>2. t \in Task /\ t.run = chat[i].run /\ t.stage = "end" /\ t.lost
    BY <1>1, Concluding
  <1>3. chat' = [chat EXCEPT ![i] = t]
    OBVIOUS
  <1> HIDE DEF t
  <1>4. TaskOK(t, told')
    BY <1>1, <1>2 DEF TaskOK
  <1> QED
    BY <1>2, <1>3, <1>4, TaskIs, TaskTurns

(* The result is shown in a way it was not: what else is known stays.       *)
LEMMA Telling ==
  ASSUME GatewayInv, NEW i \in DOMAIN chat, chat[i].stage \in {"follow", "channel"},
         NEW way \in Way, Shows(i, way)
  PROVE  /\ chat[i].run # 0 /\ Has(told', <<chat[i].run, way>>)
         /\ \A w : w # way => (Has(told', <<chat[i].run, w>>) <=> Has(told, <<chat[i].run, w>>))
         /\ told' = Append(told, <<chat[i].run, way>>)
  <1> DEFINE S == Tellings(Len(chatRuns))
             x == <<chat[i].run, way>>
  <1>0. TaskOK(chat[i], told) /\ chat[i].run \in 0..Len(chatRuns) /\ Len(chatRuns) \in Nat
    BY TaskIs
  <1>1. chat[i].run # 0 /\ chat[i].run \in 1..Len(chatRuns)
    <2>1. chat[i].run # 0
      BY <1>0 DEF TaskOK, IsFollowed
    <2> QED
      BY <1>0, <2>1
  <1>2. told \in Seq(S) /\ x \in S
    BY <1>1, TaskIs DEF Tellings
  <1>3. told' = Append(told, x)
    BY DEF Shows
  <1>4. \A w : w # way => <<chat[i].run, w>> # x
    OBVIOUS
  <1> HIDE DEF S, x
  <1>5. \A y : Has(Append(told, x), y) <=> Has(told, y) \/ y = x
    BY <1>2, HasMore
  <1> QED
    BY <1>1, <1>3, <1>4, <1>5 DEF x

(* A follower that shows the result and ends, knowing that it did or not.   *)
LEMMA Spoken ==
  ASSUME GatewayInv, NEW i \in DOMAIN chat, chat[i].stage \in {"follow", "channel"},
         NEW way \in Way, way = "edit" => chat[i].stage = "follow",
         Shows(i, way),
         NEW t \in Task, t.run = chat[i].run, t.stage = "end", t.unheard = chat[i].unheard,
         chat' = [chat EXCEPT ![i] = t],
         UNCHANGED <<mapped, sessionCount, chatRuns>>
  PROVE  GatewayInv'
  <1>1. TaskOK(chat[i], told)
    BY TaskIs
  <1>2. /\ chat[i].run # 0 /\ Has(told', <<chat[i].run, way>>)
        /\ \A w : w # way => (Has(told', <<chat[i].run, w>>) <=> Has(told, <<chat[i].run, w>>))
        /\ told' = Append(told, <<chat[i].run, way>>)
    BY Telling
  <1>3. ~Has(told, <<chat[i].run, way>>)
    BY <1>1 DEF TaskOK, Way
  <1>4. TaskOK(t, told')
    BY <1>1, <1>2 DEF TaskOK, Way
  <1> QED
    BY <1>2, <1>3, <1>4, TaskIs, TaskTurns

(* A follower of Discord goes on: an edit failed, the channel is next.     *)
LEMMA GoesOn ==
  ASSUME GatewayInv, NEW i \in DOMAIN chat, chat[i].stage = "follow",
         NEW t \in Task, t.stage \in {"follow", "channel"}, t.run = chat[i].run,
         IsFollowed(t) <=> IsFollowed(chat[i]),
         chat' = [chat EXCEPT ![i] = t],
         UNCHANGED <<mapped, sessionCount, chatRuns, told>>
  PROVE  GatewayInv'
  <1>1. TaskOK(t, told')
    BY TaskIs DEF TaskOK
  <1> QED
    BY <1>1, TaskIs, TaskTurns

(* A message to the channel: shown, or not, or shown and not heard of.      *)
LEMMA Messaging ==
  ASSUME GatewayInv, NEW i \in DOMAIN chat, chat[i].stage \in {"follow", "channel"},
         FinalMessage(i), UNCHANGED <<mapped, sessionCount, chatRuns>>
  PROVE  GatewayInv'
  <1>1. chat[i] \in Task /\ "message" \in Way
    BY TaskIs DEF Way
  <1>2. CASE Shows(i, "message") /\ ChatGoes(i, Staged(i, "end"))
    BY <1>1, <1>2, Staging, Spoken DEF ChatGoes
  <1>3. CASE told' = told /\ ChatGoes(i, [Staged(i, "end") EXCEPT !.lost = TRUE])
    BY <1>3, Silent DEF ChatGoes
  <1>4. CASE Shows(i, "message") /\ ChatGoes(i, [Staged(i, "end") EXCEPT !.lost = TRUE])
    <2> DEFINE t == [Staged(i, "end") EXCEPT !.lost = TRUE]
    <2>1. t \in Task /\ t.run = chat[i].run /\ t.stage = "end" /\ t.unheard = chat[i].unheard
      BY <1>1, Concluding
    <2>2. chat' = [chat EXCEPT ![i] = t]
      BY <1>4 DEF ChatGoes
    <2> HIDE DEF t
    <2> QED
      BY <1>1, <1>4, <2>1, <2>2, Spoken
  <1> QED
    BY <1>2, <1>3, <1>4 DEF FinalMessage

(* The final message on Slack.                                             *)
LEMMA SlackDelivering ==
  ASSUME GatewayInv, NEW i \in DOMAIN chat, SlackDelivers(i)
  PROVE  GatewayInv'
  BY Messaging DEF SlackDelivers

(* On Discord it is an edit of the answer, or a message to the channel.     *)
LEMMA DiscordDelivering ==
  ASSUME GatewayInv, NEW i \in DOMAIN chat, DiscordDelivers(i)
  PROVE  GatewayInv'
  <1>1. /\ chat[i] \in Task /\ chat[i].stage = "follow" /\ "edit" \in Way
        /\ UNCHANGED <<mapped, sessionCount, chatRuns>>
    BY TaskIs DEF DiscordDelivers, Way
  <1>2. CASE Shows(i, "edit") /\ ChatGoes(i, Staged(i, "end"))
    BY <1>1, <1>2, Staging, Spoken DEF ChatGoes
  <1> DEFINE u == Staged(i, "channel")
  <1>3. u \in Task /\ u.run = chat[i].run /\ u.stage = "channel"
        /\ (IsFollowed(u) <=> IsFollowed(chat[i]))
    BY <1>1, Staging
  <1>4. CASE /\ ChatGoes(i, [Staged(i, "channel") EXCEPT !.expired = TRUE])
             /\ UNCHANGED told
    <2> DEFINE t == [u EXCEPT !.expired = TRUE]
    <2>0. chat' = [chat EXCEPT ![i] = t]
      BY <1>4 DEF ChatGoes
    <2> HIDE DEF u
    <2>1. t \in Task /\ t.run = chat[i].run /\ t.stage = "channel"
          /\ (IsFollowed(t) <=> IsFollowed(chat[i]))
      BY <1>3 DEF Task, IsFollowed
    <2> HIDE DEF t
    <2> QED
      BY <1>1, <1>4, <2>0, <2>1, GoesOn
  <1>5. CASE /\ ChatGoes(i, [Staged(i, "channel") EXCEPT !.expired = TRUE, !.unheard = TRUE])
             /\ Shows(i, "edit")
    <2> DEFINE t == [u EXCEPT !.expired = TRUE, !.unheard = TRUE]
    <2>0. chat' = [chat EXCEPT ![i] = t]
      BY <1>5 DEF ChatGoes
    <2> HIDE DEF u
    <2>1. t \in Task /\ t.run = chat[i].run /\ t.stage = "channel" /\ t.unheard
          /\ (IsFollowed(t) <=> IsFollowed(chat[i]))
      BY <1>3 DEF Task, IsFollowed
    <2> HIDE DEF t
    <2>2. TaskOK(chat[i], told)
      BY TaskIs
    <2>3. /\ chat[i].run # 0 /\ Has(told', <<chat[i].run, "edit">>)
          /\ \A w : w # "edit" => (Has(told', <<chat[i].run, w>>) <=> Has(told, <<chat[i].run, w>>))
          /\ told' = Append(told, <<chat[i].run, "edit">>)
      BY <1>1, <1>5, Telling
    <2>4. ~Has(told, <<chat[i].run, "edit">>)
      BY <1>1, <2>2 DEF TaskOK
    <2>5. TaskOK(t, told')
      BY <1>1, <2>1, <2>2, <2>3 DEF TaskOK
    <2> QED
      BY <1>1, <2>0, <2>1, <2>3, <2>4, <2>5, TaskIs, TaskTurns
  <1>6. CASE ChatGoes(i, Staged(i, "channel")) /\ UNCHANGED told
    BY <1>1, <1>6, Staging, GoesOn DEF ChatGoes
  <1> QED
    BY <1>2, <1>4, <1>5, <1>6 DEF DiscordDelivers

(* The edit of an answer fails for good once its token has expired.         *)
LEMMA Progressing ==
  ASSUME GatewayInv, NEW i \in DOMAIN chat, DiscordProgress(i)
  PROVE  GatewayInv'
  <1> DEFINE t == [chat[i] EXCEPT !.expired = TRUE]
  <1>1. chat[i] \in Task /\ chat[i].stage = "follow"
    BY TaskIs DEF DiscordProgress
  <1>2. /\ t \in Task /\ t.run = chat[i].run /\ t.stage = "follow"
        /\ IsFollowed(t) <=> IsFollowed(chat[i])
    BY <1>1 DEF Task, IsFollowed
  <1>3. chat' = [chat EXCEPT ![i] = t] /\ UNCHANGED <<mapped, sessionCount, chatRuns, told>>
    BY DEF DiscordProgress, ChatGoes
  <1> HIDE DEF t
  <1> QED
    BY <1>1, <1>2, <1>3, GoesOn

(* Runs end and are deleted.                                                *)
LEMMA RunMoving ==
  ASSUME GatewayInv, NEW r \in DOMAIN chatRuns, ChatRunMoves(r)
  PROVE  GatewayInv'
  <1>1. chatRuns \in Seq(ChatRun) /\ UNCHANGED <<mapped, sessionCount, chat, told>>
    BY DEF GatewayInv, GatewayTypes, ChatRunMoves
  <1>2. chatRuns[r] \in ChatRun
    BY <1>1
  <1>3. chatRuns' \in Seq(ChatRun) /\ Len(chatRuns') = Len(chatRuns)
    <2> SUFFICES ASSUME NEW st \in {"over", "deleted"},
                        chatRuns' = [chatRuns EXCEPT ![r].state = st]
                 PROVE  chatRuns' \in Seq(ChatRun) /\ Len(chatRuns') = Len(chatRuns)
      BY DEF ChatRunMoves
    <2>1. [chatRuns[r] EXCEPT !.state = st] \in ChatRun
      BY <1>2 DEF ChatRun
    <2>2. chatRuns' = [chatRuns EXCEPT ![r] = [chatRuns[r] EXCEPT !.state = st]]
      OBVIOUS
    <2> QED
      BY <1>1, <2>1, <2>2
  <1> QED
    BY <1>1, <1>3 DEF GatewayInv, GatewayTypes, TasksOK, OneTaskPerRun, ToldOnce

(* A restart ends every task: what was not told is lost.                    *)
LEMMA Restarting ==
  ASSUME GatewayInv, GatewayRestart
  PROVE  GatewayInv'
  <1> DEFINE Stopped(t) == IF t.stage = "end" THEN t
                         ELSE [t EXCEPT !.stage = "end", !.lost = TRUE]
  <1>0. chat \in Seq(Task) /\ DOMAIN chat = 1..Len(chat) /\ Len(chat) \in Nat
    BY DEF GatewayInv, GatewayTypes
  <1>1. /\ DOMAIN chat' = DOMAIN chat
        /\ \A i \in DOMAIN chat : chat'[i] = Stopped(chat[i])
        /\ chat' = [i \in 1..Len(chat) |-> Stopped(chat[i])]
    BY <1>0 DEF GatewayRestart
  <1>2. /\ UNCHANGED <<sessionCount, chatRuns, told>> /\ mapped' \in [Channel -> Nat]
    BY DEF GatewayRestart
  <1>3. \A t \in Task : Stopped(t) \in Task /\ Stopped(t).run = t.run
    BY DEF Task
  <1>4. \A t \in Task : TaskOK(t, told) => TaskOK(Stopped(t), told)
    BY DEF Task, TaskOK
  <1>5. \A i \in DOMAIN chat : chat[i] \in Task
    BY <1>0
  <1> HIDE DEF Stopped
  <1>6. chat' \in Seq(Task)
    BY <1>0, <1>1, <1>3, <1>5
  <1>7. TasksOK'
    <2> SUFFICES ASSUME NEW i \in DOMAIN chat
                 PROVE  TaskOK(chat'[i], told) /\ chat'[i].run \in 0..Len(chatRuns)
      BY <1>1, <1>2 DEF TasksOK
    <2> QED
      BY <1>1, <1>3, <1>4, <1>5 DEF GatewayInv, TasksOK
  <1>8. OneTaskPerRun'
    BY <1>1, <1>3, <1>5 DEF GatewayInv, OneTaskPerRun
  <1> QED
    BY <1>2, <1>6, <1>7, <1>8 DEF GatewayInv, GatewayTypes, ToldOnce

(* Every step keeps the invariant.                                          *)
LEMMA GatewayStep == GatewayInv /\ [GatewayNext]_gatewayVars => GatewayInv'
  <1> SUFFICES ASSUME GatewayInv, [GatewayNext]_gatewayVars PROVE GatewayInv'
    OBVIOUS
  <1>1. ASSUME NEW s \in Surface, NEW c \in Command, NEW ch \in Channel,
               CommandArrives(s, c, ch)
        PROVE  GatewayInv'
    BY <1>1, Arriving
  <1>2. ASSUME NEW i \in DOMAIN chat, FindSession(i) PROVE GatewayInv'
    BY <1>2, Finding
  <1>3. ASSUME NEW i \in DOMAIN chat, InsertSession(i) PROVE GatewayInv'
    BY <1>3, Inserting
  <1>4. ASSUME NEW i \in DOMAIN chat, Execute(i) PROVE GatewayInv'
    BY <1>4, Executing
  <1>5. ASSUME NEW i \in DOMAIN chat, AnswerCommand(i) PROVE GatewayInv'
    BY <1>5, Answering
  <1>6. ASSUME NEW i \in DOMAIN chat, FollowerGivesUp(i) PROVE GatewayInv'
    BY <1>6, Silent DEF FollowerGivesUp, ChatGoes
  <1>7. ASSUME NEW i \in DOMAIN chat, SlackDelivers(i) PROVE GatewayInv'
    BY <1>7, SlackDelivering
  <1>8. ASSUME NEW i \in DOMAIN chat, DiscordProgress(i) PROVE GatewayInv'
    BY <1>8, Progressing
  <1>9. ASSUME NEW i \in DOMAIN chat, DiscordDelivers(i) PROVE GatewayInv'
    BY <1>9, DiscordDelivering
  <1>10. ASSUME NEW i \in DOMAIN chat, ChannelMessage(i) PROVE GatewayInv'
    BY <1>10, Messaging DEF ChannelMessage
  <1>11. ASSUME NEW r \in DOMAIN chatRuns, ChatRunMoves(r) PROVE GatewayInv'
    BY <1>11, RunMoving
  <1>12. CASE GatewayRestart
    BY <1>12, Restarting
  <1>13. CASE UNCHANGED gatewayVars
    BY <1>13 DEF gatewayVars, GatewayInv, GatewayTypes, TasksOK, OneTaskPerRun, ToldOnce
  <1> QED
    BY <1>1, <1>2, <1>3, <1>4, <1>5, <1>6, <1>7, <1>8, <1>9, <1>10, <1>11, <1>12, <1>13
       DEF GatewayNext

(* The outcome of a run started from a chat is shown at most once by an     *)
(* edit and once by a message, both only when the answer to the edit was    *)
(* not heard, and it is shown where the task that follows it has ended      *)
(* without losing it, whatever the channels and commands (gateway/mod.rs,   *)
(* slack.rs, discord.rs).                                                   *)
THEOREM FinalToldOnceHolds == GatewaySpec => []FinalToldOnce
  <1>1. GatewayInv => FinalToldOnce
    BY DEF GatewayInv, TasksOK, TaskOK, ToldOnce, FinalToldOnce, Shown, IsFollowed, Has
  <1> QED
    BY <1>1, GatewayStarts, GatewayStep, PTL DEF GatewaySpec

-----------------------------------------------------------------------------
(* Calls of MCP tools                                                      *)

(* A caller rests, has asked and waits for its line, or has an answer.      *)
Waiting == {"asked", "reading"}
Asking == [pc : Waiting, server : Names, id : Nat \ {0}]
Answered == [pc : {"replied"}, id : Nat, got : Nat]
Failed == [pc |-> "error"]

(* Lines are ids, of the request they are or answer, or the notification.   *)
McpTypes ==
  /\ boot.at \in 1..Len(Server)
  /\ boot = [at |-> boot.at, step |-> boot.step]
  /\ boot.step \in {"spawn", "initialize", "discover", "serving"}
  /\ inbox \in [Names -> Seq(Nat)] /\ outbox \in [Names -> Seq(Nat)]
  /\ alive \subseteq Names /\ asked \in Nat /\ straight \in BOOLEAN
  /\ caller \in [Caller -> {Idle, Failed} \cup Asking \cup Answered]
(* Until every server is registered only main asks, and the one it is at.   *)
MainOnly ==
  /\ boot.step # "serving" => \A c \in Caller \ {Main} : caller[c] = Idle
  /\ boot.step = "spawn" => caller[Main] = Idle
  /\ boot.step \in {"initialize", "discover"} =>
       caller[Main] # Idle /\ (caller[Main].pc \in Waiting => caller[Main].server = At)

(* As long as all went straight, a pair of pipes has notifications and, if  *)
(* somebody waits, the one request of the one who does, or its answer.      *)
Notes(q) == \A k \in 1..Len(q) : q[k] = Note
NotesThen(q, i) == q # << >> /\ q[Len(q)] = i /\ \A k \in 1..Len(q) - 1 : q[k] = Note
PipeOf(s, i) ==
  \/ outbox[s] = <<i>> /\ (s \in alive => Notes(inbox[s]))
  \/ outbox[s] = << >> /\ (s \in alive => NotesThen(inbox[s], i))
InTurn(s) ==
  /\ \A c, d \in Busy(s) : c = d
  /\ \A c \in Busy(s) : PipeOf(s, caller[c].id)
  /\ Busy(s) = {} => outbox[s] = << >> /\ (s \in alive => Notes(inbox[s]))
(* The invariant: what makes a reply the right one is that nothing else can *)
(* be in the pipes.                                                        *)
McpInv == McpTypes /\ MainOnly /\ (straight => \A s \in Names : InTurn(s)) /\ RepliesMatch

States == {Idle, Failed} \cup Asking \cup Answered

(* What writing and reading do to a pipe.                                  *)
LEMMA Pipes ==
  ASSUME NEW q \in Seq(Nat), NEW i \in Nat \ {0}
  PROVE  /\ Notes(q) => NotesThen(Append(q, i), i) /\ NotesThen(q \o <<Note, i>>, i)
         /\ NotesThen(<<i>>, i)
         /\ q # << >> /\ Notes(q) => Head(q) = Note /\ Notes(Tail(q))
         /\ NotesThen(q, i) /\ Head(q) = Note => NotesThen(Tail(q), i)
         /\ NotesThen(q, i) /\ Head(q) # Note => Head(q) = i /\ Notes(Tail(q))
  <1>1. Len(q) \in Nat
    OBVIOUS
  <1>2. Notes(q) => NotesThen(Append(q, i), i)
    <2>1. /\ Append(q, i) # << >> /\ Len(Append(q, i)) = Len(q) + 1
          /\ Append(q, i)[Len(q) + 1] = i
          /\ \A k \in 1..Len(q) : Append(q, i)[k] = q[k]
      OBVIOUS
    <2> QED
      BY <1>1, <2>1 DEF Notes, NotesThen
  <1>3. Notes(q) => NotesThen(q \o <<Note, i>>, i)
    BY DEF Notes, NotesThen, Note
  <1>4. NotesThen(<<i>>, i)
    BY DEF NotesThen
  <1>5. q # << >> /\ Notes(q) => Head(q) = Note /\ Notes(Tail(q))
    BY DEF Notes
  <1>6. NotesThen(q, i) /\ Head(q) = Note => NotesThen(Tail(q), i)
    <2> SUFFICES ASSUME NotesThen(q, i), Head(q) = Note PROVE NotesThen(Tail(q), i)
      OBVIOUS
    <2>1. Len(q) # 1 /\ Len(q) # 0
      BY <1>1 DEF NotesThen, Note
    <2>2. /\ Len(Tail(q)) = Len(q) - 1 /\ Len(Tail(q)) # 0
          /\ \A k \in 1..Len(q) - 1 : Tail(q)[k] = q[k + 1]
      <3>1. q # << >>
        BY <2>1
      <3>2. Len(Tail(q)) = Len(q) - 1
        BY <3>1
      <3>3. Len(Tail(q)) # 0
        BY <1>1, <2>1, <3>2
      <3>4. \A k \in 1..Len(q) - 1 : Tail(q)[k] = q[k + 1]
        BY <3>1
      <3> QED
        BY <3>2, <3>3, <3>4
    <2>3. Tail(q)[Len(Tail(q))] = i
      BY <1>1, <2>1, <2>2 DEF NotesThen
    <2>4. \A k \in 1..Len(Tail(q)) - 1 : Tail(q)[k] = Note
      BY <1>1, <2>1, <2>2 DEF NotesThen
    <2>5. \A z : Len(z) # 0 => z # << >>
      OBVIOUS
    <2> QED
      BY <2>2, <2>3, <2>4, <2>5 DEF NotesThen
  <1>7. NotesThen(q, i) /\ Head(q) # Note => Head(q) = i /\ Notes(Tail(q))
    BY DEF NotesThen, Notes, Note
  <1> QED
    BY <1>2, <1>3, <1>4, <1>5, <1>6, <1>7

(* The states of a caller are told apart by pc.                            *)
LEMMA CallerKinds ==
  /\ Idle.pc = "idle" /\ Failed.pc = "error"
  /\ \A q \in Asking : q.pc \in Waiting /\ q.server \in Names /\ q.id \in Nat \ {0}
  /\ \A q \in States : q.pc \in Waiting => q \in Asking
  /\ \A q \in States : q.pc = "replied" => q \in Answered
  /\ \A q \in States : q # Idle => q.pc # "idle"
  BY DEF Idle, Failed, Asking, Answered, Waiting, States

(* One caller moves: who is busy at a server.                              *)
LEMMA Moves ==
  ASSUME McpInv, NEW c \in Caller, NEW q \in States, caller' = [caller EXCEPT ![c] = q]
  PROVE  /\ caller' \in [Caller -> States] /\ caller'[c] = q
         /\ \A d \in Caller : d # c => caller'[d] = caller[d]
         /\ \A s, d : d \in Busy(s)' <=> \/ d = c /\ q.pc \in Waiting /\ q.server = s
                                         \/ d # c /\ d \in Busy(s)
  <1>1. caller \in [Caller -> States]
    BY DEF McpInv, McpTypes, States
  <1>2. /\ caller' \in [Caller -> States] /\ caller'[c] = q
        /\ \A d \in Caller : d # c => caller'[d] = caller[d]
    BY <1>1
  <1> QED
    BY <1>2 DEF Busy, Waiting

(* A server keeps its turn when its pipes and its callers do.              *)
LEMMA TurnKept ==
  ASSUME NEW s, InTurn(s), outbox'[s] = outbox[s],
         s \in alive' => s \in alive /\ inbox'[s] = inbox[s],
         \A d : d \in Busy(s)' <=> d \in Busy(s),
         \A d \in Busy(s) : caller'[d].id = caller[d].id
  PROVE  InTurn(s)'
  BY DEF InTurn, PipeOf

(* A move spoils no reply unless it is one itself.                         *)
LEMMA RepliesKept ==
  ASSUME McpInv, NEW c \in Caller, NEW q \in States, caller' = [caller EXCEPT ![c] = q],
         straight' => straight, q.pc # "replied" \/ (straight' => q.got = q.id)
  PROVE  RepliesMatch'
  BY Moves DEF McpInv, RepliesMatch

(* Nobody has asked for anything.                                          *)
LEMMA McpStarts == McpInit => McpInv
  <1> SUFFICES ASSUME McpInit PROVE McpInv
    OBVIOUS
  <1>1. Len(Server) \in Nat \ {0}
    BY McpAssumption
  <1>2. McpTypes
    BY <1>1 DEF McpInit, McpTypes
  <1>3. \A c \in Caller : caller[c] = Idle
    BY DEF McpInit
  <1>4. Main \in Caller
    BY McpAssumption DEF Main
  <1>5. MainOnly
    BY <1>3, <1>4 DEF MainOnly, McpInit
  <1>6. \A c \in Caller : caller[c].pc = "idle"
    BY <1>3, CallerKinds
  <1>7. \A s : Busy(s) = {}
    BY <1>6 DEF Busy
  <1>8. \A s \in Names : InTurn(s)
    BY <1>7 DEF McpInit, InTurn
  <1>9. RepliesMatch
    BY <1>6 DEF RepliesMatch
  <1> QED
    BY <1>2, <1>5, <1>8, <1>9 DEF McpInv

(* Who main is, and when nobody waits.                                     *)
LEMMA MainIs ==
  ASSUME McpInv
  PROVE  /\ Main \in Caller /\ Len(Server) \in Nat \ {0} /\ boot.at \in 1..Len(Server)
         /\ At \in Names
         /\ caller \in [Caller -> States]
         /\ boot.step = "spawn" => \A s : Busy(s) = {}
         /\ boot.step \in {"initialize", "discover"} /\ ~(caller[Main].pc \in Waiting)
            => \A s : Busy(s) = {}
  <1>1. Main \in Caller /\ Len(Server) \in Nat \ {0} /\ boot.at \in 1..Len(Server)
    BY McpAssumption DEF Main, McpInv, McpTypes
  <1>2. At \in Names
    BY <1>1, McpAssumption DEF At
  <1>3. caller \in [Caller -> States]
    BY DEF McpInv, McpTypes, States
  <1>4. ASSUME boot.step # "serving", ~(caller[Main].pc \in Waiting) PROVE \A s : Busy(s) = {}
    BY <1>4, CallerKinds DEF McpInv, MainOnly, Busy, Waiting
  <1>5. ASSUME boot.step = "spawn" PROVE ~(caller[Main].pc \in Waiting)
    BY <1>5, CallerKinds DEF McpInv, MainOnly, Waiting
  <1> QED
    BY <1>1, <1>2, <1>3, <1>4, <1>5

(* call_tool and send_request: a request is written while nobody waits, or  *)
(* the run is not straight any more.                                       *)
LEMMA Calls ==
  ASSUME McpInv, NEW c \in Caller, NEW name, CallTool(c, name)
  PROVE  McpInv'
  <1>1. /\ caller[c] = Idle /\ boot.step = "serving" /\ ~(caller[c].pc \in Waiting)
        /\ \A s : c \notin Busy(s)
    BY CallerKinds DEF CallTool, Waiting, Busy
  <1>2. UNCHANGED <<boot, outbox, alive>>
    BY DEF CallTool
  <1>3. CASE ~(name \in DOMAIN index /\ index[name] \in alive)
    <2>1. /\ caller' = [caller EXCEPT ![c] = Failed] /\ UNCHANGED inbox
          /\ asked' \in Nat /\ straight' \in BOOLEAN /\ (straight' => straight)
      <3>1. asked \in Nat /\ straight \in BOOLEAN
        BY DEF McpInv, McpTypes
      <3>2. CASE name \in DOMAIN index
        <4>1. /\ caller' = [caller EXCEPT ![c] = Failed] /\ UNCHANGED inbox
              /\ asked' = asked + 1
          BY <1>3, <3>2 DEF CallTool, Ask, Failed
        <4>2. straight' = (straight /\ Busy(index[name]) = {})
          BY <3>2 DEF CallTool, Ask
        <4> QED
          BY <3>1, <4>1, <4>2
      <3>3. CASE name \notin DOMAIN index
        BY <3>1, <3>3 DEF CallTool, Failed
      <3> QED
        BY <3>2, <3>3
    <2>2. Failed \in States /\ ~(Failed.pc \in Waiting) /\ Failed.pc # "replied"
      BY CallerKinds DEF States, Waiting
    <2>3. /\ caller' \in [Caller -> States] /\ caller'[c] = Failed
          /\ \A d \in Caller : d # c => caller'[d] = caller[d]
          /\ \A s, d : d \in Busy(s)' <=> d \in Busy(s)
      BY <1>1, <2>1, <2>2, Moves
    <2>4. McpTypes'
      BY <1>2, <2>1, <2>3 DEF McpInv, McpTypes, States
    <2>5. MainOnly'
      BY <1>1, <1>2 DEF MainOnly
    <2>6. ASSUME straight', NEW s \in Names PROVE InTurn(s)'
      <3>1. \A d \in Busy(s) : d # c /\ d \in Caller
        BY <1>1 DEF Busy
      <3>2. InTurn(s)
        BY <2>1, <2>6 DEF McpInv
      <3> QED
        BY <1>2, <2>1, <2>3, <3>1, <3>2, TurnKept
    <2>7. RepliesMatch'
      BY <2>1, <2>2, RepliesKept
    <2> QED
      BY <2>4, <2>5, <2>6, <2>7 DEF McpInv
  <1>4. CASE name \in DOMAIN index /\ index[name] \in alive
    <2> DEFINE t == index[name]
               i == asked + 1
               q == [pc |-> "asked", server |-> t, id |-> i]
    <2>1. /\ caller' = [caller EXCEPT ![c] = q]
          /\ inbox' = [inbox EXCEPT ![t] = Append(inbox[t], i)]
          /\ asked' = i /\ straight' = (straight /\ Busy(t) = {})
          /\ t \in alive
      BY <1>4 DEF CallTool, Ask
    <2>2. /\ t \in Names /\ i \in Nat \ {0} /\ asked \in Nat /\ inbox[t] \in Seq(Nat)
          /\ outbox \in [Names -> Seq(Nat)] /\ inbox \in [Names -> Seq(Nat)]
      BY <2>1 DEF McpInv, McpTypes
    <2>3. q \in Asking /\ q.pc = "asked" /\ q.server = t /\ q.id = i
      BY <2>2 DEF Asking, Waiting
    <2> HIDE DEF t, i, q
    <2>4. q \in States /\ q.pc \in Waiting /\ q.pc # "replied"
      BY <2>3 DEF States, Waiting
    <2>5. /\ caller' \in [Caller -> States] /\ caller'[c] = q
          /\ \A d \in Caller : d # c => caller'[d] = caller[d]
          /\ \A s, d : d \in Busy(s)' <=> (d = c /\ s = t) \/ d \in Busy(s)
      BY <1>1, <2>1, <2>3, <2>4, Moves
    <2>6. /\ inbox' \in [Names -> Seq(Nat)] /\ inbox'[t] = Append(inbox[t], i)
          /\ \A s \in Names : s # t => inbox'[s] = inbox[s]
      <3>1. Append(inbox[t], i) \in Seq(Nat)
        BY <2>2
      <3> QED
        BY <2>1, <2>2, <3>1
    <2>7. McpTypes'
      BY <1>2, <2>1, <2>2, <2>5, <2>6 DEF McpInv, McpTypes, States
    <2>8. MainOnly'
      BY <1>1, <1>2 DEF MainOnly
    <2>9. ASSUME straight', NEW s \in Names PROVE InTurn(s)'
      <3>0. straight /\ Busy(t) = {} /\ InTurn(s)
        BY <2>1, <2>9 DEF McpInv
      <3>1. CASE s # t
        <4>1. \A d \in Busy(s) : d # c /\ d \in Caller
          BY <1>1 DEF Busy
        <4> QED
          BY <1>2, <2>5, <2>6, <3>0, <3>1, <4>1, TurnKept
      <3>2. CASE s = t
        <4>1. Busy(s)' = {c} /\ caller'[c].id = i
          BY <2>3, <2>5, <3>0, <3>2
        <4>2. outbox'[s] = << >> /\ Notes(inbox[s])
          BY <1>2, <2>1, <3>0, <3>2 DEF InTurn
        <4>3. NotesThen(inbox'[s], i)
          <5>1. Notes(inbox[t]) => NotesThen(Append(inbox[t], i), i)
            BY <2>2, Pipes
          <5> QED
            BY <2>6, <3>2, <4>2, <5>1
        <4> QED
          BY <4>1, <4>2, <4>3 DEF InTurn, PipeOf
      <3> QED
        BY <3>1, <3>2
    <2>10. RepliesMatch'
      BY <2>1, <2>4, RepliesKept
    <2> QED
      BY <2>7, <2>8, <2>9, <2>10 DEF McpInv
  <1> QED
    BY <1>3, <1>4

(* The lock of stdout is taken.                                            *)
LEMMA Locks ==
  ASSUME McpInv, NEW c \in Caller, Lock(c)
  PROVE  McpInv'
  <1> DEFINE q == [caller[c] EXCEPT !.pc = "reading"]
  <1>1. /\ caller[c].pc = "asked" /\ caller' = [caller EXCEPT ![c] = q]
        /\ UNCHANGED <<boot, inbox, outbox, alive, asked, straight>>
    BY DEF Lock, McpInv, McpTypes
  <1>2. caller[c] \in Asking
    BY <1>1, CallerKinds, MainIs DEF Waiting
  <1>3. q \in Asking /\ q.pc = "reading" /\ q.server = caller[c].server /\ q.id = caller[c].id
    BY <1>2 DEF Asking, Waiting
  <1> HIDE DEF q
  <1>4. q \in States /\ q.pc \in Waiting /\ q.pc # "replied" /\ q # Idle /\ caller[c] # Idle
    BY <1>1, <1>3, CallerKinds DEF States, Waiting
  <1>5. /\ caller' \in [Caller -> States] /\ caller'[c] = q
        /\ \A d \in Caller : d # c => caller'[d] = caller[d]
        /\ \A s, d : d \in Busy(s)' <=> \/ d = c /\ q.pc \in Waiting /\ q.server = s
                                        \/ d # c /\ d \in Busy(s)
    BY <1>1, <1>4, Moves
  <1>6. \A s : c \in Busy(s) <=> q.server = s
    BY <1>1, <1>3 DEF Busy
  <1>7. McpTypes'
    BY <1>1, <1>5 DEF McpInv, McpTypes, States
  <1>8. MainOnly'
    <2>1. At' = At
      BY <1>1 DEF At
    <2>2. boot.step # "serving" => c = Main
      BY <1>4 DEF McpInv, MainOnly
    <2>3. boot.step # "spawn"
      BY <1>4, <2>2 DEF McpInv, MainOnly
    <2>4. boot.step \in {"initialize", "discover"} => caller[c].server = At
      BY <1>1, <2>2 DEF McpInv, MainOnly, Waiting
    <2>5. boot.step \in {"initialize", "discover"} =>
            \A d \in Caller \ {Main} : caller[d] = Idle
      BY DEF McpInv, MainOnly
    <2>6. boot.step # "serving" => boot.step \in {"initialize", "discover"}
      BY <2>3 DEF McpInv, McpTypes
    <2> QED
      BY <1>1, <1>3, <1>4, <1>5, <2>1, <2>2, <2>3, <2>4, <2>5, <2>6 DEF MainOnly
  <1>9. ASSUME straight', NEW s \in Names PROVE InTurn(s)'
    <2>1. InTurn(s)
      BY <1>1, <1>9 DEF McpInv
    <2>2. \A d : d \in Busy(s)' <=> d \in Busy(s)
      BY <1>4, <1>5, <1>6
    <2>3. \A d \in Busy(s) : caller'[d].id = caller[d].id
      BY <1>3, <1>5 DEF Busy
    <2> QED
      BY <1>1, <2>1, <2>2, <2>3, TurnKept
  <1>10. RepliesMatch'
    BY <1>1, <1>4, RepliesKept
  <1> QED
    BY <1>7, <1>8, <1>9, <1>10 DEF McpInv

(* The next line is read: the answer, nothing, or a notification.          *)
LEMMA Reads ==
  ASSUME McpInv, NEW c \in Caller, Read(c)
  PROVE  McpInv'
  <1> DEFINE s == caller[c].server
             i == caller[c].id
             h == Head(outbox[s])
             reply == [pc |-> "replied", id |-> i, got |-> h]
             full == outbox[s] # << >>
             q == IF full /\ h # Note THEN reply ELSE Failed
  <1>1. /\ caller[c].pc = "reading" /\ caller' = [caller EXCEPT ![c] = q]
        /\ outbox' = IF full THEN [outbox EXCEPT ![s] = Tail(@)] ELSE outbox
        /\ ~full => s \notin alive
        /\ UNCHANGED <<boot, inbox, alive, asked, straight>>
    BY DEF Read, Failed
  <1>2. caller[c] \in Asking
    BY <1>1, CallerKinds, MainIs DEF Waiting
  <1>3. /\ s \in Names /\ i \in Nat \ {0} /\ outbox[s] \in Seq(Nat)
        /\ outbox \in [Names -> Seq(Nat)]
    BY <1>2, CallerKinds DEF McpInv, McpTypes
  <1>4. full => h \in Nat /\ Tail(outbox[s]) \in Seq(Nat)
    BY <1>3
  <1> HIDE DEF s, i, h
  <1>5. full => /\ reply \in Answered /\ reply.pc = "replied"
                /\ reply.id = i /\ reply.got = h
    BY <1>3, <1>4 DEF Answered
  <1> HIDE DEF reply
  <1>6. q \in States /\ ~(q.pc \in Waiting) /\ q # Idle
    <2>1. CASE full /\ h # Note
      BY <1>5, <2>1, CallerKinds DEF States, Waiting
    <2>2. CASE ~(full /\ h # Note)
      BY <2>2, CallerKinds DEF States, Waiting
    <2> QED
      BY <2>1, <2>2
  <1>7. q.pc = "replied" => full /\ q.got = h /\ q.id = i
    BY <1>5, CallerKinds
  <1> HIDE DEF q, full
  <1>8. /\ caller' \in [Caller -> States] /\ caller'[c] = q
        /\ \A d \in Caller : d # c => caller'[d] = caller[d]
        /\ \A t, d : d \in Busy(t)' <=> d # c /\ d \in Busy(t)
    BY <1>1, <1>6, Moves
  <1>9. \A t : c \in Busy(t) <=> t = s
    BY <1>1 DEF Busy, s
  <1>10. /\ outbox' \in [Names -> Seq(Nat)]
         /\ outbox'[s] = IF full THEN Tail(outbox[s]) ELSE outbox[s]
         /\ \A t \in Names : t # s => outbox'[t] = outbox[t]
    BY <1>1, <1>3, <1>4
  <1>11. McpTypes'
    BY <1>1, <1>8, <1>10 DEF McpInv, McpTypes, States
  <1>12. MainOnly'
    <2>1. At' = At
      BY <1>1 DEF At
    <2>2. caller[c] # Idle
      BY <1>1, CallerKinds
    <2>3. boot.step # "serving" => c = Main
      BY <2>2 DEF McpInv, MainOnly
    <2>4. boot.step # "spawn"
      BY <2>2, <2>3 DEF McpInv, MainOnly
    <2>5. boot.step # "serving" => \A d \in Caller \ {Main} : caller[d] = Idle
      BY DEF McpInv, MainOnly
    <2> QED
      BY <1>1, <1>6, <1>8, <2>1, <2>3, <2>4, <2>5 DEF MainOnly
  <1>13. ASSUME straight
         PROVE  /\ Busy(s) = {c} /\ (full => h = i)
                /\ outbox'[s] = << >> /\ (s \in alive => Notes(inbox[s]))
    <2>1. InTurn(s)
      BY <1>3, <1>13 DEF McpInv
    <2>2. Busy(s) = {c}
      BY <1>9, <2>1 DEF InTurn
    <2>3. PipeOf(s, i)
      BY <2>1, <2>2 DEF InTurn, i
    <2>4. CASE outbox[s] = <<i>> /\ (s \in alive => Notes(inbox[s]))
      BY <1>3, <1>10, <2>2, <2>4 DEF full, h
    <2>5. CASE outbox[s] = << >>
      BY <1>1, <1>10, <2>2, <2>5 DEF full
    <2> QED
      BY <2>2, <2>3, <2>4, <2>5 DEF PipeOf
  <1>14. ASSUME straight', NEW t \in Names PROVE InTurn(t)'
    <2>1. InTurn(t) /\ straight
      BY <1>1, <1>14 DEF McpInv
    <2>2. CASE t = s
      <3>1. Busy(t)' = {}
        <4>1. \A d : d \in Busy(t)' <=> d # c /\ d \in Busy(t)
          BY <1>8
        <4>2. Busy(t) = {c}
          BY <1>13, <2>1, <2>2
        <4> QED
          BY <4>1, <4>2
      <3> QED
        BY <1>1, <1>13, <2>1, <2>2, <3>1 DEF InTurn
    <2>3. CASE t # s
      <3>1. \A d : d \in Busy(t)' <=> d \in Busy(t)
        BY <1>8, <1>9, <2>3
      <3>2. \A d \in Busy(t) : caller'[d].id = caller[d].id
        BY <1>8, <1>9, <2>3 DEF Busy
      <3> QED
        BY <1>1, <1>10, <2>1, <2>3, <3>1, <3>2, TurnKept
    <2> QED
      BY <2>2, <2>3
  <1>15. RepliesMatch'
    <2>1. q.pc # "replied" \/ (straight' => q.got = q.id)
      BY <1>1, <1>7, <1>13
    <2>2. straight' => straight
      BY <1>1
    <2> QED
      BY <1>1, <1>6, <2>1, <2>2, RepliesKept
  <1> QED
    BY <1>11, <1>12, <1>14, <1>15 DEF McpInv

(* A step after which nothing is claimed of the replies any more.          *)
(* Once a run is not straight only the types are left to show.             *)
LEMMA Crooked ==
  ASSUME McpInv, straight' = FALSE, McpTypes', MainOnly'
  PROVE  McpInv'
  BY DEF McpInv, RepliesMatch

(* A call is dropped by a timeout.                                         *)
LEMMA Drops ==
  ASSUME McpInv, NEW c \in Caller, Drop(c), boot.step = "serving"
  PROVE  McpInv'
  <1> DEFINE s == caller[c].server
  <1>1. /\ caller[c].pc \in Waiting /\ caller' = [caller EXCEPT ![c] = Failed]
        /\ straight' = FALSE
        /\ \/ UNCHANGED outbox
           \/ outbox[s] # << >> /\ outbox' = [outbox EXCEPT ![s][1] = Note]
        /\ UNCHANGED <<boot, inbox, alive, asked>>
    BY DEF Drop, Failed, Waiting
  <1>2. s \in Names /\ outbox \in [Names -> Seq(Nat)] /\ outbox[s] \in Seq(Nat) /\ Note \in Nat
    BY <1>1, CallerKinds, MainIs DEF McpInv, McpTypes, Note
  <1>3. [outbox[s] EXCEPT ![1] = Note] \in Seq(Nat)
    BY <1>2, SeqUpdated
  <1>4. outbox' \in [Names -> Seq(Nat)]
    BY <1>1, <1>2, <1>3
  <1>5. caller' \in [Caller -> States]
    BY <1>1, MainIs DEF States
  <1>6. McpTypes'
    BY <1>1, <1>4, <1>5 DEF McpInv, McpTypes, States
  <1>7. MainOnly'
    BY <1>1 DEF MainOnly
  <1> QED
    BY <1>1, <1>6, <1>7, Crooked

(* A caller has its result, and rests.                                     *)
LEMMA Returns ==
  ASSUME McpInv, NEW c \in Caller, Return(c)
  PROVE  McpInv'
  <1>1. /\ ~(caller[c].pc \in Waiting) /\ caller' = [caller EXCEPT ![c] = Idle]
        /\ boot.step = "serving"
        /\ UNCHANGED <<boot, inbox, outbox, alive, asked, straight>>
    BY DEF Return, Waiting
  <1>2. Idle \in States /\ ~(Idle.pc \in Waiting) /\ Idle.pc # "replied"
    BY CallerKinds DEF States, Waiting
  <1>3. /\ caller' \in [Caller -> States] /\ caller'[c] = Idle
        /\ \A d \in Caller : d # c => caller'[d] = caller[d]
        /\ \A s, d : d \in Busy(s)' <=> d # c /\ d \in Busy(s)
    BY <1>1, <1>2, Moves
  <1>4. McpTypes'
    BY <1>1, <1>3 DEF McpInv, McpTypes, States
  <1>5. MainOnly'
    BY <1>1 DEF MainOnly
  <1>6. ASSUME straight', NEW s \in Names PROVE InTurn(s)'
    <2>1. c \notin Busy(s) /\ InTurn(s)
      BY <1>1, <1>6 DEF Busy, Waiting, McpInv
    <2>2. \A d \in Busy(s) : caller'[d].id = caller[d].id
      BY <1>3, <2>1 DEF Busy
    <2> QED
      BY <1>1, <1>3, <2>1, <2>2, TurnKept
  <1>7. RepliesMatch'
    BY <1>1, <1>2, RepliesKept
  <1> QED
    BY <1>4, <1>5, <1>6, <1>7 DEF McpInv

(* A server takes its next line and answers it if it is a request.         *)
LEMMA Answers ==
  ASSUME McpInv, NEW s \in Names, Answer(s)
  PROVE  McpInv'
  <1> DEFINE h == Head(inbox[s])
  <1>1. /\ s \in alive /\ inbox[s] # << >> /\ inbox' = [inbox EXCEPT ![s] = Tail(inbox[s])]
        /\ outbox' = IF h = Note THEN outbox ELSE [outbox EXCEPT ![s] = Append(outbox[s], h)]
        /\ UNCHANGED <<boot, alive, caller, asked, straight>>
    BY DEF Answer
  <1>2. /\ inbox \in [Names -> Seq(Nat)] /\ outbox \in [Names -> Seq(Nat)]
        /\ inbox[s] \in Seq(Nat) /\ outbox[s] \in Seq(Nat)
    BY DEF McpInv, McpTypes
  <1>3. h \in Nat /\ Tail(inbox[s]) \in Seq(Nat)
    BY <1>1, <1>2
  <1> HIDE DEF h
  <1>4. Append(outbox[s], h) \in Seq(Nat)
    BY <1>2, <1>3
  <1>5. /\ inbox' \in [Names -> Seq(Nat)] /\ inbox'[s] = Tail(inbox[s])
        /\ \A t \in Names : t # s => inbox'[t] = inbox[t]
    BY <1>1, <1>2, <1>3
  <1>6. /\ outbox' \in [Names -> Seq(Nat)]
        /\ outbox'[s] = IF h = Note THEN outbox[s] ELSE Append(outbox[s], h)
        /\ \A t \in Names : t # s => outbox'[t] = outbox[t]
    BY <1>1, <1>2, <1>4
  <1>7. McpTypes'
    BY <1>1, <1>5, <1>6 DEF McpInv, McpTypes
  <1>8. MainOnly' /\ RepliesMatch'
    BY <1>1 DEF McpInv, MainOnly, RepliesMatch, At
  <1>9. \A t : Busy(t)' = Busy(t)
    BY <1>1 DEF Busy
  <1>10. ASSUME straight', NEW t \in Names PROVE InTurn(t)'
    <2>1. InTurn(t)
      BY <1>1, <1>10 DEF McpInv
    <2>2. CASE t # s
      BY <1>1, <1>5, <1>6, <1>9, <2>1, <2>2, TurnKept
    <2>3. CASE t = s /\ Busy(s) = {}
      <3>1. outbox[s] = << >> /\ Notes(inbox[s])
        BY <1>1, <2>1, <2>3 DEF InTurn
      <3>2. inbox[s] # << >> /\ Notes(inbox[s]) =>
              Head(inbox[s]) = Note /\ Notes(Tail(inbox[s]))
        <4>1. 1 \in Nat \ {0}
          OBVIOUS
        <4> QED
          BY <1>2, <4>1, Pipes
      <3>3. h = Note /\ Notes(inbox'[s])
        BY <1>1, <1>5, <3>1, <3>2 DEF h
      <3> QED
        BY <1>6, <1>9, <2>3, <3>1, <3>3 DEF InTurn
    <2>4. ASSUME t = s, NEW c \in Busy(s) PROVE InTurn(t)'
      <3> DEFINE i == caller[c].id
      <3>1. PipeOf(s, i) /\ \A d \in Busy(s) : d = c
        BY <2>1, <2>4 DEF InTurn
      <3>2. i \in Nat \ {0}
        BY CallerKinds, MainIs DEF Busy, Waiting
      <3>3. PipeOf(s, i)'
        <4> HIDE DEF i
        <4>1. CASE outbox[s] = <<i>> /\ Notes(inbox[s])
          <5>1. inbox[s] # << >> /\ Notes(inbox[s])
                => Head(inbox[s]) = Note /\ Notes(Tail(inbox[s]))
            BY <1>2, <3>2, Pipes
          <5>2. h = Note /\ Notes(inbox'[s]) /\ outbox'[s] = <<i>>
            BY <1>1, <1>5, <1>6, <4>1, <5>1 DEF h
          <5>3. i' = i
            BY <1>1 DEF i
          <5> QED
            BY <5>2, <5>3 DEF PipeOf
        <4>2. CASE outbox[s] = << >> /\ NotesThen(inbox[s], i) /\ h = Note
          <5>1. NotesThen(inbox[s], i) /\ Head(inbox[s]) = Note => NotesThen(Tail(inbox[s]), i)
            BY <1>2, <3>2, Pipes
          <5>2. NotesThen(inbox'[s], i) /\ outbox'[s] = << >>
            BY <1>5, <1>6, <4>2, <5>1 DEF h
          <5>3. i' = i
            BY <1>1 DEF i
          <5> QED
            BY <5>2, <5>3 DEF PipeOf
        <4>3. CASE outbox[s] = << >> /\ NotesThen(inbox[s], i) /\ h # Note
          <5>1. NotesThen(inbox[s], i) /\ Head(inbox[s]) # Note
                => Head(inbox[s]) = i /\ Notes(Tail(inbox[s]))
            BY <1>2, <3>2, Pipes
          <5>2. Notes(inbox'[s]) /\ outbox'[s] = <<i>>
            BY <1>5, <1>6, <4>3, <5>1 DEF h
          <5>3. i' = i
            BY <1>1 DEF i
          <5> QED
            BY <5>2, <5>3 DEF PipeOf
        <4> QED
          BY <1>1, <3>1, <4>1, <4>2, <4>3 DEF PipeOf
      <3> QED
        BY <1>1, <1>9, <2>4, <3>1, <3>3 DEF InTurn
    <2> QED
      BY <2>2, <2>3, <2>4
  <1> QED
    BY <1>7, <1>8, <1>10 DEF McpInv

(* Servers die, or nothing happens: the pipes stay.                        *)
LEMMA Deaths ==
  ASSUME McpInv, alive' \subseteq alive,
         UNCHANGED <<boot, inbox, outbox, caller, asked, straight>>
  PROVE  McpInv'
  <1>1. McpTypes'
    BY DEF McpInv, McpTypes
  <1>2. MainOnly' /\ RepliesMatch'
    BY DEF McpInv, MainOnly, RepliesMatch, At
  <1>3. \A t : Busy(t)' = Busy(t)
    BY DEF Busy
  <1>4. ASSUME straight', NEW t \in Names PROVE InTurn(t)'
    <2>1. InTurn(t)
      BY <1>4 DEF McpInv
    <2> QED
      BY <1>3, <2>1, TurnKept
  <1> QED
    BY <1>1, <1>2, <1>4 DEF McpInv

(* A server writes a line nobody asked for.                                *)
LEMMA Writes ==
  ASSUME McpInv, NEW s \in Names, Unasked(s)
  PROVE  McpInv'
  <1>1. /\ outbox' = [outbox EXCEPT ![s] = Append(outbox[s], Note)] /\ straight' = FALSE
        /\ UNCHANGED <<boot, inbox, alive, caller, asked>>
    BY DEF Unasked
  <1>2. outbox \in [Names -> Seq(Nat)] /\ outbox[s] \in Seq(Nat) /\ Note \in Nat
    BY DEF McpInv, McpTypes, Note
  <1>3. Append(outbox[s], Note) \in Seq(Nat)
    BY <1>2
  <1>4. outbox' \in [Names -> Seq(Nat)]
    BY <1>1, <1>2, <1>3
  <1>5. McpTypes'
    BY <1>1, <1>4 DEF McpInv, McpTypes
  <1>6. MainOnly'
    BY <1>1 DEF McpInv, MainOnly, At
  <1> QED
    BY <1>1, <1>5, <1>6, Crooked

(* Where main goes after a server.                                         *)
LEMMA NextIs ==
  ASSUME McpInv, boot' = NextServer
  PROVE  /\ boot'.at \in 1..Len(Server) /\ boot' = [at |-> boot'.at, step |-> boot'.step]
         /\ boot'.step \in {"spawn", "serving"}
  <1>1. boot.at \in 1..Len(Server) /\ Len(Server) \in Nat
    BY MainIs
  <1>2. CASE boot.at = Len(Server)
    BY <1>1, <1>2 DEF NextServer
  <1>3. CASE boot.at # Len(Server)
    BY <1>1, <1>3 DEF NextServer
  <1> QED
    BY <1>2, <1>3

(* main leaves a server: it rests, and nobody has asked for anything.       *)
LEMMA Leaves ==
  ASSUME McpInv, boot.step # "serving", boot' = NextServer,
         ~(caller[Main].pc \in Waiting), caller' = [caller EXCEPT ![Main] = Idle],
         UNCHANGED <<inbox, outbox, alive, asked, straight>>
  PROVE  McpInv'
  <1>1. Idle \in States /\ ~(Idle.pc \in Waiting) /\ Idle.pc # "replied"
    BY CallerKinds DEF States, Waiting
  <1>2. Main \in Caller
    BY MainIs
  <1>3. /\ caller' \in [Caller -> States] /\ caller'[Main] = Idle
        /\ \A d \in Caller : d # Main => caller'[d] = caller[d]
        /\ \A s, d : d \in Busy(s)' <=> d # Main /\ d \in Busy(s)
    BY <1>1, <1>2, Moves
  <1>4. McpTypes'
    BY <1>3, NextIs DEF McpInv, McpTypes, States
  <1>5. MainOnly'
    <2>1. \A d \in Caller : d # Main => caller[d] = Idle
      BY DEF McpInv, MainOnly
    <2>2. boot'.step \in {"spawn", "serving"}
      BY NextIs
    <2> QED
      BY <1>3, <2>1, <2>2 DEF MainOnly
  <1>6. ASSUME straight', NEW s \in Names PROVE InTurn(s)'
    <2>1. Main \notin Busy(s) /\ InTurn(s)
      BY <1>6 DEF Busy, Waiting, McpInv
    <2>2. \A d \in Busy(s) : caller'[d].id = caller[d].id
      BY <1>3, <2>1 DEF Busy
    <2> QED
      BY <1>3, <2>1, <2>2, TurnKept
  <1>7. RepliesMatch'
    BY <1>1, <1>2, RepliesKept
  <1> QED
    BY <1>4, <1>5, <1>6, <1>7 DEF McpInv

(* main asks the server it is at, whose pipes are as they must be.          *)
LEMMA Asks ==
  ASSUME McpInv, boot.step # "serving", ~(caller[Main].pc \in Waiting),
         NEW step \in {"initialize", "discover"}, boot' = [boot EXCEPT !.step = step],
         asked' = asked + 1, alive' \subseteq alive \cup {At}, At \in alive',
         NEW line \in Seq(Nat), inbox' = [inbox EXCEPT ![At] = line],
         straight => NotesThen(line, asked + 1),
         caller' = [caller EXCEPT ![Main] =
                      [pc |-> "asked", server |-> At, id |-> asked + 1]],
         UNCHANGED <<outbox, straight>>
  PROVE  McpInv'
  <1> DEFINE i == asked + 1
             q == [pc |-> "asked", server |-> At, id |-> i]
  <1>1. /\ Main \in Caller /\ At \in Names /\ asked \in Nat /\ i \in Nat \ {0}
        /\ inbox \in [Names -> Seq(Nat)] /\ boot.at \in 1..Len(Server)
        /\ boot = [at |-> boot.at, step |-> boot.step] /\ alive \subseteq Names
    BY MainIs DEF McpInv, McpTypes
  <1>2. q \in Asking /\ q.pc = "asked" /\ q.server = At /\ q.id = i
    BY <1>1 DEF Asking, Waiting
  <1>3. caller' = [caller EXCEPT ![Main] = q] /\ (straight => NotesThen(line, i))
    OBVIOUS
  <1> HIDE DEF i, q
  <1>4. q \in States /\ q.pc \in Waiting /\ q.pc # "replied" /\ q # Idle
    BY <1>2, CallerKinds DEF States, Waiting
  <1>5. \A s : Busy(s) = {}
    BY MainIs DEF McpInv, McpTypes
  <1>6. /\ caller' \in [Caller -> States] /\ caller'[Main] = q
        /\ \A d \in Caller : d # Main => caller'[d] = caller[d]
        /\ \A s, d : d \in Busy(s)' <=> d = Main /\ s = At
    <2>1. /\ caller' \in [Caller -> States] /\ caller'[Main] = q
          /\ \A d \in Caller : d # Main => caller'[d] = caller[d]
          /\ \A s, d : d \in Busy(s)' <=> \/ d = Main /\ q.pc \in Waiting /\ q.server = s
                                          \/ d # Main /\ d \in Busy(s)
      BY <1>1, <1>3, <1>4, Moves
    <2> QED
      BY <1>2, <1>4, <1>5, <2>1
  <1>7. /\ boot'.at = boot.at /\ boot'.step = step
        /\ boot' = [at |-> boot'.at, step |-> boot'.step]
    BY <1>1
  <1>8. /\ inbox' \in [Names -> Seq(Nat)] /\ inbox'[At] = line
        /\ \A s \in Names : s # At => inbox'[s] = inbox[s]
    BY <1>1
  <1>9. McpTypes'
    BY <1>1, <1>6, <1>7, <1>8 DEF McpInv, McpTypes, States
  <1>10. MainOnly'
    <2>1. \A d \in Caller : d # Main => caller[d] = Idle
      BY DEF McpInv, MainOnly
    <2>2. At' = At
      BY <1>7 DEF At
    <2> QED
      BY <1>1, <1>2, <1>4, <1>6, <1>7, <2>1, <2>2 DEF MainOnly
  <1>11. ASSUME straight', NEW s \in Names PROVE InTurn(s)'
    <2>1. InTurn(s) /\ straight
      BY <1>11 DEF McpInv
    <2>2. outbox[s] = << >>
      BY <1>5, <2>1 DEF InTurn
    <2>3. CASE s = At
      <3>1. Busy(s)' = {Main} /\ caller'[Main].id = i
        BY <1>2, <1>6, <2>3
      <3>2. NotesThen(inbox'[s], i)
        BY <1>3, <1>8, <2>1, <2>3
      <3> QED
        BY <2>2, <3>1, <3>2 DEF InTurn, PipeOf
    <2>4. CASE s # At
      <3>1. Busy(s)' = {}
        BY <1>6, <2>4
      <3>2. s \in alive' => s \in alive
        BY <2>4
      <3> QED
        BY <1>5, <1>8, <2>1, <2>2, <2>4, <3>1, <3>2 DEF InTurn
    <2> QED
      BY <2>3, <2>4
  <1>12. RepliesMatch'
    BY <1>1, <1>3, <1>4, RepliesKept
  <1> QED
    BY <1>9, <1>10, <1>11, <1>12 DEF McpInv

(* spawn: the first request is in an empty pipe.                           *)
LEMMA Spawns ==
  ASSUME McpInv, Spawn
  PROVE  McpInv'
  <1>1. /\ boot.step = "spawn" /\ boot.step # "serving" /\ caller[Main] = Idle
        /\ UNCHANGED <<outbox, straight>>
    BY DEF Spawn, bootRest, McpInv, MainOnly
  <1>2. ~(caller[Main].pc \in Waiting)
    BY <1>1, CallerKinds DEF Waiting
  <1>3. Main \in Caller /\ asked \in Nat /\ caller \in [Caller -> States]
    BY MainIs DEF McpInv, McpTypes
  <1>4. CASE boot' = NextServer /\ UNCHANGED <<alive, inbox, caller, asked>>
    <2>1. caller' = [caller EXCEPT ![Main] = Idle]
      BY <1>1, <1>3, <1>4
    <2> QED
      BY <1>1, <1>2, <1>4, <2>1, Leaves
  <1>5. CASE /\ alive' = alive \cup {At} /\ asked' = asked + 1
             /\ inbox' = [inbox EXCEPT ![At] = << asked + 1 >>]
             /\ caller' = [caller EXCEPT ![Main] =
                             [pc |-> "asked", server |-> At, id |-> asked + 1]]
             /\ boot' = [boot EXCEPT !.step = "initialize"]
    <2> DEFINE line == << asked + 1 >>
    <2>1. line \in Seq(Nat) /\ asked + 1 \in Nat \ {0}
      BY <1>3
    <2>2. NotesThen(line, asked + 1)
      BY <2>1, Pipes
    <2>3. "initialize" \in {"initialize", "discover"} /\ inbox' = [inbox EXCEPT ![At] = line]
      BY <1>5
    <2> HIDE DEF line
    <2> QED
      BY <1>1, <1>2, <1>5, <2>1, <2>2, <2>3, Asks
  <1> QED
    BY <1>4, <1>5 DEF Spawn

(* initialize has its answer; the notification and tools/list go out.      *)
LEMMA Initializes ==
  ASSUME McpInv, Initialized
  PROVE  McpInv'
  <1>1. /\ boot.step = "initialize" /\ boot.step # "serving"
        /\ ~(caller[Main].pc \in Waiting) /\ UNCHANGED <<outbox, straight, alive>>
    BY DEF Initialized, bootRest, Waiting
  <1>2. /\ Main \in Caller /\ asked \in Nat /\ At \in Names /\ inbox[At] \in Seq(Nat)
        /\ \A s : Busy(s) = {}
    BY <1>1, MainIs DEF McpInv, McpTypes
  <1>3. CASE caller[Main].pc = "error" \/ At \notin alive
    BY <1>1, <1>3, Leaves DEF Initialized
  <1>4. CASE ~(caller[Main].pc = "error" \/ At \notin alive)
    <2> DEFINE line == inbox[At] \o <<Note, asked + 1>>
    <2>1. line \in Seq(Nat) /\ asked + 1 \in Nat \ {0}
      BY <1>2 DEF Note
    <2>2. straight => NotesThen(line, asked + 1)
      <3>1. Notes(inbox[At]) => NotesThen(line, asked + 1)
        BY <1>2, <2>1, Pipes
      <3>2. straight => Notes(inbox[At])
        BY <1>2, <1>4 DEF McpInv, InTurn
      <3> QED
        BY <3>1, <3>2
    <2>3. /\ "discover" \in {"initialize", "discover"} /\ inbox' = [inbox EXCEPT ![At] = line]
          /\ boot' = [boot EXCEPT !.step = "discover"] /\ asked' = asked + 1
          /\ caller' = [caller EXCEPT ![Main] =
                          [pc |-> "asked", server |-> At, id |-> asked + 1]]
          /\ At \in alive
      BY <1>4 DEF Initialized
    <2> HIDE DEF line
    <2> QED
      BY <1>1, <2>1, <2>2, <2>3, Asks
  <1> QED
    BY <1>3, <1>4

(* discover_tools has its answer, and the server is registered.            *)
LEMMA Discovers ==
  ASSUME McpInv, Discovered
  PROVE  McpInv'
  <1>1. /\ boot.step # "serving" /\ boot' = NextServer /\ ~(caller[Main].pc \in Waiting)
        /\ caller' = [caller EXCEPT ![Main] = Idle]
        /\ UNCHANGED <<inbox, outbox, alive, asked, straight>>
    BY DEF Discovered, bootRest, Waiting
  <1> QED
    BY <1>1, Leaves

(* Every step of the component, one by one.                                *)
LEMMA McpStep ==
  ASSUME McpInv, [McpNext]_mcpVars
  PROVE  McpInv'
  <1>1. ASSUME NEW c \in Caller, NEW name, CallTool(c, name) PROVE McpInv'
    BY <1>1, Calls
  <1>2. ASSUME NEW c \in Caller, Lock(c) PROVE McpInv'
    BY <1>2, Locks
  <1>3. ASSUME NEW c \in Caller, Read(c) PROVE McpInv'
    BY <1>3, Reads
  <1>4. ASSUME NEW c \in Caller, Return(c) PROVE McpInv'
    BY <1>4, Returns
  <1>5. ASSUME NEW c \in Caller, boot.step = "serving", Drop(c) PROVE McpInv'
    BY <1>5, Drops
  <1>6. ASSUME NEW s \in Names, Answer(s) PROVE McpInv'
    BY <1>6, Answers
  <1>7. ASSUME NEW s \in Names, Unasked(s) PROVE McpInv'
    BY <1>7, Writes
  <1>8. ASSUME NEW s \in Names, Dies(s) PROVE McpInv'
    BY <1>8, Deaths DEF Dies
  <1>9. ASSUME ShutdownAll PROVE McpInv'
    BY <1>9, Deaths DEF ShutdownAll
  <1>10. ASSUME UNCHANGED mcpVars PROVE McpInv'
    BY <1>10, Deaths DEF mcpVars
  <1> QED
    BY <1>1, <1>2, <1>3, <1>4, <1>5, <1>6, <1>7, <1>8, <1>9, <1>10,
       Spawns, Initializes, Discovers DEF McpNext

(* As long as no calls to a server overlapped, none was dropped and no line *)
(* came unasked, a reply is the one asked for, for any number of servers    *)
(* and callers and whatever servers die (send_request, src/src/mcp/mod.rs). *)
THEOREM RepliesMatchHolds == McpSpec => []RepliesMatch
  <1>1. McpInv => RepliesMatch
    BY DEF McpInv
  <1> QED
    BY <1>1, McpStarts, McpStep, PTL DEF McpSpec

-----------------------------------------------------------------------------
(* Web terminals                                                           *)

(* The chunks of s are the last Len(s) of the first n.                      *)
Counts(s, n) == Len(s) <= n /\ \A k \in 1..Len(s) : s[k] = n - Len(s) + k
(* A reader thread that has seen the exit.                                 *)
Over(reader, t) == reader[t] \in {"removing", "done"}

(* Chunks are numbers.                                                     *)
TerminalTypes ==
  /\ child \in [Term -> {"none", "running", "closed", "exited"}]
  /\ ptyReader \in [Term -> {"none", "reading", "waiting", "removing", "done"}]
  /\ written \in [Term -> Nat] /\ readUpTo \in [Term -> Nat]
  /\ listed \cup unlisted \cup killer \subseteq Term
  /\ tail \in [Term -> Seq(Nat)]
  /\ DOMAIN ws = Browser /\ ws = [b \in Browser |-> ws[b]]

(* The threads: output comes before its end, and a thread that has seen the *)
(* end leaves nothing behind.                                              *)
ReaderOK(t) ==
  /\ readUpTo[t] <= written[t] /\ Counts(tail[t], readUpTo[t])
  /\ child[t] = "none" =>
       ptyReader[t] = "none" /\ t \notin listed \cup unlisted \cup killer
  /\ ptyReader[t] \in {"waiting", "removing", "done"} =>
       child[t] \in {"closed", "exited"} /\ readUpTo[t] = written[t]
  /\ ptyReader[t] = "done" /\ t \in listed \cup unlisted => t \in early

(* The connections: what was shown and what is still to be shown.           *)
LiveShape(x) ==
  /\ x.pc = "live"
  /\ x = [pc |-> "live", term |-> x.term, shows |-> x.shows, queue |-> x.queue,
          lagged |-> x.lagged]
  /\ x.term \in Term /\ x.shows \in Seq(Nat) /\ x.queue \in Seq(Nat)
  /\ Len(x.queue) <= MaxLag
ShowsAll(x, upTo, reader) ==
  /\ Counts(x.shows \o Chunks(x.queue), upTo[x.term])
  /\ \A k \in 1..Len(x.queue) :
       x.queue[k] = Exit => k = Len(x.queue) /\ Over(reader, x.term)
ToldShape(x) ==
  /\ x.pc = "told"
  /\ x = [pc |-> "told", term |-> x.term, shows |-> x.shows, lagged |-> x.lagged]
  /\ x.term \in Term /\ x.shows \in Seq(Nat)
WsOK(x, upTo, reader) ==
  \/ x = Detached
  \/ x = [pc |-> "upgrading", term |-> x.term] /\ x.term \in Term
  \/ LiveShape(x) /\ x.lagged \in BOOLEAN /\ (~x.lagged => ShowsAll(x, upTo, reader))
  \/ /\ ToldShape(x)
     /\ ~x.lagged => Over(reader, x.term) /\ Counts(x.shows, upTo[x.term])

(* The invariant.                                                          *)
TerminalInv ==
  /\ TerminalTypes
  /\ \A t \in Term : ReaderOK(t)
  /\ \A b \in Browser : WsOK(ws[b], readUpTo, ptyReader)

(* What a bounded buffer keeps when something is added.                    *)
LEMMA LastOnes ==
  ASSUME NEW s \in Seq(Nat), NEW e \in Nat, NEW n \in Nat \ {0}
  PROVE  LET r == LastOf(Append(s, e), n)
         IN  /\ r \in Seq(Nat) /\ Len(r) <= n
             /\ Len(s) < n => r = Append(s, e)
             /\ \A m \in Nat : Counts(s, m) /\ e = m + 1 => Counts(r, e)
  <1> DEFINE a == Append(s, e)
             f == IF Len(a) > n THEN Len(a) - n + 1 ELSE 1
             r == SubSeq(a, f, Len(a))
  <1>1. a \in Seq(Nat) /\ Len(a) = Len(s) + 1 /\ Len(s) \in Nat
    OBVIOUS
  <1>2. f \in 1..Len(a) /\ Len(a) - f + 1 <= n /\ (Len(a) <= n => f = 1)
    BY <1>1
  <1>3. \A k \in 1..Len(a) : a[k] \in Nat /\ a[k] = IF k = Len(a) THEN e ELSE s[k]
    BY <1>1
  <1> HIDE DEF a, f
  <1>4. /\ r \in Seq(Nat) /\ Len(r) = Len(a) - f + 1
        /\ \A k \in 1..Len(a) - f + 1 : r[k] = a[f + k - 1]
    <2>1. \A g \in 1..Len(a) :
            /\ SubSeq(a, g, Len(a)) \in Seq(Nat) /\ Len(SubSeq(a, g, Len(a))) = Len(a) - g + 1
            /\ \A k \in 1..Len(a) - g + 1 : SubSeq(a, g, Len(a))[k] = a[g + k - 1]
      <3> SUFFICES ASSUME NEW g \in 1..Len(a)
                   PROVE  /\ SubSeq(a, g, Len(a)) \in Seq(Nat)
                          /\ Len(SubSeq(a, g, Len(a))) = Len(a) - g + 1
                          /\ \A k \in 1..Len(a) - g + 1 : SubSeq(a, g, Len(a))[k] = a[g + k - 1]
        OBVIOUS
      <3>1. a \in Seq(Nat) /\ Len(a) \in Nat
        BY <1>1
      <3>2. Len(SubSeq(a, g, Len(a))) = Len(a) - g + 1
        BY <3>1
      <3>3. \A k \in 1..Len(a) - g + 1 : SubSeq(a, g, Len(a))[k] = a[g + k - 1]
        BY <3>1
      <3>4. SubSeq(a, g, Len(a)) \in Seq(Nat)
        BY <3>1
      <3> QED
        BY <3>2, <3>3, <3>4
    <2> QED
      BY <1>2, <2>1
  <1> HIDE DEF r
  <1>5. r \in Seq(Nat) /\ Len(r) <= n
    BY <1>1, <1>2, <1>4
  <1>6. ASSUME Len(s) < n PROVE r = a
    <2>1. f = 1 /\ Len(r) = Len(a)
      BY <1>1, <1>2, <1>4, <1>6
    <2>2. \A k \in 1..Len(a) : r[k] = a[k]
      <3>1. Len(a) \in Nat /\ f = 1
        BY <1>1, <2>1
      <3>2. \A k \in 1..Len(a) : k \in 1..Len(a) - f + 1 /\ f + k - 1 = k
        BY <3>1
      <3> QED
        BY <1>4, <3>2
    <2> QED
      BY <1>1, <1>5, <2>1, <2>2, SeqIs
  <1>7. ASSUME NEW m \in Nat, Counts(s, m), e = m + 1 PROVE Counts(r, e)
    <2>1. \A k \in 1..Len(s) : s[k] = m - Len(s) + k
      BY <1>7 DEF Counts
    <2>2. Len(s) <= m
      BY <1>7 DEF Counts
    <2>3. \A k \in 1..Len(a) : a[k] = e - Len(a) + k
      <3> SUFFICES ASSUME NEW k \in 1..Len(a) PROVE a[k] = e - Len(a) + k
        OBVIOUS
      <3>1. a[k] = IF k = Len(a) THEN e ELSE s[k]
        BY <1>3
      <3>2. CASE k = Len(a)
        BY <1>1, <3>1, <3>2
      <3>3. CASE k # Len(a)
        <4>1. k \in 1..Len(s)
          BY <1>1, <3>3
        <4>2. s[k] = m - Len(s) + k
          BY <2>1, <4>1
        <4> QED
          BY <1>1, <1>7, <3>1, <3>3, <4>2
      <3> QED
        BY <3>2, <3>3
    <2>4. Len(r) <= e
      BY <1>1, <1>2, <1>4, <1>7, <2>2
    <2>5. \A k \in 1..Len(r) : r[k] = e - Len(r) + k
      <3> SUFFICES ASSUME NEW k \in 1..Len(r) PROVE r[k] = e - Len(r) + k
        OBVIOUS
      <3>n. Len(r) = Len(a) - f + 1 /\ Len(a) \in Nat /\ f \in 1..Len(a)
        BY <1>1, <1>2, <1>4
      <3>i. \A x \in Nat : \A g \in 1..x : \A j \in 1..(x - g + 1) : g + j - 1 \in 1..x
        OBVIOUS
      <3>0. k \in 1..Len(a) - f + 1 /\ f + k - 1 \in 1..Len(a)
        BY <3>n, <3>i
      <3>1. r[k] = a[f + k - 1] /\ f + k - 1 \in 1..Len(a)
        BY <1>4, <3>0
      <3>2. a[f + k - 1] = e - Len(a) + (f + k - 1)
        BY <2>3, <3>1
      <3> QED
        BY <1>1, <1>2, <1>4, <1>7, <3>1, <3>2
    <2> QED
      BY <2>4, <2>5 DEF Counts
  <1> QED
    BY <1>5, <1>6, <1>7 DEF LastOf, a, f, r

(* Such a sequence ends the sequence of all chunks.                        *)
LEMMA CountsIsSuffix ==
  ASSUME NEW s \in Seq(Nat), NEW t \in Term, readUpTo[t] \in Nat, Counts(s, readUpTo[t])
  PROVE  IsSuffix(s, UpTo(t))
  <1> DEFINE n == readUpTo[t]
             u == UpTo(t)
             rs == Reverse(s)
             ru == Reverse(u)
  <1>1. u \in Seq(Nat) /\ Len(u) = n /\ \A k \in 1..n : u[k] = k
    BY DEF UpTo
  <1>2. Len(s) \in Nat /\ Len(s) <= n /\ \A k \in 1..Len(s) : s[k] = n - Len(s) + k
    BY DEF Counts
  <1>3. /\ rs \in Seq(Nat) /\ Len(rs) = Len(s)
        /\ \A k \in 1..Len(s) : rs[k] = s[Len(s) - k + 1]
    BY <1>2 DEF Reverse
  <1> HIDE DEF u
  <1>n. n \in Nat
    OBVIOUS
  <1> HIDE DEF n
  <1>4. /\ ru \in Seq(Nat) /\ Len(ru) = n
        /\ \A k \in 1..n : ru[k] = u[n - k + 1]
    <2>1. ru = [k \in 1..n |-> u[(n - k) + 1]]
      BY <1>1 DEF Reverse
    <2>2. \A k \in 1..n : u[n - k + 1] \in Nat
      BY <1>1, <1>n
    <2> QED
      BY <1>n, <2>1, <2>2
  <1> HIDE DEF rs, ru
  <1>5. \A k \in 1..Len(s) : rs[k] = ru[k]
    <2> SUFFICES ASSUME NEW k \in 1..Len(s) PROVE rs[k] = ru[k]
      OBVIOUS
    <2>1. Len(s) - k + 1 \in 1..Len(s) /\ n - k + 1 \in 1..n /\ k \in 1..n
      BY <1>2, <1>n
    <2>2. rs[k] = n - Len(s) + (Len(s) - k + 1)
      BY <1>2, <1>3, <2>1
    <2>3. ru[k] = n - k + 1
      BY <1>1, <1>4, <2>1
    <2> QED
      BY <1>2, <1>n, <2>2, <2>3
  <1>6. SubSeq(rs, 1, Len(rs)) = SubSeq(ru, 1, Len(rs))
    BY <1>2, <1>3, <1>4, <1>5, <1>n
  <1>7. IsPrefix(rs, ru)
    BY <1>2, <1>3, <1>4, <1>6 DEF IsPrefix
  <1> QED
    BY <1>7 DEF IsSuffix, rs, ru, u

(* It is enough to know the elements.                                      *)
LEMMA CountsAgree ==
  ASSUME NEW r, NEW s, NEW n, Len(r) = Len(s), \A k \in 1..Len(s) : r[k] = s[k], Counts(s, n)
  PROVE  Counts(r, n)
  BY DEF Counts

(* The exit comes last and is not shown.                                   *)
LEMMA ChunksAre ==
  ASSUME NEW q \in Seq(Nat), \A k \in 1..Len(q) : q[k] # Exit, NEW e \in Nat
  PROVE  /\ Chunks(q) = q /\ (e # Exit => Chunks(Append(q, e)) = Append(q, e))
         /\ Len(Chunks(Append(q, Exit))) = Len(q)
         /\ Chunks(Append(q, Exit)) \in Seq(Nat)
         /\ \A k \in 1..Len(q) : Chunks(Append(q, Exit))[k] = q[k]
  <1>1. Len(q) \in Nat /\ (q # << >> => Len(q) \in 1..Len(q))
    OBVIOUS
  <1>2. Chunks(q) = q
    BY <1>1 DEF Chunks, Last
  <1>3. \A x \in Nat : /\ Append(q, x) # << >> /\ Last(Append(q, x)) = x
                      /\ Append(q, x) \in Seq(Nat) /\ Len(Append(q, x)) = Len(q) + 1
    BY <1>1 DEF Last
  <1>4. e # Exit => Chunks(Append(q, e)) = Append(q, e)
    BY <1>3 DEF Chunks
  <1>5. Exit \in Nat /\ Chunks(Append(q, Exit)) = SubSeq(Append(q, Exit), 1, Len(q))
    BY <1>1, <1>3 DEF Chunks, Exit, Front
  <1>6. \A k \in 1..Len(q) : Append(q, Exit)[k] = q[k]
    OBVIOUS
  <1> QED
    BY <1>1, <1>2, <1>3, <1>4, <1>5, <1>6

(* The next chunk.                                                         *)
LEMMA CountsMore ==
  ASSUME NEW s \in Seq(Nat), NEW q \in Seq(Nat), NEW n \in Nat, Counts(s \o q, n)
  PROVE  Counts(s \o Append(q, n + 1), n + 1)
  <1> DEFINE a == s \o q
             b == s \o Append(q, n + 1)
  <1>1. /\ Len(s) \in Nat /\ Len(q) \in Nat /\ Len(a) = Len(s) + Len(q)
        /\ Len(b) = Len(a) + 1
    OBVIOUS
  <1>2. \A k \in 1..Len(b) : b[k] = IF k = Len(b) THEN n + 1 ELSE a[k]
    BY <1>1
  <1>3. Len(a) <= n /\ \A k \in 1..Len(a) : a[k] = n - Len(a) + k
    BY DEF Counts
  <1> HIDE DEF a, b
  <1>a. Len(a) \in Nat
    BY <1>1
  <1>4. ASSUME NEW k \in 1..Len(b) PROVE b[k] = n + 1 - Len(b) + k
    <2>1. CASE k = Len(b)
      BY <1>1, <1>2, <2>1
    <2>2. CASE k # Len(b)
      <3>1. k \in 1..Len(a)
        <4>1. \A l \in Nat : \A j \in 1..l + 1 : j # l + 1 => j \in 1..l
          OBVIOUS
        <4> QED
          BY <1>a, <1>1, <2>2, <4>1
      <3>2. b[k] = a[k] /\ a[k] = n - Len(a) + k
        BY <1>2, <1>3, <2>2, <3>1
      <3> QED
        BY <1>a, <1>1, <3>1, <3>2
    <2> QED
      BY <2>1, <2>2
  <1> QED
    BY <1>1, <1>3, <1>4 DEF Counts, b

(* What is still to be shown of a queue.                                   *)
LEMMA ChunksTake ==
  ASSUME NEW q \in Seq(Nat)
  PROVE  LET m == IF q # << >> /\ Last(q) = Exit THEN Len(q) - 1 ELSE Len(q)
         IN  /\ Chunks(q) \in Seq(Nat) /\ Len(Chunks(q)) = m
             /\ \A k \in 1..m : Chunks(q)[k] = q[k]
  <1>1. q # << >> => Len(q) - 1 \in Nat
    OBVIOUS
  <1>2. CASE q # << >> /\ Last(q) = Exit
    <2>1. Chunks(q) = SubSeq(q, 1, Len(q) - 1)
      BY <1>2 DEF Chunks, Front
    <2> DEFINE r == SubSeq(q, 1, Len(q) - 1)
    <2>2. /\ r \in Seq(Nat) /\ Len(r) = Len(q) - 1
          /\ \A k \in 1..Len(q) - 1 : r[k] = q[k]
      <3>1. \A j \in 0..Len(q) : /\ SubSeq(q, 1, j) \in Seq(Nat) /\ Len(SubSeq(q, 1, j)) = j
                                /\ \A k \in 1..j : SubSeq(q, 1, j)[k] = q[k]
        OBVIOUS
      <3>2. Len(q) - 1 \in 0..Len(q)
        BY <1>1, <1>2
      <3> QED
        BY <3>1, <3>2
    <2> HIDE DEF r
    <2>3. Chunks(q) = r
      BY <2>1 DEF r
    <2> QED
      BY <1>2, <2>2, <2>3
  <1>3. CASE ~(q # << >> /\ Last(q) = Exit)
    BY <1>3 DEF Chunks
  <1> QED
    BY <1>2, <1>3

(* The elements of a concatenation.                                        *)
LEMMA Joined ==
  ASSUME NEW s \in Seq(Nat), NEW t \in Seq(Nat)
  PROVE  /\ s \o t \in Seq(Nat) /\ Len(s \o t) = Len(s) + Len(t)
         /\ \A k \in 1..Len(s) : (s \o t)[k] = s[k]
         /\ \A k \in 1..Len(t) : (s \o t)[Len(s) + k] = t[k]
  OBVIOUS

(* What forwarding the first of the queue leaves.                          *)
LEMMA Forwarding ==
  ASSUME NEW s \in Seq(Nat), NEW q \in Seq(Nat), q # << >>, NEW n \in Nat,
         Counts(s \o Chunks(q), n), \A k \in 1..Len(q) : q[k] = Exit => k = Len(q)
  PROVE  /\ Head(q) = Exit => Counts(s, n)
         /\ Head(q) # Exit => Counts(Append(s, Head(q)) \o Chunks(Tail(q)), n)
  <1>1. Len(q) \in Nat \ {0} /\ Head(q) = q[1] /\ Len(s) \in Nat
    BY TailOf
  <1>2. ASSUME Head(q) = Exit PROVE Counts(s, n)
    <2>0. 1 \in 1..Len(q) /\ q[1] = Exit
      BY <1>1, <1>2
    <2>1. Len(q) = 1 /\ Last(q) = Exit
      BY <2>0 DEF Last
    <2>2. Chunks(q) \in Seq(Nat) /\ Len(Chunks(q)) = 0
      BY <2>1, ChunksTake
    <2>3. s \o Chunks(q) = s
      BY <2>2
    <2> QED
      BY <2>3
  <1>3. ASSUME Head(q) # Exit PROVE Counts(Append(s, Head(q)) \o Chunks(Tail(q)), n)
    <2> DEFINE m == IF Last(q) = Exit THEN Len(q) - 1 ELSE Len(q)
               c == Chunks(q)
               d == Chunks(Tail(q))
    <2>1. c \in Seq(Nat) /\ Len(c) = m /\ \A k \in 1..m : c[k] = q[k]
      BY ChunksTake
    <2>3. Len(q) = 1 => Last(q) # Exit
      BY <1>1, <1>3 DEF Last
    <2>4. d \in Seq(Nat) /\ Len(d) = m - 1 /\ \A k \in 1..m - 1 : d[k] = Tail(q)[k]
      <3>1. Tail(q) \in Seq(Nat)
        BY TailOf
      <3>2. CASE Len(q) = 1
        BY <2>3, <3>1, <3>2, TailOf, ChunksTake
      <3>3. CASE Len(q) # 1
        BY <1>1, <3>1, <3>3, TailOf, ChunksTake
      <3> QED
        BY <3>2, <3>3
    <2>5. d \in Seq(Nat) /\ Len(d) = m - 1 /\ \A k \in 1..m - 1 : d[k] = q[k + 1]
      <3>1. m <= Len(q)
        BY <1>1
      <3>2. \A k \in 1..m - 1 : k \in 1..Len(q) - 1
        BY <1>1, <3>1
      <3>3. \A k \in 1..Len(q) - 1 : Tail(q)[k] = q[k + 1]
        BY TailOf
      <3> HIDE DEF m, d
      <3> QED
        BY <2>4, <3>2, <3>3
    <2>6. m \in Nat \ {0}
      BY <1>1, <2>3
    <2> HIDE DEF m, c, d
    <2> DEFINE u == Append(s, Head(q))
    <2>u. /\ u \in Seq(Nat) /\ Len(u) = Len(s) + 1 /\ u[Len(s) + 1] = q[1]
          /\ \A k \in 1..Len(s) : u[k] = s[k]
      BY <1>1
    <2> HIDE DEF u
    <2> DEFINE w == u \o d
               v == s \o c
    <2>7. /\ Len(w) = Len(v) /\ Len(v) = Len(s) + m
          /\ \A k \in 1..Len(s) + 1 : w[k] = u[k]
          /\ \A k \in 1..m - 1 : w[Len(s) + 1 + k] = d[k]
          /\ \A k \in 1..Len(s) : v[k] = s[k]
          /\ \A k \in 1..m : v[Len(s) + k] = c[k]
      <3>1. Len(s) \in Nat /\ Len(d) = m - 1 /\ Len(c) = m /\ m \in Nat \ {0}
        BY <1>1, <2>1, <2>5, <2>6
      <3>2. /\ Len(w) = Len(u) + Len(d) /\ \A k \in 1..Len(u) : w[k] = u[k]
            /\ \A k \in 1..Len(d) : w[Len(u) + k] = d[k]
        BY <2>5, <2>u, Joined
      <3>3. /\ Len(v) = Len(s) + Len(c) /\ \A k \in 1..Len(s) : v[k] = s[k]
            /\ \A k \in 1..Len(c) : v[Len(s) + k] = c[k]
        BY <2>1, Joined
      <3> HIDE DEF w, v
      <3> QED
        BY <2>u, <3>1, <3>2, <3>3
    <2> HIDE DEF w, v
    <2>8. ASSUME NEW k \in 1..Len(v) PROVE w[k] = v[k]
      <3>1. CASE k <= Len(s)
        <4>1. k \in 1..Len(s) /\ k \in 1..Len(s) + 1
          BY <1>1, <2>6, <2>7, <3>1
        <4> QED
          BY <2>7, <2>u, <4>1
      <3>2. CASE k = Len(s) + 1
        <4>1. v[Len(s) + 1] = c[1] /\ c[1] = q[1]
          BY <2>1, <2>6, <2>7
        <4> QED
          BY <1>1, <2>7, <2>u, <3>2, <4>1
      <3>3. CASE k > Len(s) + 1
        <4> DEFINE i == k - Len(s) - 1
        <4>1. i \in 1..m - 1 /\ i + 1 \in 1..m /\ k = Len(s) + 1 + i /\ k = Len(s) + (i + 1)
          BY <1>1, <2>6, <2>7, <3>3
        <4>2. v[k] = c[i + 1] /\ c[i + 1] = q[i + 1]
          BY <2>1, <2>7, <4>1
        <4>3. w[k] = d[i] /\ d[i] = q[i + 1]
          BY <2>5, <2>7, <4>1
        <4> QED
          BY <4>2, <4>3
      <3>4. k \in Int /\ Len(s) \in Int
        BY <1>1, <2>6, <2>7
      <3>5. k <= Len(s) \/ k = Len(s) + 1 \/ k > Len(s) + 1
        BY <3>4
      <3> QED
        BY <3>1, <3>2, <3>3, <3>5
    <2>9. Counts(v, n)
      BY DEF v, c
    <2>10. Counts(w, n)
      BY <2>7, <2>8, <2>9, CountsAgree
    <2> QED
      BY <2>10 DEF w, d, u
  <1> QED
    BY <1>2, <1>3

(* A connection whose terminal has read no more.                           *)
LEMMA WsKept ==
  ASSUME NEW x, NEW upTo, NEW upTo2, NEW reader, NEW reader2, WsOK(x, upTo, reader),
         \A t \in Term : upTo2[t] = upTo[t] /\ (Over(reader, t) => Over(reader2, t))
  PROVE  WsOK(x, upTo2, reader2)
  <1>1. CASE x = Detached
    BY <1>1 DEF WsOK
  <1>2. CASE x = [pc |-> "upgrading", term |-> x.term] /\ x.term \in Term
    BY <1>2 DEF WsOK
  <1>3. CASE LiveShape(x) /\ x.lagged \in BOOLEAN /\ (~x.lagged => ShowsAll(x, upTo, reader))
    <2>1. x.term \in Term
      BY <1>3 DEF LiveShape
    <2>2. ~x.lagged => ShowsAll(x, upTo2, reader2)
      BY <1>3, <2>1 DEF ShowsAll
    <2> QED
      BY <1>3, <2>2 DEF WsOK
  <1>4. CASE /\ ToldShape(x)
             /\ ~x.lagged => Over(reader, x.term) /\ Counts(x.shows, upTo[x.term])
    <2>1. x.term \in Term
      BY <1>4 DEF ToldShape
    <2>2. ~x.lagged => Over(reader2, x.term) /\ Counts(x.shows, upTo2[x.term])
      BY <1>4, <2>1
    <2> QED
      BY <1>4, <2>2 DEF WsOK
  <1> QED
    BY <1>1, <1>2, <1>3, <1>4 DEF WsOK

(* A step of a thread that sends nothing.                                  *)
LEMMA Threads ==
  ASSUME TerminalInv, TerminalTypes', \A t \in Term : ReaderOK(t)', ws' = ws,
         readUpTo' = readUpTo,
         \A t \in Term : Over(ptyReader, t) => Over(ptyReader', t)
  PROVE  TerminalInv'
  <1>1. ASSUME NEW b \in Browser PROVE WsOK(ws[b], readUpTo', ptyReader')
    <2>1. WsOK(ws[b], readUpTo, ptyReader)
      BY DEF TerminalInv
    <2> QED
      BY <2>1, WsKept
  <1> QED
    BY <1>1 DEF TerminalInv

(* Nothing is spawned.                                                     *)
LEMMA TerminalStarts == TerminalInit => TerminalInv
  <1> SUFFICES ASSUME TerminalInit PROVE TerminalInv
    OBVIOUS
  <1>1. TerminalTypes
    BY DEF TerminalInit, TerminalTypes
  <1>2. ASSUME NEW t \in Term PROVE ReaderOK(t)
    BY DEF TerminalInit, ReaderOK, Counts
  <1>3. ASSUME NEW b \in Browser PROVE WsOK(ws[b], readUpTo, ptyReader)
    BY DEF TerminalInit, WsOK
  <1> QED
    BY <1>1, <1>2, <1>3 DEF TerminalInv

(* A child and its reader thread start.                                    *)
LEMMA Spawning ==
  ASSUME TerminalInv, NEW t \in Term, SpawnTerminal(t) PROVE TerminalInv'
  <1>1. TerminalTypes'
    BY DEF TerminalInv, TerminalTypes, SpawnTerminal
  <1>2. ASSUME NEW u \in Term PROVE ReaderOK(u)'
    BY DEF TerminalInv, TerminalTypes, ReaderOK, SpawnTerminal
  <1>3. \A u \in Term : Over(ptyReader, u) => Over(ptyReader', u)
    BY DEF TerminalInv, TerminalTypes, ReaderOK, SpawnTerminal, Over
  <1> QED
    BY <1>1, <1>2, <1>3, Threads DEF SpawnTerminal

(* spawn enters the terminal into the map.                                 *)
LEMMA Listing ==
  ASSUME TerminalInv, NEW t \in Term, ListTerminal(t) PROVE TerminalInv'
  <1>1. TerminalTypes'
    BY DEF TerminalInv, TerminalTypes, ListTerminal, processVars
  <1>2. ASSUME NEW u \in Term PROVE ReaderOK(u)'
    BY DEF TerminalInv, TerminalTypes, ReaderOK, ListTerminal, processVars
  <1> QED
    BY <1>1, <1>2, Threads DEF ListTerminal, processVars

(* The child writes, leaves or is killed.                                  *)
LEMMA ChildSteps ==
  ASSUME TerminalInv, NEW t \in Term, ChildWrites(t) \/ ChildLeaves(t) \/ KillLands(t)
  PROVE  TerminalInv'
  <1>1. /\ UNCHANGED <<readUpTo, ptyReader, tail, ws, mapVars>> /\ killer' \subseteq killer
        /\ \A u \in Term : u # t => child'[u] = child[u] /\ written'[u] = written[u]
        /\ written' \in [Term -> Nat] /\ written'[t] >= written[t]
        /\ written'[t] # written[t] => child[t] = "running"
        /\ child' \in [Term -> {"none", "running", "closed", "exited"}]
        /\ child'[t] # child[t] => child[t] # "none" /\ child'[t] \in {"closed", "exited"}
    <2>1. CASE ChildWrites(t)
      BY <2>1 DEF TerminalInv, TerminalTypes, ChildWrites, mapVars
    <2>2. CASE ChildLeaves(t)
      <3>1. /\ child[t] # "none" /\ killer' = killer
            /\ UNCHANGED <<written, readUpTo, ptyReader, tail, ws, mapVars>>
            /\ \E c \in {"closed", "exited"} : child' = [child EXCEPT ![t] = c]
        BY <2>2 DEF ChildLeaves
      <3> QED
        BY <3>1 DEF TerminalInv, TerminalTypes
    <2>3. CASE KillLands(t)
      <3>1. child[t] # "none"
        BY <2>3 DEF TerminalInv, ReaderOK, KillLands
      <3>2. child' = [child EXCEPT ![t] = "exited"] /\ killer' = killer \ {t}
        BY <2>3 DEF KillLands
      <3>3. UNCHANGED <<written, readUpTo, ptyReader, tail, ws, mapVars>>
        BY <2>3 DEF KillLands
      <3> QED
        BY <3>1, <3>2, <3>3 DEF TerminalInv, TerminalTypes
    <2> QED
      BY <2>1, <2>2, <2>3
  <1>2. TerminalTypes'
    BY <1>1 DEF TerminalInv, TerminalTypes, mapVars
  <1>3. ASSUME NEW u \in Term PROVE ReaderOK(u)'
    <2>1. ReaderOK(u) /\ readUpTo[u] \in Nat /\ written[u] \in Nat
      BY DEF TerminalInv, TerminalTypes
    <2>2. CASE u # t
      BY <1>1, <2>1, <2>2 DEF ReaderOK, mapVars
    <2>3. CASE u = t
      BY <1>1, <2>1, <2>3 DEF ReaderOK, mapVars
    <2> QED
      BY <2>2, <2>3
  <1> QED
    BY <1>1, <1>2, <1>3, Threads

(* The output has ended, and all of it was read.                           *)
LEMMA Ending ==
  ASSUME TerminalInv, NEW t \in Term, ReadEnds(t) PROVE TerminalInv'
  <1>1. TerminalTypes'
    BY DEF TerminalInv, TerminalTypes, ReadEnds, processVars, mapVars
  <1>2. ASSUME NEW u \in Term PROVE ReaderOK(u)'
    BY DEF TerminalInv, TerminalTypes, ReaderOK, ReadEnds, processVars, mapVars
  <1>3. \A u \in Term : Over(ptyReader, u) => Over(ptyReader', u)
    BY DEF TerminalInv, TerminalTypes, ReadEnds, Over
  <1> QED
    BY <1>1, <1>2, <1>3, Threads DEF ReadEnds

(* The thread takes the terminal out of the map, or comes too early.       *)
LEMMA Removing ==
  ASSUME TerminalInv, NEW t \in Term, ReaderRemoves(t) PROVE TerminalInv'
  <1>1. TerminalTypes'
    BY DEF TerminalInv, TerminalTypes, ReaderRemoves, processVars
  <1>2. ASSUME NEW u \in Term PROVE ReaderOK(u)'
    <2>1. ReaderOK(u) /\ ReaderOK(t)
      BY DEF TerminalInv
    <2>2. CASE u = t
      BY <2>1, <2>2 DEF TerminalInv, TerminalTypes, ReaderOK, ReaderRemoves, processVars
    <2>3. CASE u # t
      BY <2>1, <2>3 DEF TerminalInv, TerminalTypes, ReaderOK, ReaderRemoves, processVars
    <2> QED
      BY <2>2, <2>3
  <1>3. \A u \in Term : Over(ptyReader, u) => Over(ptyReader', u)
    BY DEF TerminalInv, TerminalTypes, ReaderRemoves, Over
  <1> QED
    BY <1>1, <1>2, <1>3, Threads DEF ReaderRemoves

(* kill takes the terminal out of the map.                                 *)
LEMMA Killing ==
  ASSUME TerminalInv, NEW t \in Term, KillTerminal(t) PROVE TerminalInv'
  <1>1. TerminalTypes'
    BY DEF TerminalInv, TerminalTypes, KillTerminal, processVars
  <1>2. ASSUME NEW u \in Term PROVE ReaderOK(u)'
    BY DEF TerminalInv, TerminalTypes, ReaderOK, KillTerminal, processVars
  <1> QED
    BY <1>1, <1>2, Threads DEF KillTerminal

(* What a subscriber gets of a send.                                       *)
Sent(x, e) == [x EXCEPT !.queue = LastOf(Append(@, e), MaxLag),
                        !.lagged = @ \/ Len(x.queue) = MaxLag]

(* One that lags loses the oldest, and is known to lag.                    *)
LEMMA Sending ==
  ASSUME NEW x, LiveShape(x), x.lagged \in BOOLEAN, NEW e \in Nat
  PROVE  /\ LiveShape(Sent(x, e)) /\ Sent(x, e).term = x.term
         /\ Sent(x, e).lagged \in BOOLEAN
         /\ ~Sent(x, e).lagged => /\ ~x.lagged /\ Sent(x, e).queue = Append(x.queue, e)
                                 /\ Sent(x, e).shows = x.shows
  <1> DEFINE q == LastOf(Append(x.queue, e), MaxLag)
             l == x.lagged \/ Len(x.queue) = MaxLag
             y == Sent(x, e)
  <1>1. /\ x = [pc |-> "live", term |-> x.term, shows |-> x.shows, queue |-> x.queue,
                lagged |-> x.lagged]
        /\ x.term \in Term /\ x.shows \in Seq(Nat) /\ x.queue \in Seq(Nat)
        /\ Len(x.queue) <= MaxLag
    BY DEF LiveShape
  <1>2. MaxLag \in Nat \ {0}
    BY TerminalAssumption
  <1>3. /\ q \in Seq(Nat) /\ Len(q) <= MaxLag
        /\ Len(x.queue) < MaxLag => q = Append(x.queue, e)
    BY <1>1, <1>2, LastOnes
  <1>4. y = [x EXCEPT !.queue = q, !.lagged = l]
    BY DEF Sent
  <1>5. l \in BOOLEAN
    OBVIOUS
  <1>6. ~l => ~x.lagged /\ Len(x.queue) # MaxLag
    OBVIOUS
  <1> HIDE DEF q, l, y
  <1>7. y = [pc |-> "live", term |-> x.term, shows |-> x.shows, queue |-> q, lagged |-> l]
    <2> DEFINE z == [x EXCEPT !.queue = q]
    <2>1. z = [pc |-> "live", term |-> x.term, shows |-> x.shows, queue |-> q,
               lagged |-> x.lagged]
      <3>1. \A m, w, o, g :
              [[pc |-> "live", term |-> m, shows |-> w, queue |-> o, lagged |-> g]
                 EXCEPT !.queue = q]
              = [pc |-> "live", term |-> m, shows |-> w, queue |-> q, lagged |-> g]
        OBVIOUS
      <3>2. [[pc |-> "live", term |-> x.term, shows |-> x.shows, queue |-> x.queue,
              lagged |-> x.lagged] EXCEPT !.queue = q]
            = [pc |-> "live", term |-> x.term, shows |-> x.shows, queue |-> q,
               lagged |-> x.lagged]
        BY <3>1
      <3> QED
        BY <1>1, <3>2
    <2>2. y = [z EXCEPT !.lagged = l]
      BY <1>4
    <2> HIDE DEF z
    <2>3. \A m, w, o, g :
            [[pc |-> "live", term |-> m, shows |-> w, queue |-> o, lagged |-> g]
               EXCEPT !.lagged = l]
            = [pc |-> "live", term |-> m, shows |-> w, queue |-> o, lagged |-> l]
      OBVIOUS
    <2> QED
      BY <2>1, <2>2, <2>3
  <1>8. y.pc = "live" /\ y.term = x.term /\ y.shows = x.shows /\ y.queue = q /\ y.lagged = l
    BY <1>7
  <1>9. LiveShape(y)
    BY <1>1, <1>3, <1>7, <1>8 DEF LiveShape
  <1>10. ~l => q = Append(x.queue, e)
    <2>1. Len(x.queue) \in Nat
      BY <1>1
    <2> QED
      BY <1>1, <1>2, <1>3, <1>6, <2>1
  <1>11. y.lagged \in BOOLEAN /\ (~y.lagged => ~x.lagged /\ y.queue = Append(x.queue, e))
    BY <1>5, <1>6, <1>8, <1>10
  <1> QED
    BY <1>8, <1>9, <1>11 DEF y

(* Nothing follows the exit, and only a reader that has seen it sends it.   *)
LEMMA Reaching ==
  ASSUME NEW x, NEW t \in Term, NEW e \in Nat,
         WsOK(x, readUpTo, ptyReader), ~Over(ptyReader, t), readUpTo[t] \in Nat,
         \A u \in Term \ {t} : /\ readUpTo'[u] = readUpTo[u]
                               /\ Over(ptyReader, u) => Over(ptyReader', u),
         IF e = Exit THEN readUpTo'[t] = readUpTo[t] /\ Over(ptyReader', t)
                     ELSE readUpTo'[t] = readUpTo[t] + 1 /\ e = readUpTo[t] + 1
  PROVE  WsOK(IF x.pc # "live" \/ x.term # t THEN x ELSE Sent(x, e), readUpTo', ptyReader')
  <1>1. CASE x = Detached
    BY <1>1 DEF WsOK, Detached
  <1>2. CASE x = [pc |-> "upgrading", term |-> x.term] /\ x.term \in Term
    <2>1. x.pc # "live"
      BY <1>2
    <2> QED
      BY <1>2, <2>1 DEF WsOK
  <1>3. CASE /\ LiveShape(x) /\ x.lagged \in BOOLEAN
             /\ ~x.lagged => ShowsAll(x, readUpTo, ptyReader)
    <2>1. x.pc = "live" /\ x.term \in Term /\ x.shows \in Seq(Nat) /\ x.queue \in Seq(Nat)
      BY <1>3 DEF LiveShape
    <2>2. CASE x.term # t
      <3>1. ~x.lagged => ShowsAll(x, readUpTo', ptyReader')
        BY <1>3, <2>1, <2>2 DEF ShowsAll
      <3> QED
        BY <1>3, <2>2, <3>1 DEF WsOK
    <2>3. CASE x.term = t
      <3> DEFINE y == Sent(x, e)
      <3>1. /\ LiveShape(y) /\ y.term = t /\ y.lagged \in BOOLEAN
            /\ ~y.lagged => ~x.lagged /\ y.queue = Append(x.queue, e) /\ y.shows = x.shows
        BY <1>3, <2>3, Sending
      <3> HIDE DEF y
      <3>2. ASSUME ~y.lagged PROVE ShowsAll(y, readUpTo', ptyReader')
        <4>1. /\ y.queue = Append(x.queue, e) /\ y.shows = x.shows
              /\ ShowsAll(x, readUpTo, ptyReader)
          BY <1>3, <3>1, <3>2
        <4>2. /\ Counts(x.shows \o Chunks(x.queue), readUpTo[t])
              /\ \A k \in 1..Len(x.queue) : x.queue[k] # Exit
          BY <2>3, <4>1 DEF ShowsAll
        <4>3. Chunks(x.queue) = x.queue
          BY <2>1, <4>2, ChunksAre
        <4>4. /\ Len(Append(x.queue, e)) = Len(x.queue) + 1 /\ Len(x.queue) \in Nat
              /\ \A k \in 1..Len(x.queue) : Append(x.queue, e)[k] = x.queue[k]
              /\ Append(x.queue, e)[Len(x.queue) + 1] = e
          BY <2>1
        <4>5. \A k \in 1..Len(y.queue) : y.queue[k] = Exit => k = Len(y.queue) /\ e = Exit
          BY <4>1, <4>2, <4>4
        <4>6. CASE e = Exit
          <5>1. /\ Len(Chunks(Append(x.queue, Exit))) = Len(x.queue)
                /\ Chunks(Append(x.queue, Exit)) \in Seq(Nat)
                /\ \A k \in 1..Len(x.queue) : Chunks(Append(x.queue, Exit))[k] = x.queue[k]
            BY <2>1, <4>2, ChunksAre
          <5>2. \A w, z \in Seq(Nat) :
                  Len(w) = Len(z) /\ (\A k \in 1..Len(z) : w[k] = z[k]) => w = z
            OBVIOUS
          <5>3. Chunks(y.queue) = x.queue
            BY <2>1, <4>1, <4>6, <5>1, <5>2
          <5> QED
            BY <3>1, <4>1, <4>2, <4>3, <4>5, <4>6, <5>3 DEF ShowsAll
        <4>7. CASE e # Exit
          <5>1. Chunks(y.queue) = Append(x.queue, e)
            BY <2>1, <4>1, <4>2, <4>7, ChunksAre
          <5>2. Counts(x.shows \o Append(x.queue, e), readUpTo'[t])
            BY <2>1, <4>2, <4>3, <4>7, CountsMore
          <5> QED
            BY <3>1, <4>1, <4>5, <4>7, <5>1, <5>2 DEF ShowsAll
        <4> QED
          BY <4>6, <4>7
      <3> QED
        BY <2>1, <2>3, <3>1, <3>2 DEF WsOK, y
    <2> QED
      BY <2>2, <2>3
  <1>4. CASE /\ ToldShape(x)
             /\ ~x.lagged => Over(ptyReader, x.term) /\ Counts(x.shows, readUpTo[x.term])
    <2>1. x.term \in Term /\ x.pc # "live"
      BY <1>4 DEF ToldShape
    <2>2. ~x.lagged => x.term # t
      BY <1>4
    <2>3. ~x.lagged => Over(ptyReader', x.term) /\ Counts(x.shows, readUpTo'[x.term])
      BY <1>4, <2>1, <2>2
    <2> QED
      BY <1>4, <2>1, <2>3 DEF WsOK
  <1> QED
    BY <1>1, <1>2, <1>3, <1>4 DEF WsOK

(* All subscribers of a send.                                              *)
LEMMA Subscribers ==
  ASSUME TerminalInv, NEW t \in Term, NEW e \in Nat, ~Over(ptyReader, t),
         ws' = Broadcast(t, e), \A u \in Term \ {t} : /\ readUpTo'[u] = readUpTo[u]
                                                  /\ ptyReader'[u] = ptyReader[u],
         IF e = Exit THEN readUpTo'[t] = readUpTo[t] /\ Over(ptyReader', t)
                     ELSE readUpTo'[t] = readUpTo[t] + 1 /\ e = readUpTo[t] + 1
  PROVE  /\ DOMAIN ws' = Browser /\ ws' = [b \in Browser |-> ws'[b]]
         /\ \A b \in Browser : WsOK(ws'[b], readUpTo', ptyReader')
  <1>1. DOMAIN ws' = Browser /\ ws' = [b \in Browser |-> ws'[b]]
    BY DEF Broadcast
  <1>2. ASSUME NEW b \in Browser PROVE WsOK(ws'[b], readUpTo', ptyReader')
    <2>1. WsOK(ws[b], readUpTo, ptyReader) /\ readUpTo[t] \in Nat
      BY DEF TerminalInv, TerminalTypes
    <2>2. ws'[b] = IF ws[b].pc # "live" \/ ws[b].term # t THEN ws[b] ELSE Sent(ws[b], e)
      BY DEF Broadcast, Sent
    <2>3. \A u \in Term \ {t} : /\ readUpTo'[u] = readUpTo[u]
                              /\ Over(ptyReader, u) => Over(ptyReader', u)
      BY DEF Over
    <2>4. WsOK(IF ws[b].pc # "live" \/ ws[b].term # t THEN ws[b] ELSE Sent(ws[b], e),
               readUpTo', ptyReader')
      <3>1. \A x : WsOK(x, readUpTo, ptyReader) =>
              WsOK(IF x.pc # "live" \/ x.term # t THEN x ELSE Sent(x, e),
                   readUpTo', ptyReader')
        <4> TAKE x
        <4> HAVE WsOK(x, readUpTo, ptyReader)
        <4> QED
          BY <2>1, <2>3, Reaching
      <3> QED
        BY <2>1, <3>1
    <2> QED
      BY <2>2, <2>4
  <1> QED
    BY <1>1, <1>2

(* A chunk is read, kept and sent.                                         *)
LEMMA ReadingOn ==
  ASSUME TerminalInv, NEW t \in Term, ReadChunk(t) PROVE TerminalInv'
  <1> DEFINE n == readUpTo[t] + 1
  <1>1. /\ ptyReader[t] = "reading" /\ readUpTo[t] < written[t]
        /\ readUpTo' = [readUpTo EXCEPT ![t] = n]
        /\ tail' = [tail EXCEPT ![t] = LastOf(Append(tail[t], n), MaxScroll)]
        /\ ws' = Broadcast(t, n)
        /\ UNCHANGED <<child, written, ptyReader, childLock, killer, listed, unlisted, early>>
    BY DEF ReadChunk, processVars, mapVars
  <1>2. /\ readUpTo \in [Term -> Nat] /\ written \in [Term -> Nat]
        /\ tail \in [Term -> Seq(Nat)]
        /\ n \in Nat \ {0} /\ n <= written[t] /\ Counts(tail[t], readUpTo[t])
    BY <1>1 DEF TerminalInv, TerminalTypes, ReaderOK
  <1>3. /\ LastOf(Append(tail[t], n), MaxScroll) \in Seq(Nat)
        /\ Counts(LastOf(Append(tail[t], n), MaxScroll), n)
    <2>1. MaxScroll \in Nat \ {0} /\ tail[t] \in Seq(Nat) /\ readUpTo[t] \in Nat
      BY <1>2, TerminalAssumption
    <2> QED
      BY <1>2, <2>1, LastOnes
  <1>4. ~Over(ptyReader, t) /\ n # Exit
    BY <1>1, <1>2 DEF Over, Exit
  <1>5. /\ readUpTo'[t] = n /\ tail'[t] = LastOf(Append(tail[t], n), MaxScroll)
        /\ readUpTo' \in [Term -> Nat] /\ tail' \in [Term -> Seq(Nat)]
        /\ \A u \in Term \ {t} : readUpTo'[u] = readUpTo[u] /\ tail'[u] = tail[u]
    BY <1>1, <1>2, <1>3
  <1>6. /\ DOMAIN ws' = Browser /\ ws' = [b \in Browser |-> ws'[b]]
        /\ \A b \in Browser : WsOK(ws'[b], readUpTo', ptyReader')
    BY <1>1, <1>2, <1>4, <1>5, Subscribers
  <1>7. TerminalTypes'
    BY <1>1, <1>5, <1>6 DEF TerminalInv, TerminalTypes
  <1>8. ASSUME NEW u \in Term PROVE ReaderOK(u)'
    <2>1. ReaderOK(u)
      BY DEF TerminalInv
    <2>2. CASE u = t
      BY <1>1, <1>2, <1>3, <1>5, <2>1, <2>2 DEF ReaderOK
    <2>3. CASE u # t
      BY <1>1, <1>5, <2>1, <2>3 DEF ReaderOK
    <2> QED
      BY <2>2, <2>3
  <1> QED
    BY <1>6, <1>7, <1>8 DEF TerminalInv

(* The child's exit is sent.                                               *)
LEMMA Hearing ==
  ASSUME TerminalInv, NEW t \in Term, ReaderHearsExit(t) PROVE TerminalInv'
  <1>1. /\ ptyReader[t] = "waiting" /\ child[t] = "exited" /\ ws' = Broadcast(t, Exit)
        /\ ptyReader' = [ptyReader EXCEPT ![t] = "removing"]
        /\ UNCHANGED <<child, written, readUpTo, tail, killer, listed, unlisted, early>>
    BY DEF ReaderHearsExit, processVars, mapVars
  <1>2. /\ ~Over(ptyReader, t) /\ Over(ptyReader', t) /\ Exit \in Nat
        /\ \A u \in Term \ {t} : ptyReader'[u] = ptyReader[u]
    BY <1>1 DEF TerminalInv, TerminalTypes, Over, Exit
  <1>3. /\ DOMAIN ws' = Browser /\ ws' = [b \in Browser |-> ws'[b]]
        /\ \A b \in Browser : WsOK(ws'[b], readUpTo', ptyReader')
    BY <1>1, <1>2, Subscribers
  <1>4. TerminalTypes'
    BY <1>1, <1>3 DEF TerminalInv, TerminalTypes
  <1>5. ASSUME NEW u \in Term PROVE ReaderOK(u)'
    <2>1. ReaderOK(u) /\ ReaderOK(t)
      BY DEF TerminalInv
    <2> QED
      BY <1>1, <2>1 DEF TerminalInv, TerminalTypes, ReaderOK
  <1> QED
    BY <1>3, <1>4, <1>5 DEF TerminalInv

(* One connection changes.                                                 *)
LEMMA Connection ==
  ASSUME TerminalInv, NEW b \in Browser, NEW y, ws' = [ws EXCEPT ![b] = y],
         WsOK(y, readUpTo, ptyReader), UNCHANGED wsRest
  PROVE  TerminalInv'
  <1>1. /\ DOMAIN ws' = Browser /\ ws' = [c \in Browser |-> ws'[c]] /\ ws'[b] = y
        /\ \A c \in Browser \ {b} : ws'[c] = ws[c]
    BY DEF TerminalInv, TerminalTypes
  <1>2. TerminalTypes'
    BY <1>1 DEF TerminalInv, TerminalTypes, wsRest, processVars, mapVars
  <1>3. ASSUME NEW u \in Term PROVE ReaderOK(u)'
    BY DEF TerminalInv, ReaderOK, wsRest, processVars, mapVars
  <1>4. ASSUME NEW c \in Browser PROVE WsOK(ws'[c], readUpTo', ptyReader')
    <2>1. WsOK(ws'[c], readUpTo, ptyReader)
      BY <1>1 DEF TerminalInv
    <2>2. readUpTo' = readUpTo /\ ptyReader' = ptyReader
      BY DEF wsRest
    <2> QED
      BY <2>1, <2>2
  <1> QED
    BY <1>2, <1>3, <1>4 DEF TerminalInv

(* A browser asks for a terminal.                                          *)
LEMMA Attaching ==
  ASSUME TerminalInv, NEW b \in Browser, NEW t \in Term, Attach(b, t) PROVE TerminalInv'
  <1> DEFINE y == [pc |-> "upgrading", term |-> t]
  <1>1. WsOK(y, readUpTo, ptyReader)
    BY DEF WsOK
  <1> QED
    BY <1>1, Connection DEF Attach

(* A connection ends.                                                      *)
LEMMA Leaving ==
  ASSUME TerminalInv, NEW b \in Browser, Detach(b) PROVE TerminalInv'
  <1>1. WsOK(Detached, readUpTo, ptyReader)
    BY DEF WsOK
  <1> QED
    BY <1>1, Connection DEF Detach

(* The snapshot has all there is, and the queue nothing.                   *)
LEMMA Subscribing ==
  ASSUME TerminalInv, NEW b \in Browser, Subscribe(b) PROVE TerminalInv'
  <1> DEFINE t == ws[b].term
             y == [pc |-> "live", term |-> t, shows |-> tail[t], queue |-> << >>,
                   lagged |-> FALSE]
  <1>1. t \in Term
    <2>1. WsOK(ws[b], readUpTo, ptyReader) /\ ws[b].pc = "upgrading"
      BY DEF TerminalInv, Subscribe
    <2> QED
      BY <2>1 DEF WsOK, LiveShape, ToldShape, Detached
  <1>2. tail[t] \in Seq(Nat) /\ Counts(tail[t], readUpTo[t])
    BY <1>1 DEF TerminalInv, TerminalTypes, ReaderOK
  <1>3. ws' = [ws EXCEPT ![b] = y] /\ UNCHANGED wsRest
    BY DEF Subscribe
  <1>4. /\ y.pc = "live" /\ y.term = t /\ y.shows = tail[t] /\ y.queue = << >>
        /\ y.lagged = FALSE
        /\ y = [pc |-> "live", term |-> y.term, shows |-> y.shows, queue |-> y.queue,
                lagged |-> y.lagged]
    OBVIOUS
  <1> HIDE DEF y, t
  <1>5. LiveShape(y)
    <2>1. MaxLag \in Nat /\ Len(<< >>) = 0 /\ << >> \in Seq(Nat)
      BY TerminalAssumption
    <2> QED
      BY <1>1, <1>2, <1>4, <2>1 DEF LiveShape
  <1>6. ShowsAll(y, readUpTo, ptyReader)
    <2>1. Chunks(<< >>) = << >> /\ tail[t] \o << >> = tail[t]
      BY <1>2 DEF Chunks
    <2>2. y.shows \o Chunks(y.queue) = tail[t]
      BY <1>4, <2>1
    <2>3. Len(<< >>) = 0 /\ 1..0 = {}
      OBVIOUS
    <2>4. 1..Len(y.queue) = {}
      BY <1>4, <2>3
    <2> QED
      BY <1>2, <1>4, <2>2, <2>4 DEF ShowsAll
  <1>7. WsOK(y, readUpTo, ptyReader)
    BY <1>4, <1>5, <1>6 DEF WsOK
  <1> QED
    BY <1>3, <1>7, Connection

(* The first of the queue is shown, or is the exit.                        *)
LEMMA ForwardingOn ==
  ASSUME TerminalInv, NEW b \in Browser, Forward(b) PROVE TerminalInv'
  <1> DEFINE x == ws[b]
             event == Head(x.queue)
             heard == [pc |-> "told", term |-> x.term, shows |-> x.shows, lagged |-> x.lagged]
             more == [pc |-> "live", term |-> x.term, shows |-> Append(x.shows, event),
                      queue |-> Tail(x.queue), lagged |-> x.lagged]
             y == IF event = Exit THEN heard ELSE more
  <1>1. /\ x.pc = "live" /\ x.queue # << >> /\ UNCHANGED wsRest
        /\ ws' = [ws EXCEPT ![b] =
                    IF event = Exit THEN heard
                    ELSE [x EXCEPT !.queue = Tail(x.queue), !.shows = Append(x.shows, event)]]
    <2>1. x.pc = "live" /\ x.queue # << >> /\ UNCHANGED wsRest
      BY DEF Forward
    <2>2. ws' = [ws EXCEPT ![b] =
                  IF event = Exit THEN heard
                  ELSE [x EXCEPT !.queue = Tail(x.queue), !.shows = Append(x.shows, event)]]
      <3>1. CASE event = Exit
        <4>1. ws' = [ws EXCEPT ![b] = heard]
          BY <3>1 DEF Forward
        <4> QED
          BY <3>1, <4>1
      <3>2. CASE event # Exit
        <4>1. ws' = [ws EXCEPT ![b] =
                       [x EXCEPT !.queue = Tail(x.queue), !.shows = Append(x.shows, event)]]
          BY <3>2 DEF Forward
        <4> QED
          BY <3>2, <4>1
      <3> QED
        BY <3>1, <3>2
    <2> QED
      BY <2>1, <2>2
  <1>2. /\ LiveShape(x) /\ x.lagged \in BOOLEAN
        /\ ~x.lagged => ShowsAll(x, readUpTo, ptyReader)
    <2>1. WsOK(x, readUpTo, ptyReader)
      BY DEF TerminalInv
    <2> HIDE DEF x
    <2> QED
      BY <1>1, <2>1 DEF WsOK, ToldShape, Detached
  <1>3. /\ x = [pc |-> "live", term |-> x.term, shows |-> x.shows, queue |-> x.queue,
                lagged |-> x.lagged]
        /\ x.term \in Term /\ x.shows \in Seq(Nat) /\ x.queue \in Seq(Nat)
        /\ Len(x.queue) <= MaxLag
    BY <1>2 DEF LiveShape
  <1>4. [x EXCEPT !.queue = Tail(x.queue), !.shows = Append(x.shows, event)] = more
    <2> DEFINE q == Tail(x.queue)
               w == Append(x.shows, event)
    <2> HIDE DEF q, w
    <2>1. \A m, v, o, g :
            [[pc |-> "live", term |-> m, shows |-> v, queue |-> o, lagged |-> g]
               EXCEPT !.queue = q]
            = [pc |-> "live", term |-> m, shows |-> v, queue |-> q, lagged |-> g]
      OBVIOUS
    <2>2. \A m, v, o, g :
            [[pc |-> "live", term |-> m, shows |-> v, queue |-> o, lagged |-> g]
               EXCEPT !.shows = w]
            = [pc |-> "live", term |-> m, shows |-> w, queue |-> o, lagged |-> g]
      OBVIOUS
    <2> DEFINE z == [x EXCEPT !.queue = q]
    <2>3. z = [pc |-> "live", term |-> x.term, shows |-> x.shows, queue |-> q,
               lagged |-> x.lagged]
      <3>1. [[pc |-> "live", term |-> x.term, shows |-> x.shows, queue |-> x.queue,
              lagged |-> x.lagged] EXCEPT !.queue = q]
            = [pc |-> "live", term |-> x.term, shows |-> x.shows, queue |-> q,
               lagged |-> x.lagged]
        BY <2>1
      <3> HIDE DEF x
      <3> QED
        BY <1>3, <3>1
    <2>4. [x EXCEPT !.queue = q, !.shows = w] = [z EXCEPT !.shows = w]
      OBVIOUS
    <2> HIDE DEF z, x
    <2>5. [z EXCEPT !.shows = w]
          = [pc |-> "live", term |-> x.term, shows |-> w, queue |-> q, lagged |-> x.lagged]
      BY <2>2, <2>3
    <2> QED
      BY <2>4, <2>5 DEF q, w
  <1> HIDE DEF x
  <1>5. ws' = [ws EXCEPT ![b] = y]
    BY <1>1, <1>4
  <1>6. /\ Tail(x.queue) \in Seq(Nat) /\ Len(Tail(x.queue)) = Len(x.queue) - 1
        /\ Len(x.queue) \in Nat \ {0} /\ event = x.queue[1] /\ event \in Nat
        /\ \A k \in 1..Len(x.queue) - 1 : Tail(x.queue)[k] = x.queue[k + 1]
    BY <1>1, <1>3, TailOf
  <1>7. readUpTo[x.term] \in Nat
    BY <1>3 DEF TerminalInv, TerminalTypes
  <1>8. ASSUME ~x.lagged
        PROVE  /\ event = Exit => /\ Counts(x.shows, readUpTo[x.term])
                                 /\ Over(ptyReader, x.term)
               /\ event # Exit => Counts(Append(x.shows, event) \o Chunks(Tail(x.queue)),
                                        readUpTo[x.term])
               /\ \A k \in 1..Len(Tail(x.queue)) : Tail(x.queue)[k] = Exit =>
                    k = Len(Tail(x.queue)) /\ Over(ptyReader, x.term)
    <2>1. /\ Counts(x.shows \o Chunks(x.queue), readUpTo[x.term])
          /\ \A k \in 1..Len(x.queue) :
               x.queue[k] = Exit => k = Len(x.queue) /\ Over(ptyReader, x.term)
      BY <1>2, <1>8 DEF ShowsAll
    <2>2. /\ event = Exit => Counts(x.shows, readUpTo[x.term])
          /\ event # Exit => Counts(Append(x.shows, event) \o Chunks(Tail(x.queue)),
                                   readUpTo[x.term])
      BY <1>1, <1>3, <1>7, <2>1, Forwarding
    <2>3. event = Exit => Over(ptyReader, x.term)
      <3>1. 1 \in 1..Len(x.queue)
        BY <1>6
      <3> QED
        BY <1>6, <2>1, <3>1
    <2>4. \A k \in 1..Len(Tail(x.queue)) : Tail(x.queue)[k] = Exit =>
            k = Len(Tail(x.queue)) /\ Over(ptyReader, x.term)
      <3> SUFFICES ASSUME NEW k \in 1..Len(Tail(x.queue)), Tail(x.queue)[k] = Exit
                   PROVE  k = Len(Tail(x.queue)) /\ Over(ptyReader, x.term)
        OBVIOUS
      <3>1. k \in 1..Len(x.queue) - 1 /\ k + 1 \in 1..Len(x.queue) /\ k \in Int
        BY <1>6
      <3>2. x.queue[k + 1] = Exit
        BY <1>6, <3>1
      <3>3. k + 1 = Len(x.queue) /\ Over(ptyReader, x.term)
        BY <2>1, <3>1, <3>2
      <3> QED
        BY <1>6, <3>1, <3>3
    <2> QED
      BY <2>2, <2>3, <2>4
  <1>9. CASE event = Exit
    <2>1. y = heard /\ heard.pc = "told" /\ heard.term = x.term /\ heard.shows = x.shows
          /\ heard.lagged = x.lagged
      BY <1>9
    <2>2. heard = [pc |-> "told", term |-> heard.term, shows |-> heard.shows,
                  lagged |-> heard.lagged]
      OBVIOUS
    <2> HIDE DEF heard, y
    <2>3. ToldShape(y)
      BY <1>3, <2>1, <2>2 DEF ToldShape
    <2>4. ~y.lagged => Over(ptyReader, y.term) /\ Counts(y.shows, readUpTo[y.term])
      BY <1>8, <1>9, <2>1
    <2>5. WsOK(y, readUpTo, ptyReader)
      BY <2>3, <2>4 DEF WsOK
    <2> QED
      BY <1>1, <1>5, <2>5, Connection
  <1>10. CASE event # Exit
    <2>1. /\ y = more /\ more.pc = "live" /\ more.term = x.term
          /\ more.shows = Append(x.shows, event) /\ more.queue = Tail(x.queue)
          /\ more.lagged = x.lagged
      BY <1>10
    <2>2. more = [pc |-> "live", term |-> more.term, shows |-> more.shows,
                  queue |-> more.queue, lagged |-> more.lagged]
      OBVIOUS
    <2>3. Append(x.shows, event) \in Seq(Nat) /\ Len(Tail(x.queue)) <= MaxLag
      <3>1. MaxLag \in Nat
        BY TerminalAssumption
      <3> QED
        BY <1>3, <1>6, <3>1
    <2> HIDE DEF more, y
    <2>4. LiveShape(y)
      BY <1>3, <1>6, <2>1, <2>2, <2>3 DEF LiveShape
    <2>5. ~y.lagged => ShowsAll(y, readUpTo, ptyReader)
      BY <1>8, <1>10, <2>1 DEF ShowsAll
    <2>6. WsOK(y, readUpTo, ptyReader)
      BY <1>2, <2>1, <2>4, <2>5 DEF WsOK
    <2> QED
      BY <1>1, <1>5, <2>6, Connection
  <1> QED
    BY <1>9, <1>10

(* Every step of the component, one by one.                                *)
LEMMA TerminalStep == TerminalInv /\ [TerminalNext]_terminalVars => TerminalInv'
  <1> SUFFICES ASSUME TerminalInv, [TerminalNext]_terminalVars PROVE TerminalInv'
    OBVIOUS
  <1>1. ASSUME UNCHANGED terminalVars PROVE TerminalInv'
    <2>1. TerminalTypes'
      BY <1>1 DEF TerminalInv, TerminalTypes, terminalVars
    <2>2. ASSUME NEW t \in Term PROVE ReaderOK(t)'
      BY <1>1 DEF TerminalInv, ReaderOK, terminalVars
    <2> QED
      BY <1>1, <2>1, <2>2, Threads DEF terminalVars
  <1> QED
    BY <1>1, Spawning, Listing, ChildSteps, ReadingOn, Ending, Hearing, Removing, Killing,
       Attaching, Subscribing, ForwardingOn, Leaving DEF TerminalNext

(* The invariant says what is promised.                                    *)
LEMMA TerminalShows == TerminalInv => TerminalFaithful
  <1> SUFFICES ASSUME TerminalInv PROVE TerminalFaithful
    OBVIOUS
  <1>1. ASSUME NEW b \in Browser, ws[b].pc = "live", ~ws[b].lagged
        PROVE  IsSuffix(ws[b].shows \o Chunks(ws[b].queue), UpTo(ws[b].term))
    <2> DEFINE x == ws[b]
    <2>1. WsOK(x, readUpTo, ptyReader) /\ x.pc = "live" /\ ~x.lagged
      BY <1>1 DEF TerminalInv
    <2> HIDE DEF x
    <2>2. LiveShape(x) /\ ShowsAll(x, readUpTo, ptyReader)
      BY <2>1 DEF WsOK, ToldShape, Detached
    <2>3. /\ x.shows \in Seq(Nat) /\ x.queue \in Seq(Nat) /\ x.term \in Term
          /\ Counts(x.shows \o Chunks(x.queue), readUpTo[x.term])
      BY <2>2 DEF LiveShape, ShowsAll
    <2>4. Chunks(x.queue) \in Seq(Nat)
      BY <2>3, ChunksTake
    <2>5. x.shows \o Chunks(x.queue) \in Seq(Nat)
      BY <2>3, <2>4
    <2>6. readUpTo[x.term] \in Nat
      BY <2>3 DEF TerminalInv, TerminalTypes
    <2> QED
      BY <2>3, <2>5, <2>6, CountsIsSuffix DEF x
  <1>2. ASSUME NEW b \in Browser, ws[b].pc = "told", ~ws[b].lagged, ws[b].shows # << >>
        PROVE  Last(ws[b].shows) = written[ws[b].term]
    <2> DEFINE x == ws[b]
    <2>1. WsOK(x, readUpTo, ptyReader) /\ x.pc = "told" /\ ~x.lagged /\ x.shows # << >>
      BY <1>2 DEF TerminalInv
    <2> HIDE DEF x
    <2>2. /\ ToldShape(x) /\ Over(ptyReader, x.term)
          /\ Counts(x.shows, readUpTo[x.term])
      BY <2>1 DEF WsOK, LiveShape, Detached
    <2>3. x.term \in Term /\ x.shows \in Seq(Nat)
      BY <2>2 DEF ToldShape
    <2>4. readUpTo[x.term] = written[x.term] /\ readUpTo[x.term] \in Nat
      BY <2>2, <2>3 DEF TerminalInv, TerminalTypes, ReaderOK, Over
    <2>5. Len(x.shows) \in 1..Len(x.shows)
      BY <2>1, <2>3
    <2>6. Last(x.shows) = readUpTo[x.term]
      BY <2>2, <2>4, <2>5 DEF Counts, Last
    <2> QED
      BY <2>4, <2>6 DEF x
  <1>3. ASSUME NEW t \in listed, ptyReader[t] = "done" PROVE t \in early
    BY <1>3 DEF TerminalInv, TerminalTypes, ReaderOK
  <1> QED
    BY <1>1, <1>2, <1>3 DEF TerminalFaithful

(* A browser that keeps up sees every chunk once and in order from some    *)
(* chunk on and the exit after the last, and a terminal that is over is    *)
(* listed only if its child was faster than spawn, for any terminals,      *)
(* browsers and buffers (src/src/terminal/mod.rs).                         *)
THEOREM TerminalFaithfulHolds == TerminalSpec => []TerminalFaithful
  BY TerminalStarts, TerminalStep, TerminalShows, PTL DEF TerminalSpec

-----------------------------------------------------------------------------
(* The execution of a node                                                 *)

(* Where an attempt has a coder session, a process, a harness session or    *)
(* heartbeat, and a stash.                                                  *)
SessionSteps == {"session", "child", "passed", "rejected", "error"}
ProcessSteps == {"clone", "command", "child", "infer"}
InferSteps == {"infer", "answer", "unanswered"}
StashSteps == {"stage", "commit", "push"}
NodeSteps == SessionSteps \cup ProcessSteps \cup InferSteps \cup StashSteps
               \cup {"run", "analyze", "stash", "select", "call", "augment", "backoff", "over"}

Work == SUBSET ({"user", "agent"} \X {"changed", "untracked"})
Tree == [protect : BOOLEAN, changed : Work, untracked : Work,
         stash : Work, commit : Work, stashed : BOOLEAN]
NodeTypes ==
  /\ try \in Attempt /\ pc \in NodeSteps
  /\ rows \in [Attempt -> {"none", "running", "completed", "failed"}]
  /\ harness \in [Attempt -> {"none", "open", "output", "error"}]
  /\ heart \in [Attempt -> {"off", "on", "told"}]
  /\ tree \in Tree

(* What attempt a has outside of its future at a step.                      *)
Tidy(a, step) ==
  /\ a \in active => step \in SessionSteps
  /\ rows[a] = "running" => a \in lost \/ step \in SessionSteps
  /\ a \in procs => a \in gaveUp \/ step \in ProcessSteps
  /\ heart[a] = "on" => step = "infer"
  /\ heart[a] = "told" => step \in InferSteps
  /\ harness[a] = "open" => step \in InferSteps
StepOf(a) == IF a = try THEN pc ELSE "over"

StashExplained ==
  dropped \cup gitFailed = {} /\ tree.stash # NoWork => tree.stashed /\ pc \in StashSteps

(* Attempts that were dropped, or gave their process up, are over or about  *)
(* to fail, and a heartbeat that is not told to stop is that of the answer  *)
(* the node waits for.                                                      *)
FailedOnes ==
  /\ \A a \in dropped \cup gaveUp : a =< try
  /\ try \in dropped => pc \in {"backoff", "over"}
  /\ try \in gaveUp => pc \in {"unanswered", "error", "backoff", "over"}
  /\ over = "succeeded" => pc = "over" /\ try \notin dropped \cup gaveUp
  /\ \A a \in Attempt : heart[a] = "on" => a = try /\ pc = "infer"

(* The invariant: an attempt has what its step needs, and a stash that no   *)
(* failure explains is that of the commit under way.                        *)
NodeInv ==
  /\ NodeTypes
  /\ FailedOnes
  /\ pc = "backoff" => try < Retry
  /\ \A a \in Attempt \ dropped : Tidy(a, StepOf(a))
  /\ StashExplained

(* Attempts are numbered from 0.                                           *)
LEMMA Retries == Retry \in Nat /\ Attempt = 0..Retry
  BY NodeAssumption DEF Attempt

(* The analysis of a repository and the commands of a validator.            *)
LEMMA Analysing ==
  ASSUME NodeInv,
         \/ WorkspaceFails \/ RepoStart \/ RepoCloned \/ RepoAnalyzed
         \/ CommandsStart \/ CommandStarts \/ CommandEnds
  PROVE  NodeInv'
  <1> USE Retries DEF NodeTypes, WorkspaceFails, RepoStart, RepoCloned, RepoAnalyzed,
          CommandsStart, CommandStarts, CommandEnds, Same, Goto, Fail, Succeed, Finish,
          Running, repoRest, coderVars, llmVars, gitVars, world, procVars, Enters
  <1>1. NodeTypes'
    BY DEF NodeInv, Tree, NodeSteps, SessionSteps, ProcessSteps, InferSteps, StashSteps
  <1>2. pc' = "backoff" => try' < Retry
    BY DEF NodeInv
  <1>3. ASSUME NEW a \in Attempt \ dropped' PROVE Tidy(a, StepOf(a))'
    BY <1>3 DEF NodeInv, Tidy, StepOf, NodeSteps, SessionSteps, ProcessSteps, InferSteps,
       StashSteps
  <1>4. StashExplained'
    BY DEF NodeInv, StashExplained, Tree, StashSteps
  <1>5. FailedOnes'
    BY DEF NodeInv, FailedOnes, NodeSteps, SessionSteps, ProcessSteps, InferSteps, StashSteps
  <1> QED
    BY <1>1, <1>2, <1>3, <1>4, <1>5 DEF NodeInv

(* What the git commands do to the tree.                                    *)
LEMMA TreeEdits ==
  ASSUME NEW w \in Tree, NEW c \in Work, NEW u \in Work, NEW s \in Work, NEW m \in Work,
         NEW b \in BOOLEAN
  PROVE  /\ [w EXCEPT !.stash = s, !.changed = c, !.stashed = b] \in Tree
         /\ [w EXCEPT !.changed = c, !.stash = s, !.stashed = b] \in Tree
         /\ [w EXCEPT !.commit = m, !.changed = c, !.untracked = u] \in Tree
         /\ [w EXCEPT !.stashed = b] \in Tree
  <1>1. [w EXCEPT !.stash = s, !.changed = c, !.stashed = b] \in Tree
    BY DEF Tree
  <1>2. [w EXCEPT !.changed = c, !.stash = s, !.stashed = b] \in Tree
    BY DEF Tree
  <1>3. [w EXCEPT !.commit = m, !.changed = c, !.untracked = u] \in Tree
    BY DEF Tree
  <1>4. [w EXCEPT !.stashed = b] \in Tree
    BY DEF Tree
  <1> QED
    BY <1>1, <1>2, <1>3, <1>4

(* A stash that is popped.                                                  *)
LEMMA Popping == ASSUME tree \in Tree, Pop PROVE tree' \in Tree
  <1>1. /\ tree.changed \cup tree.stash \in Work /\ {} \in Work
    BY DEF Tree, Work
  <1>2. CASE tree' = [tree EXCEPT !.changed = tree.changed \cup tree.stash, !.stash = {},
                                 !.stashed = FALSE]
    BY <1>1, <1>2, TreeEdits
  <1> QED
    BY <1>2 DEF Pop, NoWork

(* The commit of a validator: what it stashes it pops, or git failed.       *)
LEMMA Committing ==
  ASSUME NodeInv, GitStart \/ GitStash \/ GitStage \/ GitCommit \/ GitPush
  PROVE  NodeInv'
  <1> USE Retries DEF NodeTypes, GitStart, GitStash, GitStage, GitCommit, GitPush,
                     Same, Goto, Fail, Succeed, Finish, Running, gitRest, gitVars,
                     coderVars, procVars, llmVars, NoWork, Enters
  <1>1. NodeTypes'
    <2>1. tree \in Tree
      BY DEF NodeInv
    <2>2. /\ tree.changed \in Work /\ tree.untracked \in Work /\ tree.stash \in Work
          /\ tree.commit \in Work
          /\ {} \in Work /\ \A x, y \in Work : x \cup y \in Work
      <3>1. {} \in Work /\ \A x, y \in Work : x \cup y \in Work
        BY DEF Work
      <3> QED
        BY <2>1, <3>1 DEF Tree
    <2>4. tree' \in Tree
      <3>1. CASE GitStart \/ GitStage
        BY <2>1, <3>1
      <3>2. CASE GitStash
        <4>1. tree.stash \cup tree.changed \in Work
          BY <2>2
        <4>2. [tree EXCEPT !.stash = tree.stash \cup tree.changed, !.changed = {},
                           !.stashed = TRUE] \in Tree
          BY <2>1, <2>2, <4>1, TreeEdits
        <4>3. [tree EXCEPT !.stashed = FALSE] \in Tree
          BY <2>1, <2>2, TreeEdits
        <4> QED
          BY <3>2, <4>2, <4>3
      <3>3. CASE GitCommit
        <4>1. tree.commit \cup (tree.changed \cup tree.untracked) \in Work
          BY <2>2
        <4>2. CASE Pop
          BY <2>1, <4>2, Popping
        <4>3. [tree EXCEPT !.commit = tree.commit \cup (tree.changed \cup tree.untracked),
                           !.changed = {}, !.untracked = {}] \in Tree
          BY <2>1, <2>2, <4>1, TreeEdits
        <4> QED
          BY <3>3, <4>2, <4>3
      <3>4. CASE GitPush
        BY <2>1, <3>4, Popping
      <3> QED
        BY <3>1, <3>2, <3>3, <3>4
    <2>5. pc' \in NodeSteps
      BY DEF NodeInv, NodeSteps, StashSteps
    <2> QED
      BY <2>4, <2>5 DEF NodeInv
  <1>2. pc' = "backoff" => try' < Retry
    BY DEF NodeInv
  <1>3. ASSUME NEW a \in Attempt \ dropped' PROVE Tidy(a, StepOf(a))'
    BY <1>3 DEF NodeInv, Tidy, StepOf, Pop, NodeSteps, SessionSteps, ProcessSteps,
       InferSteps, StashSteps
  <1>4. StashExplained'
    BY DEF NodeInv, StashExplained, Tree, StashSteps, Pop
  <1>5. FailedOnes'
    BY DEF NodeInv, FailedOnes, StashSteps
  <1> QED
    BY <1>1, <1>2, <1>3, <1>4, <1>5 DEF NodeInv

(* The loops of interactive and tool calling nodes.                         *)
LEMMA Looping ==
  ASSUME NodeInv, ReactIterates \/ ToolsStart \/ ToolSelect \/ ToolCall
  PROVE  NodeInv'
  <1> USE Retries DEF NodeTypes, ReactIterates, ToolsStart, ToolSelect, ToolCall, Same,
          Goto, Fail, Succeed, Finish, Running, loopRest, coderVars, procVars, llmVars,
          gitVars, ToolVerdict, Enters
  <1>1. NodeTypes'
    BY DEF NodeInv, Tree, NodeSteps, SessionSteps, ProcessSteps, InferSteps, StashSteps
  <1>2. pc' = "backoff" => try' < Retry
    BY DEF NodeInv
  <1>3. ASSUME NEW a \in Attempt \ dropped' PROVE Tidy(a, StepOf(a))'
    BY <1>3 DEF NodeInv, Tidy, StepOf, NodeSteps, SessionSteps, ProcessSteps, InferSteps,
       StashSteps
  <1>4. StashExplained'
    BY DEF NodeInv, StashExplained, Tree, StashSteps
  <1>5. FailedOnes'
    BY DEF NodeInv, FailedOnes, NodeSteps, SessionSteps, ProcessSteps, InferSteps, StashSteps
  <1> QED
    BY <1>1, <1>2, <1>3, <1>4, <1>5 DEF NodeInv

(* The session of a coder.                                                  *)
LEMMA Coding ==
  ASSUME NodeInv, SessionStarts \/ CoderSpawns \/ CoderExits \/ SessionEnds
  PROVE  NodeInv'
  <1> USE Retries DEF NodeTypes, SessionStarts, CoderSpawns, CoderExits, SessionEnds,
          Same, Goto, Fail, Succeed, Finish, Running, coderRest, coderVars, procVars,
          llmVars, gitVars, Enters
  <1>1. NodeTypes'
    BY DEF NodeInv, Tree, NodeSteps, SessionSteps, ProcessSteps, InferSteps, StashSteps
  <1>2. pc' = "backoff" => try' < Retry
    BY DEF NodeInv
  <1>3. ASSUME NEW a \in Attempt \ dropped' PROVE Tidy(a, StepOf(a))'
    BY <1>3 DEF NodeInv, Tidy, StepOf, NodeSteps, SessionSteps, ProcessSteps, InferSteps,
       StashSteps
  <1>4. StashExplained'
    BY DEF NodeInv, StashExplained, Tree, StashSteps
  <1>5. FailedOnes'
    BY DEF NodeInv, FailedOnes, NodeSteps, SessionSteps, ProcessSteps, InferSteps, StashSteps
  <1> QED
    BY <1>1, <1>2, <1>3, <1>4, <1>5 DEF NodeInv

(* Inference, with its process, heartbeat and harness session.              *)
LEMMA Inferring ==
  ASSUME NodeInv, InferStarts \/ InferReturns \/ InferRecorded \/ Augment
  PROVE  NodeInv'
  <1> USE Retries DEF NodeTypes, InferStarts, InferReturns, InferRecorded, Augment, Same,
          Goto, Fail, Succeed, Finish, Running, llmRest, coderVars, procVars, gitVars,
          Enters
  <1>1. NodeTypes'
    BY DEF NodeInv, Tree, NodeSteps, SessionSteps, ProcessSteps, InferSteps, StashSteps
  <1>2. pc' = "backoff" => try' < Retry
    BY DEF NodeInv
  <1>3. ASSUME NEW a \in Attempt \ dropped' PROVE Tidy(a, StepOf(a))'
    BY <1>3 DEF NodeInv, Tidy, StepOf, NodeSteps, SessionSteps, ProcessSteps, InferSteps,
       StashSteps
  <1>4. StashExplained'
    BY DEF NodeInv, StashExplained, Tree, StashSteps
  <1>5. FailedOnes'
    BY DEF NodeInv, FailedOnes, NodeSteps, SessionSteps, ProcessSteps, InferSteps, StashSteps
  <1> QED
    BY <1>1, <1>2, <1>3, <1>4, <1>5 DEF NodeInv

(* Attempts and what outlives them.                                         *)
LEMMA Attempting ==
  ASSUME NodeInv,
         NextAttempt \/ NodeTimeout \/ (\E a \in Attempt : ProcessExits(a) \/ HeartStops(a))
  PROVE  NodeInv'
  <1> USE Retries DEF NodeTypes, NextAttempt, NodeTimeout, Same, Goto, Fail, Succeed,
          Finish, Running, ProcessExits, HeartStops, policy, world, coderVars, procVars,
          llmVars, gitVars
  <1>1. NodeTypes'
    BY DEF NodeInv, Tree, NodeSteps, SessionSteps, ProcessSteps, InferSteps, StashSteps
  <1>2. pc' = "backoff" => try' < Retry
    BY DEF NodeInv
  <1>3. ASSUME NEW a \in Attempt \ dropped' PROVE Tidy(a, StepOf(a))'
    BY <1>3 DEF NodeInv, Tidy, StepOf, NodeSteps, SessionSteps, ProcessSteps, InferSteps,
       StashSteps
  <1>4. StashExplained'
    BY DEF NodeInv, StashExplained, Tree, StashSteps
  <1>5. FailedOnes'
    BY DEF NodeInv, FailedOnes, NodeSteps, SessionSteps, ProcessSteps, InferSteps, StashSteps
  <1> QED
    BY <1>1, <1>2, <1>3, <1>4, <1>5 DEF NodeInv

(* The invariant, at the start and at every step.                           *)
LEMMA NodeStarts == NodeInit => NodeInv
  <1> SUFFICES ASSUME NodeInit PROVE NodeInv
    OBVIOUS
  <1>1. tree \in Tree /\ tree.stash = NoWork
    <2>1. PICK p \in BOOLEAN, c \in SUBSET {"user", "agent"}, u \in SUBSET {"user", "agent"} :
            tree = [protect |-> p, changed |-> c \X {"changed"},
                    untracked |-> u \X {"untracked"}, stash |-> NoWork,
                    commit |-> NoWork, stashed |-> FALSE]
      BY DEF NodeInit
    <2>2. c \X {"changed"} \in Work /\ u \X {"untracked"} \in Work /\ {} \in Work
      BY DEF Work
    <2> QED
      BY <2>1, <2>2 DEF Tree, NoWork
  <1>2. NodeTypes
    BY <1>1, Retries DEF NodeInit, NodeTypes, NodeSteps
  <1>3. \A a \in Attempt : Tidy(a, StepOf(a))
    BY DEF NodeInit, Tidy
  <1>4. FailedOnes
    BY DEF NodeInit, FailedOnes
  <1> QED
    BY <1>1, <1>2, <1>3, <1>4 DEF NodeInv, NodeInit, StashExplained

LEMMA NodeIsKept == NodeInv /\ [NodeNext]_nodeVars => NodeInv'
  <1> SUFFICES ASSUME NodeInv, [NodeNext]_nodeVars PROVE NodeInv'
    OBVIOUS
  <1>1. CASE UNCHANGED nodeVars
    BY <1>1 DEF nodeVars, NodeInv, NodeTypes, Tidy, StepOf, StashExplained, FailedOnes
  <1>2. CASE NodeStep
    BY <1>2, Analysing, Committing, Looping, Coding, Inferring DEF NodeStep
  <1>3. CASE NextAttempt \/ NodeTimeout \/ (\E a \in Attempt : ProcessExits(a) \/ HeartStops(a))
    BY <1>3, Attempting
  <1> QED
    BY <1>1, <1>2, <1>3 DEF NodeNext

(* Whatever an attempt began ends with it, but for what a timeout drops and *)
(* the processes the code gives up: never those of an attempt that          *)
(* succeeds.  For any number of retries, iterations, calls and commands     *)
(* (build_run_node_fn, src/src/orchestrator/node_executor.rs).              *)
THEOREM NothingLeftBehindHolds == NodeSpec => []NothingLeftBehind
  <1>1. NodeInv => NothingLeftBehind
    <2> SUFFICES ASSUME NodeInv PROVE NothingLeftBehind
      OBVIOUS
    <2>1. ASSUME NEW a \in Attempt \ dropped, Ended(a)
          PROVE  /\ a \notin active /\ heart[a] = "off" /\ harness[a] # "open"
                 /\ a \in procs => a \in gaveUp
                 /\ rows[a] = "running" => a \in lost
      <3>1. Tidy(a, StepOf(a)) /\ StepOf(a) \in {"backoff", "over"}
        BY <2>1, Retries DEF NodeInv, NodeTypes, Ended, Running, StepOf
      <3>2. heart[a] \in {"off", "on", "told"}
        BY DEF NodeInv, NodeTypes
      <3> QED
        BY <3>1, <3>2 DEF Tidy, SessionSteps, ProcessSteps, InferSteps
    <2>2. ~Running /\ dropped \cup gitFailed = {} => tree.stash = NoWork
      BY DEF NodeInv, StashExplained, Running, StashSteps
    <2>3. ASSUME NEW a \in Attempt, Ended(a) PROVE heart[a] # "on"
      BY <2>3, Retries DEF NodeInv, NodeTypes, FailedOnes, Ended, Running
    <2>4. ASSUME over = "succeeded" PROVE try \notin procs \cup dropped
      <3>1. pc = "over" /\ try \notin dropped \cup gaveUp /\ try \in Attempt
        BY <2>4, Retries DEF NodeInv, FailedOnes, NodeTypes
      <3>2. Tidy(try, "over")
        BY <3>1 DEF NodeInv, StepOf
      <3> QED
        BY <3>1, <3>2 DEF Tidy, ProcessSteps
    <2> QED
      BY <2>1, <2>2, <2>3, <2>4 DEF NothingLeftBehind
  <1> QED
    BY <1>1, NodeStarts, NodeIsKept, PTL DEF NodeSpec
=============================================================================
