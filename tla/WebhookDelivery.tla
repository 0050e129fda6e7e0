--------------------------- MODULE WebhookDelivery ---------------------------
(***************************************************************************)
(* Outgoing webhooks (src/src/webhook/mod.rs, the deliveries of             *)
(* memory/store.rs and interface/handlers/webhooks.rs): an event is sent to *)
(* each endpoint subscribed to it, one endpoint after the other, up to      *)
(* three times under one idempotency key; a row says how it ended.  The     *)
(* network may lose a request, or the answer to one that arrived; the       *)
(* receiver acts on a key it has not seen and answers 409 to one it has.    *)
(***************************************************************************)
EXTENDS Integers, Sequences, SequencesExt, FiniteSets

CONSTANTS
  Endpoint,      \* endpoints that may be registered
  Dispatcher,    \* tasks that may be dispatching at a time
  RequestTask,   \* the ones that serve a request of an operator
  MaxHookEvents, \* dispatches of an event
  MaxReplays,    \* retries of a delivery by an operator
  MaxFaults      \* rows that cannot be stored, dropped requests and crashes

ASSUME WebhookAssumption ==
  {MaxHookEvents, MaxReplays, MaxFaults} \subseteq Nat /\ RequestTask \subseteq Dispatcher

Attempts == 3    \* for attempt in 1..=3

VARIABLES
  hooks,        \* registered endpoints, in order; whether one has the event
  sending,      \* the dispatches in progress
  keys,         \* event_ids given out; key k is for endpoint keyOf[k]
  acted,        \* history: how often the receivers acted on a key
  turnedDown,   \* history: keys that were answered with a refusal, or not, 3 times
  deliveries,   \* webhook_deliveries: [key, e, attempts, delivered, dead]
  hookSpent,    \* what of the bounds is used up
  unaccounted   \* history: keys whose row was not stored, or whose dispatch died
webhookVars == <<hooks, sending, keys, acted, turnedDown, deliveries, hookSpent, unaccounted>>

NoDispatch == [pc |-> "none"]
HookSpend(what, most) ==
  hookSpent[what] < most /\ hookSpent' = [hookSpent EXCEPT ![what] = @ + 1]
Subscribed(es) == SelectSeq(es, LAMBDA h : h.subscribed)

-----------------------------------------------------------------------------
\* A request that passes validation registers an endpoint; it is enabled.
RegisterWebhook(e, subscribed) ==
  /\ \A h \in ToSet(hooks) : h.e # e
  /\ hooks' = Append(hooks, [e |-> e, subscribed |-> subscribed])
  /\ UNCHANGED <<sending, keys, acted, turnedDown, deliveries, hookSpent, unaccounted>>

\* dispatch: the endpoints are those there are now; without one it is over.
DispatchEvent(d) ==
  /\ sending[d] = NoDispatch /\ Subscribed(hooks) # << >>
  /\ HookSpend("events", MaxHookEvents)
  /\ sending' = [sending EXCEPT ![d] = [pc |-> "next", todo |-> Subscribed(hooks)]]
  /\ UNCHANGED <<hooks, keys, acted, turnedDown, deliveries, unaccounted>>
\* retry_webhook_delivery, of any delivery, to its endpoint alone, in the
\* request that asks for it; test_webhook_handler dispatches an event in one.
ReplayDelivery(d, row) ==
  /\ d \in RequestTask /\ sending[d] = NoDispatch /\ row \in deliveries
  /\ HookSpend("replays", MaxReplays)
  /\ sending' = [sending EXCEPT ![d] =
       [pc |-> "next", todo |-> SelectSeq(Subscribed(hooks), LAMBDA h : h.e = row.e)]]
  /\ UNCHANGED <<hooks, keys, acted, turnedDown, deliveries, unaccounted>>

\* The next endpoint gets a key of its own.
NextEndpoint(d) ==
  /\ sending[d].pc = "next"
  /\ IF sending[d].todo = << >>
     THEN sending' = [sending EXCEPT ![d] = NoDispatch] /\ UNCHANGED <<keys, acted>>
     ELSE /\ keys' = Append(keys, Head(sending[d].todo).e)
          /\ acted' = Append(acted, 0)
          /\ sending' = [sending EXCEPT ![d] =
               [pc |-> "send", todo |-> Tail(@.todo), key |-> Len(keys) + 1,
                attempt |-> 1, delivered |-> FALSE]]
  /\ UNCHANGED <<hooks, turnedDown, deliveries, hookSpent, unaccounted>>

(* A wrong variant: the last attempt is not made.                          *)
SendAttempt_OneShort(d, arrives, accepts, answered) ==
  /\ sending[d].pc = "send"
  /\ LET q == sending[d]
         seen == acted[q.key] > 0
         ok == arrives /\ answered /\ (seen \/ accepts)
     IN  /\ acted' = IF arrives /\ accepts /\ ~seen THEN [acted EXCEPT ![q.key] = @ + 1]
                     ELSE acted
         /\ turnedDown' = IF ~ok /\ q.attempt = Attempts THEN turnedDown \cup {q.key} ELSE turnedDown
         /\ sending' = [sending EXCEPT ![d] =
              CASE ok -> [q EXCEPT !.pc = "row", !.delivered = TRUE]
                [] ~ok /\ q.attempt < Attempts - 1 -> [q EXCEPT !.attempt = @ + 1]
                [] OTHER -> [q EXCEPT !.pc = "row"]]
  /\ UNCHANGED <<hooks, keys, deliveries, hookSpent, unaccounted>>

\* One attempt: the request arrives or not, and the answer arrives or not.  A
\* receiver that refuses has not acted, one that has seen the key conflicts.
SendAttempt(d, arrives, accepts, answered) ==
  /\ sending[d].pc = "send"
  /\ LET q == sending[d]
         seen == acted[q.key] > 0
         ok == arrives /\ answered /\ (seen \/ accepts)
     IN  /\ acted' = IF arrives /\ accepts /\ ~seen THEN [acted EXCEPT ![q.key] = @ + 1]
                     ELSE acted
         /\ turnedDown' = IF ~ok /\ q.attempt = Attempts THEN turnedDown \cup {q.key} ELSE turnedDown
         /\ sending' = [sending EXCEPT ![d] =
              CASE ok -> [q EXCEPT !.pc = "row", !.delivered = TRUE]
                [] ~ok /\ q.attempt < Attempts -> [q EXCEPT !.attempt = @ + 1]
                [] OTHER -> [q EXCEPT !.pc = "row"]]
  /\ UNCHANGED <<hooks, keys, deliveries, hookSpent, unaccounted>>
\* insert_webhook_delivery, whose errors are dropped.
StoreDelivery(d, ok) ==
  /\ sending[d].pc = "row"
  /\ LET q == sending[d]
     IN  IF ok
         THEN /\ deliveries' = deliveries \cup
                   {[key |-> q.key, e |-> keys[q.key], attempts |-> q.attempt,
                     delivered |-> q.delivered, dead |-> ~q.delivered]}
              /\ UNCHANGED <<hookSpent, unaccounted>>
         ELSE /\ HookSpend("faults", MaxFaults)
              /\ unaccounted' = unaccounted \cup {q.key}
              /\ UNCHANGED deliveries
  /\ sending' = [sending EXCEPT ![d] = [pc |-> "next", todo |-> @.todo]]
  /\ UNCHANGED <<hooks, keys, acted, turnedDown>>
\* What the tasks S were sending is forgotten: the process dies, or the client
\* of a request that dispatches goes away and the request is dropped.
Forget(S) ==
  /\ HookSpend("faults", MaxFaults)
  /\ unaccounted' = unaccounted \cup
       {sending[d].key : d \in {x \in S : sending[x].pc \in {"send", "row"}}}
  /\ sending' = [d \in Dispatcher |-> IF d \in S THEN NoDispatch ELSE sending[d]]
  /\ UNCHANGED <<hooks, keys, acted, turnedDown, deliveries>>
DispatcherCrash == Forget(Dispatcher)
RequestDropped(d) == sending[d] # NoDispatch /\ Forget({d})

-----------------------------------------------------------------------------
WebhookInit ==
  /\ hooks = << >> /\ sending = [d \in Dispatcher |-> NoDispatch]
  /\ keys = << >> /\ acted = << >> /\ turnedDown = {}
  /\ deliveries = {} /\ unaccounted = {}
  /\ hookSpent = [events |-> 0, replays |-> 0, faults |-> 0]
WebhookNext ==
  \/ \E e \in Endpoint, yes \in BOOLEAN : RegisterWebhook(e, yes)
  \/ \E d \in Dispatcher :
       \/ DispatchEvent(d) \/ NextEndpoint(d)
       \/ \E row \in deliveries : ReplayDelivery(d, row)
       \/ \E arrives, accepts, answered \in BOOLEAN : SendAttempt(d, arrives, accepts, answered)
       \/ \E ok \in BOOLEAN : StoreDelivery(d, ok)
  \/ DispatcherCrash
  \/ \E d \in RequestTask : RequestDropped(d)
WebhookSpec == WebhookInit /\ [][WebhookNext]_webhookVars

-----------------------------------------------------------------------------
Pending == {sending[d].key : d \in {x \in Dispatcher : sending[x].pc \in {"send", "row"}}}
(* Every key is accounted for by one row once it is no longer being sent,   *)
(* store errors, dropped requests and crashes apart; a row says delivered   *)
(* only if the receiver acted, and exactly once, however many attempts it   *)
(* took; a dead letter is one that three attempts did not get an answer     *)
(* for, which does not say that the receiver did not act                    *)
(* (webhook/mod.rs:193-292).                                                *)
DeliveriesAccounted ==
  /\ \A k \in DOMAIN keys \ (Pending \cup unaccounted) :
       Cardinality({r \in deliveries : r.key = k}) = 1
  /\ \A r \in deliveries :
       /\ r.delivered => acted[r.key] = 1
       /\ r.dead <=> r.key \in turnedDown
  /\ \A k \in DOMAIN keys : acted[k] <= 1
=============================================================================
