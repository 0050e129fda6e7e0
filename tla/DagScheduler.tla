---------------------------- MODULE DagScheduler ----------------------------
(***************************************************************************)
(* What one graph execution promises its caller, without its loop, its     *)
(* flags, its counters and its task set: jobs wait, work and end.          *)
(*                                                                         *)
(* A job ends once and for good.  It starts when the jobs it needs have    *)
(* ended, or because a job that named it as its spare came to nothing.  A  *)
(* job that is somebody's spare may be passed over as if it had ended: the *)
(* runtime writes such a job off when one of the jobs that named it        *)
(* succeeds, even while it works for another one that failed.              *)
(***************************************************************************)
CONSTANTS
  NodeId, NoNode,
  Crews   \* the sets of jobs that may work at the same time

VARIABLES
  phase,   \* id -> what has become of the job
  needs,   \* id -> the jobs it depends on
  spare,   \* id -> the job to run instead should it come to nothing
  asked,   \* the caller asked for cancellation
  result   \* what the caller got: "open" until the execution ends

vars == <<phase, needs, spare, asked, result>>

In(p) == {n \in NodeId : phase[n] = p}
Known == NodeId \ In("unknown")
Ended == In("ok") \cup In("failed") \cup In("skipped")
Spares == {spare[n] : n \in Known}

(* The phases once the waiting jobs among S have been skipped.             *)
Skipping(S) == [n \in NodeId |-> IF n \in S \cap In("waiting") THEN "skipped"
                                 ELSE phase[n]]

SkipSome == \E S \in SUBSET In("waiting") : phase' = Skipping(S)

Init ==
  /\ phase \in [NodeId -> {"unknown", "waiting"}]
  /\ needs \in [NodeId -> SUBSET Known]
  /\ spare \in [NodeId -> NodeId \cup {NoNode}]
  /\ asked = FALSE
  /\ result = "open"

MayStart(n) ==
  \/ needs[n] \subseteq Ended \cup Spares
  \/ \E m \in In("failed") \cup In("skipped") : spare[m] = n

Start(n) ==
  /\ phase[n] = "waiting"
  /\ MayStart(n)
  /\ In("working") \cup {n} \in Crews
  /\ phase' = [phase EXCEPT ![n] = "working"]
  /\ UNCHANGED <<needs, spare, asked, result>>

(* A job that succeeds may make its waiting spare unnecessary.             *)
Succeed(n) ==
  /\ phase[n] = "working"
  /\ \E S \in SUBSET {spare[n]} : phase' = [Skipping(S) EXCEPT ![n] = "ok"]
  /\ UNCHANGED <<needs, spare, asked, result>>

Fail(n) ==
  /\ phase[n] = "working"
  /\ phase' = [phase EXCEPT ![n] = "failed"]
  /\ UNCHANGED <<needs, spare, asked, result>>

Skip ==
  /\ SkipSome
  /\ UNCHANGED <<needs, spare, asked, result>>

(* A job that nobody depends on yet is added.                              *)
Grow(n) ==
  /\ phase[n] = "unknown"
  /\ phase' = [phase EXCEPT ![n] = "waiting"]
  /\ needs'[n] \subseteq Known
  /\ \A m \in NodeId \ {n} : needs'[m] = needs[m] /\ spare'[m] = spare[m]
  /\ UNCHANGED <<asked, result>>

AskToCancel ==
  /\ asked' = TRUE
  /\ UNCHANGED <<phase, needs, spare, result>>

(* The caller gets the results: nothing works, and nothing waits unless the *)
(* caller asked for cancellation.                                          *)
Return ==
  /\ In("working") = {}
  /\ In("waiting") = {} \/ asked
  /\ phase' = Skipping(NodeId)
  /\ result' = "returned"
  /\ UNCHANGED <<needs, spare, asked>>

(* The caller gets an error; jobs may be skipped on the way out.           *)
GiveUp ==
  /\ SkipSome
  /\ result' = "error"
  /\ UNCHANGED <<needs, spare, asked>>

Next ==
  /\ result = "open"
  /\ \/ \E n \in NodeId : Start(n) \/ Succeed(n) \/ Fail(n) \/ Grow(n)
     \/ Skip \/ GiveUp \/ AskToCancel \/ Return

Spec == Init /\ [][Next]_vars
=============================================================================
