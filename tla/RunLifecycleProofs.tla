------------------------- MODULE RunLifecycleProofs -------------------------
(***************************************************************************)
(* Proofs about RunLifecycle and RunTrace.  The first part is RunLifecycle, *)
(* for any number of clients, worker threads, retries, continuations,       *)
(* requests and failing calls.                                              *)
(*                                                                         *)
(* The invariants rest on three facts: who may hold the guard (Guarded),    *)
(* what the place of the executor says about the entry, the row and the     *)
(* goal (EarlyRun, Deciding, Settled), and what a request to cancel leaves  *)
(* behind for the executor to see (CancelStands).                           *)
(*                                                                         *)
(* The last part is about RunTrace: what the trace of a run tells of its    *)
(* nodes, for any graphs, delays and lost events.  An event that was true   *)
(* when it was emitted stays true (Told), so each step from event to event  *)
(* leaves a trace in which every outcome is the node's (TrueTraces); only    *)
(* of a fallback that another node disowned does a skip say too much        *)
(* (SkipTrue).                                                              *)
(***************************************************************************)
EXTENDS RunLifecycle, RunTrace, DataLemmas, FiniteSetTheorems, TLAPS

(* Where the executor is before its run has a control; while it holds the   *)
(* guard; and from the moment the outcome is chosen.                        *)
Unborn == {"submit", "persist", "control"}
Held == {"starting", "finishing", "announcing", "closing"}
Late == {"finish", "finishing", "announcing", "closing", "over"}

(* The guard is held exactly by whoever stands between its two halves.      *)
Guarded ==
  /\ guard = Executor <=> epc \in Held
  /\ \A c \in Caller : guard = c <=> cpc[c] = "write"

(* Every stage but the first is paid for by a retry or a continuation.      *)
StagesPaid ==
  /\ results =< retries + continuations + 1
  /\ epc \notin {"staged", "verify"} \cup Late => results =< retries + continuations

(* Before the control is there nobody can have asked for anything.          *)
Unreached ==
  epc \in Unborn =>
    /\ ~control /\ ~mustCancel
    /\ \A c \in Caller : cpc[c] \notin {"cancel", "pause", "resume", "write"}

EarlyRun ==
  /\ epc \notin Late \cup {"dead"} =>
       mem.status \notin Ended /\ announced = {} /\ ~crashed
  /\ epc = "submit" => mem = Absent /\ stored = Absent
  /\ epc = "persist" =>
       stored = Absent /\ mem \in {[status |-> "queued", outputs |-> 0], Absent}
  /\ epc = "dead" => mem = Absent

(* What the row and the entry are when the guard is not held, without faults. *)
Agrees == RowFollowsEntry

(* finish_run works for an outcome, and has the entry in its hands.         *)
Deciding ==
  /\ epc \in Late \ {"over"} => goal.status \in Ended
  /\ epc \in Held \ {"starting"} => mem = goal /\ ~harness
  /\ epc \in {"announcing", "closing"} => stored \in {mem, Absent}
  /\ epc \in {"finish", "finishing", "announcing"} => announced = {}

(* Only a deleted entry or a failed call makes execute_run return an error. *)
Settled ==
  /\ crashed => mem = Absent \/ faults >= 1
  /\ OneFaultRecovered
  /\ AnnouncedIsFinal

(* A cancel that came in time is still to be seen, or has decided the goal. *)
CancelStands ==
  /\ mustCancel => mem.status # "succeeded" /\ "succeeded" \notin announced
  /\ mustCancel =>
       \/ epc = "dead"
       \/ epc \in Late /\ (epc = "over" \/ goal.status # "succeeded")
       \/ epc \notin Late \cup {"verify"} /\ cancelFlag

TypeInv == TypeOK /\ Guarded /\ StagesPaid
OutcomeInv == Unreached /\ EarlyRun /\ Agrees /\ Deciding /\ Settled
IInv == TypeInv /\ OutcomeInv /\ CancelStands

LEMMA TypeInit == Init => TypeInv
  <1> SUFFICES ASSUME Init PROVE TypeInv
    OBVIOUS
  <1>1. /\ cpc \in [Caller -> Place] /\ cancelling \in [Caller -> BOOLEAN]
        /\ results \in 0..(1 + MaxRetries + MaxContinuations)
        /\ retries \in 0..MaxRetries /\ continuations \in 0..MaxContinuations
        /\ requests \in 0..MaxRequests /\ faults \in 0..MaxFaults
    BY BoundsAssumption DEF Init, Place
  <1>2. TypeOK
    BY <1>1 DEF Init, TypeOK
  <1>3. Guarded
    BY ActorsAssumption DEF Init, Guarded, Held
  <1>4. StagesPaid
    BY DEF Init, StagesPaid, Late
  <1> QED
    BY <1>2, <1>3, <1>4 DEF TypeInv

(* Where the two ways to the end of execute_run lead.                       *)
LEMMA FailsTyped ==
  ASSUME TypeOK, Fails
  PROVE  goal' \in Run \cup {Absent} /\ crashed' \in BOOLEAN /\ epc' \in {"finish", "over"}
  <1>1. [status |-> "failed", outputs |-> 0] \in Run
    BY DEF Run, Status, Ended
  <1>2. CASE crashed
    BY <1>2 DEF TypeOK, Fails
  <1>3. CASE ~crashed
    BY <1>1, <1>3 DEF Fails
  <1> QED
    BY <1>2, <1>3

LEMMA FinishesTyped ==
  ASSUME TypeOK, NEW s \in Ended, Finishes(s)
  PROVE  goal' \in Run /\ crashed' \in BOOLEAN /\ epc' = "finish"
  BY BoundsAssumption DEF TypeOK, Finishes, Run, Status

(* The four ways on from a stage, and what none of them touches.            *)
LEMMA AfterStageCases ==
  ASSUME AfterStage
  PROVE  /\ epc = "staged" /\ stageOk' = FALSE
         /\ UNCHANGED <<runVars, lockVars, results, continuations, announced, callVars,
                        faults, mustCancel>>
         /\ \/ cancelFlag /\ Finishes("cancelled") /\ UNCHANGED retries
            \/ ~cancelFlag /\ epc' = "verify" /\ UNCHANGED <<goal, crashed, retries>>
            \/ ~cancelFlag /\ Finishes("failed") /\ UNCHANGED retries
            \/ /\ ~cancelFlag /\ MayRetry /\ retries' = retries + 1
               /\ epc' = "stage" /\ UNCHANGED <<goal, crashed>>
  <1>1. /\ epc = "staged" /\ stageOk' = FALSE
        /\ UNCHANGED <<runVars, lockVars, results, continuations, announced, callVars,
                       faults, mustCancel>>
    BY DEF AfterStage
  <1>2. CASE cancelFlag
    BY <1>1, <1>2 DEF AfterStage, CancelSeen
  <1>3. CASE ~cancelFlag /\ stageOk
    BY <1>1, <1>3 DEF AfterStage, CancelSeen
  <1>4. CASE ~cancelFlag /\ ~stageOk /\ MayRetry
    BY <1>1, <1>4 DEF AfterStage, CancelSeen
  <1>5. CASE ~cancelFlag /\ ~stageOk /\ ~MayRetry
    BY <1>1, <1>5 DEF AfterStage, CancelSeen
  <1> QED
    BY <1>2, <1>3, <1>4, <1>5

LEMMA TypeStep == TypeInv /\ Deciding /\ [Next]_vars => TypeInv'
  <1> SUFFICES ASSUME TypeInv, Deciding, [Next]_vars PROVE TypeInv'
    OBVIOUS
  <1> USE BoundsAssumption, ActorsAssumption
  <1> USE DEF runVars, lockVars, execVars, callVars, Caller
  <1> USE DEF TypeInv, TypeOK, Guarded, StagesPaid, Held, Late, Place, Run, Status,
              Ended, Absent
  <1>1. CASE InsertRun
    BY <1>1 DEF InsertRun, Passes, Takes
  <1>2. CASE PersistRun
    BY <1>2 DEF PersistRun, Fault
  <1>3. CASE InsertControl
    BY <1>3 DEF InsertControl
  <1>4. CASE SetRunning
    <2>1. CASE Fails
      BY <1>4, <2>1, FailsTyped DEF SetRunning, Passes, Keeps, Takes
    <2>2. CASE ~Fails
      BY <1>4, <2>2 DEF SetRunning, Passes, Keeps, Takes
    <2> QED
      BY <2>1, <2>2
  <1>5. CASE PersistRunning
    <2>1. CASE Fails
      BY <1>5, <2>1, FailsTyped DEF PersistRunning, Holding, Fault
    <2>2. CASE ~Fails
      BY <1>5, <2>2 DEF PersistRunning, Holding, Fault
    <2> QED
      BY <2>1, <2>2
  <1>6. CASE CheckCancelled
    BY <1>6, FinishesTyped DEF CheckCancelled
  <1>7. CASE Prepare
    <2>1. CASE Fails
      BY <1>7, <2>1, FailsTyped DEF Prepare, Fault
    <2>2. CASE ~Fails
      BY <1>7, <2>2 DEF Prepare, Fault
    <2> QED
      BY <2>1, <2>2
  <1>8. CASE StageEnds
    BY <1>8 DEF StageEnds, Finishes
  <1>9. CASE AfterStage
    <2>1. CASE \E s \in {"cancelled", "failed"} : Finishes(s) /\ UNCHANGED retries
      <3>1. goal' \in Run /\ crashed' \in BOOLEAN /\ epc' = "finish" /\ UNCHANGED retries
        BY <2>1, FinishesTyped
      <3> QED
        BY <1>9, <3>1, AfterStageCases
    <2>2. CASE epc' = "verify" /\ UNCHANGED <<goal, crashed, retries>>
      BY <1>9, <2>2, AfterStageCases
    <2>3. CASE MayRetry /\ retries' = retries + 1 /\ epc' = "stage" /\ UNCHANGED <<goal, crashed>>
      <3>1. retries' \in 0..MaxRetries
        BY <2>3 DEF MayRetry
      <3>2. results' =< retries' + continuations' /\ results' =< retries' + continuations' + 1
        BY <1>9, <2>3, AfterStageCases
      <3>3. /\ UNCHANGED <<runVars, lockVars, results, continuations, goal, crashed, announced,
                            callVars, faults, mustCancel>>
            /\ epc = "staged" /\ epc' = "stage" /\ stageOk' = FALSE
        BY <1>9, <2>3, AfterStageCases
      <3>4. TypeOK'
        BY <3>1, <3>3
      <3>5. Guarded'
        BY <3>3
      <3>6. StagesPaid'
        BY <3>2
      <3> QED
        BY <3>4, <3>5, <3>6 DEF TypeInv
    <2> QED
      BY <1>9, <2>1, <2>2, <2>3, AfterStageCases
  <1>10. CASE Verify
    BY <1>10 DEF Verify, Finishes
  <1>11. CASE FinishBegins
    <2>1. CASE Fails
      BY <1>11, <2>1, FailsTyped DEF FinishBegins, Passes, Keeps, Takes
    <2>2. CASE ~Fails
      BY <1>11, <2>2 DEF FinishBegins, Passes, Keeps, Takes
    <2> QED
      BY <2>1, <2>2
  <1>12. CASE FinishPersists
    <2>1. CASE Fails
      BY <1>12, <2>1, FailsTyped DEF FinishPersists, Holding, Fault
    <2>2. CASE ~Fails
      BY <1>12, <2>2 DEF FinishPersists, Holding, Fault
    <2> QED
      BY <2>1, <2>2
  <1>13. CASE FinishAnnounces
    <2>1. announced' \subseteq Ended
      <3>1. epc = "announcing" /\ announced = {} /\ mem.status \in Ended
        BY <1>13 DEF FinishAnnounces, Deciding, Late, Held
      <3>2. announced' \in {announced, announced \cup {mem.status}}
        BY <1>13 DEF FinishAnnounces
      <3> QED
        BY <3>1, <3>2
    <2>2. faults' \in 0..MaxFaults
      BY <1>13 DEF FinishAnnounces, Fault
    <2>3. /\ goal' \in Run \cup {Absent} /\ crashed' \in BOOLEAN
          /\ \/ epc' \in {"finish", "over"} /\ guard' = NoOne
             \/ epc' = "closing" /\ UNCHANGED guard
      BY <1>13, FailsTyped DEF FinishAnnounces
    <2>4. /\ epc = "announcing"
          /\ UNCHANGED <<runVars, blocked, stageOk, results, retries, continuations, callVars,
                         mustCancel>>
      BY <1>13 DEF FinishAnnounces, Holding
    <2> QED
      BY <2>1, <2>2, <2>3, <2>4
  <1>14. CASE FinishCloses
    BY <1>14 DEF FinishCloses, Holding
  <1>15. CASE StageEvent
    BY <1>15 DEF StageEvent, Passes, Takes
  <1>16. CASE ExecutorBlocks
    BY <1>16 DEF ExecutorBlocks, Blocks, Polled
  <1>17. CASE ShutdownLists
    BY <1>17 DEF ShutdownLists, RunExists, Passes, Takes, Goes
  <1>18. CASE ShutdownRefused
    BY <1>18 DEF ShutdownRefused, Goes
  <1>19. CASE Crash
    <2>1. cpc' \in [Caller -> Place] /\ cancelling' \in [Caller -> BOOLEAN]
      BY <1>19 DEF Crash
    <2>2. {mem', stored', goal'} \subseteq Run \cup {Absent}
      BY <1>19 DEF Crash
    <2>3. {control', cancelFlag', pauseFlag', harness', stageOk', crashed', mustCancel'} \subseteq BOOLEAN
      BY <1>19 DEF Crash
    <2>4. \A c \in Caller : cpc'[c] # "write"
      BY <1>19 DEF Crash
    <2> QED
      BY <1>19, <2>1, <2>2, <2>3, <2>4 DEF Crash
  <1>20. CASE Stopped
    BY <1>20 DEF Stopped, vars
  <1>21. ASSUME NEW c \in Caller, ChangeStatus(c) PROVE TypeInv'
    BY <1>21 DEF ChangeStatus, Passes, Keeps, Takes, Goes, Rest, Refused, Changed
  <1>22. ASSUME NEW c \in Caller, PersistChange(c) PROVE TypeInv'
    BY <1>22 DEF PersistChange, Holding, Goes, Rest, Fault
  <1>23. ASSUME NEW c \in Caller, ListToDelete(c) PROVE TypeInv'
    BY <1>23 DEF ListToDelete, Passes, Takes, Goes
  <1>24. ASSUME NEW c \in Caller, RemoveEntry(c) PROVE TypeInv'
    BY <1>24 DEF RemoveEntry, Passes, Takes, Goes
  <1>25. ASSUME NEW c \in Caller, ReadEnds(c) PROVE TypeInv'
    BY <1>25 DEF ReadEnds, Passes, Takes, Goes
  <1>26. ASSUME NEW c \in Caller, CancelRequest(c) PROVE TypeInv'
    BY <1>26 DEF CancelRequest, RunExists, Requests, Goes, BeforeLastLook
  <1>27. ASSUME NEW c \in Caller, CallerBlocks(c) PROVE TypeInv'
    BY <1>27 DEF CallerBlocks, Blocks, Polled
  <1>28. ASSUME NEW c \in Client, PauseRequest(c) PROVE TypeInv'
    BY <1>28 DEF PauseRequest, RunExists, Requests, Goes
  <1>29. ASSUME NEW c \in Client, ResumeRequest(c) PROVE TypeInv'
    <2>1. cancelFlag \in BOOLEAN /\ cpc[c] = "idle"
      BY <1>29 DEF ResumeRequest, Requests
    <2>2. cancelling' \in [Caller -> BOOLEAN]
      BY <1>29, <2>1 DEF ResumeRequest
    <2>3. requests' \in 0..MaxRequests
      BY <1>29 DEF ResumeRequest, Requests
    <2>4. cpc' = [cpc EXCEPT ![c] = "resume"] /\ pauseFlag' = FALSE
      BY <1>29 DEF ResumeRequest, Requests, Goes
    <2>5. UNCHANGED <<mem, stored, control, cancelFlag, harness, lockVars, execVars, faults,
                      mustCancel>>
      BY <1>29 DEF ResumeRequest
    <2> QED
      BY <2>1, <2>2, <2>3, <2>4, <2>5
  <1>30. ASSUME NEW c \in Client, DeleteRows(c) PROVE TypeInv'
    BY <1>30 DEF DeleteRows, Requests, Goes, Fault
  <1>31. ASSUME NEW c \in Client, ReadBlocks(c) PROVE TypeInv'
    BY <1>31 DEF ReadBlocks, Blocks, Polled, Goes
  <1>32. CASE UNCHANGED vars
    BY <1>32 DEF vars
  <1> QED
    BY <1>1, <1>2, <1>3, <1>4, <1>5, <1>6, <1>7, <1>8, <1>9, <1>10, <1>11,
       <1>12, <1>13, <1>14, <1>15, <1>16, <1>17, <1>18, <1>19, <1>20, <1>21, <1>22,
       <1>23, <1>24, <1>25, <1>26, <1>27, <1>28, <1>29, <1>30, <1>31, <1>32
       DEF Next, Execute, Handle

LEMMA OutcomeInit == Init => OutcomeInv
  BY DEF Init, OutcomeInv, Unreached, EarlyRun, Agrees, RowFollowsEntry, Deciding, Settled,
         OneFaultRecovered, AnnouncedIsFinal, Unborn, Held, Late, Ended, Absent

LEMMA OutcomeStep == TypeInv /\ OutcomeInv /\ [Next]_vars => OutcomeInv'
  <1> SUFFICES ASSUME TypeInv, OutcomeInv, [Next]_vars PROVE OutcomeInv'
    OBVIOUS
  <1> USE BoundsAssumption, ActorsAssumption
  <1> USE DEF runVars, lockVars, execVars, callVars, Caller
  <1> USE DEF TypeInv, TypeOK, Guarded, OutcomeInv, Unreached, EarlyRun, Agrees,
              RowFollowsEntry, Deciding, Settled, OneFaultRecovered, AnnouncedIsFinal,
              Unborn, Held, Late, Run, Status, Ended, Absent
  <1>1. CASE InsertRun
    BY <1>1 DEF InsertRun, Passes, Takes
  <1>2. CASE PersistRun
    BY <1>2 DEF PersistRun, Fault
  <1>3. CASE InsertControl
    BY <1>3 DEF InsertControl
  <1>4. CASE SetRunning
    BY <1>4 DEF SetRunning, Passes, Keeps, Takes, Fails
  <1>5. CASE PersistRunning
    BY <1>5 DEF PersistRunning, Holding, Fault, Fails
  <1>6. CASE CheckCancelled
    BY <1>6 DEF CheckCancelled, CancelSeen, Finishes
  <1>7. CASE Prepare
    BY <1>7 DEF Prepare, Fault, Fails
  <1>8. CASE StageEnds
    BY <1>8 DEF StageEnds, Finishes
  <1>9. CASE AfterStage
    <2>1. CASE \E s \in {"cancelled", "failed"} : Finishes(s)
      <3>1. /\ epc = "staged" /\ epc' = "finish" /\ goal'.status \in Ended
            /\ UNCHANGED <<runVars, lockVars, callVars, crashed, announced, faults>>
        BY <1>9, <2>1, AfterStageCases DEF Finishes
      <3> QED
        BY <3>1
    <2>2. CASE epc' \in {"verify", "stage"} /\ UNCHANGED <<goal, crashed>>
      BY <1>9, <2>2, AfterStageCases
    <2> QED
      BY <1>9, <2>1, <2>2, AfterStageCases
  <1>10. CASE Verify
    BY <1>10 DEF Verify, Finishes
  <1>11. CASE FinishBegins
    BY <1>11 DEF FinishBegins, Passes, Keeps, Takes, Fails
  <1>12. CASE FinishPersists
    BY <1>12 DEF FinishPersists, Holding, Fault, Fails
  <1>13. CASE FinishAnnounces
    <2>1. /\ epc = "announcing" /\ announced = {}
          /\ UNCHANGED <<runVars, blocked, callVars>>
      BY <1>13 DEF FinishAnnounces, Holding
    <2>2. CASE /\ announced' = {mem.status} /\ epc' = "closing"
               /\ UNCHANGED <<guard, goal, crashed, faults>>
      BY <2>1, <2>2
    <2>3. CASE Fails /\ guard' = NoOne /\ announced' = {} /\ faults' = faults + 1
      BY <2>1, <2>3 DEF Fails
    <2> QED
      BY <1>13, <2>1, <2>2, <2>3 DEF FinishAnnounces, Fault
  <1>14. CASE FinishCloses
    BY <1>14 DEF FinishCloses, Holding
  <1>15. CASE StageEvent
    BY <1>15 DEF StageEvent, Passes, Takes
  <1>16. CASE ExecutorBlocks
    BY <1>16 DEF ExecutorBlocks, Blocks, Polled
  <1>17. CASE ShutdownLists
    BY <1>17 DEF ShutdownLists, RunExists, Passes, Takes, Goes
  <1>18. CASE ShutdownRefused
    BY <1>18 DEF ShutdownRefused, Goes
  <1>19. CASE Crash
    BY <1>19 DEF Crash
  <1>20. CASE Stopped
    BY <1>20 DEF Stopped, vars
  <1>21. ASSUME NEW c \in Caller, ChangeStatus(c) PROVE OutcomeInv'
    BY <1>21 DEF ChangeStatus, Passes, Keeps, Takes, Goes, Rest, Refused, Changed
  <1>22. ASSUME NEW c \in Caller, PersistChange(c) PROVE OutcomeInv'
    BY <1>22 DEF PersistChange, Holding, Goes, Rest, Fault
  <1>23. ASSUME NEW c \in Caller, ListToDelete(c) PROVE OutcomeInv'
    BY <1>23 DEF ListToDelete, Passes, Takes, Goes
  <1>24. ASSUME NEW c \in Caller, RemoveEntry(c) PROVE OutcomeInv'
    BY <1>24 DEF RemoveEntry, Passes, Takes, Goes
  <1>25. ASSUME NEW c \in Caller, ReadEnds(c) PROVE OutcomeInv'
    BY <1>25 DEF ReadEnds, Passes, Takes, Goes
  <1>26. ASSUME NEW c \in Caller, CancelRequest(c) PROVE OutcomeInv'
    BY <1>26 DEF CancelRequest, RunExists, Requests, Goes, BeforeLastLook
  <1>27. ASSUME NEW c \in Caller, CallerBlocks(c) PROVE OutcomeInv'
    BY <1>27 DEF CallerBlocks, Blocks, Polled
  <1>28. ASSUME NEW c \in Client, PauseRequest(c) PROVE OutcomeInv'
    BY <1>28 DEF PauseRequest, RunExists, Requests, Goes
  <1>29. ASSUME NEW c \in Client, ResumeRequest(c) PROVE OutcomeInv'
    BY <1>29 DEF ResumeRequest, RunExists, Requests, Goes
  <1>30. ASSUME NEW c \in Client, DeleteRows(c) PROVE OutcomeInv'
    BY <1>30 DEF DeleteRows, Requests, Goes, Fault
  <1>31. ASSUME NEW c \in Client, ReadBlocks(c) PROVE OutcomeInv'
    BY <1>31 DEF ReadBlocks, Blocks, Polled, Goes
  <1>32. CASE UNCHANGED vars
    BY <1>32 DEF vars
  <1> QED
    BY <1>1, <1>2, <1>3, <1>4, <1>5, <1>6, <1>7, <1>8, <1>9, <1>10, <1>11,
       <1>12, <1>13, <1>14, <1>15, <1>16, <1>17, <1>18, <1>19, <1>20, <1>21, <1>22,
       <1>23, <1>24, <1>25, <1>26, <1>27, <1>28, <1>29, <1>30, <1>31, <1>32
       DEF Next, Execute, Handle

LEMMA CancelInit == Init => CancelStands
  BY DEF Init, CancelStands

LEMMA CancelStep == TypeInv /\ OutcomeInv /\ CancelStands /\ [Next]_vars => CancelStands'
  <1> SUFFICES ASSUME TypeInv, OutcomeInv, CancelStands, [Next]_vars PROVE CancelStands'
    OBVIOUS
  <1> USE BoundsAssumption, ActorsAssumption
  <1> USE DEF runVars, lockVars, execVars, callVars, Caller
  <1> USE DEF TypeInv, TypeOK, OutcomeInv, Unreached, EarlyRun, Deciding, CancelStands,
              Unborn, Held, Late, Ended, Absent
  <1>1. CASE InsertRun
    BY <1>1 DEF InsertRun, Passes, Takes
  <1>2. CASE PersistRun
    BY <1>2 DEF PersistRun, Fault
  <1>3. CASE InsertControl
    BY <1>3 DEF InsertControl
  <1>4. CASE SetRunning
    <2>1. /\ epc = "start"
          /\ UNCHANGED <<cancelFlag, announced, mustCancel>>
      BY <1>4 DEF SetRunning
    <2>2. CASE mem = Absent
      BY <1>4, <2>1, <2>2 DEF SetRunning, Fails
    <2>3. CASE mem # Absent
      <3>1. mem'.status \in {"cancelling", "paused", "running"}
        BY <1>4, <2>3 DEF SetRunning, Run
      <3>2. epc' = "starting"
        BY <1>4, <2>3 DEF SetRunning
      <3> QED
        BY <2>1, <3>1, <3>2
    <2> QED
      BY <2>2, <2>3
  <1>5. CASE PersistRunning
    BY <1>5 DEF PersistRunning, Holding, Fault, Fails
  <1>6. CASE CheckCancelled
    BY <1>6 DEF CheckCancelled, CancelSeen, Finishes
  <1>7. CASE Prepare
    BY <1>7 DEF Prepare, Fault, Fails
  <1>8. CASE StageEnds
    BY <1>8 DEF StageEnds, Finishes
  <1>9. CASE AfterStage
    <2>1. CASE \E s \in {"cancelled", "failed"} : Finishes(s)
      BY <1>9, <2>1, AfterStageCases DEF Finishes
    <2>2. CASE ~cancelFlag
      BY <1>9, <2>2, AfterStageCases
    <2> QED
      BY <1>9, <2>1, <2>2, AfterStageCases
  <1>10. CASE Verify
    BY <1>10 DEF Verify, Finishes
  <1>11. CASE FinishBegins
    BY <1>11 DEF FinishBegins, Passes, Keeps, Takes, Fails
  <1>12. CASE FinishPersists
    BY <1>12 DEF FinishPersists, Holding, Fault, Fails
  <1>13. CASE FinishAnnounces
    BY <1>13 DEF FinishAnnounces, Holding, Fault, Fails
  <1>14. CASE FinishCloses
    BY <1>14 DEF FinishCloses, Holding
  <1>15. CASE StageEvent
    BY <1>15 DEF StageEvent, Passes, Takes
  <1>16. CASE ExecutorBlocks
    BY <1>16 DEF ExecutorBlocks, Blocks, Polled
  <1>17. CASE ShutdownLists
    BY <1>17 DEF ShutdownLists, RunExists, Passes, Takes, Goes
  <1>18. CASE ShutdownRefused
    BY <1>18 DEF ShutdownRefused, Goes
  <1>19. CASE Crash
    BY <1>19 DEF Crash
  <1>20. CASE Stopped
    BY <1>20 DEF Stopped, vars
  <1>21. ASSUME NEW c \in Caller, ChangeStatus(c) PROVE CancelStands'
    <2>1. UNCHANGED <<epc, goal, cancelFlag, announced, mustCancel>>
      BY <1>21 DEF ChangeStatus
    <2>2. CASE Refused(c)
      BY <1>21, <2>1, <2>2 DEF ChangeStatus
    <2>3. CASE ~Refused(c)
      <3>1. Changed(c) # "succeeded"
        BY <1>21 DEF ChangeStatus, Changed
      <3>2. mem'.status = Changed(c)
        BY <1>21, <2>3 DEF ChangeStatus, Refused, Run
      <3> QED
        BY <2>1, <3>1, <3>2
    <2> QED
      BY <2>2, <2>3
  <1>22. ASSUME NEW c \in Caller, PersistChange(c) PROVE CancelStands'
    BY <1>22 DEF PersistChange, Holding, Goes, Rest, Fault
  <1>23. ASSUME NEW c \in Caller, ListToDelete(c) PROVE CancelStands'
    BY <1>23 DEF ListToDelete, Passes, Takes, Goes
  <1>24. ASSUME NEW c \in Caller, RemoveEntry(c) PROVE CancelStands'
    BY <1>24 DEF RemoveEntry, Passes, Takes, Goes
  <1>25. ASSUME NEW c \in Caller, ReadEnds(c) PROVE CancelStands'
    BY <1>25 DEF ReadEnds, Passes, Takes, Goes
  <1>26. ASSUME NEW c \in Caller, CancelRequest(c) PROVE CancelStands'
    BY <1>26 DEF CancelRequest, RunExists, Requests, Goes, BeforeLastLook
  <1>27. ASSUME NEW c \in Caller, CallerBlocks(c) PROVE CancelStands'
    BY <1>27 DEF CallerBlocks, Blocks, Polled
  <1>28. ASSUME NEW c \in Client, PauseRequest(c) PROVE CancelStands'
    BY <1>28 DEF PauseRequest, RunExists, Requests, Goes
  <1>29. ASSUME NEW c \in Client, ResumeRequest(c) PROVE CancelStands'
    BY <1>29 DEF ResumeRequest, RunExists, Requests, Goes
  <1>30. ASSUME NEW c \in Client, DeleteRows(c) PROVE CancelStands'
    BY <1>30 DEF DeleteRows, Requests, Goes, Fault
  <1>31. ASSUME NEW c \in Client, ReadBlocks(c) PROVE CancelStands'
    BY <1>31 DEF ReadBlocks, Blocks, Polled, Goes
  <1>32. CASE UNCHANGED vars
    BY <1>32 DEF vars
  <1> QED
    BY <1>1, <1>2, <1>3, <1>4, <1>5, <1>6, <1>7, <1>8, <1>9, <1>10, <1>11,
       <1>12, <1>13, <1>14, <1>15, <1>16, <1>17, <1>18, <1>19, <1>20, <1>21, <1>22,
       <1>23, <1>24, <1>25, <1>26, <1>27, <1>28, <1>29, <1>30, <1>31, <1>32
       DEF Next, Execute, Handle

-----------------------------------------------------------------------------
(* RunInvariant: what the other theorems follow from.                       *)
THEOREM RunInvariant == Spec => []IInv
  <1>1. Init => IInv
    BY TypeInit, OutcomeInit, CancelInit DEF IInv
  <1>2. IInv /\ [Next]_vars => IInv'
    BY TypeStep, OutcomeStep, CancelStep DEF IInv, OutcomeInv
  <1> QED
    BY <1>1, <1>2, PTL DEF Spec

(* RunTypeCorrect: the attempts stay within the orchestrator's limits, the  *)
(* holder of the guard never waits for it.                                  *)
THEOREM RunTypeCorrect == Spec => []TypeOK
  BY RunInvariant, PTL DEF IInv, TypeInv

(* GuardIsExclusive: the guard of the `runs' entry is held by the actor that *)
(* stands between a change of the entry and the write of its row, and by no *)
(* other: two actors are never in there together.                           *)
THEOREM GuardIsExclusive == Spec => []Guarded
  BY RunInvariant, PTL DEF IInv, TypeInv

(* RowFollowsEntryHolds: as long as no write has failed, the row and the    *)
(* entry agree whenever nobody holds the guard.                             *)
THEOREM RowFollowsEntryHolds == Spec => []RowFollowsEntry
  BY RunInvariant, PTL DEF IInv, OutcomeInv, Agrees

(* OneFaultRecoveredHolds: wherever the one failing call strikes, the run   *)
(* that is over has ended, in its entry and in its row, and is closed.      *)
THEOREM OneFaultRecoveredHolds == Spec => []OneFaultRecovered
  BY RunInvariant, PTL DEF IInv, OutcomeInv, Settled

(* AnnouncedIsFinalHolds: an outcome the webhooks were told is the only one, *)
(* and neither the entry nor the row ever says another.                     *)
THEOREM AnnouncedIsFinalHolds == Spec => []AnnouncedIsFinal
  BY RunInvariant, PTL DEF IInv, OutcomeInv, Settled

(* CancelledNeverSucceedsHolds: a cancel that was accepted before the run's *)
(* last look at the flag is never overtaken by a success.                   *)
THEOREM CancelledNeverSucceedsHolds == Spec => []CancelledNeverSucceeds
  BY RunInvariant, PTL DEF IInv, CancelStands, CancelledNeverSucceeds

-----------------------------------------------------------------------------
(* RunTrace: what the trace of a run says, whatever became of the events.   *)

TraceSpec == ViewsInit /\ [][ViewsNext]_viewsVars

Phases == {"absent", "pending", "running"} \cup Over
EventKinds == {"mention_received", "graph_initialized", "node_started", "node_completed",
               "node_failed", "node_skipped", "dynamic_node_added"}
TraceEvent == [action : EventKinds, node : TraceNode \cup {None}, by : TraceNode \cup {None},
               at : Int, took : Int]

(* What makes it true to say of n that it was skipped.                     *)
SkipTrue(n) == (phase[n] = "skipped" /\ beganAt[n] = None) \/ Disowned(n)

(* An event that is told of a node stays true of it: nodes only move on,    *)
(* and a status that is written over again is that of a disowned fallback.  *)
Told(e) ==
  /\ e \in TraceEvent
  /\ e.action \notin {"mention_received", "graph_initialized"} => e.node \in TraceNode
  /\ e.action = "node_started" => beganAt[e.node] # None
  /\ e.action = "node_completed" => e.node \in DOMAIN outputs /\ outputs[e.node].succeeded
  /\ e.action = "node_failed" => e.node \in DOMAIN outputs /\ ~outputs[e.node].succeeded
  /\ e.action = "node_skipped" => SkipTrue(e.node)

ResultsTyped ==
  /\ DOMAIN outputs \subseteq TraceNode
  /\ \A n \in DOMAIN outputs : outputs[n].took \in Int
Timed ==
  \A n \in TraceNode :
    /\ phase[n] \in {"absent", "pending"} => beganAt[n] = None
    /\ n \in DOMAIN outputs => beganAt[n] # None
RecordTrue ==
  /\ stageEnd # "returned" => record = << >>
  /\ stageEnd = "returned" => record = outputs /\ RunningNodes = {}

TraceInv ==
  /\ graphDeps \in TraceDeps /\ phase \in [TraceNode -> Phases]
  /\ clock \in Nat /\ beganAt \in [TraceNode -> Int] /\ ResultsTyped /\ Timed
  /\ log \in Seq(TraceEvent) /\ \A i \in 1..Len(log) : Told(log[i])
  /\ \A e \in sinkTasks : Told(e)
  /\ RecordTrue

LEMMA EarlyTold ==
  ASSUME NEW a \in {"mention_received", "graph_initialized"}, NEW e,
         e = [Event(a, None, None) EXCEPT !.at = 0]
  PROVE  e \in TraceEvent /\ Told(e)
  <1>1. e = [action |-> a, node |-> None, by |-> None, at |-> 0, took |-> None]
    BY DEF Event
  <1> QED
    BY <1>1 DEF Told, TraceEvent, EventKinds, None

LEMMA TraceInvInit == ViewsInit => TraceInv
  <1> SUFFICES ASSUME ViewsInit PROVE TraceInv
    OBVIOUS
  <1>1. PICK e : e = [Event("mention_received", None, None) EXCEPT !.at = 0]
    OBVIOUS
  <1>2. PICK d : d = [Event("graph_initialized", None, None) EXCEPT !.at = 0]
    OBVIOUS
  <1>3. Told(e) /\ e \in TraceEvent /\ Told(d) /\ d \in TraceEvent
    BY <1>1, <1>2, EarlyTold
  <1>4. log = <<e, d>> \/ log = <<d>>
    BY <1>1, <1>2 DEF ViewsInit
  <1>5. log \in Seq(TraceEvent) /\ \A i \in 1..Len(log) : Told(log[i])
    <2>1. CASE log = <<e, d>>
      BY <1>3, <2>1
    <2>2. CASE log = <<d>>
      BY <1>3, <2>2
    <2> QED
      BY <1>4, <2>1, <2>2
  <1>6. DOMAIN outputs = {} /\ record = << >> /\ stageEnd = "open" /\ sinkTasks = {}
    BY DEF ViewsInit
  <1>7. /\ graphDeps \in TraceDeps /\ phase \in [TraceNode -> Phases] /\ clock \in Nat
        /\ beganAt \in [TraceNode -> Int] /\ \A n \in TraceNode : beganAt[n] = None
    BY DEF ViewsInit, TraceNode, Phases, None
  <1> QED
    BY <1>5, <1>6, <1>7 DEF TraceInv, RecordTrue, ResultsTyped, Timed

(* What is told stays true when nodes move on.                             *)
Onward ==
  /\ UNCHANGED graphDeps
  /\ \A n \in TraceNode :
       /\ beganAt[n] # None => beganAt'[n] # None
       /\ phase[n] = "skipped" /\ beganAt[n] = None =>
            phase'[n] = "skipped" /\ beganAt'[n] = None
  /\ \A n \in DOMAIN outputs : n \in DOMAIN outputs' /\ outputs'[n] = outputs[n]

LEMMA DisownedStays ==
  ASSUME Onward, NEW n \in TraceNode, Disowned(n)
  PROVE  Disowned(n)'
  BY DEF Onward, Disowned, FallbackOf, TraceNode

LEMMA ToldStays ==
  ASSUME Onward, NEW e, Told(e)
  PROVE  Told(e)'
  <1>1. e \in TraceEvent /\ TraceEvent' = TraceEvent /\ TraceNode' = TraceNode
    BY DEF Onward, Told, TraceEvent, TraceNode
  <1>2. e.action = "node_skipped" => SkipTrue(e.node)'
    <2> SUFFICES ASSUME e.action = "node_skipped" PROVE SkipTrue(e.node)'
      OBVIOUS
    <2>1. e.node \in TraceNode /\ SkipTrue(e.node)
      BY DEF Told
    <2>2. Disowned(e.node) => Disowned(e.node)'
      BY <2>1, DisownedStays
    <2> QED
      BY <2>1, <2>2 DEF SkipTrue, Onward
  <1>3. /\ e.action \notin {"mention_received", "graph_initialized"} => e.node \in TraceNode
        /\ e.action = "node_started" => beganAt'[e.node] # None
        /\ e.action = "node_completed" => e.node \in DOMAIN outputs' /\ outputs'[e.node].succeeded
        /\ e.action = "node_failed" => e.node \in DOMAIN outputs' /\ ~outputs'[e.node].succeeded
    BY DEF Onward, Told
  <1> QED
    BY <1>1, <1>2, <1>3 DEF Told

(* A step of the stage: nodes move on, and what is said of them is true.    *)
LEMMA StageMoves ==
  ASSUME TraceInv, stageEnd = "open", UNCHANGED <<clock, log, record, stageEnd>>,
         Onward, phase' \in [TraceNode -> Phases], beganAt' \in [TraceNode -> Int],
         ResultsTyped', Timed', \A e \in sinkTasks' \ sinkTasks : Told(e)'
  PROVE  TraceInv'
  <1>1. UNCHANGED graphDeps /\ TraceEvent' = TraceEvent /\ TraceNode' = TraceNode
    BY DEF Onward, TraceEvent, TraceNode
  <1>2. \A i \in 1..Len(log) : Told(log[i])'
    BY ToldStays DEF TraceInv
  <1>3. \A e \in sinkTasks' : Told(e)'
    BY ToldStays DEF TraceInv
  <1> QED
    BY <1>1, <1>2, <1>3 DEF TraceInv, RecordTrue

LEMMA EventTold ==
  ASSUME NEW a \in EventKinds, NEW n \in TraceNode, NEW m \in TraceNode, NEW e,
         e = Event(a, n, m)
  PROVE  e \in TraceEvent /\ e.action = a /\ e.node = n
  BY DEF Event, TraceEvent, None

LEMMA ToldNext ==
  ASSUME UNCHANGED graphDeps, NEW x \in TraceEvent, NEW n \in TraceNode, x.node = n,
         \/ x.action = "node_started" /\ beganAt'[n] # None
         \/ x.action = "node_completed" /\ n \in DOMAIN outputs' /\ outputs'[n].succeeded
         \/ x.action = "node_failed" /\ n \in DOMAIN outputs' /\ ~outputs'[n].succeeded
         \/ x.action = "node_skipped" /\ SkipTrue(n)'
         \/ x.action = "dynamic_node_added"
  PROVE  Told(x)'
  BY DEF Told, TraceEvent, TraceNode

LEMMA FallbackIs ==
  ASSUME TraceInv, NEW n \in TraceNode
  PROVE  FallbackOf(n) \subseteq TraceNode
  <1>1. graphDeps \in TraceDeps
    BY DEF TraceInv
  <1>2. FallbackNode[graphDeps] \in [DOMAIN graphDeps -> (DOMAIN graphDeps \ LateNode) \cup {None}]
    BY <1>1, RunTraceBounds
  <1> QED
    BY <1>2 DEF FallbackOf, TraceNode

LEMMA BeginKeeps ==
  ASSUME TraceInv, NEW n \in TraceNode, Begin(n)
  PROVE  TraceInv'
  <1>1. /\ stageEnd = "open" /\ phase[n] = "pending"
        /\ phase' = [phase EXCEPT ![n] = "running"]
        /\ beganAt' = [beganAt EXCEPT ![n] = clock]
        /\ UNCHANGED <<graphDeps, clock, outputs, log, lostRows, record, stageEnd>>
        /\ \A e \in sinkTasks' \ sinkTasks : e = Event("node_started", n, n)
    BY DEF Begin, Emit
  <1>2. /\ phase \in [TraceNode -> Phases] /\ beganAt \in [TraceNode -> Int]
        /\ clock \in Int /\ clock # None /\ beganAt[n] = None /\ TraceNode' = TraceNode
    BY <1>1 DEF TraceInv, Timed, None, TraceNode
  <1>3. phase' \in [TraceNode -> Phases] /\ beganAt' \in [TraceNode -> Int]
    BY <1>1, <1>2 DEF Phases
  <1>4. Onward
    BY <1>1, <1>2 DEF Onward
  <1>5. ResultsTyped' /\ Timed'
    BY <1>1, <1>2 DEF TraceInv, ResultsTyped, Timed
  <1>6. PICK x : x = Event("node_started", n, n)
    OBVIOUS
  <1>7. x \in TraceEvent /\ x.action = "node_started" /\ x.node = n
    BY <1>6, EventTold DEF EventKinds
  <1>8. Told(x)'
    BY <1>1, <1>2, <1>7, ToldNext
  <1> QED
    BY <1>1, <1>3, <1>4, <1>5, <1>6, <1>8, StageMoves

(* The end of n: no result is changed, and a status only becomes "skipped"  *)
(* when n succeeded and does not need its fallback, or superseded a node.   *)
LEMMA JoinKeeps ==
  ASSUME TraceInv, NEW n \in TraceNode, Join(n)
  PROVE  TraceInv'
  <1>1. /\ stageEnd = "open" /\ n \in RunningNodes
        /\ UNCHANGED <<graphDeps, clock, beganAt, log, lostRows, record, stageEnd>>
    BY DEF Join
  <1>2. /\ phase \in [TraceNode -> Phases] /\ beganAt \in [TraceNode -> Int]
        /\ clock \in Int /\ TraceNode' = TraceNode
        /\ n \notin DOMAIN outputs /\ beganAt[n] # None /\ clock - beganAt[n] \in Int
        /\ beganAt' \in [TraceNode -> Int]
    BY <1>1 DEF TraceInv, RunningNodes, TraceNode
  <1>3. CASE EndsBadly(n)
    <2>1. /\ phase' = [phase EXCEPT ![n] = "failed"]
          /\ outputs' = [m \in DOMAIN outputs \cup {n} |->
                           IF m = n THEN [succeeded |-> FALSE, took |-> 0] ELSE outputs[m]]
          /\ \A e \in sinkTasks' \ sinkTasks : e = Event("node_failed", n, n)
      BY <1>3 DEF EndsBadly, Emit
    <2>2. /\ DOMAIN outputs' = DOMAIN outputs \cup {n} /\ ~outputs'[n].succeeded
          /\ outputs'[n].took = 0 /\ \A m \in DOMAIN outputs : outputs'[m] = outputs[m]
      BY <1>2, <2>1
    <2>3. phase' \in [TraceNode -> Phases]
      BY <1>2, <2>1 DEF Phases, Over
    <2>4. Onward
      BY <1>1, <1>2, <2>1, <2>2 DEF Onward
    <2>5. ResultsTyped' /\ Timed'
      BY <1>1, <1>2, <2>1, <2>2 DEF TraceInv, ResultsTyped, Timed
    <2>6. PICK x : x = Event("node_failed", n, n)
      OBVIOUS
    <2>7. x \in TraceEvent /\ x.action = "node_failed" /\ x.node = n
      BY <2>6, EventTold DEF EventKinds
    <2>8. Told(x)'
      BY <1>1, <2>2, <2>7, ToldNext
    <2> QED
      BY <1>1, <1>2, <2>1, <2>3, <2>4, <2>5, <2>6, <2>8, StageMoves
  <1>4. ASSUME NEW superseded \in SUBSET {m \in TraceNode \ LateNode : phase[m] = "pending"},
               EndsWell(n, superseded)
        PROVE  TraceInv'
    <2>1. PICK spare : spare = FallbackOf(n) \ readied
      OBVIOUS
    <2>2. PICK late : late = {m \in TraceNode : phase[m] = "absent" /\ n \in Range(graphDeps[m])}
      OBVIOUS
    <2>3. PICK k : k = clock - beganAt[n]
      OBVIOUS
    <2>4. /\ phase' = [m \in TraceNode |-> IF m \in spare \cup superseded THEN "skipped"
                         ELSE IF m = n THEN "succeeded"
                         ELSE IF m \in late THEN "pending" ELSE phase[m]]
          /\ outputs' = [m \in DOMAIN outputs \cup {n} |->
                           IF m = n THEN [succeeded |-> TRUE, took |-> k] ELSE outputs[m]]
          /\ sinkTasks' = sinkTasks \cup
                 ({[Event("node_completed", n, n) EXCEPT !.took = k]}
                   \cup {Event("node_skipped", m, n) : m \in spare \cup superseded}
                   \cup {Event("dynamic_node_added", m, n) : m \in late})
      BY <1>4, <2>1, <2>2, <2>3 DEF EndsWell, Emit
    <2>5. /\ DOMAIN outputs' = DOMAIN outputs \cup {n} /\ outputs'[n].succeeded
          /\ outputs'[n].took = k /\ \A m \in DOMAIN outputs : outputs'[m] = outputs[m]
      BY <1>2, <2>4
    <2>6. spare \subseteq TraceNode /\ spare \subseteq FallbackOf(n) /\ superseded \subseteq TraceNode
          /\ late \subseteq TraceNode /\ k \in Int
      BY <1>2, <2>1, <2>2, <2>3, FallbackIs
    <2>7. \A m \in TraceNode :
            phase'[m] = IF m \in spare \cup superseded THEN "skipped"
                        ELSE IF m = n THEN "succeeded"
                        ELSE IF m \in late THEN "pending" ELSE phase[m]
      BY <2>4
    <2>8. phase' \in [TraceNode -> Phases]
      BY <1>2, <2>4 DEF Phases, Over
    <2>9. \A m \in late : phase[m] = "absent" /\ beganAt[m] = None
      BY <2>2 DEF TraceInv, Timed
    <2>10. Onward
      BY <1>1, <1>2, <2>5, <2>7, <2>9 DEF Onward
    <2>11. ResultsTyped'
      BY <1>2, <2>5, <2>6 DEF TraceInv, ResultsTyped
    <2>12. Timed'
      <3>1. \A m \in TraceNode : phase'[m] \in {"absent", "pending"} => beganAt[m] = None
        BY <2>7, <2>9 DEF TraceInv, Timed
      <3>2. \A m \in DOMAIN outputs' : m \in TraceNode => beganAt[m] # None
        BY <1>2, <2>5 DEF TraceInv, Timed
      <3> QED
        BY <1>1, <1>2, <3>1, <3>2 DEF Timed
    <2>13. \A m \in spare \cup superseded : SkipTrue(m)'
      <3>1. ASSUME NEW m \in spare \cup superseded, beganAt[m] = None PROVE SkipTrue(m)'
        BY <1>1, <2>6, <2>7, <3>1 DEF SkipTrue
      <3>2. ASSUME NEW m \in spare \cup superseded, beganAt[m] # None PROVE Disowned(m)'
        <4>1. m \in spare
          BY <3>2 DEF TraceInv, Timed
        <4>2. m \in FallbackOf(n) /\ (m \in FallbackOf(n))'
          BY <1>1, <2>6, <4>1 DEF FallbackOf
        <4> QED
          BY <1>1, <2>5, <3>2, <4>2 DEF Disowned
      <3> QED
        BY <3>1, <3>2 DEF SkipTrue
    <2>14. ASSUME NEW e \in sinkTasks' \ sinkTasks PROVE Told(e)'
      <3>1. CASE e = [Event("node_completed", n, n) EXCEPT !.took = k]
        <4>1. e \in TraceEvent /\ e.action = "node_completed" /\ e.node = n
          BY <2>6, <3>1 DEF Event, EventKinds, TraceEvent, None
        <4> QED
          BY <1>1, <2>5, <4>1, ToldNext
      <3>2. CASE \E m \in spare \cup superseded : e = Event("node_skipped", m, n)
        <4>1. PICK m \in spare \cup superseded : e = Event("node_skipped", m, n)
          BY <3>2
        <4>2. e \in TraceEvent /\ e.action = "node_skipped" /\ e.node = m /\ m \in TraceNode
          BY <2>6, <4>1, EventTold DEF EventKinds
        <4> QED
          BY <1>1, <2>13, <4>2, ToldNext
      <3>3. CASE \E m \in late : e = Event("dynamic_node_added", m, n)
        <4>1. PICK m \in late : e = Event("dynamic_node_added", m, n)
          BY <3>3
        <4>2. e \in TraceEvent /\ e.action = "dynamic_node_added" /\ e.node = m /\ m \in TraceNode
          BY <2>6, <4>1, EventTold DEF EventKinds
        <4> QED
          BY <1>1, <4>2, ToldNext
      <3> QED
        BY <2>4, <2>14, <3>1, <3>2, <3>3
    <2> QED
      BY <1>1, <1>2, <2>8, <2>10, <2>11, <2>12, <2>14, StageMoves
  <1> QED
    BY <1>3, <1>4 DEF Join

(* Nodes that wait are skipped on nobody's account.                        *)
LEMMA SkipsKeep ==
  ASSUME TraceInv, stageEnd = "open", NEW S \in SUBSET TraceNode,
         \A m \in S : phase[m] = "pending",
         phase' = [m \in TraceNode |-> IF m \in S THEN "skipped" ELSE phase[m]],
         UNCHANGED <<graphDeps, clock, beganAt, outputs, log, lostRows, record, stageEnd>>,
         \A e \in sinkTasks' \ sinkTasks : \E m \in S : e = Event("node_skipped", m, m)
  PROVE  TraceInv'
  <1>1. /\ phase \in [TraceNode -> Phases] /\ TraceNode' = TraceNode
        /\ \A m \in S : beganAt[m] = None
        /\ \A m \in TraceNode : phase'[m] = IF m \in S THEN "skipped" ELSE phase[m]
    BY DEF TraceInv, Timed, TraceNode
  <1>2. phase' \in [TraceNode -> Phases] /\ beganAt' \in [TraceNode -> Int]
    BY <1>1 DEF Phases, Over, TraceInv
  <1>3. Onward
    BY <1>1 DEF Onward
  <1>4. ResultsTyped' /\ Timed'
    BY <1>1 DEF TraceInv, ResultsTyped, Timed
  <1>5. ASSUME NEW e \in sinkTasks' \ sinkTasks PROVE Told(e)'
    <2>1. PICK m \in S : e = Event("node_skipped", m, m)
      BY <1>5
    <2>2. e \in TraceEvent /\ e.action = "node_skipped" /\ e.node = m /\ m \in TraceNode
      BY <2>1, EventTold DEF EventKinds
    <2>3. SkipTrue(m)'
      BY <1>1, <2>2 DEF SkipTrue
    <2> QED
      BY <2>2, <2>3, ToldNext
  <1> QED
    BY <1>2, <1>3, <1>4, <1>5, StageMoves

LEMMA TraceInvStep == TraceInv /\ [ViewsNext]_viewsVars => TraceInv'
  <1> SUFFICES ASSUME TraceInv, [ViewsNext]_viewsVars PROVE TraceInv'
    OBVIOUS
  <1>1. ASSUME NEW n \in TraceNode, Begin(n) \/ Join(n) PROVE TraceInv'
    BY <1>1, BeginKeeps, JoinKeeps
  <1>2. ASSUME NEW n \in TraceNode, Skip(n) PROVE TraceInv'
    <2>1. /\ stageEnd = "open" /\ phase[n] = "pending"
          /\ UNCHANGED <<graphDeps, clock, beganAt, outputs, log, lostRows, record, stageEnd>>
          /\ phase' = [phase EXCEPT ![n] = "skipped"]
          /\ \A e \in sinkTasks' \ sinkTasks : e = Event("node_skipped", n, n)
      BY <1>2 DEF Skip, Emit
    <2>2. phase' = [m \in TraceNode |-> IF m \in {n} THEN "skipped" ELSE phase[m]]
      BY <2>1 DEF TraceInv
    <2> QED
      BY <2>1, <2>2, SkipsKeep
  <1>3. CASE CancelSkips
    <2>1. PICK rest : rest = {n \in TraceNode : phase[n] = "pending"}
      OBVIOUS
    <2>2. /\ stageEnd = "open"
          /\ UNCHANGED <<graphDeps, clock, beganAt, outputs, log, lostRows, record, stageEnd>>
          /\ phase' = [n \in TraceNode |-> IF n \in rest THEN "skipped" ELSE phase[n]]
          /\ \A e \in sinkTasks' \ sinkTasks : \E m \in rest : e = Event("node_skipped", m, m)
      BY <1>3, <2>1 DEF CancelSkips, Emit
    <2> QED
      BY <2>1, <2>2, SkipsKeep
  <1>4. ASSUME NEW e \in sinkTasks, Insert(e) PROVE TraceInv'
    <2>1. /\ UNCHANGED <<graphDeps, phase, clock, beganAt, outputs, record, stageEnd>>
          /\ sinkTasks' \subseteq sinkTasks
      BY <1>4 DEF Insert
    <2>2. Onward /\ TraceNode' = TraceNode /\ TraceEvent' = TraceEvent
      BY <2>1 DEF Onward, TraceNode, TraceEvent
    <2>3. PICK x : x = [e EXCEPT !.at = clock]
      OBVIOUS
    <2>4. e \in TraceEvent /\ Told(e) /\ clock \in Int
      BY DEF TraceInv, Told
    <2>5. x = [action |-> e.action, node |-> e.node, by |-> e.by, at |-> clock, took |-> e.took]
      BY <2>3, <2>4 DEF TraceEvent
    <2>6. Told(x) /\ x \in TraceEvent
      BY <2>4, <2>5 DEF Told, TraceEvent
    <2>7. log' = log \/ log' = Append(log, x)
      BY <1>4, <2>3 DEF Insert
    <2>8. log \in Seq(TraceEvent) /\ \A i \in 1..Len(log) : Told(log[i])
      BY DEF TraceInv
    <2>9. log' \in Seq(TraceEvent)
      BY <2>6, <2>7, <2>8
    <2>10. \A i \in 1..Len(log') : \E y : y = log'[i] /\ Told(y)
      <3>1. CASE log' = log
        BY <2>8, <3>1
      <3>2. CASE log' = Append(log, x)
        BY <2>6, <2>8, <3>2
      <3> QED
        BY <2>7, <3>1, <3>2
    <2>11. ASSUME NEW i \in 1..Len(log') PROVE Told(log[i])'
      <3>1. PICK y : y = log'[i] /\ Told(y)
        BY <2>10
      <3>2. Told(y)'
        BY <2>2, <3>1, ToldStays
      <3> QED
        BY <3>1, <3>2 DEF Told
    <2>12. RecordTrue' /\ ResultsTyped' /\ Timed'
      BY <2>1 DEF TraceInv, RecordTrue, ResultsTyped, Timed, TraceNode, RunningNodes
    <2>13. ASSUME NEW d \in sinkTasks' PROVE Told(d)'
      BY <2>1, <2>2, ToldStays DEF TraceInv
    <2>14. /\ phase' \in [TraceNode' -> Phases'] /\ clock' \in Nat
           /\ beganAt' \in [TraceNode' -> Int] /\ graphDeps' \in TraceDeps
      BY <2>1, <2>2 DEF TraceInv, Phases
    <2> QED
      BY <2>2, <2>9, <2>11, <2>12, <2>13, <2>14 DEF TraceInv
  <1>5. CASE StageReturns \/ StageBreaks \/ Tick \/ UNCHANGED viewsVars
    <2>1. /\ UNCHANGED <<graphDeps, phase, beganAt, outputs, sinkTasks, log>>
          /\ \/ stageEnd' = stageEnd /\ record' = record
             \/ stageEnd = "open" /\ stageEnd' = "aborted" /\ record' = record
             \/ stageEnd' = "returned" /\ record' = outputs /\ RunningNodes = {}
      <3>1. CASE StageReturns
        BY <3>1 DEF StageReturns
      <3>2. CASE StageBreaks
        BY <3>2 DEF StageBreaks
      <3>3. CASE Tick
        BY <3>3 DEF Tick
      <3> QED
        BY <1>5, <3>1, <3>2, <3>3 DEF viewsVars
    <2>2. clock' \in Nat
      <3>1. clock \in Nat
        BY DEF TraceInv
      <3> QED
        BY <1>5, <3>1 DEF StageReturns, StageBreaks, Tick, viewsVars
    <2>3. Onward /\ TraceNode' = TraceNode /\ TraceEvent' = TraceEvent /\ RunningNodes' = RunningNodes
      BY <2>1 DEF Onward, TraceNode, TraceEvent, RunningNodes
    <2>4. RecordTrue'
      BY <2>1, <2>3 DEF TraceInv, RecordTrue
    <2>5. ResultsTyped' /\ Timed' /\ graphDeps' \in TraceDeps
          /\ phase' \in [TraceNode' -> Phases'] /\ beganAt' \in [TraceNode' -> Int]
      BY <2>1, <2>3 DEF TraceInv, ResultsTyped, Timed, Phases
    <2>6. ASSUME NEW d \in sinkTasks' PROVE Told(d)'
      BY <2>1, <2>3, ToldStays DEF TraceInv
    <2>7. ASSUME NEW i \in 1..Len(log') PROVE Told(log[i])'
      BY <2>1, <2>3, ToldStays DEF TraceInv
    <2>8. log' \in Seq(TraceEvent')
      BY <2>1, <2>3 DEF TraceInv
    <2> QED
      BY <2>2, <2>4, <2>5, <2>6, <2>7, <2>8 DEF TraceInv
  <1> QED
    BY <1>1, <1>2, <1>3, <1>4, <1>5 DEF ViewsNext

LEMMA TraceInvAlways == TraceSpec => []TraceInv
  BY TraceInvInit, TraceInvStep, PTL DEF TraceSpec

(* What a trace may say of a node.                                         *)
Row ==
  [status : {"pending", "running"} \cup Over,
   deps : {<< >>} \cup {graphDeps[n] : n \in TraceNode},
   started : Int, finished : Int, duration : Int, starts : Nat]

RowTrue(n, r) ==
  /\ r \in Row
  /\ r.status = "running" => beganAt[n] # None
  /\ r.status = "succeeded" => n \in DOMAIN outputs /\ outputs[n].succeeded
  /\ r.status = "failed" => n \in DOMAIN outputs /\ ~outputs[n].succeeded
  /\ r.status = "skipped" => SkipTrue(n)

TrueTraces ==
  {tr \in UNION {[S -> Row] : S \in SUBSET TraceNode} : \A n \in DOMAIN tr : RowTrue(n, tr[n])}

LEMMA TrueTraceIs ==
  ASSUME NEW S \in SUBSET TraceNode, NEW tr, tr = [n \in S |-> tr[n]],
         \A n \in S : RowTrue(n, tr[n])
  PROVE  tr \in TrueTraces
  <1>1. tr \in [S -> Row] /\ DOMAIN tr = S
    BY DEF RowTrue
  <1> QED
    BY <1>1 DEF TrueTraces

LEMMA TrueTraceHas ==
  ASSUME NEW tr \in TrueTraces
  PROVE  DOMAIN tr \subseteq TraceNode /\ \A n \in DOMAIN tr : RowTrue(n, tr[n])
  BY DEF TrueTraces

LEMMA BlankIs ==
  ASSUME NEW s \in {"pending", "running"} \cup Over
  PROVE  BlankNode(s) \in Row /\ BlankNode(s).status = s
  BY DEF BlankNode, Row, None

LEMMA EntryIs ==
  ASSUME NEW tr \in TrueTraces, NEW n, NEW s \in {"pending", "running"} \cup Over
  PROVE  /\ NodeEntry(tr, n, s) \in Row
         /\ (s = "pending" \/ RowTrue(n, BlankNode(s))) => RowTrue(n, NodeEntry(tr, n, s))
  <1>1. CASE n \in DOMAIN tr
    <2>1. RowTrue(n, tr[n])
      BY <1>1, TrueTraceHas
    <2> QED
      BY <1>1, <2>1 DEF NodeEntry, RowTrue
  <1>2. CASE n \notin DOMAIN tr
    BY <1>2, BlankIs DEF NodeEntry, RowTrue, Over
  <1> QED
    BY <1>1, <1>2

LEMMA DepsIs ==
  ASSUME NEW n \in TraceNode, NEW r, RowTrue(n, r)
  PROVE  RowTrue(n, WithDeps(r, n))
  <1>1. r.deps # << >> => WithDeps(r, n) = r
    BY DEF WithDeps
  <1>2. r.deps = << >> => WithDeps(r, n) = [r EXCEPT !.deps = graphDeps[n]]
    BY DEF WithDeps
  <1>3. [r EXCEPT !.deps = graphDeps[n]] \in Row
    BY DEF RowTrue, Row
  <1>4. [r EXCEPT !.deps = graphDeps[n]].status = r.status
    BY DEF RowTrue, Row
  <1> QED
    BY <1>1, <1>2, <1>3, <1>4 DEF RowTrue

LEMMA WithEntryTrue ==
  ASSUME NEW tr \in TrueTraces, NEW n \in TraceNode, NEW r, RowTrue(n, r)
  PROVE  WithEntry(tr, n, r) \in TrueTraces
  <1> DEFINE S == DOMAIN tr \cup {n}
             w == [m \in S |-> IF m = n THEN r ELSE tr[m]]
  <1>1. S \in SUBSET TraceNode /\ \A m \in S : RowTrue(m, w[m])
    BY TrueTraceHas
  <1>2. w = [m \in S |-> w[m]]
    OBVIOUS
  <1> HIDE DEF w, S
  <1>3. w \in TrueTraces
    BY <1>1, <1>2, TrueTraceIs
  <1> QED
    BY <1>3 DEF WithEntry, w, S

LEMMA OrIs == ASSUME NEW a \in Int, NEW b \in Int PROVE Or(a, b) \in Int
  BY DEF Or

LEMMA StepTrue ==
  ASSUME NEW tr \in TrueTraces, NEW e, Told(e), e.action # "mention_received"
  PROVE  TraceStep(tr, e) \in TrueTraces
  <1> DEFINE n == e.node
  <1>0. e \in TraceEvent /\ e.action \in EventKinds /\ e.at \in Int /\ e.took \in Int
    BY DEF Told, TraceEvent
  <1>1. CASE e.action = "graph_initialized"
    <2> DEFINE N == TraceNode \ LateNode
               S == DOMAIN tr \cup N
               w == [m \in S |-> IF m \in N THEN WithDeps(NodeEntry(tr, m, "pending"), m) ELSE tr[m]]
    <2>1. \A m : RowTrue(m, NodeEntry(tr, m, "pending"))
      BY EntryIs
    <2>2. S \in SUBSET TraceNode /\ \A m \in S : RowTrue(m, w[m])
      BY <2>1, DepsIs, TrueTraceHas
    <2>3. w = [m \in S |-> w[m]]
      OBVIOUS
    <2>4. TraceStep(tr, e) = w
      BY <1>1 DEF TraceStep, WithGraph
    <2> HIDE DEF w, S
    <2> QED
      BY <2>2, <2>3, <2>4, TrueTraceIs
  <1>2. CASE e.action = "node_started"
    <2>1. PICK r : r = NodeEntry(tr, n, "running")
      OBVIOUS
    <2>2. r \in Row
      BY <2>1, EntryIs
    <2>3. PICK q : q = [r EXCEPT !.started = Or(@, e.at), !.status = "running",
                                 !.starts = @ + 1]
      OBVIOUS
    <2>4. q = [status |-> "running", deps |-> r.deps, started |-> Or(r.started, e.at),
               finished |-> r.finished, duration |-> r.duration, starts |-> r.starts + 1]
      BY <2>2, <2>3 DEF Row
    <2>5. Or(r.started, e.at) \in Int /\ r.starts + 1 \in Nat
      <3>1. r.started \in Int /\ r.starts \in Nat
        BY <2>2 DEF Row
      <3>2. r.starts + 1 \in Nat
        BY <3>1
      <3>3. Or(r.started, e.at) \in Int
        BY <1>0, <3>1, OrIs
      <3> QED
        BY <3>2, <3>3
    <2>6. RowTrue(n, q)
      BY <1>2, <2>2, <2>4, <2>5 DEF RowTrue, Row, Told, Over
    <2>7. TraceStep(tr, e) = WithEntry(tr, n, q)
      BY <1>2, <2>1, <2>3 DEF TraceStep, NodeStarted
    <2> QED
      BY <1>2, <2>6, <2>7, WithEntryTrue DEF Told
  <1>3. CASE e.action = "node_completed"
    <2>1. PICK r : r = NodeEntry(tr, n, "succeeded")
      OBVIOUS
    <2>2. r \in Row
      BY <2>1, EntryIs DEF Over
    <2>3. PICK q : q = [r EXCEPT !.status = "succeeded", !.finished = e.at,
                                 !.duration = Or(@, e.took)]
      OBVIOUS
    <2>4. q = [status |-> "succeeded", deps |-> r.deps, started |-> r.started,
               finished |-> e.at, duration |-> Or(r.duration, e.took), starts |-> r.starts]
      BY <2>2, <2>3 DEF Row
    <2>5. Or(r.duration, e.took) \in Int
      BY <1>0, <2>2, OrIs DEF Row
    <2>6. RowTrue(n, q)
      BY <1>0, <1>3, <2>2, <2>4, <2>5 DEF RowTrue, Row, Told, Over
    <2>7. TraceStep(tr, e) = WithEntry(tr, n, q)
      BY <1>3, <2>1, <2>3 DEF TraceStep, NodeCompleted
    <2> QED
      BY <1>3, <2>6, <2>7, WithEntryTrue DEF Told
  <1>4. CASE e.action = "node_failed"
    <2>1. PICK r : r = NodeEntry(tr, n, "failed")
      OBVIOUS
    <2>2. r \in Row
      BY <2>1, EntryIs DEF Over
    <2>3. PICK q : q = [r EXCEPT !.status = "failed", !.finished = e.at]
      OBVIOUS
    <2>4. q = [status |-> "failed", deps |-> r.deps, started |-> r.started,
               finished |-> e.at, duration |-> r.duration, starts |-> r.starts]
      BY <2>2, <2>3 DEF Row
    <2>6. RowTrue(n, q)
      BY <1>0, <1>4, <2>2, <2>4 DEF RowTrue, Row, Told, Over
    <2>7. TraceStep(tr, e) = WithEntry(tr, n, q)
      BY <1>4, <2>1, <2>3 DEF TraceStep, NodeFailed
    <2> QED
      BY <1>4, <2>6, <2>7, WithEntryTrue DEF Told
  <1>5. CASE e.action = "node_skipped"
    <2>1. PICK r : r = NodeEntry(tr, n, "skipped")
      OBVIOUS
    <2>2. r \in Row
      BY <2>1, EntryIs DEF Over
    <2>3. PICK q : q = [r EXCEPT !.status = "skipped", !.finished = e.at]
      OBVIOUS
    <2>4. q = [status |-> "skipped", deps |-> r.deps, started |-> r.started,
               finished |-> e.at, duration |-> r.duration, starts |-> r.starts]
      BY <2>2, <2>3 DEF Row
    <2>6. RowTrue(n, q)
      BY <1>0, <1>5, <2>2, <2>4 DEF RowTrue, Row, Told, Over
    <2>7. TraceStep(tr, e) = WithEntry(tr, n, q)
      BY <1>5, <2>1, <2>3 DEF TraceStep, NodeSkipped
    <2> QED
      BY <1>5, <2>6, <2>7, WithEntryTrue DEF Told
  <1>6. CASE e.action = "dynamic_node_added"
    <2>1. n \in TraceNode
      BY <1>6 DEF Told
    <2>2. RowTrue(n, NodeEntry(tr, n, "pending"))
      BY EntryIs
    <2>3. RowTrue(n, WithDeps(NodeEntry(tr, n, "pending"), n))
      BY <2>1, <2>2, DepsIs
    <2>4. TraceStep(tr, e) = WithEntry(tr, n, WithDeps(NodeEntry(tr, n, "pending"), n))
      BY <1>6 DEF TraceStep, DynamicNodeAdded
    <2> QED
      BY <2>1, <2>3, <2>4, WithEntryTrue
  <1> QED
    BY <1>0, <1>1, <1>2, <1>3, <1>4, <1>5, <1>6 DEF EventKinds

(* The run's record has results of the stage, and in the end all of them.  *)
LEMMA RecordIs ==
  ASSUME TraceInv
  PROVE  /\ DOMAIN record \subseteq TraceNode
         /\ stageEnd = "returned" => record = outputs
         /\ \A n \in DOMAIN record :
              /\ n \in DOMAIN outputs /\ record[n] = outputs[n]
              /\ beganAt[n] # None /\ record[n].took \in Int
  <1>1. CASE stageEnd # "returned"
    <2>1. DOMAIN record = {}
      BY <1>1 DEF TraceInv, RecordTrue
    <2> QED
      BY <1>1, <2>1
  <1>2. CASE stageEnd = "returned"
    BY <1>2 DEF TraceInv, RecordTrue, ResultsTyped, Timed
  <1> QED
    BY <1>1, <1>2

(* The verdict of a result is true of its node.                            *)
LEMMA VerdictTrue ==
  ASSUME TraceInv, NEW n \in DOMAIN record, NEW r \in Row, r.status = Verdict(record[n])
  PROVE  RowTrue(n, r)
  <1>1. n \in DOMAIN outputs /\ record[n] = outputs[n]
    BY RecordIs
  <1> QED
    BY <1>1 DEF RowTrue, Verdict

LEMMA OutputsTrue == ASSUME TraceInv PROVE FromOutputs \in TrueTraces
  <1>1. ASSUME NEW n \in DOMAIN record
        PROVE  RowTrue(n, [BlankNode(Verdict(record[n])) EXCEPT !.duration = record[n].took])
    <2>1. PICK v : v = Verdict(record[n])
      OBVIOUS
    <2>2. v \in {"succeeded", "failed"} /\ record[n].took \in Int
      BY <1>1, <2>1, RecordIs DEF Verdict
    <2>3. PICK r : r = [BlankNode(v) EXCEPT !.duration = record[n].took]
      OBVIOUS
    <2>4. r = [status |-> v, deps |-> << >>, started |-> None, finished |-> None,
               duration |-> record[n].took, starts |-> 0]
      BY <2>3 DEF BlankNode
    <2>5. r \in Row /\ r.status = v
      BY <2>2, <2>4 DEF Row, Over, None
    <2> QED
      BY <1>1, <2>1, <2>3, <2>5, VerdictTrue
  <1>2. FromOutputs = [n \in DOMAIN record |-> FromOutputs[n]]
    BY DEF FromOutputs
  <1>3. \A n \in DOMAIN record : RowTrue(n, FromOutputs[n])
    BY <1>1 DEF FromOutputs
  <1> QED
    BY <1>2, <1>3, RecordIs, TrueTraceIs

LEMMA EventsReadIs ==
  ASSUME TraceInv, NEW limit \in 0..Len(log), Answered(limit)
  PROVE  /\ Len(EventsRead(limit)) = limit
         /\ \A i \in 1..limit :
              Told(EventsRead(limit)[i]) /\ EventsRead(limit)[i].action # "mention_received"
  <1>1. log \in Seq(TraceEvent) /\ \A i \in 1..Len(log) : Told(log[i])
    BY DEF TraceInv
  <1>2. Min({limit, Len(log)}) = limit
    BY <1>1 DEF Min
  <1>3. EventsRead(limit) = SubSeq(log, 1, limit)
    BY <1>2 DEF EventsRead
  <1>4. Len(SubSeq(log, 1, limit)) = limit
        /\ \A i \in 1..limit : SubSeq(log, 1, limit)[i] = log[i]
    BY <1>1
  <1>5. \A i \in 1..limit : log[i].action # "mention_received"
    BY <1>2 DEF Answered
  <1> QED
    BY <1>1, <1>3, <1>4, <1>5

(* What build_trace_graph holds after all the events is true.              *)
LEMMA TraceIs ==
  ASSUME TraceInv, NEW limit \in 0..Len(log), Answered(limit)
  PROVE  \E tr \in TrueTraces : Trace(limit) = WithOutputs(tr)
  <1> DEFINE N == Len(EventsRead(limit))
             ev(i) == EventsRead(limit)[i]
             Eq(h) == h = [i \in 0..N |-> IF i = 0 THEN FromOutputs ELSE TraceStep(h[i - 1], ev(i))]
             next == [i \in 1..N |-> [d \in TrueTraces |-> TraceStep(d, ev(i))]]
  <1>1. N \in Nat /\ \A i \in 1..N : Told(ev(i)) /\ ev(i).action # "mention_received"
    <2>1. N = limit /\ \A i \in 1..limit : Told(ev(i)) /\ ev(i).action # "mention_received"
      BY EventsReadIs
    <2>2. Len(log) \in Nat
      BY DEF TraceInv
    <2> HIDE DEF N, ev
    <2> QED
      BY <2>1, <2>2
  <1>2. \A i \in 1..N, d \in TrueTraces : TraceStep(d, ev(i)) \in TrueTraces
    BY <1>1, StepTrue
  <1>3. Trace(limit) = WithOutputs((CHOOSE h : Eq(h))[N])
    BY DEF Trace
  <1> HIDE DEF N, ev
  <1>4. next \in [1..N -> [TrueTraces -> TrueTraces]]
    BY <1>2
  <1>5. \A i \in 1..N, d \in TrueTraces : next[i][d] = TraceStep(d, ev(i))
    OBVIOUS
  <1> HIDE DEF next
  <1>6. FromOutputs \in TrueTraces
    BY OutputsTrue
  <1>7. PICK h : IsTable(h, N, TrueTraces, FromOutputs, next)
    BY <1>1, <1>4, <1>6, TableExists
  <1>8. Eq(h)
    <2>1. \A i \in 0..N : h[i] = IF i = 0 THEN FromOutputs ELSE TraceStep(h[i - 1], ev(i))
      <3> SUFFICES ASSUME NEW i \in 0..N, i # 0 PROVE h[i] = TraceStep(h[i - 1], ev(i))
        BY <1>7 DEF IsTable
      <3>1. i \in 1..N /\ i - 1 \in 0..N
        BY <1>1
      <3>2. h[i - 1] \in TrueTraces
        BY <1>7, <3>1 DEF IsTable
      <3>3. h[i] = next[i][h[i - 1]]
        BY <1>7, <3>1 DEF IsTable
      <3> QED
        BY <1>5, <3>1, <3>2, <3>3
    <2> QED
      BY <1>7, <2>1 DEF IsTable
  <1> DEFINE s == CHOOSE k : Eq(k)
  <1>9. Eq(s)
    BY <1>8
  <1> HIDE DEF s
  <1>10. s[0] = FromOutputs /\ \A i \in 1..N : s[i] = TraceStep(s[i - 1], ev(i))
    BY <1>1, <1>9
  <1> HIDE DEF Eq
  <1>11. s[N] \in TrueTraces
    <2> DEFINE W == {i \in 0..N : s[i] \in TrueTraces}
    <2>1. 0 \in W
      BY <1>1, <1>6, <1>10
    <2>2. ASSUME NEW i \in 1..N, i - 1 \in W PROVE i \in W
      BY <1>1, <1>2, <1>10, <2>2
    <2>3. \A i \in 1..N : i - 1 \in W => i \in W
      BY <2>2
    <2> HIDE DEF W
    <2>4. \A i \in 0..N : i \in W
      BY <1>1, <2>1, <2>3, IntervalInduction
    <2> QED
      BY <1>1, <2>4 DEF W
  <1> QED
    BY <1>3, <1>11 DEF s

(* The results do not take back that a node was skipped, which is said of   *)
(* one that has a result only when it is disowned.                          *)
LEMMA OutputsTell ==
  ASSUME TraceInv, NEW tr \in TrueTraces, NEW n \in DOMAIN WithOutputs(tr)
  PROVE  /\ n \in TraceNode
         /\ n \in DOMAIN record =>
              \/ WithOutputs(tr)[n].status = Verdict(outputs[n])
              \/ WithOutputs(tr)[n].status = "skipped" /\ Disowned(n)
         /\ n \notin DOMAIN record => n \in DOMAIN tr /\ WithOutputs(tr)[n] = tr[n]
  <1>1. n \in DOMAIN tr \cup DOMAIN record
    BY DEF WithOutputs
  <1>2. n \in TraceNode
    BY <1>1, RecordIs, TrueTraceHas
  <1>3. ASSUME n \in DOMAIN record
        PROVE  \/ WithOutputs(tr)[n].status = Verdict(outputs[n])
               \/ WithOutputs(tr)[n].status = "skipped" /\ Disowned(n)
    <2>1. n \in DOMAIN outputs /\ record[n] = outputs[n] /\ beganAt[n] # None
      BY <1>3, RecordIs
    <2>2. PICK v : v = Verdict(record[n])
      OBVIOUS
    <2>3. v \in {"succeeded", "failed"} /\ v = Verdict(outputs[n])
      BY <2>1, <2>2 DEF Verdict
    <2>4. PICK r : r = NodeEntry(tr, n, v)
      OBVIOUS
    <2>5. BlankNode(v) \in Row /\ BlankNode(v).status = v
      BY <2>3, BlankIs DEF Over
    <2>6. RowTrue(n, BlankNode(v))
      BY <1>3, <2>2, <2>5, VerdictTrue
    <2>7. RowTrue(n, r)
      BY <2>3, <2>4, <2>6, EntryIs DEF Over
    <2>8. WithOutputs(tr)[n] =
            [r EXCEPT !.duration = record[n].took,
               !.status = IF record[n].succeeded /\ @ \notin {"pending", "running"} THEN @
                          ELSE v]
      BY <1>1, <1>3, <2>2, <2>4 DEF WithOutputs
    <2>9. WithOutputs(tr)[n].status =
            IF record[n].succeeded /\ r.status \notin {"pending", "running"} THEN r.status
            ELSE v
      BY <2>7, <2>8 DEF RowTrue, Row
    <2>10. CASE record[n].succeeded /\ r.status \notin {"pending", "running"}
      <3>1. r.status \in Over /\ v = "succeeded" /\ outputs[n].succeeded
        BY <2>1, <2>2, <2>7, <2>10 DEF RowTrue, Row, Verdict
      <3>2. r.status = "skipped" => Disowned(n)
        BY <2>1, <2>7 DEF RowTrue, SkipTrue
      <3>3. r.status # "failed"
        BY <2>7, <3>1 DEF RowTrue
      <3> QED
        BY <2>3, <2>9, <2>10, <3>1, <3>2, <3>3 DEF Over
    <2>11. CASE ~(record[n].succeeded /\ r.status \notin {"pending", "running"})
      BY <2>3, <2>9, <2>11
    <2> QED
      BY <2>10, <2>11
  <1>4. n \notin DOMAIN record => n \in DOMAIN tr /\ WithOutputs(tr)[n] = tr[n]
    BY <1>1 DEF WithOutputs
  <1> QED
    BY <1>2, <1>3, <1>4

(* What is true of a node is its fate, or that it is disowned.             *)
LEMMA TrueIsRight ==
  ASSUME TraceInv, NEW n \in TraceNode, NEW r, RowTrue(n, r), r.status \in Over
  PROVE  r.status = Fate(n) \/ (r.status = "skipped" /\ Disowned(n))
  <1>1. CASE r.status = "skipped"
    <2>1. SkipTrue(n)
      BY <1>1 DEF RowTrue
    <2>2. beganAt[n] = None => n \notin DOMAIN outputs
      BY DEF TraceInv, Timed
    <2> QED
      BY <1>1, <2>1, <2>2 DEF SkipTrue, Fate
  <1>2. CASE r.status \in {"succeeded", "failed"}
    BY <1>2 DEF RowTrue, Fate, Verdict
  <1> QED
    BY <1>1, <1>2 DEF Over

(* However the events were ordered, delayed or lost, and however few of     *)
(* them are read, a trace gives no node an outcome it did not have, unless  *)
(* the node is a disowned fallback; and the trace of a run that ended gives *)
(* every node with a result an outcome, and shows none at work.             *)
THEOREM TraceTellsOutcomeHolds == TraceSpec => []TraceTellsOutcome
  <1>1. ASSUME TraceInv PROVE TraceTellsOutcome
    <2> DEFINE right(w, n) == \/ w[n].status = Fate(n)
                              \/ w[n].status = "skipped" /\ Disowned(n)
    <2> SUFFICES ASSUME NEW limit \in 0..Len(log), Answered(limit)
                 PROVE
                   /\ \A n \in DOMAIN Trace(limit) :
                        Trace(limit)[n].status \in Over => right(Trace(limit), n)
                   /\ stageEnd = "returned" =>
                        /\ ActiveNodes(Trace(limit)) = {}
                        /\ \A n \in DOMAIN outputs :
                             /\ n \in DOMAIN Trace(limit) /\ Trace(limit)[n].status \in Over
                             /\ right(Trace(limit), n)
      BY DEF TraceTellsOutcome
    <2>1. PICK tr \in TrueTraces : Trace(limit) = WithOutputs(tr)
      BY <1>1, TraceIs
    <2>2. PICK w : w = WithOutputs(tr)
      OBVIOUS
    <2>3. ASSUME NEW n \in DOMAIN w
          PROVE  /\ n \in TraceNode
                 /\ n \in DOMAIN record =>
                      \/ w[n].status = Verdict(outputs[n])
                      \/ w[n].status = "skipped" /\ Disowned(n)
                 /\ n \notin DOMAIN record => RowTrue(n, w[n])
      BY <1>1, <2>2, <2>3, OutputsTell, TrueTraceHas
    <2>4. ASSUME NEW n \in DOMAIN w, n \in DOMAIN record
          PROVE  right(w, n) /\ w[n].status \in Over
      <3>1. n \in DOMAIN outputs
        BY <1>1, <2>4, RecordIs
      <3>2. Fate(n) = Verdict(outputs[n]) /\ Verdict(outputs[n]) \in Over
        BY <3>1 DEF Fate, Verdict, Over
      <3> QED
        BY <2>3, <2>4, <3>2 DEF Over
    <2>5. ASSUME NEW n \in DOMAIN w, w[n].status \in Over PROVE right(w, n)
      BY <1>1, <2>3, <2>4, <2>5, TrueIsRight
    <2>6. ASSUME stageEnd = "returned" PROVE ActiveNodes(w) = {}
      <3> SUFFICES ASSUME NEW n \in DOMAIN w, w[n].status = "running" PROVE FALSE
        BY DEF ActiveNodes
      <3>1. n \notin DOMAIN record
        BY <2>4 DEF Over
      <3>2. n \in TraceNode /\ beganAt[n] # None
        BY <2>3, <3>1 DEF RowTrue
      <3>3. RunningNodes = {} /\ record = outputs
        BY <1>1, <2>6 DEF TraceInv, RecordTrue
      <3> QED
        BY <3>1, <3>2, <3>3 DEF RunningNodes
    <2>7. ASSUME stageEnd = "returned", NEW n \in DOMAIN outputs
          PROVE  n \in DOMAIN w /\ w[n].status \in Over /\ right(w, n)
      <3>1. n \in DOMAIN record
        BY <1>1, <2>7, RecordIs
      <3>2. n \in DOMAIN w
        BY <2>2, <3>1 DEF WithOutputs
      <3> QED
        BY <2>4, <3>1, <3>2
    <2> HIDE DEF right
    <2> QED
      BY <2>1, <2>2, <2>5, <2>6, <2>7
  <1> QED
    BY <1>1, TraceInvAlways, PTL
=============================================================================
