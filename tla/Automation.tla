----------------------------- MODULE Automation -----------------------------
(***************************************************************************)
(* Workflow templates and the schedules that run them (src/src/scheduler.rs *)
(* the workflow and schedule operations of orchestrator/mod.rs, their       *)
(* tables and handlers).  The scheduler reads the due schedules once a      *)
(* minute and works through what it has read, while requests go on editing  *)
(* the rows.                                                               *)
(*                                                                         *)
(* Time is counted in minutes.  A cron expression is the interval it fires  *)
(* at, or Past, one that has no next time.                                  *)
(***************************************************************************)
EXTENDS Integers, Sequences, SequencesExt, FiniteSets

CONSTANTS
  Interval,      \* intervals an expression may stand for
  MaxTime,       \* minutes
  MaxSchedules,  \* created in all
  MaxAutoEdits,  \* edits of templates and schedules, together
  MaxStoreErrors \* failed writes and crashes, together

ASSUME AutomationAssumption ==
  /\ Interval \subseteq Nat \ {0}
  /\ {MaxTime, MaxSchedules, MaxAutoEdits, MaxStoreErrors} \subseteq Nat

Past == 0             \* an expression whose times are all in the past
Null == -1            \* next_run_at IS NULL
Empty == -2           \* next_run_at = '', which is <= every time there is

VARIABLES
  time,
  templates,     \* the numbers of the workflow templates stored
  schedules,     \* number -> [cron, enabled, next]; a schedule runs template 1
  due,           \* the schedules the scheduler still has to run, as it read them
  ranNow,        \* the one it has just run, if any
  started,       \* history: [s, slot, cron] of the runs the scheduler started
  stuck,         \* queued runs that nobody executes
  autoSpent,     \* what of the bounds is used up
  overtaken      \* history: schedules edited while the scheduler had them, and
                 \* those it had when it crashed
automationVars == <<time, templates, schedules, due, ranNow, started, stuck,
                    autoSpent, overtaken>>
tickVars == <<due, ranNow>>
autoHist == <<started, stuck, overtaken>>

AutoSpend(what, most) == autoSpent[what] < most /\ autoSpent' = [autoSpent EXCEPT ![what] = @ + 1]
\* compute_next_run: the first time of the expression after t.
NextRun(cron, t) == IF cron = Past THEN Null ELSE (t \div cron + 1) * cron
Taken == {d.s : d \in ToSet(due) \cup ToSet(ranNow)}

-----------------------------------------------------------------------------
(* Templates                                                               *)

\* save_workflow from a request or from a finished run's graph, and delete.
SaveTemplate ==
  /\ AutoSpend("edits", MaxAutoEdits)
  /\ templates' = templates \cup {1}
  /\ UNCHANGED <<time, schedules, tickVars, autoHist>>
DeleteTemplate ==
  /\ AutoSpend("edits", MaxAutoEdits)
  /\ templates' = {}
  /\ UNCHANGED <<time, schedules, tickVars, autoHist>>

\* execute_workflow: without its template nothing happens; the queued run is in
\* the map before it is stored, and stays there when that fails.
ExecuteWorkflow(outcome) ==
  \/ /\ outcome = "missing" /\ templates = {}
     /\ UNCHANGED <<stuck, autoSpent>>
  \/ /\ outcome = "started" /\ templates # {}
     /\ UNCHANGED <<stuck, autoSpent>>
  \/ /\ outcome = "unstored" /\ templates # {}
     /\ AutoSpend("errors", MaxStoreErrors)
     /\ stuck' = stuck + 1

-----------------------------------------------------------------------------
(* Schedules                                                               *)

\* An expression that does not parse is refused; one without a next time is not.
CreateSchedule(cron, enabled) ==
  /\ Len(schedules) < MaxSchedules
  /\ schedules' = Append(schedules, [cron |-> cron, enabled |-> enabled, there |-> TRUE,
                                      next |-> NextRun(cron, time)])
  /\ UNCHANGED <<time, templates, tickVars, autoHist, autoSpent>>
\* Whoever edits a row the scheduler has in hand is overtaken by it.
Edited(s) ==
  /\ schedules[s].there
  /\ AutoSpend("edits", MaxAutoEdits)
  /\ overtaken' = IF s \in Taken THEN overtaken \cup {s} ELSE overtaken
  /\ UNCHANGED <<time, templates, tickVars, started, stuck>>

(* A wrong variant: the next time is still that of the old expression.     *)
UpdateCron_KeepsNext(s, cron) ==
  /\ schedules' = [schedules EXCEPT ![s].cron = cron]
  /\ Edited(s)

\* A new expression brings a new next time; none is stored as the empty string.
UpdateCron(s, cron) ==
  /\ schedules' = [schedules EXCEPT ![s].cron = cron,
       ![s].next = IF NextRun(cron, time) = Null THEN Empty ELSE NextRun(cron, time)]
  /\ Edited(s)
\* Turning a schedule on or off leaves the next time as it is.
UpdateEnabled(s, enabled) ==
  /\ schedules' = [schedules EXCEPT ![s].enabled = enabled]
  /\ Edited(s)
DeleteSchedule(s) ==
  /\ schedules' = [schedules EXCEPT ![s].there = FALSE]
  /\ Edited(s)

-----------------------------------------------------------------------------
(* CronScheduler::run_loop                                                 *)

IsDue(s) == /\ schedules[s].there /\ schedules[s].enabled
            /\ schedules[s].next # Null /\ schedules[s].next <= time
Entry(s) == [s |-> s, cron |-> schedules[s].cron, slot |-> schedules[s].next]
\* The due schedules in the order of their next times, equal ones in any order.
TickReads ==
  /\ due = << >> /\ ranNow = << >>
  /\ \E n \in 1..Len(schedules) : \E q \in [1..n -> {s \in DOMAIN schedules : IsDue(s)}] :
       /\ \A s \in DOMAIN schedules : IsDue(s) => \E i \in 1..n : q[i] = s
       /\ \A i, j \in 1..n : i < j =>
            q[i] # q[j] /\ schedules[q[i]].next <= schedules[q[j]].next
       /\ due' = [i \in 1..n |-> Entry(q[i])]
  /\ UNCHANGED <<time, templates, schedules, ranNow, autoHist, autoSpent>>
\* The workflow is run with what was read; an error is logged.
TickRuns(outcome) ==
  /\ due # << >> /\ ranNow = << >>
  /\ ExecuteWorkflow(outcome)
  /\ due' = Tail(due) /\ ranNow' = <<Head(due)>>
  /\ started' = IF outcome = "started" THEN Append(started, Head(due)) ELSE started
  /\ UNCHANGED <<time, templates, schedules, overtaken>>
\* update_schedule_last_run, from the expression that was read; it may fail.
TickAdvances(ok) ==
  /\ ranNow # << >>
  /\ LET r == ranNow[1]
     IN  /\ schedules' = IF ok THEN [schedules EXCEPT ![r.s].next = NextRun(r.cron, time)]
                         ELSE schedules
         /\ IF ok THEN UNCHANGED <<autoSpent, overtaken>>
            ELSE AutoSpend("errors", MaxStoreErrors) /\ overtaken' = overtaken \cup {r.s}
  /\ ranNow' = << >>
  /\ UNCHANGED <<time, templates, due, started, stuck>>
\* The process stops, perhaps between the run and the row; the next one starts over.
SchedulerCrash ==
  /\ Taken # {} /\ AutoSpend("errors", MaxStoreErrors)
  /\ due' = << >> /\ ranNow' = << >>
  /\ overtaken' = overtaken \cup Taken
  /\ stuck' = 0
  /\ UNCHANGED <<time, templates, schedules, started>>
MinutePasses ==
  /\ time < MaxTime
  /\ time' = time + 1
  /\ UNCHANGED <<templates, schedules, tickVars, autoHist, autoSpent>>

-----------------------------------------------------------------------------
AutomationInit ==
  /\ time = 0 /\ templates = {} /\ schedules = << >>
  /\ due = << >> /\ ranNow = << >>
  /\ started = << >> /\ stuck = 0 /\ overtaken = {}
  /\ autoSpent = [edits |-> 0, errors |-> 0]
AutomationNext ==
  \/ SaveTemplate \/ DeleteTemplate
  \/ \E cron \in Interval \cup {Past}, on \in BOOLEAN : CreateSchedule(cron, on)
  \/ \E s \in DOMAIN schedules :
       \/ \E cron \in Interval \cup {Past} : UpdateCron(s, cron)
       \/ \E on \in BOOLEAN : UpdateEnabled(s, on)
       \/ DeleteSchedule(s)
  \/ TickReads \/ (\E o \in {"missing", "started", "unstored"} : TickRuns(o))
  \/ (\E ok \in BOOLEAN : TickAdvances(ok)) \/ SchedulerCrash \/ MinutePasses
AutomationSpec == AutomationInit /\ [][AutomationNext]_automationVars

-----------------------------------------------------------------------------
FiresAt(cron, t) == cron # Past /\ t > 0 /\ t % cron = 0
(* Schedules keep their expression: the next time of a schedule is one of   *)
(* its expression's, or none if that has none; a run is started for each of *)
(* these times at most once, except for the one run of an expression edited *)
(* into one without a next time.  Exempt are schedules that were edited     *)
(* while the scheduler had them in hand, whose next time it overwrites, and *)
(* those it ran before an error or a crash (scheduler.rs:30-71).            *)
ScheduleKept ==
  /\ \A s \in DOMAIN schedules \ overtaken :
       LET x == schedules[s]
       IN  IF x.cron = Past THEN x.next \in {Null, Empty} ELSE FiresAt(x.cron, x.next)
  /\ \A i, j \in DOMAIN started :
       i # j /\ started[i].s = started[j].s /\ started[i].s \notin overtaken
         => started[i].slot # started[j].slot \/ started[i].slot = Empty
  /\ \A i \in DOMAIN started : started[i].s \notin overtaken =>
       started[i].slot = Empty \/ FiresAt(started[i].cron, started[i].slot)
=============================================================================
