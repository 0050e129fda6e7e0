------------------------------ MODULE RunViews ------------------------------
(***************************************************************************)
(* What the API makes of a run's trace: the behaviour view, with a lane per *)
(* node in a window of time, the peak of its parallelism, its critical path *)
(* and its bottleneck.                                                      *)
(***************************************************************************)
EXTENDS RunTrace, SequencesExt, TLC

-----------------------------------------------------------------------------
(* build_behavior_view: a lane per node, in a window of time.              *)

(* estimate_node_end                                                       *)
NodeEnd(node) ==
  IF node.finished # None THEN node.finished
  ELSE IF node.started # None /\ node.duration # None THEN node.started + node.duration
  ELSE IF node.status = "running" THEN Or(node.started, clock)
  ELSE None

Times(S) == S \ {None}
WindowStart(tr, events) ==
  Min(Times({tr[n].started : n \in DOMAIN tr} \cup {events[1].at}))
WindowEnd(tr, events) ==
  Max(Times({NodeEnd(tr[n]) : n \in DOMAIN tr} \cup {Last(events).at}))

(* compute_peak_parallelism and the others look at lanes, not at nodes.    *)
Lane(tr, n, from) ==
  LET offset(t) == IF t = None THEN None ELSE Max({t - from, 0})
      s == offset(tr[n].started)
      e == offset(NodeEnd(tr[n]))
  IN [deps |-> tr[n].deps, from |-> s, to |-> e,
      duration |-> IF tr[n].duration # None THEN tr[n].duration
                   ELSE IF s # None /\ e # None /\ e >= s THEN e - s ELSE None]
Lanes(limit) ==
  LET tr == Trace(limit)
  IN [n \in DOMAIN tr |-> Lane(tr, n, WindowStart(tr, EventsRead(limit)))]
TotalDuration(limit) ==
  LET tr == Trace(limit)
      from == WindowStart(tr, EventsRead(limit))
  IN Max({WindowEnd(tr, EventsRead(limit)), from}) - from

(* The end of a lane that has a start; it is at least a tick long.         *)
LaneEnd(lane) ==
  LET e == IF lane.to # None THEN lane.to
           ELSE IF lane.duration # None THEN lane.from + lane.duration
           ELSE lane.from + 1
  IN IF e =< lane.from THEN lane.from + 1 ELSE e

(* A wrong variant: at one instant, starts are counted before ends.        *)
Before_StartsFirst(a, b) == a[1] < b[1] \/ (a[1] = b[1] /\ a[2] > b[2])

(* At one instant, ends are counted before starts.                         *)
Before(a, b) == a[1] < b[1] \/ (a[1] = b[1] /\ a[2] < b[2])

PeakParallelism(lanes) ==
  LET timed == SetToSeq({n \in DOMAIN lanes : lanes[n].from # None})
      points == FlattenSeq([i \in DOMAIN timed |->
                  << <<lanes[timed[i]].from, 1>>, <<LaneEnd(lanes[timed[i]]), -1>> >>])
      count(c, p) == LET now == Max({c.now + p[2], 0})
                     IN [now |-> now, peak |-> Max({c.peak, now})]
  IN FoldLeft(count, [now |-> 0, peak |-> 0], SortSeq(points, Before)).peak

(* compute_critical_path: nodes are taken off a queue when the dependencies *)
(* counted for them are used up.                                            *)
Weight(lanes, n) == Max({lanes[n].duration, 0})
Children(lanes, n) == {m \in DOMAIN lanes : n \in Range(lanes[m].deps)}

RECURSIVE Walk(_, _)
Walk(lanes, w) ==
  IF w.queue = << >> THEN w
  ELSE LET n == Head(w.queue)
           kids == SetToSortSeq(Children(lanes, n), <)
           via(v, c) ==
             LET longer == v.dist[n] + Weight(lanes, c) > v.dist[c]
                 left == Max({v.indegree[c] - 1, 0})
             IN [v EXCEPT
                   !.dist[c] = IF longer THEN v.dist[n] + Weight(lanes, c) ELSE @,
                   !.prev[c] = IF longer THEN n ELSE @,
                   !.indegree[c] = left,
                   !.queue = IF left = 0 THEN Append(@, c) ELSE @]
       IN Walk(lanes, FoldLeft(via, [w EXCEPT !.queue = Tail(@), !.visited = @ + 1], kids))

RECURSIVE Back(_, _)
Back(prev, n) == IF prev[n] = None THEN <<n>> ELSE Append(Back(prev, prev[n]), n)

CriticalPath(lanes) ==
  LET nodes == DOMAIN lanes
      indegree == [n \in nodes |->
                     Len(SelectSeq(lanes[n].deps, LAMBDA d : d \in nodes))]
      roots == SetToSortSeq({n \in nodes : indegree[n] = 0}, <)
      done == Walk(lanes, [queue |-> roots, indegree |-> indegree, visited |-> 0,
                           dist |-> [n \in nodes |-> Weight(lanes, n)],
                           prev |-> [n \in nodes |-> None]])
      best(f) == CHOOSE n \in nodes : \A m \in nodes :
                   f[n] > f[m] \/ (f[n] = f[m] /\ n =< m)
      alone == best([n \in nodes |-> Weight(lanes, n)])
  IN IF nodes = {} THEN [path |-> << >>, total |-> 0]
     ELSE IF done.visited # Cardinality(nodes)
     THEN [path |-> <<alone>>, total |-> Weight(lanes, alone)]
     ELSE [path |-> Back(done.prev, best(done.dist)), total |-> done.dist[best(done.dist)]]

(* compute_bottleneck: the longest lane, the first of them.                *)
Bottleneck(lanes) ==
  LET timed == {n \in DOMAIN lanes : lanes[n].duration # None}
  IN IF timed = {} THEN None
     ELSE CHOOSE n \in timed : \A m \in timed :
            \/ lanes[n].duration > lanes[m].duration
            \/ lanes[n].duration = lanes[m].duration /\ n =< m

-----------------------------------------------------------------------------
Chain(lanes, s) == \A i \in 1..(Len(s) - 1) : s[i] \in Range(lanes[s[i + 1]].deps)
LengthOf(lanes, s) == FoldLeft(LAMBDA sum, n : sum + Weight(lanes, n), 0, s)

(* MeasuresExact: the peak is the largest number of lanes that share an     *)
(* instant; the critical path follows dependencies, no chain of dependent   *)
(* lanes is longer, and its length is the sum of its lanes, as long as no   *)
(* node names a dependency twice; and no lane outlasts the whole, or is      *)
(* longer than the bottleneck.                                             *)
MeasuresExact ==
  Answered(Len(log)) =>
  LET lanes == Lanes(Len(log))
      critical == CriticalPath(lanes)
      at(t) == {n \in DOMAIN lanes : /\ lanes[n].from # None
                                     /\ lanes[n].from =< t /\ t < LaneEnd(lanes[n])}
      slow == Bottleneck(lanes)
  IN /\ PeakParallelism(lanes) = Max({Cardinality(at(t)) : t \in 0..Bound.time})
     /\ (\A n \in DOMAIN lanes : IsInjective(lanes[n].deps)) =>
          /\ Chain(lanes, critical.path)
          /\ LengthOf(lanes, critical.path) = critical.total
          /\ \A k \in 1..Cardinality(DOMAIN lanes) : \A s \in [1..k -> DOMAIN lanes] :
               Chain(lanes, s) => LengthOf(lanes, s) =< critical.total
     /\ \A n \in DOMAIN lanes : lanes[n].to =< TotalDuration(Len(log))
     /\ slow # None => \A n \in DOMAIN lanes : lanes[n].duration =< lanes[slow].duration
=============================================================================
