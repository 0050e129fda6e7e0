--------------------------- MODULE MCGraphRuntime ---------------------------
(***************************************************************************)
(* Instances of GraphRuntime.                                              *)
(*                                                                         *)
(* `Shipped' holds the CodeGeneration graph build_graph makes, with and    *)
(* without its lint node, and a workflow template with a planner in the    *)
(* middle, together with the nodes the completion callback adds to them.   *)
(*                                                                         *)
(* `Family' holds graphs over three nodes, whose policies a workflow       *)
(* template may set as it likes: dependencies along or against the order   *)
(* of the ids, every failure policy, no, one, two or shared fallbacks,     *)
(* chained ones among them, and role limits of none or three.              *)
(* SharedGraph adds a node that depends on the fallback of two others, and *)
(* PlannedGraph grows by node 3 when its node 4 succeeds; SharedGraph has  *)
(* a node 3 already, so that the same answer is an error there.            *)
(*                                                                         *)
(* `Chained' is a graph of four nodes: one depends on another and on that  *)
(* one's fallback, and has a fallback of its own.                          *)
(***************************************************************************)
EXTENDS GraphRefinement

Node(id, role, deps, limit, onFail, fallback, depth) ==
  [id |-> id, role |-> role, deps |-> deps, limit |-> limit,
   onFail |-> onFail, fallback |-> fallback, depth |-> depth]

NodeMap(S) == [i \in {x.id : x \in S} |-> CHOOSE x \in S : x.id = i]

MCNoNode == 0
Carry == "continue_on_error"

-----------------------------------------------------------------------------
(* Shipped graphs: the ids, in the order in which they sort as strings.    *)
code == 1
context_probe == 2
extract == 3
fallback_code == 4
gather == 5
git_commit == 6
plan == 7
subtask_a == 8
subtask_b == 9
summarize == 10
summarize_final == 11
validate_lint == 12

ShippedIds == 1..12
ShippedRoles ==
  {"planner", "extractor", "coder", "fallback", "summarizer", "validator"}

CodeNodes ==
  {Node(plan, "planner", << >>, 1, "fail_fast", MCNoNode, 0),
   Node(extract, "extractor", <<plan>>, 2, Carry, MCNoNode, 0),
   Node(context_probe, "extractor", <<plan>>, 2, Carry, MCNoNode, 0),
   Node(code, "coder", <<extract, context_probe>>, 2, "fail_fast", fallback_code, 0),
   Node(fallback_code, "fallback", <<code>>, 1, Carry, MCNoNode, 0)}

CodeGraph ==
  NodeMap(CodeNodes \cup
    {Node(summarize, "summarizer", <<code, fallback_code>>, 1, Carry, MCNoNode, 0)})

LintGraph ==
  NodeMap(CodeNodes \cup
    {Node(validate_lint, "validator", <<code>>, 1, "fallback_node", fallback_code, 0)})

WorkflowGraph ==
  NodeMap({Node(gather, "extractor", << >>, 1, "fail_fast", MCNoNode, 0),
           Node(plan, "planner", <<gather>>, 1, Carry, MCNoNode, 0),
           Node(summarize, "summarizer", <<plan>>, 1, Carry, MCNoNode, 0)})

ShippedGraphs == {CodeGraph, LintGraph, WorkflowGraph}

QuietReplies(ids) == {[from |-> n, add |-> << >>, skip |-> {}] : n \in ids}

(* The ids a plan supersedes: every node the graph was built with that is  *)
(* not a planner.                                                          *)
Static == {code, context_probe, extract, fallback_code, gather, summarize,
           validate_lint}

Subtask(id, deps) == Node(id, "coder", deps, 4, Carry, MCNoNode, 1)

(* Plans that pass validate_subtask_plan: two subtasks in a row; the same  *)
(* listed before its dependency; one that reuses the planner's id.         *)
PlanReplies ==
  {[from |-> plan, skip |-> Static, add |-> added] :
     added \in {<<Subtask(subtask_a, <<plan>>), Subtask(subtask_b, <<subtask_a>>)>>,
                <<Subtask(subtask_a, <<subtask_b>>), Subtask(subtask_b, <<plan>>)>>,
                <<Subtask(plan, <<extract>>)>>}}

(* What follows a lint that succeeded when git_auto_commit is set.         *)
LintReplies ==
  {[from |-> validate_lint, skip |-> {},
    add |-> <<Node(git_commit, "validator", <<validate_lint>>, 1, "fail_fast", MCNoNode, 1),
              Node(summarize_final, "summarizer", <<git_commit>>, 1, "fail_fast", MCNoNode, 2)>>]}

ShippedReplies ==
  QuietReplies(ShippedIds \ {validate_lint}) \cup PlanReplies \cup LintReplies

(* The fallbacks of these graphs are owned, and the nodes that are added   *)
(* have none.                                                              *)
ASSUME ShippedFallbacks ==
  /\ \A g \in ShippedGraphs : OwnedFallbacks(g)
  /\ \A r \in ShippedReplies : AddsNoFallback(r)

-----------------------------------------------------------------------------
FamilyIds == 1..3
NodeIds == 1..4
FamilyRoles == {"r"}

(* Dependency relations that follow the order of the ids, or its reverse.  *)
Forward ==
  {D \in [FamilyIds -> SUBSET FamilyIds] :
     \A n \in FamilyIds : \A d \in D[n] : d < n}
Backward ==
  {D \in [FamilyIds -> SUBSET FamilyIds] :
     \A n \in FamilyIds : \A d \in D[n] : d > n}

(* At most two nodes have a fallback, and not each other.                  *)
Fallbacks ==
  {F \in [FamilyIds -> FamilyIds \cup {MCNoNode}] :
     /\ \A n \in FamilyIds : F[n] # n
     /\ \A n, m \in FamilyIds : F[n] = m => F[m] # n
     /\ \E n \in FamilyIds : F[n] = MCNoNode}

Ascending(S) == LET F[T \in SUBSET S] ==
                      IF T = {} THEN << >>
                      ELSE LET m == CHOOSE x \in T : \A y \in T : x =< y
                           IN <<m>> \o F[T \ {m}]
                IN F[S]

FamilyNodes(D, F, policy, limit) ==
  [n \in FamilyIds |-> Node(n, "r", Ascending(D[n]), limit, policy, F[n], 0)]

NoFallbacks == [n \in FamilyIds |-> MCNoNode]

SharedGraph ==
  NodeMap({Node(1, "r", << >>, 3, "fail_fast", 3, 0),
           Node(2, "r", << >>, 3, "fail_fast", 3, 0),
           Node(3, "r", << >>, 3, "fail_fast", MCNoNode, 0),
           Node(4, "r", <<3>>, 3, Carry, MCNoNode, 0)})

PlannedGraph ==
  NodeMap({Node(1, "r", << >>, 3, "fail_fast", MCNoNode, 0),
           Node(4, "r", <<1>>, 3, Carry, MCNoNode, 0)})

FamilyGraphs ==
  {FamilyNodes(D, F, policy, 3) :
     D \in Forward, F \in Fallbacks, policy \in FailurePolicy}
  \cup {FamilyNodes(D, F, policy, 3) :
          D \in Backward, F \in Fallbacks, policy \in FailurePolicy \ {"fail_fast"}}
  \cup {FamilyNodes(D, NoFallbacks, policy, 0) :
          D \in Forward \cup Backward, policy \in FailurePolicy}
  \cup {SharedGraph, PlannedGraph}

FamilyReplies ==
  QuietReplies(NodeIds)
    \cup {[from |-> 4, skip |-> {}, add |-> <<Node(3, "r", <<4>>, 3, Carry, MCNoNode, 1)>>]}

-----------------------------------------------------------------------------
ChainedGraphs ==
  {NodeMap({Node(1, "r", << >>, 1, "fail_fast", 2, 0),
            Node(2, "r", << >>, 1, "fail_fast", MCNoNode, 0),
            Node(3, "r", <<1, 2>>, 1, "fallback_node", 4, 0),
            Node(4, "r", << >>, 1, "fail_fast", MCNoNode, 0)})}
=============================================================================
