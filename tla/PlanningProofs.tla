--------------------------- MODULE PlanningProofs ---------------------------
(***************************************************************************)
(* What a stage promises, proved of Planning's own specification, for any  *)
(* stages, plans and templates, any bounds, and reviews and checks that go *)
(* any way.                                                                *)
(*                                                                         *)
(* RefusedForACause rests on PlanInv: every name that only the callback    *)
(* gives shows who brought it (MadeBy), so that a second node of that name *)
(* is brought by one that collides with the first.  StageAnswers rests on  *)
(* AnswerInv: in a stage that no plan has changed, who is there (Placed),  *)
(* who is skipped (Skipped), and that what follows a check is there just   *)
(* when the check has passed (Earned, Kept), with LookInv: in an external   *)
(* project it is known by then whether there is an analysis.               *)
(* FallbacksOwned rests on Spares: the code and its first check alone name  *)
(* a fallback.                                                             *)
(***************************************************************************)
EXTENDS Planning, DataLemmas, FiniteSetTheorems, TLAPS

-----------------------------------------------------------------------------
(* ------ the names that are given, and what makes add_node refuse a node  *)

PlanningSpec == PlanningInit /\ [][PlanningNext]_planningVars

AnyNode ==
  [role : Roles, deps : Seq(AnyId),
   onFail : {"fail_fast", "continue_on_error", "fallback_node"},
   fallback : AnyId, depth : Nat, words : SUBSET Topics]
Row == [id : AnyId, node : AnyNode]

LEMMA IdIs ==
  ASSUME NEW s \in Word, NEW k \in Nat
  PROVE  /\ Id(s, k) \in AnyId /\ Id(s, k).name = <<s>> /\ Id(s, k).num = k
         /\ Head(Id(s, k).name) = s
  BY DEF Id, AnyId

LEMMA NoIdIs == NoId \in AnyId /\ NoId.name = << >>
  BY DEF NoId, AnyId

LEMMA NodeIs ==
  ASSUME NEW r \in Roles, NEW d \in Seq(AnyId)
  PROVE  /\ Node(r, d) \in AnyNode /\ Node(r, d).role = r /\ Node(r, d).deps = d
         /\ Node(r, d).onFail = "continue_on_error" /\ Node(r, d).fallback = NoId
         /\ Node(r, d).depth = 0 /\ Node(r, d).words = {}
  BY NoIdIs DEF Node, AnyNode

LEMMA NodeAfter ==
  ASSUME NEW r \in Roles, NEW n \in AnyId
  PROVE  LET x == Node(r, <<n>>)
         IN /\ x \in AnyNode /\ x.role = r /\ x.deps = <<n>>
            /\ x.onFail = "continue_on_error" /\ x.fallback = NoId
  <1>0. <<n>> \in Seq(AnyId)
    OBVIOUS
  <1>1. PICK d \in Seq(AnyId) : d = <<n>>
    BY <1>0
  <1>2. /\ Node(r, d) \in AnyNode /\ Node(r, d).role = r /\ Node(r, d).deps = d
        /\ Node(r, d).onFail = "continue_on_error" /\ Node(r, d).fallback = NoId
    BY NodeIs
  <1> QED
    BY <1>1, <1>2

LEMMA StrictIs ==
  ASSUME NEW x \in AnyNode
  PROVE  /\ Strict(x) \in AnyNode /\ Strict(x).role = x.role /\ Strict(x).deps = x.deps
         /\ Strict(x).onFail = "fail_fast" /\ Strict(x).fallback = x.fallback
         /\ Strict(x).depth = x.depth /\ Strict(x).words = x.words
  BY DEF Strict, AnyNode

LEMMA WordsIs ==
  ASSUME NEW x \in AnyNode, NEW w \in SUBSET Topics
  PROVE  LET y == [x EXCEPT !.words = w]
         IN /\ y \in AnyNode /\ y.role = x.role /\ y.deps = x.deps /\ y.onFail = x.onFail
            /\ y.fallback = x.fallback /\ y.depth = x.depth /\ y.words = w
  BY DEF AnyNode

LEMMA DepthIs ==
  ASSUME NEW x \in AnyNode, NEW k \in Nat
  PROVE  LET y == [x EXCEPT !.depth = k]
         IN /\ y \in AnyNode /\ y.role = x.role /\ y.deps = x.deps /\ y.onFail = x.onFail
            /\ y.fallback = x.fallback /\ y.depth = k /\ y.words = x.words
  BY DEF AnyNode

LEMMA RowIs ==
  ASSUME NEW id \in AnyId, NEW x \in AnyNode
  PROVE  /\ NewNode(id, x) \in Row /\ NewNode(id, x).id = id /\ NewNode(id, x).node = x
  BY DEF NewNode, Row

LEMMA DagIs ==
  ASSUME NEW more \in Seq(Row)
  PROVE  /\ NewIds(more) \subseteq AnyId /\ Dag(more) \in [NewIds(more) -> AnyNode]
         /\ \A id \in NewIds(more) :
              \E i \in DOMAIN more : more[i].id = id /\ Dag(more)[id] = more[i].node
  <1>0. \A i \in DOMAIN more : more[i] \in Row
    OBVIOUS
  <1>1. \A i \in DOMAIN more : more[i].id \in AnyId /\ more[i].node \in AnyNode
    BY <1>0 DEF Row
  <1>2. ASSUME NEW id \in NewIds(more)
        PROVE  \E i \in DOMAIN more : more[i].id = id /\ Dag(more)[id] = more[i].node
    <2>1. \E i \in DOMAIN more : more[i].id = id
      BY <1>2 DEF NewIds
    <2> DEFINE k == CHOOSE i \in DOMAIN more : more[i].id = id
    <2>2. k \in DOMAIN more /\ more[k].id = id
      BY <2>1
    <2>3. Dag(more)[id] = more[k].node
      BY <1>2 DEF Dag
    <2> HIDE DEF k
    <2> QED
      BY <2>2, <2>3
  <1>3. Dag(more) = [id \in NewIds(more) |-> Dag(more)[id]]
    BY DEF Dag
  <1>4. \A id \in NewIds(more) : Dag(more)[id] \in AnyNode
    BY <1>1, <1>2
  <1> QED
    BY <1>1, <1>2, <1>3, <1>4 DEF NewIds

(* ------ the graphs a stage starts with                                   *)

(* What a built graph may have at id.                                      *)
Static(id, x) ==
  /\ Head(id.name) \notin Reserved
  /\ x.role # "reviewer"
  /\ x.role = "validator" <=> id = ValidateLint
  /\ x.role = "summarizer" => id = Summarize
  /\ x.onFail = "fallback_node" <=> id = ValidateLint
  /\ x.fallback = IF id \in {Code, ValidateLint} THEN FallbackCode ELSE NoId
  /\ id \in {FallbackCode, ValidateLint} => x.deps = <<Code>>
  /\ id = FallbackCode => x.role = "fallback"
  /\ id = Summarize => x.role = "summarizer"
StaticRow(r) == r \in Row /\ Static(r.id, r.node)
StaticRows(more) == more \in Seq(Row) /\ \A i \in DOMAIN more : StaticRow(more[i])

LEMMA OneRow ==
  ASSUME NEW r, StaticRow(r)
  PROVE  StaticRows(<<r>>) /\ NewIds(<<r>>) = {r.id}
  BY DEF StaticRows, StaticRow, NewIds

LEMMA RowsJoin ==
  ASSUME NEW a, NEW b, StaticRows(a), StaticRows(b)
  PROVE  StaticRows(a \o b) /\ NewIds(a \o b) = NewIds(a) \cup NewIds(b)
  <1>1. a \in Seq(Row) /\ b \in Seq(Row)
    BY DEF StaticRows
  <1> DEFINE k == Len(a)
             l == Len(b)
             c == a \o b
  <1>2. /\ k \in Nat /\ l \in Nat /\ DOMAIN a = 1..k /\ DOMAIN b = 1..l
        /\ c \in Seq(Row) /\ DOMAIN c = 1..(k + l)
        /\ \A i \in 1..(k + l) : c[i] = IF i =< k THEN a[i] ELSE b[i - k]
    BY <1>1
  <1> HIDE DEF k, l, c
  <1>3. \A i \in 1..(k + l) : (i =< k /\ i \in 1..k) \/ (~(i =< k) /\ i - k \in 1..l)
    BY <1>2
  <1>4. StaticRows(c)
    BY <1>2, <1>3 DEF StaticRows
  <1>5. \A i \in 1..k : i \in 1..(k + l) /\ c[i] = a[i]
    BY <1>2
  <1>6. \A i \in 1..l : i + k \in 1..(k + l) /\ c[i + k] = b[i]
    BY <1>2
  <1>7. NewIds(c) = NewIds(a) \cup NewIds(b)
    <2>1. ASSUME NEW x \in NewIds(c) PROVE x \in NewIds(a) \cup NewIds(b)
      BY <1>2, <1>3, <2>1 DEF NewIds
    <2>2. ASSUME NEW x \in NewIds(a) PROVE x \in NewIds(c)
      BY <1>2, <1>5, <2>2 DEF NewIds
    <2>3. ASSUME NEW x \in NewIds(b) PROVE x \in NewIds(c)
      <3>1. PICK i \in 1..l : x = b[i].id
        BY <1>2, <2>3 DEF NewIds
      <3>2. PICK j : j = i + k
        OBVIOUS
      <3>3. j \in 1..(k + l) /\ c[j].id = x
        BY <1>6, <3>1, <3>2
      <3> QED
        BY <1>2, <3>3 DEF NewIds
    <2> QED
      BY <2>1, <2>2, <2>3
  <1> QED
    BY <1>4, <1>7 DEF c

LEMMA TwoRows ==
  ASSUME NEW r, NEW s, StaticRow(r), StaticRow(s)
  PROVE  StaticRows(<<r, s>>) /\ NewIds(<<r, s>>) = {r.id, s.id}
  <1>1. DOMAIN <<r, s>> = {1, 2}
    OBVIOUS
  <1> QED
    BY <1>1 DEF StaticRows, StaticRow, NewIds

LEMMA ThreeRows ==
  ASSUME NEW r, NEW s, NEW t, StaticRow(r), StaticRow(s), StaticRow(t)
  PROVE  StaticRows(<<r, s, t>>) /\ NewIds(<<r, s, t>>) = {r.id, s.id, t.id}
  <1>1. DOMAIN <<r, s, t>> = {1, 2, 3}
    OBVIOUS
  <1> QED
    BY <1>1 DEF StaticRows, StaticRow, NewIds

LEMMA FourRows ==
  ASSUME NEW r, NEW s, NEW t, NEW u, StaticRow(r), StaticRow(s), StaticRow(t), StaticRow(u)
  PROVE  StaticRows(<<r, s, t, u>>) /\ NewIds(<<r, s, t, u>>) = {r.id, s.id, t.id, u.id}
  <1>1. DOMAIN <<r, s, t, u>> = {1, 2, 3, 4}
    OBVIOUS
  <1> QED
    BY <1>1 DEF StaticRows, StaticRow, NewIds

LEMMA IdsDiffer ==
  ASSUME NEW s, NEW t, NEW k, NEW j, Id(s, k) = Id(t, j)
  PROVE  s = t /\ k = j
  <1>1. Id(s, k).name = <<s>> /\ Id(t, j).name = <<t>> /\ Id(s, k).num = k /\ Id(t, j).num = j
    BY DEF Id
  <1>2. <<s>>[1] = s /\ <<t>>[1] = t
    OBVIOUS
  <1> QED
    BY <1>1, <1>2

LEMMA StaticIs ==
  ASSUME NEW s \in StaticWords, s # "validate_lint", NEW x \in AnyNode,
         x.role \notin {"reviewer", "validator"},
         x.role = "summarizer" <=> s = "summarize",
         x.onFail # "fallback_node",
         x.fallback = IF s = "code" THEN FallbackCode ELSE NoId,
         s = "fallback_code" => x.role = "fallback" /\ x.deps = <<Code>>
  PROVE  StaticRow(NewNode(Id(s, 0), x)) /\ NewNode(Id(s, 0), x).id = Id(s, 0)
  <1>1. s \in Word /\ s \notin Reserved
    BY PlanningInputs DEF StaticWords, Reserved
  <1>2. Id(s, 0) \in AnyId /\ Head(Id(s, 0).name) = s
    BY <1>1, IdIs
  <1>3. Id(s, 0) = FallbackCode => s = "fallback_code"
    BY IdsDiffer DEF FallbackCode
  <1>4. Id(s, 0) = Summarize <=> s = "summarize"
    BY IdsDiffer DEF Summarize
  <1>6. Id(s, 0) # ValidateLint /\ (Id(s, 0) = Code <=> s = "code")
    BY IdsDiffer DEF ValidateLint, Code
  <1>5. Static(Id(s, 0), x)
    BY <1>1, <1>2, <1>3, <1>4, <1>6 DEF Static
  <1> QED
    BY <1>2, <1>5, RowIs DEF StaticRow

LEMMA OwnIds ==
  /\ Plan \in AnyId /\ Extract \in AnyId /\ ContextProbe \in AnyId /\ Code \in AnyId
  /\ FallbackCode \in AnyId /\ ValidateLint \in AnyId /\ Summarize \in AnyId
  BY IdIs, PlanningInputs DEF Plan, Extract, ContextProbe, Code, FallbackCode, ValidateLint,
     Summarize, StaticWords

(* The nodes of the graphs that are built like one of theirs.               *)
LEMMA PlainNode ==
  ASSUME NEW r \in Roles, r \notin {"reviewer", "validator"}, NEW d \in Seq(AnyId),
         NEW s \in StaticWords, s # "validate_lint",
         r = "summarizer" <=> s = "summarize", s # "code",
         s = "fallback_code" => r = "fallback" /\ d = <<Code>>
  PROVE  LET x == Node(r, d)
         IN /\ StaticRow(NewNode(Id(s, 0), x)) /\ NewNode(Id(s, 0), x).id = Id(s, 0)
            /\ StaticRow(NewNode(Id(s, 0), Strict(x)))
            /\ NewNode(Id(s, 0), Strict(x)).id = Id(s, 0)
  <1> DEFINE x == Node(r, d)
  <1>1. /\ x \in AnyNode /\ x.role = r /\ x.onFail = "continue_on_error" /\ x.fallback = NoId
        /\ x.deps = d
    BY NodeIs
  <1> HIDE DEF x
  <1>2. StaticRow(NewNode(Id(s, 0), x)) /\ NewNode(Id(s, 0), x).id = Id(s, 0)
    BY <1>1, StaticIs
  <1>3. Strict(x) \in AnyNode /\ Strict(x).role = r /\ Strict(x).onFail = "fail_fast"
        /\ Strict(x).fallback = NoId /\ Strict(x).deps = d
    BY <1>1, StrictIs
  <1>4. StaticRow(NewNode(Id(s, 0), Strict(x))) /\ NewNode(Id(s, 0), Strict(x)).id = Id(s, 0)
    BY <1>3, StaticIs
  <1> QED
    BY <1>2, <1>4 DEF x

LEMMA DeepNode ==
  ASSUME NEW r \in Roles, r \notin {"reviewer", "validator"}, NEW d \in Seq(AnyId),
         NEW s \in StaticWords, s # "validate_lint", NEW k \in Nat,
         r = "summarizer" <=> s = "summarize", s # "code",
         s = "fallback_code" => r = "fallback" /\ d = <<Code>>
  PROVE  LET x == [Node(r, d) EXCEPT !.depth = k]
         IN StaticRow(NewNode(Id(s, 0), x)) /\ NewNode(Id(s, 0), x).id = Id(s, 0)
  <1>1. PICK x : x = Node(r, d)
    OBVIOUS
  <1>2. /\ x \in AnyNode /\ x.role = r /\ x.onFail = "continue_on_error" /\ x.fallback = NoId
        /\ x.deps = d
    BY <1>1, NodeIs
  <1>3. PICK y : y = [x EXCEPT !.depth = k]
    OBVIOUS
  <1>4. /\ y \in AnyNode /\ y.role = r /\ y.onFail = "continue_on_error" /\ y.fallback = NoId
        /\ y.deps = d
    BY <1>2, <1>3, DepthIs
  <1>5. StaticRow(NewNode(Id(s, 0), y)) /\ NewNode(Id(s, 0), y).id = Id(s, 0)
    BY <1>4, StaticIs
  <1> QED
    BY <1>1, <1>3, <1>5

(* Where the check is static the summary is not, and the other way round;  *)
(* the check is of the code, and looks for what its kind of stage needs.    *)
CheckWords(kind) == IF kind = "external_project" THEN {"external", "lint"} ELSE {"lint"}
Checks(more, w) ==
  \A i \in DOMAIN more : more[i].id = ValidateLint => more[i].node.words = w
StaticGraph(kind, more) ==
  /\ StaticRows(more) /\ Checks(more, CheckWords(kind))
  /\ kind \notin {"recovery", "followup"} =>
       (Summarize \in NewIds(more) <=> ValidateLint \notin NewIds(more))
  /\ ValidateLint \in NewIds(more) => Code \in NewIds(more)
  /\ Code \in NewIds(more) => FallbackCode \in NewIds(more)

LEMMA ChecksNone ==
  ASSUME NEW more, NEW w, ValidateLint \notin NewIds(more)
  PROVE  Checks(more, w)
  BY DEF Checks, NewIds

LEMMA ChecksJoin ==
  ASSUME NEW a, NEW b, StaticRows(a), StaticRows(b), NEW w, Checks(a, w), Checks(b, w)
  PROVE  Checks(a \o b, w)
  <1>1. a \in Seq(Row) /\ b \in Seq(Row)
    BY DEF StaticRows
  <1> DEFINE k == Len(a)
             l == Len(b)
             c == a \o b
  <1>2. /\ k \in Nat /\ l \in Nat /\ DOMAIN a = 1..k /\ DOMAIN b = 1..l
        /\ c \in Seq(Row) /\ DOMAIN c = 1..(k + l)
        /\ \A i \in 1..(k + l) : c[i] = IF i =< k THEN a[i] ELSE b[i - k]
    BY <1>1
  <1> HIDE DEF k, l, c
  <1>3. \A i \in 1..(k + l) : (i =< k /\ i \in 1..k) \/ (~(i =< k) /\ i - k \in 1..l)
    BY <1>2
  <1>4. Checks(c, w)
    BY <1>2, <1>3 DEF Checks
  <1> QED
    BY <1>4 DEF c

(* A graph without a check has a summary.                                  *)
LEMMA Unchecked ==
  ASSUME NEW kind, NEW more, StaticRows(more), ValidateLint \notin NewIds(more),
         Summarize \in NewIds(more), Code \notin NewIds(more)
  PROVE  StaticGraph(kind, more)
  BY ChecksNone DEF StaticGraph

LEMMA PlannerRow ==
  /\ StaticRow(NewNode(Plan, Planner)) /\ NewNode(Plan, Planner).id = Plan
  /\ StaticRow(NewNode(Id("recovery_plan", 1), Planner))
  /\ StaticRow(NewNode(Id("replan_plan", 1), Planner))
  <1>1. /\ Planner \in AnyNode /\ Planner.role = "planner" /\ Planner.onFail = "fail_fast"
        /\ Planner.fallback = NoId
    <2>0. << >> \in Seq(AnyId)
      OBVIOUS
    <2>1. PICK e \in Seq(AnyId) : e = << >>
      BY <2>0
    <2>2. "planner" \in Roles
      BY DEF Roles
    <2>3. Node("planner", e) \in AnyNode /\ Node("planner", e).role = "planner"
          /\ Node("planner", e).fallback = NoId
      BY <2>2, NodeIs
    <2>4. Planner = Strict(Node("planner", e))
      BY <2>1 DEF Planner
    <2> QED
      BY <2>3, <2>4, StrictIs
  <1>2. StaticRow(NewNode(Plan, Planner)) /\ NewNode(Plan, Planner).id = Plan
    BY <1>1, StaticIs DEF Plan, StaticWords
  <1>3. ASSUME NEW s \in {"recovery_plan", "replan_plan"}
        PROVE  StaticRow(NewNode(Id(s, 1), Planner))
    <2>1. s \in Word /\ s \notin Reserved
      BY PlanningInputs DEF StaticWords, Reserved
    <2>2. Id(s, 1) \in AnyId /\ Head(Id(s, 1).name) = s
      BY <2>1, IdIs
    <2>3. /\ Id(s, 1) # FallbackCode /\ Id(s, 1) # Summarize /\ Id(s, 1) # ValidateLint
          /\ Id(s, 1) # Code
      BY IdsDiffer DEF FallbackCode, Summarize, ValidateLint, Code
    <2>4. Static(Id(s, 1), Planner)
      BY <1>1, <2>1, <2>2, <2>3 DEF Static
    <2> QED
      BY <1>1, <2>2, <2>4, RowIs DEF StaticRow
  <1> QED
    BY <1>2, <1>3

LEMMA SummaryRow ==
  ASSUME NEW d \in Seq(AnyId)
  PROVE  /\ StaticRow(NewNode(Summarize, Node("summarizer", d)))
         /\ NewNode(Summarize, Node("summarizer", d)).id = Summarize
         /\ StaticRow(NewNode(Summarize, Strict(Node("summarizer", d))))
         /\ NewNode(Summarize, Strict(Node("summarizer", d))).id = Summarize
  BY PlainNode DEF Summarize, StaticWords, Roles

LEMMA OwnIdsDiffer ==
  /\ Plan # Summarize /\ Plan # ValidateLint /\ Summarize # ValidateLint
  /\ Code # Summarize /\ Code # ValidateLint /\ FallbackCode # Summarize
  /\ FallbackCode # ValidateLint /\ Extract # Summarize /\ Extract # ValidateLint
  /\ ContextProbe # Summarize /\ ContextProbe # ValidateLint /\ Code # FallbackCode
  /\ Plan # Code /\ Extract # Code
  BY IdsDiffer DEF Plan, Summarize, ValidateLint, Code, FallbackCode, Extract, ContextProbe

LEMMA SimpleIs == StaticGraph("simple_query", SimpleGraph)
  <1> DEFINE r == NewNode(Plan, Planner)
             s == NewNode(Summarize, Node("summarizer", <<Plan>>))
  <1>1. <<Plan>> \in Seq(AnyId)
    BY OwnIds
  <1>2. StaticRow(r) /\ StaticRow(s) /\ r.id = Plan /\ s.id = Summarize
    BY <1>1, PlannerRow, SummaryRow
  <1>3. SimpleGraph = <<r, s>>
    BY DEF SimpleGraph
  <1> HIDE DEF r, s
  <1> QED
    BY <1>2, <1>3, TwoRows, OwnIdsDiffer, Unchecked

(* plan, a node that does the work, and the summary after it.              *)
LEMMA AroundIs ==
  ASSUME NEW w \in StaticWords \ {"plan", "summarize", "validate_lint", "code"}, NEW x,
         StaticRow(NewNode(Id(w, 0), x)), NewNode(Id(w, 0), x).id = Id(w, 0)
  PROVE  /\ StaticGraph("configuration", Around(Id(w, 0), x))
         /\ StaticGraph("configuration",
              <<NewNode(Plan, Planner), NewNode(Id(w, 0), x),
                NewNode(Summarize, Strict(Node("summarizer", << Id(w, 0) >>)))>>)
  <1> DEFINE r == NewNode(Plan, Planner)
             s == NewNode(Id(w, 0), x)
             t == NewNode(Summarize, Node("summarizer", << Id(w, 0) >>))
             u == NewNode(Summarize, Strict(Node("summarizer", << Id(w, 0) >>)))
  <1>1. << Id(w, 0) >> \in Seq(AnyId)
    BY IdIs, PlanningInputs
  <1>2. StaticRow(r) /\ StaticRow(s) /\ StaticRow(t) /\ StaticRow(u)
    BY <1>1, PlannerRow, SummaryRow
  <1>3. r.id = Plan /\ s.id = Id(w, 0) /\ t.id = Summarize /\ u.id = Summarize
    BY <1>1, PlannerRow, SummaryRow
  <1>4. Id(w, 0) # Summarize /\ Id(w, 0) # ValidateLint /\ Id(w, 0) # Code
    BY IdsDiffer DEF Summarize, ValidateLint, Code
  <1>5. Around(Id(w, 0), x) = <<r, s, t>>
    BY DEF Around
  <1> HIDE DEF r, s, t, u
  <1>6. StaticGraph("configuration", <<r, s, t>>)
    BY <1>2, <1>3, <1>4, ThreeRows, OwnIdsDiffer, Unchecked
  <1>7. StaticGraph("configuration", <<r, s, u>>)
    BY <1>2, <1>3, <1>4, ThreeRows, OwnIdsDiffer, Unchecked
  <1> QED
    BY <1>5, <1>6, <1>7 DEF r, s, u

LEMMA AnalysisIs == StaticGraph("analysis", AnalysisGraph)
  <1> DEFINE a == Id("analyze", 0)
             r == NewNode(Plan, Planner)
             s == NewNode(Extract, Node("extractor", <<Plan>>))
             t == NewNode(a, Node("analyzer", << Extract >>))
             u == NewNode(Summarize, Node("summarizer", <<a>>))
  <1>1. a \in AnyId /\ a # Summarize /\ a # ValidateLint /\ a # Code
    BY IdIs, IdsDiffer, PlanningInputs DEF StaticWords, Summarize, ValidateLint, Code
  <1>2. <<Plan>> \in Seq(AnyId) /\ << Extract >> \in Seq(AnyId) /\ <<a>> \in Seq(AnyId)
    BY <1>1, OwnIds
  <1>3. StaticRow(r) /\ r.id = Plan /\ StaticRow(u) /\ u.id = Summarize
    BY <1>2, PlannerRow, SummaryRow
  <1>4. StaticRow(s) /\ s.id = Extract
    BY <1>2, PlainNode DEF Extract, StaticWords, Roles
  <1>5. StaticRow(t) /\ t.id = a
    BY <1>2, PlainNode DEF StaticWords, Roles
  <1>6. AnalysisGraph = <<r, s, t, u>>
    BY DEF AnalysisGraph
  <1> HIDE DEF a, r, s, t, u
  <1> QED
    BY <1>1, <1>3, <1>4, <1>5, <1>6, FourRows, OwnIdsDiffer, Unchecked

LEMMA CodingIs ==
  ASSUME NEW deps \in Seq(AnyId), NEW d \in Nat
  PROVE  /\ StaticRows(Coding(deps, d))
         /\ NewIds(Coding(deps, d)) = {Code, FallbackCode}
  <1> DEFINE c == [Strict(Node("coder", deps)) EXCEPT !.fallback = FallbackCode, !.depth = d]
             k == IF d = 0 THEN 0 ELSE d + 1
             f == [Node("fallback", <<Code>>) EXCEPT !.depth = k]
  <1>1. k \in Nat /\ <<Code>> \in Seq(AnyId) /\ "coder" \in Roles /\ "fallback" \in Roles
    BY OwnIds DEF Roles
  <1>2. c \in AnyNode /\ c.role = "coder" /\ c.onFail = "fail_fast" /\ c.fallback = FallbackCode
    <2>1. PICK x : x = Strict(Node("coder", deps))
      OBVIOUS
    <2>2. x \in AnyNode /\ x.role = "coder" /\ x.onFail = "fail_fast"
      BY <1>1, <2>1, NodeIs, StrictIs
    <2>3. PICK y : y = [x EXCEPT !.fallback = FallbackCode, !.depth = d]
      OBVIOUS
    <2>4. y = [role |-> x.role, deps |-> x.deps, onFail |-> x.onFail,
               fallback |-> FallbackCode, depth |-> d, words |-> x.words]
      BY <2>2, <2>3 DEF AnyNode
    <2>5. y \in AnyNode /\ y.role = "coder" /\ y.onFail = "fail_fast"
          /\ y.fallback = FallbackCode
      BY <2>2, <2>4, OwnIds DEF AnyNode
    <2> QED
      BY <2>1, <2>3, <2>5
  <1> HIDE DEF c, k
  <1>3. StaticRow(NewNode(Code, c)) /\ NewNode(Code, c).id = Code
    BY <1>2, StaticIs DEF Code, StaticWords
  <1>4. StaticRow(NewNode(FallbackCode, f)) /\ NewNode(FallbackCode, f).id = FallbackCode
    BY <1>1, DeepNode DEF FallbackCode, StaticWords
  <1>5. Coding(deps, d) = <<NewNode(Code, c), NewNode(FallbackCode, f)>>
    BY DEF Coding, c, k
  <1> HIDE DEF f
  <1> QED
    BY <1>3, <1>4, <1>5, TwoRows

LEMMA FirstCheckIs ==
  ASSUME NEW w \in SUBSET Topics, NEW d \in Nat
  PROVE  /\ StaticRows(FirstCheck(w, d)) /\ NewIds(FirstCheck(w, d)) = {ValidateLint}
         /\ Checks(FirstCheck(w, d), w)
  <1>1. PICK x : x = Node("validator", <<Code>>)
    OBVIOUS
  <1>2. x \in AnyNode /\ x.role = "validator" /\ x.deps = <<Code>>
    <2>1. <<Code>> \in Seq(AnyId) /\ "validator" \in Roles
      BY OwnIds DEF Roles
    <2> QED
      BY <1>1, <2>1, NodeIs
  <1>3. PICK y : y = [x EXCEPT !.onFail = "fallback_node", !.fallback = FallbackCode,
                               !.depth = d, !.words = w]
    OBVIOUS
  <1>4. y = [role |-> "validator", deps |-> <<Code>>, onFail |-> "fallback_node",
             fallback |-> FallbackCode, depth |-> d, words |-> w]
    BY <1>2, <1>3 DEF AnyNode
  <1>5. y \in AnyNode /\ y.words = w
    BY <1>2, <1>4, OwnIds DEF AnyNode
  <1>6. Head(ValidateLint.name) \notin Reserved
    BY IdIs, PlanningInputs DEF ValidateLint, StaticWords, Reserved
  <1>7. Static(ValidateLint, y)
    BY <1>4, <1>6, OwnIdsDiffer DEF Static
  <1>8. StaticRow(NewNode(ValidateLint, y)) /\ NewNode(ValidateLint, y).id = ValidateLint
        /\ NewNode(ValidateLint, y).node = y
    BY <1>5, <1>7, OwnIds, RowIs DEF StaticRow
  <1>9. FirstCheck(w, d) = <<NewNode(ValidateLint, y)>>
    BY <1>1, <1>3 DEF FirstCheck
  <1>10. Checks(<<NewNode(ValidateLint, y)>>, w)
    BY <1>5, <1>8 DEF Checks
  <1> QED
    BY <1>8, <1>9, <1>10, OneRow

LEMMA ExternalIs ==
  /\ StaticGraph("external_project", ExternalGraph)
  /\ {RepoAnalyze, Extract, Code, ValidateLint} \subseteq NewIds(ExternalGraph)
  <1> DEFINE a == RepoAnalyze
             look == [Node("extractor", <<a>>) EXCEPT !.depth = 2]
             r == NewNode(Plan, Planner)
             s == NewNode(a, [Node("analyzer", <<Plan>>) EXCEPT !.depth = 1])
             t == NewNode(Extract, look)
             u == NewNode(ContextProbe, look)
             code == Coding(<< Extract, ContextProbe >>, 3)
             check == FirstCheck({"external", "lint"}, 4)
  <1>1. a \in AnyId /\ a # Summarize /\ a # ValidateLint
    BY IdIs, IdsDiffer, PlanningInputs DEF RepoAnalyze, StaticWords, Summarize, ValidateLint
  <1>2. <<Plan>> \in Seq(AnyId) /\ <<a>> \in Seq(AnyId) /\ << Extract, ContextProbe >> \in Seq(AnyId)
    BY <1>1, OwnIds
  <1>3. StaticRow(r) /\ r.id = Plan
    BY PlannerRow
  <1>4. StaticRow(s) /\ s.id = a
    <2>1. 1 \in Nat /\ "analyzer" \in Roles /\ "repo_analyze" \in StaticWords
      BY DEF Roles, StaticWords
    <2> QED
      BY <1>2, <2>1, DeepNode DEF RepoAnalyze
  <1>5. 2 \in Nat /\ "extractor" \in Roles /\ {"extract", "context_probe"} \subseteq StaticWords
    BY DEF Roles, StaticWords
  <1>6. StaticRow(t) /\ t.id = Extract /\ StaticRow(u) /\ u.id = ContextProbe
    BY <1>2, <1>5, DeepNode DEF Extract, ContextProbe
  <1>7. StaticRows(code) /\ NewIds(code) = {Code, FallbackCode}
    BY <1>2, CodingIs
  <1>8. StaticRows(check) /\ NewIds(check) = {ValidateLint}
        /\ Checks(check, {"external", "lint"})
    BY FirstCheckIs DEF Topics
  <1>9. ExternalGraph = <<r, s, t, u>> \o code \o check
    BY DEF ExternalGraph
  <1> HIDE DEF a, look, r, s, t, u, code, check
  <1>10. StaticRows(<<r, s, t, u>>)
         /\ NewIds(<<r, s, t, u>>) = {Plan, a, Extract, ContextProbe}
    BY <1>3, <1>4, <1>6, FourRows
  <1>11. /\ StaticRows(<<r, s, t, u>> \o code)
         /\ NewIds(<<r, s, t, u>> \o code) = {Plan, a, Extract, ContextProbe, Code, FallbackCode}
    BY <1>7, <1>10, RowsJoin
  <1>12. StaticRows(ExternalGraph) /\ ValidateLint \in NewIds(ExternalGraph)
         /\ Checks(ExternalGraph, {"external", "lint"})
         /\ NewIds(ExternalGraph) =
              {Plan, a, Extract, ContextProbe, Code, FallbackCode} \cup {ValidateLint}
    <2>1. PICK g : g = <<r, s, t, u>> \o code
      OBVIOUS
    <2>2. StaticRows(g \o check) /\ NewIds(g \o check) = NewIds(g) \cup NewIds(check)
      BY <1>8, <1>11, <2>1, RowsJoin
    <2>3. NewIds(g) = {Plan, a, Extract, ContextProbe, Code, FallbackCode}
      BY <1>11, <2>1
    <2>4. ExternalGraph = g \o check
      BY <1>9, <2>1
    <2>5. Checks(g, {"external", "lint"})
      BY <2>3, <1>1, OwnIdsDiffer, ChecksNone
    <2>6. Checks(g \o check, {"external", "lint"})
      BY <1>8, <1>11, <2>1, <2>5, ChecksJoin
    <2> QED
      BY <1>8, <2>2, <2>3, <2>4, <2>6
  <1> QED
    BY <1>1, <1>12, OwnIdsDiffer DEF StaticGraph, CheckWords, a

LEMMA CodeIs ==
  ASSUME NEW checks
  PROVE  StaticGraph("code_generation", CodeGraph(checks))
  <1> DEFINE r == NewNode(Plan, Planner)
             s == NewNode(Extract, Node("extractor", <<Plan>>))
             t == NewNode(ContextProbe, Node("extractor", <<Plan>>))
             code == Coding(<< Extract, ContextProbe >>, 0)
             ends == IF checks.lint THEN FirstCheck({"lint"}, 0)
                     ELSE <<NewNode(Summarize, Node("summarizer", <<Code, FallbackCode>>))>>
             w == Id("webhook_validation", 0)
             x == NewNode(w, [Node("extractor", <<Plan>>) EXCEPT !.depth = 1])
             hook == IF checks.webhook THEN <<x>> ELSE << >>
  <1>1. w \in AnyId /\ w # Summarize /\ w # ValidateLint
    BY IdIs, IdsDiffer, PlanningInputs DEF StaticWords, Summarize, ValidateLint
  <1>2. <<Plan>> \in Seq(AnyId) /\ <<Code, FallbackCode>> \in Seq(AnyId)
        /\ << Extract, ContextProbe >> \in Seq(AnyId)
    BY OwnIds
  <1>3. StaticRow(r) /\ r.id = Plan
    BY PlannerRow
  <1>4. StaticRow(s) /\ s.id = Extract
    BY <1>2, PlainNode DEF Extract, StaticWords, Roles
  <1>5. StaticRow(t) /\ t.id = ContextProbe
    BY <1>2, PlainNode DEF ContextProbe, StaticWords, Roles
  <1>6. StaticRow(x) /\ x.id = w
    <2>1. 1 \in Nat /\ "extractor" \in Roles /\ "webhook_validation" \in StaticWords
      BY DEF Roles, StaticWords
    <2> QED
      BY <1>2, <2>1, DeepNode
  <1>7. StaticRows(code) /\ NewIds(code) = {Code, FallbackCode}
    BY <1>2, CodingIs
  <1>8. /\ StaticRows(ends) /\ Checks(ends, {"lint"})
        /\ NewIds(ends) = {ValidateLint} \/ NewIds(ends) = {Summarize}
    <2>1. CASE checks.lint
      BY <2>1, FirstCheckIs DEF Topics
    <2>2. CASE ~checks.lint
      BY <1>2, <2>2, SummaryRow, OneRow, OwnIdsDiffer, ChecksNone
    <2> QED
      BY <2>1, <2>2
  <1>9. StaticRows(hook) /\ (NewIds(hook) = {w} \/ NewIds(hook) = {})
    <2>1. CASE checks.webhook
      BY <1>6, <2>1, OneRow
    <2>2. CASE ~checks.webhook
      <3>1. hook = << >>
        BY <2>2
      <3>2. StaticRows(<< >>) /\ NewIds(<< >>) = {}
        BY DEF StaticRows, NewIds
      <3> QED
        BY <3>1, <3>2
    <2> QED
      BY <2>1, <2>2
  <1>10. CodeGraph(checks) = <<r, s, t>> \o code \o ends \o hook
    BY DEF CodeGraph
  <1> HIDE DEF r, s, t, code, ends, w, x, hook
  <1>11. StaticRows(<<r, s, t>>) /\ NewIds(<<r, s, t>>) = {Plan, Extract, ContextProbe}
    BY <1>3, <1>4, <1>5, ThreeRows
  <1>12. StaticRows(<<r, s, t>> \o code)
         /\ NewIds(<<r, s, t>> \o code) = {Plan, Extract, ContextProbe, Code, FallbackCode}
    BY <1>7, <1>11, RowsJoin
  <1>13. StaticRows(<<r, s, t>> \o code \o ends)
         /\ NewIds(<<r, s, t>> \o code \o ends) =
              {Plan, Extract, ContextProbe, Code, FallbackCode} \cup NewIds(ends)
         /\ Checks(<<r, s, t>> \o code \o ends, {"lint"})
    <2>1. PICK g : g = <<r, s, t>> \o code
      OBVIOUS
    <2>2. StaticRows(g) /\ NewIds(g) = {Plan, Extract, ContextProbe, Code, FallbackCode}
      BY <1>12, <2>1
    <2>3. Checks(g, {"lint"})
      BY <2>2, OwnIdsDiffer, ChecksNone
    <2>4. StaticRows(g \o ends) /\ NewIds(g \o ends) = NewIds(g) \cup NewIds(ends)
          /\ Checks(g \o ends, {"lint"})
      BY <1>8, <2>2, <2>3, RowsJoin, ChecksJoin
    <2> QED
      BY <2>1, <2>2, <2>4
  <1>14. StaticRows(CodeGraph(checks)) /\ Checks(CodeGraph(checks), {"lint"})
         /\ NewIds(CodeGraph(checks)) =
              {Plan, Extract, ContextProbe, Code, FallbackCode} \cup NewIds(ends) \cup NewIds(hook)
    <2>1. PICK g : g = <<r, s, t>> \o code \o ends
      OBVIOUS
    <2>2. StaticRows(g \o hook) /\ NewIds(g \o hook) = NewIds(g) \cup NewIds(hook)
      BY <1>9, <1>13, <2>1, RowsJoin
    <2>3. NewIds(g) = {Plan, Extract, ContextProbe, Code, FallbackCode} \cup NewIds(ends)
      BY <1>13, <2>1
    <2>4. CodeGraph(checks) = g \o hook
      BY <1>10, <2>1
    <2>5. Checks(hook, {"lint"})
      BY <1>1, <1>9, ChecksNone
    <2>6. Checks(g \o hook, {"lint"})
      BY <1>9, <1>13, <2>1, <2>5, ChecksJoin
    <2> QED
      BY <2>2, <2>3, <2>4, <2>6
  <1> QED
    BY <1>1, <1>8, <1>9, <1>14, OwnIdsDiffer DEF StaticGraph, CheckWords

LEMMA WorkIs ==
  /\ StaticGraph("configuration",
       Around(Id("config_manage", 0), Node("config_manager", <<Plan>>)))
  /\ StaticGraph("configuration", Around(Id("tool_call", 0), Node("tool_caller", <<Plan>>)))
  /\ StaticGraph("configuration", InteractiveGraph)
  <1>1. /\ <<Plan>> \in Seq(AnyId) /\ {"config_manager", "tool_caller"} \subseteq Roles
        /\ {"config_manage", "tool_call", "interactive"}
             \subseteq StaticWords \ {"plan", "summarize", "validate_lint", "code"}
    BY OwnIds DEF Roles, StaticWords
  <1>2. StaticGraph("configuration",
          Around(Id("config_manage", 0), Node("config_manager", <<Plan>>)))
    BY <1>1, PlainNode, AroundIs
  <1>3. StaticGraph("configuration", Around(Id("tool_call", 0), Node("tool_caller", <<Plan>>)))
    BY <1>1, PlainNode, AroundIs
  <1>4. PICK x : x = Strict(Node("tool_caller", <<Plan>>))
    OBVIOUS
  <1>5. StaticRow(NewNode(Id("interactive", 0), x))
        /\ NewNode(Id("interactive", 0), x).id = Id("interactive", 0)
    BY <1>1, <1>4, PlainNode
  <1>6. StaticGraph("configuration", InteractiveGraph)
    BY <1>1, <1>4, <1>5, AroundIs DEF InteractiveGraph
  <1> QED
    BY <1>2, <1>3, <1>6

LEMMA AloneIs ==
  /\ StaticRows(<<NewNode(Id("recovery_plan", 1), Planner)>>)
  /\ StaticRows(<<NewNode(Id("replan_plan", 1), Planner)>>)
  /\ ValidateLint \notin NewIds(<<NewNode(Id("recovery_plan", 1), Planner)>>)
  /\ ValidateLint \notin NewIds(<<NewNode(Id("replan_plan", 1), Planner)>>)
  /\ Code \notin NewIds(<<NewNode(Id("recovery_plan", 1), Planner)>>)
  /\ Code \notin NewIds(<<NewNode(Id("replan_plan", 1), Planner)>>)
  <1>1. \A s \in {"recovery_plan", "replan_plan"} : Id(s, 1) # ValidateLint /\ Id(s, 1) # Code
    BY IdsDiffer DEF ValidateLint, Code
  <1>2. \A s \in {"recovery_plan", "replan_plan"} : NewNode(Id(s, 1), Planner).id = Id(s, 1)
    BY DEF NewNode
  <1> QED
    BY <1>1, <1>2, PlannerRow, OneRow

LEMMA BuiltIs ==
  ASSUME NEW kind \in StageKinds \ {"template"}, NEW checks
  PROVE  StaticGraph(kind, BuildGraph(kind, checks))
  <1> DEFINE g == BuildGraph(kind, checks)
  <1>1. CASE kind \in {"simple_query", "config_query"}
    <2>1. g = SimpleGraph
      BY <1>1 DEF BuildGraph
    <2> QED
      BY <1>1, <2>1, SimpleIs DEF StaticGraph, CheckWords
  <1>2. CASE kind = "analysis"
    <2>1. g = AnalysisGraph
      BY <1>2 DEF BuildGraph
    <2> QED
      BY <1>2, <2>1, AnalysisIs DEF StaticGraph, CheckWords
  <1>3. CASE kind = "configuration"
    <2>1. g = Around(Id("config_manage", 0), Node("config_manager", <<Plan>>))
      BY <1>3 DEF BuildGraph
    <2> QED
      BY <1>3, <2>1, WorkIs DEF StaticGraph, CheckWords
  <1>4. CASE kind = "tool_operation"
    <2>1. g = Around(Id("tool_call", 0), Node("tool_caller", <<Plan>>))
      BY <1>4 DEF BuildGraph
    <2> QED
      BY <1>4, <2>1, WorkIs DEF StaticGraph, CheckWords
  <1>5. CASE kind = "external_project"
    <2>1. g = ExternalGraph
      BY <1>5 DEF BuildGraph
    <2> QED
      BY <1>5, <2>1, ExternalIs DEF StaticGraph
  <1>6. CASE kind = "interactive"
    <2>1. g = InteractiveGraph
      BY <1>6 DEF BuildGraph
    <2> QED
      BY <1>6, <2>1, WorkIs DEF StaticGraph, CheckWords
  <1>7. CASE kind \in {"code_generation", "complex"}
    <2>1. g = CodeGraph(checks)
      BY <1>7 DEF BuildGraph
    <2> QED
      BY <1>7, <2>1, CodeIs DEF StaticGraph, CheckWords
  <1>8. CASE kind = "recovery"
    <2>1. g = <<NewNode(Id("recovery_plan", 1), Planner)>>
      BY <1>8 DEF BuildGraph, RecoveryGraph
    <2> QED
      BY <1>8, <2>1, AloneIs, ChecksNone DEF StaticGraph
  <1>9. CASE kind = "followup"
    <2>1. g = <<NewNode(Id("replan_plan", 1), Planner)>>
      BY <1>9 DEF BuildGraph, FollowupGraph
    <2> QED
      BY <1>9, <2>1, AloneIs, ChecksNone DEF StaticGraph
  <1> QED
    BY <1>1, <1>2, <1>3, <1>4, <1>5, <1>6, <1>7, <1>8, <1>9 DEF StageKinds

(* ------ the callback                                                     *)

(* What is known of a node whose name only the callback gives: who brought *)
(* it, so that a second node of that name would be a collision.            *)
LintWords(w) == "lint" \in w \/ w \cap {"test", "git"} = {}
Lint(m) == LintWords(dag[m].words)
TestsNext(m) == Lint(m) /\ TestsKnown("external" \in dag[m].words)
Finishes(m) == IF Lint(m) THEN ~TestsNext(m) ELSE "test" \in dag[m].words
Brings(role) == {m \in followups : dag[m].role = role}
Untested(m) == \A x \in Present : ~TestsAfter(m, x)

Headed(id, w) == id.name # << >> /\ Head(id.name) = w

MadeBy(id) ==
  /\ Headed(id, "fix_review") \/ Headed(id, "re_review") =>
       \E m \in Brings("reviewer") : id.num = FixIteration(m) + 1
  /\ Headed(id, "replan_after") =>
       \E m \in Brings("reviewer") : id = [m EXCEPT !.name = << "replan_after" >> \o @]
  /\ Headed(id, "validate_test") =>
       ~Lint(id) /\ \E m \in Brings("validator") : Lint(m) /\ dag[id].deps = <<m>>
  /\ Headed(id, "git_commit") \/ Headed(id, "summarize_final") =>
       \E m \in Brings("validator") : Untested(m)
  /\ Headed(id, "dynamic_checkpoint") => Brings("planner") # {}

PlanRow == [plan : PlanOutput, known : SUBSET AnyId, there : SUBSET AnyId,
            depth : Nat, accepted : BOOLEAN]
PlanTyped ==
  /\ stage \in Stage
  /\ Present \subseteq AnyId /\ dag \in [Present -> AnyNode]
  /\ st \in [Present -> {"pending", "running"} \cup Settled]
  /\ plans \in Seq(PlanRow) /\ statics \subseteq AnyId
  /\ followups \subseteq {m \in Present : st[m] \in Settled}

NamesMade == \A id \in Present : MadeBy(id)
AllOrderly == \A i \in AcceptedPlans : Orderly(plans[i])

PlanInv ==
  /\ PlanTyped
  /\ TemplatesPlain => /\ (outcome = "open" /\ AllOrderly) => NamesMade
                       /\ RefusedForACause

LEMMA PlainIsMade ==
  ASSUME NEW id, id.name # << >> => Head(id.name) \notin Reserved
  PROVE  MadeBy(id) /\ MadeBy(id)' /\ ~Headed(id, "validate_test")
  BY DEF MadeBy, Headed, Reserved

LEMMA PlanInvStart ==
  ASSUME NEW more \in Seq(Row),
         TemplatesPlain => \A i \in DOMAIN more :
            more[i].id.name # << >> => Head(more[i].id.name) \notin Reserved,
         dag = Dag(more), PlanningInit
  PROVE  PlanInv
  <1>1. /\ DOMAIN dag = NewIds(more) /\ NewIds(more) \subseteq AnyId
        /\ dag \in [NewIds(more) -> AnyNode]
    BY DagIs
  <1>2. plans = << >> /\ << >> \in Seq(PlanRow)
    BY DEF PlanningInit
  <1>3. plans \in Seq(PlanRow)
    BY <1>2
  <1>4. PlanTyped
    BY <1>1, <1>3 DEF PlanTyped, PlanningInit, Present
  <1>5. ASSUME TemplatesPlain, NEW id \in Present PROVE MadeBy(id)
    <2>1. PICK i \in DOMAIN more : more[i].id = id
      BY <1>1 DEF Present, NewIds
    <2> QED
      BY <1>5, <2>1, PlainIsMade
  <1>6. RefusedForACause
    BY DEF RefusedForACause, PlanningInit
  <1> QED
    BY <1>4, <1>5, <1>6 DEF PlanInv, NamesMade

LEMMA TemplateRows ==
  ASSUME NEW t \in Template
  PROVE  /\ TemplateGraph(t) \in Seq(Row) /\ DOMAIN TemplateGraph(t) = DOMAIN t
         /\ \A i \in DOMAIN t : TemplateGraph(t)[i].id = t[i].id
  <1>1. t \in Seq(TemplateNode)
    BY PlanningInputs
  <1>2. ASSUME NEW i \in DOMAIN t
        PROVE  TemplateGraph(t)[i] \in Row /\ TemplateGraph(t)[i].id = t[i].id
    <2>1. t[i] \in TemplateNode
      BY <1>1
    <2>2. /\ t[i].id \in AnyId /\ t[i].role \in Roles /\ t[i].deps \in Seq(AnyId)
          /\ t[i].words \in SUBSET Topics /\ t[i].fallback \in AnyId
          /\ t[i].onFail \in {"fail_fast", "continue_on_error", "fallback_node"}
      BY <2>1 DEF TemplateNode
    <2>3. PICK x : x = Node(t[i].role, t[i].deps)
      OBVIOUS
    <2>4. x \in AnyNode
      BY <2>2, <2>3, NodeIs
    <2>5. PICK y : y = [x EXCEPT !.words = t[i].words, !.onFail = t[i].onFail,
                                 !.fallback = t[i].fallback]
      OBVIOUS
    <2>6. y \in AnyNode
      BY <2>2, <2>4, <2>5 DEF AnyNode
    <2>7. TemplateGraph(t)[i] = NewNode(t[i].id, y)
      BY <2>3, <2>5 DEF TemplateGraph
    <2> QED
      BY <2>2, <2>6, <2>7, RowIs
  <1>3. DOMAIN TemplateGraph(t) = DOMAIN t /\ DOMAIN t = 1..Len(t) /\ Len(t) \in Nat
    BY <1>1 DEF TemplateGraph
  <1>4. PICK g : g = TemplateGraph(t)
    OBVIOUS
  <1>5. g = [i \in 1..Len(t) |-> g[i]]
    BY <1>3, <1>4 DEF TemplateGraph
  <1>6. g \in Seq(Row)
    BY <1>2, <1>3, <1>4, <1>5
  <1> QED
    BY <1>2, <1>3, <1>4, <1>6

LEMMA PlanInvInit == ASSUME PlanningInit PROVE PlanInv
  <1>1. stage \in Stage /\ stage.kind \in StageKinds
    BY PlanningInputs DEF PlanningInit
  <1>2. CASE stage.kind # "template"
    <2>1. PICK more : more = BuildGraph(stage.kind, stage.checks)
      OBVIOUS
    <2>2. StaticGraph(stage.kind, more)
      BY <1>1, <1>2, <2>1, BuiltIs
    <2>3. more \in Seq(Row) /\ \A i \in DOMAIN more : Head(more[i].id.name) \notin Reserved
      BY <2>2 DEF StaticGraph, StaticRows, StaticRow, Static
    <2>4. dag = Dag(more)
      BY <1>2, <2>1 DEF PlanningInit
    <2> QED
      BY <2>3, <2>4, PlanInvStart
  <1>3. CASE stage.kind = "template"
    <2>1. PICK t \in Template : dag = Dag(TemplateGraph(t))
      BY <1>3 DEF PlanningInit
    <2>2. PICK more : more = TemplateGraph(t)
      OBVIOUS
    <2>3. more \in Seq(Row) /\ DOMAIN more = DOMAIN t
          /\ \A i \in DOMAIN more : more[i].id = t[i].id
      BY <2>2, TemplateRows
    <2>4. TemplatesPlain => \A i \in DOMAIN more :
             more[i].id.name # << >> => Head(more[i].id.name) \notin Reserved
      BY <2>3 DEF TemplatesPlain
    <2> QED
      BY <2>1, <2>2, <2>3, <2>4, PlanInvStart
  <1> QED
    BY <1>2, <1>3

(* What add_node makes of the nodes that follow n: all are there and wait,  *)
(* or one of them was refused and the graph is as it was.                   *)
LEMMA Grown ==
  ASSUME PlanTyped, NEW n \in Present, st[n] = "running", NEW more \in Seq(Row), NEW skip,
         Grow(n, more, skip)
  PROVE  /\ dag' \in [Present' -> AnyNode] /\ Present' \subseteq AnyId
         /\ st' \in [Present' -> {"pending", "running"} \cup Settled]
         /\ Present \subseteq Present' /\ \A m \in Present : dag'[m] = dag[m]
         /\ st'[n] \in Settled
         /\ \A m \in Present : st[m] \in Settled => st'[m] \in Settled
         /\ \A id \in Present' \ Present :
              \E i \in DOMAIN more : more[i].id = id /\ dag'[id] = more[i].node
         /\ \/ outcome' = outcome
            \/ /\ outcome' = "refused" /\ dag' = dag
               /\ \E i \in DOMAIN more : ~Fits(more, i)
  <1> DEFINE spare == {dag[n].fallback} \cap (FallbackOnly \ armed)
             waiting == {m \in Present : st[m] = "pending"}
             after == [m \in Present |-> IF m = n THEN "succeeded"
                         ELSE IF m \in spare \/ (m \in skip /\ m \in waiting) THEN "skipped"
                         ELSE st[m]]
             new == NewIds(more)
  <1>1. /\ st \in [Present -> {"pending", "running"} \cup Settled]
        /\ dag \in [Present -> AnyNode] /\ Present \subseteq AnyId
    BY DEF PlanTyped
  <1>2. /\ after \in [Present -> {"pending", "running"} \cup Settled]
        /\ after[n] \in Settled /\ \A m \in Present : st[m] \in Settled => after[m] \in Settled
    BY <1>1 DEF Settled
  <1>3. CASE /\ \A i \in DOMAIN more : Fits(more, i)
             /\ dag' = [m \in Present \cup new |->
                          IF m \in new THEN Dag(more)[m] ELSE dag[m]]
             /\ st' = [m \in Present \cup new |-> IF m \in new THEN "pending" ELSE after[m]]
             /\ outcome' = outcome
    <2> HIDE DEF after
    <2>1. new \subseteq AnyId /\ Dag(more) \in [new -> AnyNode]
          /\ \A id \in new : \E i \in DOMAIN more :
                more[i].id = id /\ Dag(more)[id] = more[i].node
      BY DagIs
    <2>2. new \cap Present = {}
      BY <1>3 DEF Fits, NewIds
    <2> HIDE DEF new
    <2>3. Present' = Present \cup new
      BY <1>3 DEF Present
    <2>4. /\ dag' \in [Present' -> AnyNode] /\ Present' \subseteq AnyId
          /\ \A m \in Present : dag'[m] = dag[m]
          /\ \A m \in new : dag'[m] = Dag(more)[m]
      BY <1>1, <1>3, <2>1, <2>2, <2>3
    <2>5. /\ st' \in [Present' -> {"pending", "running"} \cup Settled]
          /\ \A m \in Present : st'[m] = after[m]
      BY <1>2, <1>3, <2>2, <2>3
    <2> QED
      BY <1>2, <1>3, <2>1, <2>3, <2>4, <2>5
  <1>4. CASE /\ ~ \A i \in DOMAIN more : Fits(more, i)
             /\ outcome' = "refused" /\ st' = after /\ dag' = dag
    <2> HIDE DEF after
    <2>1. Present' = Present
      BY <1>4 DEF Present
    <2> QED
      BY <1>1, <1>2, <1>4, <2>1
  <1> HIDE DEF spare, waiting
  <1>5. \/ /\ \A i \in DOMAIN more : Fits(more, i)
           /\ dag' = [m \in Present \cup new |-> IF m \in new THEN Dag(more)[m] ELSE dag[m]]
           /\ st' = [m \in Present \cup new |-> IF m \in new THEN "pending" ELSE after[m]]
           /\ outcome' = outcome
        \/ /\ ~ \A i \in DOMAIN more : Fits(more, i)
           /\ outcome' = "refused" /\ st' = after /\ dag' = dag
    BY DEF Grow, spare, waiting
  <1> HIDE DEF after, new
  <1> QED
    BY <1>3, <1>4, <1>5

(* What was said of a node's name stays true while the graph grows.        *)
LEMMA MadeStays ==
  ASSUME NEW id \in Present, MadeBy(id), UNCHANGED stage,
         followups \subseteq Present, followups \subseteq followups',
         \A m \in Present : dag'[m] = dag[m],
         \A m \in followups, x \in Present' \ Present : ~TestsAfter(m, x)'
  PROVE  MadeBy(id)'
  <1>1. /\ \A m \in Present : Lint(m)' = Lint(m)
        /\ \A m \in followups : Untested(m) => Untested(m)'
    BY DEF Lint, Untested, TestsAfter
  <1>2. \A r : Brings(r) \subseteq Brings(r)' /\ Brings(r) \subseteq Present
    BY DEF Brings
  <1>3. (Headed(id, "fix_review") \/ Headed(id, "re_review")) =>
           \E m \in Brings("reviewer")' : id.num = FixIteration(m) + 1
    BY <1>2 DEF MadeBy
  <1>4. Headed(id, "replan_after") =>
          \E m \in Brings("reviewer")' : id = [m EXCEPT !.name = << "replan_after" >> \o @]
    BY <1>2 DEF MadeBy
  <1>5. Headed(id, "validate_test") =>
          ~Lint(id)' /\ \E m \in Brings("validator")' : Lint(m)' /\ dag'[id].deps = <<m>>
    BY <1>1, <1>2 DEF MadeBy
  <1>6. (Headed(id, "git_commit") \/ Headed(id, "summarize_final")) =>
           \E m \in Brings("validator")' : Untested(m)'
    BY <1>1, <1>2 DEF MadeBy, Brings
  <1>7. Headed(id, "dynamic_checkpoint") => Brings("planner")' # {}
    BY <1>2 DEF MadeBy
  <1> QED
    BY <1>3, <1>4, <1>5, <1>6, <1>7 DEF MadeBy

(* Why the callback makes a node of the name r.id after n.                 *)
Making(n, r) ==
  \/ /\ dag[n].role = "reviewer" /\ r.id.num = FixIteration(n) + 1
     /\ Headed(r.id, "fix_review") \/ Headed(r.id, "re_review")
  \/ /\ dag[n].role = "reviewer" /\ r.id = [n EXCEPT !.name = << "replan_after" >> \o @]
     /\ Headed(r.id, "replan_after")
  \/ /\ dag[n].role = "validator" /\ Headed(r.id, "validate_test")
     /\ TestsNext(n) /\ r.node.deps = <<n>> /\ ~LintWords(r.node.words)
  \/ /\ dag[n].role = "validator" /\ Finishes(n)
     /\ Headed(r.id, "git_commit") \/ Headed(r.id, "summarize_final")
  \/ dag[n].role = "planner" /\ Headed(r.id, "dynamic_checkpoint")

LEMMA MakingIsMade ==
  ASSUME NEW n \in Present, NEW r, Making(n, r), n \in followups', dag'[n] = dag[n],
         dag'[r.id] = r.node, Finishes(n) => Untested(n)'
  PROVE  MadeBy(r.id)'
  <1>1. Lint(n)' = Lint(n) /\ (TestsNext(n) => Lint(n))
    BY DEF Lint, TestsNext
  <1>2. Lint(r.id)' = LintWords(r.node.words)
    BY DEF Lint
  <1>3. n \in Brings(dag[n].role)'
    BY DEF Brings
  <1>4. CASE /\ dag[n].role = "reviewer" /\ r.id.num = FixIteration(n) + 1
             /\ Headed(r.id, "fix_review") \/ Headed(r.id, "re_review")
    BY <1>3, <1>4 DEF MadeBy, Headed
  <1>5. CASE /\ dag[n].role = "reviewer" /\ r.id = [n EXCEPT !.name = << "replan_after" >> \o @]
             /\ Headed(r.id, "replan_after")
    BY <1>3, <1>5 DEF MadeBy, Headed
  <1>6. CASE /\ dag[n].role = "validator" /\ Headed(r.id, "validate_test")
             /\ TestsNext(n) /\ r.node.deps = <<n>> /\ ~LintWords(r.node.words)
    BY <1>1, <1>2, <1>3, <1>6 DEF MadeBy, Headed
  <1>7. CASE /\ dag[n].role = "validator" /\ Finishes(n)
             /\ Headed(r.id, "git_commit") \/ Headed(r.id, "summarize_final")
    BY <1>3, <1>7 DEF MadeBy, Headed
  <1>8. CASE dag[n].role = "planner" /\ Headed(r.id, "dynamic_checkpoint")
    BY <1>3, <1>8 DEF MadeBy, Headed
  <1> QED
    BY <1>4, <1>5, <1>6, <1>7, <1>8 DEF Making

LEMMA SameTail ==
  ASSUME NEW a \in Seq(Word), NEW b \in Seq(Word), NEW w \in Word, <<w>> \o a = <<w>> \o b
  PROVE  a = b
  <1> DEFINE c == <<w>> \o a
             d == <<w>> \o b
  <1>1. Len(c) = Len(a) + 1 /\ Len(d) = Len(b) + 1 /\ Len(a) \in Nat /\ Len(b) \in Nat
    OBVIOUS
  <1>2. \A i \in 1..Len(a) : c[i + 1] = a[i]
    OBVIOUS
  <1>3. \A i \in 1..Len(b) : d[i + 1] = b[i]
    OBVIOUS
  <1> HIDE DEF c, d
  <1>4. c = d
    BY DEF c, d
  <1> QED
    BY <1>1, <1>2, <1>3, <1>4

LEMMA TestsAreHeaded ==
  ASSUME NEW m, NEW n, TestsAfter(m, n)
  PROVE  Headed(n, "validate_test") /\ dag[n].deps = <<m>>
  <1>1. << "validate_test" >> # << >> /\ Head(<< "validate_test" >>) = "validate_test"
    OBVIOUS
  <1> QED
    BY <1>1 DEF TestsAfter, Headed

(* A name the callback would give twice shows two nodes that collide.      *)
LEMMA Clash ==
  ASSUME PlanTyped, NamesMade, NEW n \in Present, st[n] = "running", NEW r,
         Making(n, r), r.id \in Present
  PROVE  \E m \in followups : Collide(m, n)
  <1>1. MadeBy(r.id) /\ MadeBy(n)
    BY DEF NamesMade
  <1>2. \A m \in followups : m # n /\ m \in Present /\ m \in AnyId /\ MadeBy(m)
    BY DEF PlanTyped, Settled, NamesMade
  <1>3. n \in AnyId /\ n.num \in Nat
    BY DEF PlanTyped, AnyId
  <1>4. CASE /\ dag[n].role = "reviewer" /\ r.id.num = FixIteration(n) + 1
             /\ Headed(r.id, "fix_review") \/ Headed(r.id, "re_review")
    <2>1. PICK m \in Brings("reviewer") : r.id.num = FixIteration(m) + 1
      BY <1>1, <1>4 DEF MadeBy
    <2>2. m \in followups /\ dag[m].role = "reviewer"
      BY <2>1 DEF Brings
    <2>3. m.num \in Nat
      BY <1>2, <2>2 DEF AnyId
    <2>4. FixIteration(m) = FixIteration(n)
      BY <1>3, <1>4, <2>1, <2>3 DEF FixIteration
    <2> QED
      BY <1>2, <1>4, <2>2, <2>4 DEF Collide
  <1>5. CASE /\ dag[n].role = "reviewer" /\ r.id = [n EXCEPT !.name = << "replan_after" >> \o @]
             /\ Headed(r.id, "replan_after")
    <2>1. PICK m \in Brings("reviewer") : r.id = [m EXCEPT !.name = << "replan_after" >> \o @]
      BY <1>1, <1>5 DEF MadeBy
    <2>2. m \in followups /\ m \in AnyId /\ m # n
      BY <1>2, <2>1 DEF Brings
    <2>3. m.name \in Seq(Word) /\ n.name \in Seq(Word) /\ m.num = n.num
          /\ << "replan_after" >> \o m.name = << "replan_after" >> \o n.name
      BY <1>3, <1>5, <2>1, <2>2 DEF AnyId
    <2>4. m.name = n.name
      BY <2>3, SameTail, PlanningInputs DEF Reserved
    <2> QED
      BY <1>3, <2>2, <2>3, <2>4 DEF AnyId
  <1>6. CASE /\ dag[n].role = "validator" /\ Headed(r.id, "validate_test")
             /\ TestsNext(n) /\ r.node.deps = <<n>> /\ ~LintWords(r.node.words)
    <2>1. PICK m \in Brings("validator") : Lint(m)
      BY <1>1, <1>6 DEF MadeBy
    <2>2. m \in followups /\ dag[m].role = "validator"
      BY <2>1 DEF Brings
    <2>3. \A x \in {m, n} : ~Headed(x, "validate_test")
      BY <1>1, <1>2, <1>6, <2>1, <2>2 DEF MadeBy, TestsNext
    <2>4. ~TestsAfter(m, n) /\ ~TestsAfter(n, m)
      BY <2>3, TestsAreHeaded
    <2> QED
      BY <1>2, <1>6, <2>2, <2>4 DEF Collide
  <1>7. CASE /\ dag[n].role = "validator" /\ Finishes(n)
             /\ Headed(r.id, "git_commit") \/ Headed(r.id, "summarize_final")
    <2>1. PICK m \in Brings("validator") : Untested(m)
      BY <1>1, <1>7 DEF MadeBy
    <2>2. m \in followups /\ dag[m].role = "validator" /\ m # n /\ MadeBy(m)
      BY <1>2, <2>1 DEF Brings
    <2>4. ~TestsAfter(m, n)
      BY <2>1 DEF Untested
    <2>5. ~TestsAfter(n, m)
      <3> SUFFICES ASSUME TestsAfter(n, m) PROVE FALSE
        OBVIOUS
      <3>1. Headed(m, "validate_test") /\ dag[m].deps = <<n>>
        BY TestsAreHeaded
      <3>2. PICK k \in Brings("validator") : dag[m].deps = <<k>>
        BY <2>2, <3>1 DEF MadeBy
      <3>3. k # n
        BY <1>2, <3>2 DEF Brings
      <3> QED
        BY <3>1, <3>2, <3>3
    <2> QED
      BY <1>7, <2>2, <2>4, <2>5 DEF Collide
  <1>8. CASE dag[n].role = "planner" /\ Headed(r.id, "dynamic_checkpoint")
    <2>1. PICK m : m \in Brings("planner")
      BY <1>1, <1>8 DEF MadeBy
    <2> QED
      BY <1>2, <1>8, <2>1 DEF Brings, Collide
  <1> QED
    BY <1>4, <1>5, <1>6, <1>7, <1>8 DEF Making

(* A row the callback may add after n, when those before are added.        *)
Good(n, r, before) ==
  /\ r \in Row /\ Making(n, r) /\ r.node.fallback = NoId
  /\ r.node.depth =< dag[n].depth + 2
  /\ r.id \notin before /\ Range(r.node.deps) \subseteq {n} \cup before
Follow(n, more) ==
  /\ more \in Seq(Row)
  /\ \A i \in DOMAIN more : Good(n, more[i], {more[j].id : j \in 1..(i - 1)})

LEMMA FollowNone ==
  ASSUME NEW n PROVE Follow(n, << >>)
  <1>1. << >> \in Seq(Row) /\ DOMAIN << >> = {}
    OBVIOUS
  <1> QED
    BY <1>1 DEF Follow

LEMMA FollowOne ==
  ASSUME NEW n, NEW r, Good(n, r, {})
  PROVE  Follow(n, <<r>>)
  <1>1. PICK more : more = <<r>>
    OBVIOUS
  <1>2. more \in Seq(Row) /\ DOMAIN more = {1} /\ more[1] = r
    BY <1>1 DEF Good
  <1>3. {more[j].id : j \in 1..(1 - 1)} = {}
    OBVIOUS
  <1> QED
    BY <1>1, <1>2, <1>3 DEF Follow

LEMMA FollowTwo ==
  ASSUME NEW n, NEW r, NEW s, Good(n, r, {}), Good(n, s, {r.id})
  PROVE  Follow(n, <<r, s>>)
  <1>1. PICK more : more = <<r, s>>
    OBVIOUS
  <1>2. more \in Seq(Row) /\ DOMAIN more = {1, 2} /\ more[1] = r /\ more[2] = s
    BY <1>1 DEF Good
  <1>3. {more[j].id : j \in 1..(1 - 1)} = {}
    OBVIOUS
  <1>4. {more[j].id : j \in 1..(2 - 1)} = {r.id}
    BY <1>2
  <1> DEFINE before(i) == {more[j].id : j \in 1..(i - 1)}
  <1>5. before(1) = {} /\ before(2) = {r.id}
    BY <1>3, <1>4
  <1> HIDE DEF before
  <1>6. \A i \in DOMAIN more : Good(n, more[i], before(i))
    BY <1>2, <1>5
  <1> QED
    BY <1>1, <1>2, <1>6 DEF Follow, before

LEMMA FollowThree ==
  ASSUME NEW n, NEW r, NEW s, NEW t,
         Good(n, r, {}), Good(n, s, {r.id}), Good(n, t, {r.id, s.id})
  PROVE  Follow(n, <<r, s>> \o <<t>>)
  <1>1. PICK more : more = <<r, s>> \o <<t>>
    OBVIOUS
  <1>2. r \in Row /\ s \in Row /\ t \in Row
    BY DEF Good
  <1>3. /\ more \in Seq(Row) /\ DOMAIN more = {1, 2, 3}
        /\ more[1] = r /\ more[2] = s /\ more[3] = t
    BY <1>1, <1>2
  <1>4. {more[j].id : j \in 1..(1 - 1)} = {}
    OBVIOUS
  <1>5. {more[j].id : j \in 1..(2 - 1)} = {r.id}
    BY <1>3
  <1>6. {more[j].id : j \in 1..(3 - 1)} = {r.id, s.id}
    <2>1. 1..(3 - 1) = {1, 2}
      OBVIOUS
    <2> QED
      BY <1>3, <2>1
  <1> DEFINE before(i) == {more[j].id : j \in 1..(i - 1)}
  <1>7. before(1) = {} /\ before(2) = {r.id} /\ before(3) = {r.id, s.id}
    BY <1>4, <1>5, <1>6
  <1> HIDE DEF before
  <1>8. \A i \in DOMAIN more : Good(n, more[i], before(i))
    BY <1>3, <1>7
  <1> QED
    BY <1>1, <1>3, <1>8 DEF Follow, before

LEMMA GoodIs ==
  ASSUME PlanTyped, NEW n \in Present, NEW id \in AnyId, NEW x \in AnyNode, NEW k \in {1, 2},
         x.fallback = NoId,
         NEW before, id \notin before, Range(x.deps) \subseteq {n} \cup before,
         \A y \in AnyNode : (y.deps = x.deps /\ y.words = x.words) => Making(n, NewNode(id, y))
  PROVE  /\ Good(n, NewNode(id, Under(n, x, k)), before)
         /\ NewNode(id, Under(n, x, k)).id = id
  <1>1. dag[n] \in AnyNode /\ dag[n].depth \in Nat
    BY DEF PlanTyped, AnyNode
  <1>2. PICK y : y = Under(n, x, k)
    OBVIOUS
  <1>3. y = [x EXCEPT !.depth = dag[n].depth + k] /\ dag[n].depth + k \in Nat
    BY <1>1, <1>2 DEF Under
  <1>4. /\ y \in AnyNode /\ y.deps = x.deps /\ y.words = x.words /\ y.depth = dag[n].depth + k
        /\ y.fallback = NoId
    BY <1>3, DepthIs
  <1>5. /\ NewNode(id, y) \in Row /\ NewNode(id, y).id = id /\ NewNode(id, y).node = y
        /\ Making(n, NewNode(id, y))
    BY <1>4, RowIs
  <1>6. y.depth =< dag[n].depth + 2
    BY <1>1, <1>4
  <1>7. Good(n, NewNode(id, y), before)
    BY <1>4, <1>5, <1>6 DEF Good
  <1> QED
    BY <1>2, <1>5, <1>7

LEMMA RangeOne ==
  ASSUME NEW n PROVE Range(<<n>>) = {n}
  BY DEF Range

LEMMA HeadedIs ==
  ASSUME NEW w \in Word, NEW k \in Nat
  PROVE  Id(w, k) \in AnyId /\ Headed(Id(w, k), w) /\ Id(w, k).num = k
  <1>1. <<w>> # << >>
    OBVIOUS
  <1> QED
    BY <1>1, IdIs DEF Headed

LEMMA CheckpointFollows ==
  ASSUME PlanTyped, NEW n \in Present, dag[n].role = "planner"
  PROVE  Follow(n, Checkpoint(n))
  <1> DEFINE id == Id("dynamic_checkpoint", 0)
  <1>1. n \in AnyId /\ <<n>> \in Seq(AnyId) /\ "summarizer" \in Roles
    BY DEF PlanTyped, Roles
  <1>2. id \in AnyId /\ Headed(id, "dynamic_checkpoint")
    BY HeadedIs, PlanningInputs DEF Reserved
  <1>3. PICK x : x = Node("summarizer", <<n>>)
    OBVIOUS
  <1>4. x \in AnyNode /\ x.deps = <<n>> /\ x.fallback = NoId
    BY <1>1, <1>3, NodeAfter
  <1>5. ASSUME NEW y \in AnyNode PROVE Making(n, NewNode(id, y))
    BY <1>2, RowIs DEF Making
  <1> HIDE DEF id
  <1>6. Good(n, NewNode(id, Under(n, x, 1)), {})
    BY <1>2, <1>4, <1>5, RangeOne, GoodIs
  <1>7. Checkpoint(n) = IF stage.long THEN <<NewNode(id, Under(n, x, 1))>> ELSE << >>
    BY <1>3 DEF Checkpoint, id
  <1> QED
    BY <1>6, <1>7, FollowOne, FollowNone

LEMMA ReviewFollows ==
  ASSUME PlanTyped, NEW n \in Present, dag[n].role = "reviewer", NEW marks
  PROVE  Follow(n, (IF "REQUEST_CHANGES" \in marks THEN ReviewRound(n) ELSE << >>)
                   \o (IF "INCOMPLETE" \in marks THEN Replan(n) ELSE << >>))
  <1> DEFINE k == FixIteration(n) + 1
             fix == Id("fix_review", k)
             again == Id("re_review", k)
             planner == [n EXCEPT !.name = << "replan_after" >> \o @]
             x == Node("coder", <<n>>)
             y == Node("reviewer", <<fix>>)
             z == Strict(Node("planner", <<n>>))
             r == NewNode(fix, Under(n, x, 1))
             s == NewNode(again, Under(n, y, 2))
             t == NewNode(planner, Under(n, z, 1))
  <1>1. /\ n \in AnyId /\ <<n>> \in Seq(AnyId) /\ {"coder", "reviewer", "planner"} \subseteq Roles
        /\ {"fix_review", "re_review", "replan_after"} \subseteq Word
    BY PlanningInputs DEF PlanTyped, Roles, Reserved
  <1>2. k \in Nat
    BY <1>1 DEF FixIteration, AnyId
  <1> HIDE DEF k
  <1>3. /\ fix \in AnyId /\ Headed(fix, "fix_review") /\ fix.num = k
        /\ again \in AnyId /\ Headed(again, "re_review") /\ again.num = k
    BY <1>1, <1>2, HeadedIs
  <1>4. planner \in AnyId /\ Headed(planner, "replan_after")
    <2>1. PICK a \in Seq(Word) : a = n.name
      BY <1>1 DEF AnyId
    <2>2. PICK b : b = << "replan_after" >> \o a
      OBVIOUS
    <2>3. b \in Seq(Word) /\ b # << >> /\ Head(b) = "replan_after"
      <3>1. "replan_after" \in Word
        BY <1>1
      <3> QED
        BY <2>1, <2>2, <3>1
    <2>4. planner = [n EXCEPT !.name = b]
      BY <2>1, <2>2
    <2>5. planner = [name |-> b, num |-> n.num]
      BY <1>1, <2>4 DEF AnyId
    <2> QED
      BY <1>1, <2>3, <2>5 DEF AnyId, Headed
  <1>5. fix # again /\ planner \notin {fix, again}
    BY <1>3, <1>4 DEF Headed
  <1>6. /\ x \in AnyNode /\ x.deps = <<n>> /\ y \in AnyNode /\ y.deps = <<fix>>
        /\ z \in AnyNode /\ z.deps = <<n>>
        /\ x.fallback = NoId /\ y.fallback = NoId /\ z.fallback = NoId
    <2>1. <<fix>> \in Seq(AnyId)
      BY <1>3
    <2>2. "coder" \in Roles /\ "reviewer" \in Roles /\ "planner" \in Roles
      BY <1>1
    <2>3. \A d \in Seq(AnyId), ro \in Roles :
            Node(ro, d) \in AnyNode /\ Node(ro, d).deps = d /\ Node(ro, d).fallback = NoId
      BY NodeIs
    <2> HIDE DEF fix
    <2>6. x \in AnyNode /\ x.deps = <<n>> /\ x.fallback = NoId
      BY <1>1, <2>2, <2>3
    <2>7. y \in AnyNode /\ y.deps = <<fix>> /\ y.fallback = NoId
      BY <2>1, <2>2, <2>3
    <2>4. PICK w : w = Node("planner", <<n>>)
      OBVIOUS
    <2>5. w \in AnyNode /\ w.deps = <<n>> /\ w.fallback = NoId
      BY <1>1, <2>2, <2>3, <2>4
    <2> QED
      BY <2>4, <2>5, <2>6, <2>7, StrictIs
  <1> HIDE DEF x, y, z
  <1>7. ASSUME NEW d \in AnyNode PROVE Making(n, NewNode(fix, d))
    BY <1>3, RowIs DEF Making, k
  <1>20. ASSUME NEW d \in AnyNode PROVE Making(n, NewNode(again, d))
    BY <1>3, RowIs DEF Making, k
  <1>8. ASSUME NEW d \in AnyNode PROVE Making(n, NewNode(planner, d))
    BY <1>4, RowIs DEF Making
  <1>9. ReviewRound(n) = IF FixIteration(n) >= 3 THEN << >> ELSE <<r, s>>
    BY DEF ReviewRound, k, x, y
  <1>10. Replan(n) = IF dag[n].depth < 4 THEN <<t>> ELSE << >>
    BY DEF Replan, z
  <1> HIDE DEF fix, again, planner
  <1>11. Good(n, r, {}) /\ r.id = fix
    <2>1. Range(x.deps) \subseteq {n} \cup {} /\ fix \notin {}
      BY <1>5, <1>6, RangeOne
    <2>2. \A d \in AnyNode : Making(n, NewNode(fix, d))
      BY <1>7
    <2>3. 1 \in {1, 2} /\ fix \in AnyId /\ x \in AnyNode /\ x.fallback = NoId
      BY <1>3, <1>4, <1>6
    <2> QED
      BY <2>1, <2>2, <2>3, GoodIs
  <1>12. Good(n, s, {fix}) /\ s.id = again
    <2>1. Range(y.deps) \subseteq {n} \cup {fix} /\ again \notin {fix}
      BY <1>5, <1>6, RangeOne
    <2>2. \A d \in AnyNode : Making(n, NewNode(again, d))
      BY <1>20
    <2>3. 2 \in {1, 2} /\ again \in AnyId /\ y \in AnyNode /\ y.fallback = NoId
      BY <1>3, <1>4, <1>6
    <2> QED
      BY <2>1, <2>2, <2>3, GoodIs
  <1>13. Good(n, t, {})
    <2>1. Range(z.deps) \subseteq {n} \cup {} /\ planner \notin {}
      BY <1>5, <1>6, RangeOne
    <2>2. \A d \in AnyNode : Making(n, NewNode(planner, d))
      BY <1>8
    <2>3. 1 \in {1, 2} /\ planner \in AnyId /\ z \in AnyNode /\ z.fallback = NoId
      BY <1>3, <1>4, <1>6
    <2> QED
      BY <2>1, <2>2, <2>3, GoodIs
  <1>14. Good(n, t, {fix, again})
    <2>1. Range(z.deps) \subseteq {n} \cup {fix, again} /\ planner \notin {fix, again}
      BY <1>5, <1>6, RangeOne
    <2>2. \A d \in AnyNode : Making(n, NewNode(planner, d))
      BY <1>8
    <2>3. 1 \in {1, 2} /\ planner \in AnyId /\ z \in AnyNode /\ z.fallback = NoId
      BY <1>3, <1>4, <1>6
    <2> QED
      BY <2>1, <2>2, <2>3, GoodIs
  <1> HIDE DEF r, s, t
  <1>15. Follow(n, <<r, s>>) /\ Follow(n, <<t>>) /\ Follow(n, <<r, s>> \o <<t>>)
    BY <1>11, <1>12, <1>13, <1>14, FollowOne, FollowTwo, FollowThree
  <1>16. \A a, b : (a \in {<< >>, <<r, s>>} /\ b \in {<< >>, <<t>>}) =>
            a \o b \in {<< >>, <<r, s>>, <<t>>, <<r, s>> \o <<t>>}
    <2>1. <<r, s>> \in Seq({r, s, t}) /\ <<t>> \in Seq({r, s, t})
      OBVIOUS
    <2>2. << >> \o << >> = << >> /\ << >> \o <<t>> = <<t>> /\ <<r, s>> \o << >> = <<r, s>>
      BY <2>1
    <2> QED
      BY <2>2
  <1>17. PICK a, b : /\ a = IF "REQUEST_CHANGES" \in marks THEN ReviewRound(n) ELSE << >>
                     /\ b = IF "INCOMPLETE" \in marks THEN Replan(n) ELSE << >>
    OBVIOUS
  <1>18. a \in {<< >>, <<r, s>>} /\ b \in {<< >>, <<t>>}
    BY <1>9, <1>10, <1>17
  <1>19. Follow(n, a \o b)
    BY <1>15, <1>16, <1>18, FollowNone
  <1> QED
    BY <1>17, <1>19

LEMMA TestFollows ==
  ASSUME PlanTyped, NEW n \in Present, dag[n].role = "validator", TestsNext(n),
         NEW k \in Nat, NEW w \in {{"test"}, {"external", "test"}}, NEW strict \in BOOLEAN
  PROVE  Follow(n, TestNode(n, Id("validate_test", k), w, strict))
  <1> DEFINE id == Id("validate_test", k)
  <1>1. n \in AnyId /\ <<n>> \in Seq(AnyId) /\ "validator" \in Roles /\ w \in SUBSET Topics
    BY DEF PlanTyped, Roles, Topics
  <1>2. id \in AnyId /\ Headed(id, "validate_test")
    BY HeadedIs, PlanningInputs DEF Reserved
  <1>3. PICK v : v = Node("validator", <<n>>)
    OBVIOUS
  <1>4. v \in AnyNode /\ v.deps = <<n>> /\ v.fallback = NoId
    BY <1>1, <1>3, NodeAfter
  <1>5. PICK u : u = [v EXCEPT !.words = w]
    OBVIOUS
  <1>6. u \in AnyNode /\ u.deps = <<n>> /\ u.words = w /\ u.fallback = NoId
    BY <1>1, <1>4, <1>5, WordsIs
  <1>7. PICK x : x = IF strict THEN Strict(u) ELSE u
    OBVIOUS
  <1>8. x \in AnyNode /\ x.deps = <<n>> /\ x.words = w /\ x.fallback = NoId
    <2>1. /\ Strict(u) \in AnyNode /\ Strict(u).deps = <<n>> /\ Strict(u).words = w
          /\ Strict(u).fallback = NoId
      BY <1>6, StrictIs
    <2> QED
      BY <1>6, <1>7, <2>1
  <1>9. ~LintWords(w)
    BY DEF LintWords
  <1> HIDE DEF id
  <1>10. ASSUME NEW y \in AnyNode, y.deps = x.deps, y.words = x.words
         PROVE  Making(n, NewNode(id, y))
    <2>1. NewNode(id, y).id = id /\ NewNode(id, y).node = y
      BY <1>2, <1>10, RowIs
    <2> QED
      BY <1>2, <1>8, <1>9, <1>10, <2>1 DEF Making
  <1>11. Good(n, NewNode(id, Under(n, x, 1)), {})
    <2>1. Range(x.deps) \subseteq {n} \cup {} /\ id \notin {}
      BY <1>8, RangeOne
    <2>2. \A y \in AnyNode : (y.deps = x.deps /\ y.words = x.words) => Making(n, NewNode(id, y))
      BY <1>10
    <2>3. 1 \in {1, 2}
      OBVIOUS
    <2> QED
      BY <1>2, <1>8, <2>1, <2>2, <2>3, GoodIs
  <1>12. TestNode(n, id, w, strict) = <<NewNode(id, Under(n, x, 1))>>
    BY <1>3, <1>5, <1>7 DEF TestNode
  <1>13. Follow(n, TestNode(n, id, w, strict))
    BY <1>11, <1>12, FollowOne
  <1> QED
    BY <1>13 DEF id

LEMMA FinishFollows ==
  ASSUME PlanTyped, NEW n \in Present, dag[n].role = "validator", Finishes(n)
  PROVE  Follow(n, GitAndSummary(n))
  <1> DEFINE commit == Id("git_commit", 0)
             final == Id("summarize_final", 0)
             git == [Strict(Node("validator", <<n>>)) EXCEPT !.words = {"git"}]
             last(dep) == Strict(Node("summarizer", <<dep>>))
             after == last(commit)
             now == last(n)
             r == NewNode(commit, Under(n, git, 1))
             s == NewNode(final, Under(n, after, 2))
             t == NewNode(final, Under(n, now, 1))
  <1>1. /\ n \in AnyId /\ <<n>> \in Seq(AnyId)
        /\ "validator" \in Roles /\ "summarizer" \in Roles /\ {"git"} \in SUBSET Topics
    BY DEF PlanTyped, Roles, Topics
  <1>2. /\ commit \in AnyId /\ Headed(commit, "git_commit")
        /\ final \in AnyId /\ Headed(final, "summarize_final")
    BY HeadedIs, PlanningInputs DEF Reserved
  <1>3. final # commit
    BY <1>2 DEF Headed
  <1>4. GitAndSummary(n) = IF stage.checks.git THEN <<r, s>> ELSE <<t>>
    BY DEF GitAndSummary
  <1> HIDE DEF commit, final
  <1>5. \A d \in Seq(AnyId), ro \in Roles :
           /\ Strict(Node(ro, d)) \in AnyNode /\ Strict(Node(ro, d)).deps = d
           /\ Strict(Node(ro, d)).fallback = NoId
    <2> TAKE d \in Seq(AnyId), ro \in Roles
    <2>1. Node(ro, d) \in AnyNode /\ Node(ro, d).deps = d /\ Node(ro, d).fallback = NoId
      BY NodeIs
    <2> QED
      BY <2>1, StrictIs
  <1>6. git \in AnyNode /\ git.deps = <<n>> /\ git.fallback = NoId
    <2>1. PICK v : v = Strict(Node("validator", <<n>>))
      OBVIOUS
    <2>2. v \in AnyNode /\ v.deps = <<n>> /\ v.fallback = NoId
      BY <1>1, <1>5, <2>1
    <2>3. PICK u : u = [v EXCEPT !.words = {"git"}]
      OBVIOUS
    <2>4. u \in AnyNode /\ u.deps = <<n>> /\ u.fallback = NoId
      BY <1>1, <2>2, <2>3, WordsIs
    <2> QED
      BY <2>1, <2>3, <2>4
  <1>7. after \in AnyNode /\ after.deps = <<commit>> /\ after.fallback = NoId
    <2>1. <<commit>> \in Seq(AnyId)
      BY <1>2
    <2> QED
      BY <1>1, <1>5, <2>1
  <1>8. now \in AnyNode /\ now.deps = <<n>> /\ now.fallback = NoId
    BY <1>1, <1>5
  <1> HIDE DEF git, after, now
  <1>9. ASSUME NEW id \in {commit, final}, NEW d \in AnyNode PROVE Making(n, NewNode(id, d))
    <2>1. NewNode(id, d).id = id
      BY <1>2, <1>9, RowIs
    <2> QED
      BY <1>2, <1>9, <2>1 DEF Making
  <1>10. 1 \in {1, 2} /\ 2 \in {1, 2} /\ Range(<<n>>) = {n} /\ Range(<<commit>>) = {commit}
    BY RangeOne
  <1>11. Good(n, r, {}) /\ r.id = commit
    <2>1. Range(git.deps) \subseteq {n} \cup {} /\ commit \notin {}
      BY <1>6, <1>10
    <2>2. \A d \in AnyNode : Making(n, NewNode(commit, d))
      BY <1>9
    <2> QED
      BY <1>2, <1>6, <1>10, <2>1, <2>2, GoodIs
  <1>12. Good(n, s, {commit})
    <2>1. Range(after.deps) \subseteq {n} \cup {commit} /\ final \notin {commit}
      BY <1>3, <1>7, <1>10
    <2>2. \A d \in AnyNode : Making(n, NewNode(final, d))
      BY <1>9
    <2> QED
      BY <1>2, <1>7, <1>10, <2>1, <2>2, GoodIs
  <1>13. Good(n, t, {})
    <2>1. Range(now.deps) \subseteq {n} \cup {} /\ final \notin {}
      BY <1>8, <1>10
    <2>2. \A d \in AnyNode : Making(n, NewNode(final, d))
      BY <1>9
    <2> QED
      BY <1>2, <1>8, <1>10, <2>1, <2>2, GoodIs
  <1> HIDE DEF r, s, t
  <1> QED
    BY <1>4, <1>11, <1>12, <1>13, FollowOne, FollowTwo

LEMMA CheckFollows ==
  ASSUME PlanTyped, NEW n \in Present, dag[n].role = "validator"
  PROVE  Follow(n, AfterCheck(n))
  <1>1. PICK w : w = dag[n].words
    OBVIOUS
  <1> DEFINE external == "external" \in w
  <1>3. PICK k \in Nat : k = IF external \/ n = ValidateLint THEN 0 ELSE FixIteration(n)
    BY DEF PlanTyped, AnyId, FixIteration
  <1>4. PICK id : id = Id("validate_test", k)
    OBVIOUS
  <1>5. AfterCheck(n) =
          IF ~LintWords(w) THEN IF "test" \in w THEN GitAndSummary(n) ELSE << >>
          ELSE IF ~TestsKnown(external) THEN GitAndSummary(n)
          ELSE IF external THEN TestNode(n, id, {"external", "test"}, FALSE)
          ELSE TestNode(n, id, {"test"}, TRUE)
    BY <1>1, <1>3, <1>4 DEF AfterCheck, LintWords
  <1>6. /\ Lint(n) <=> LintWords(w)
        /\ TestsNext(n) <=> LintWords(w) /\ TestsKnown(external)
        /\ Finishes(n) <=> IF LintWords(w) THEN ~TestsNext(n) ELSE "test" \in w
    BY <1>1 DEF Lint, TestsNext, Finishes
  <1>7. TestsNext(n) => Follow(n, TestNode(n, id, {"external", "test"}, FALSE))
                        /\ Follow(n, TestNode(n, id, {"test"}, TRUE))
    BY <1>4, TestFollows
  <1>8. Finishes(n) => Follow(n, GitAndSummary(n))
    BY FinishFollows
  <1>9. CASE LintWords(w)
    BY <1>5, <1>6, <1>7, <1>8, <1>9
  <1>10. CASE ~LintWords(w)
    BY <1>5, <1>6, <1>8, <1>10, FollowNone
  <1> QED
    BY <1>9, <1>10

(* ------ every step                                                       *)

LEMMA FollowRefused ==
  ASSUME PlanTyped, NEW n \in Present, NEW more, Follow(n, more), NEW i \in DOMAIN more,
         ~Fits(more, i)
  PROVE  more[i].id \in Present \/ dag[n].depth + 2 > MaxGraphDepth
  <1>1. Good(n, more[i], {more[j].id : j \in 1..(i - 1)})
    BY DEF Follow
  <1>2. more[i].node.depth \in Nat /\ dag[n].depth \in Nat /\ MaxGraphDepth \in Nat
    BY <1>1, PlanningBounds DEF Good, Row, AnyNode, PlanTyped
  <1> QED
    BY <1>1, <1>2 DEF Fits, Good

LEMMA FollowStep ==
  ASSUME PlanInv, NEW n \in Present, NEW more, Follow(n, more), FollowedBy(n, more, {}),
         BringsFollowups(n, more)
  PROVE  PlanInv'
  <1>1. /\ PlanTyped /\ outcome = "open" /\ st[n] = "running"
        /\ UNCHANGED <<stage, statics, plans>> /\ Grow(n, more, {})
        /\ followups' = IF more = << >> THEN followups ELSE followups \cup {n}
        /\ more \in Seq(Row)
    BY DEF PlanInv, FollowedBy, BringsFollowups, Follow
  <1>2. /\ dag' \in [Present' -> AnyNode] /\ Present' \subseteq AnyId
        /\ st' \in [Present' -> {"pending", "running"} \cup Settled]
        /\ Present \subseteq Present' /\ \A m \in Present : dag'[m] = dag[m]
        /\ st'[n] \in Settled
        /\ \A m \in Present : st[m] \in Settled => st'[m] \in Settled
    BY <1>1, Grown
  <1>3. \A id \in Present' \ Present :
          \E i \in DOMAIN more : more[i].id = id /\ dag'[id] = more[i].node
    BY <1>1, Grown
  <1>4. \/ outcome' = outcome
        \/ /\ outcome' = "refused" /\ dag' = dag
           /\ \E i \in DOMAIN more : ~Fits(more, i)
    BY <1>1, Grown
  <1>5. followups \subseteq Present /\ followups \subseteq followups'
    BY <1>1 DEF PlanTyped
  <1>6. PlanTyped'
    BY <1>1, <1>2 DEF PlanTyped
  <1>7. \A i \in DOMAIN more : n \in followups'
    <2>1. more = << >> => DOMAIN more = {}
      OBVIOUS
    <2> QED
      BY <1>1, <2>1
  <1>8. AllOrderly' <=> AllOrderly
    BY <1>1 DEF AllOrderly, AcceptedPlans
  <1>9. TemplatesPlain => (AllOrderly => NamesMade)
    BY <1>1 DEF PlanInv
  <1>12. ASSUME NEW m, NEW x \in Present' \ Present, TestsAfter(m, x)'
         PROVE  m = n /\ TestsNext(n)
    <2>1. PICK i \in DOMAIN more : more[i].id = x /\ dag'[x] = more[i].node
      BY <1>3
    <2>2. Making(n, more[i])
      BY DEF Follow, Good
    <2>3. x.name = << "validate_test" >> /\ more[i].node.deps = <<m>>
      BY <1>12, <2>1 DEF TestsAfter
    <2>4. /\ Headed(x, "validate_test")
          /\ \A w \in {"fix_review", "re_review", "replan_after", "git_commit",
                       "summarize_final", "dynamic_checkpoint"} : ~Headed(x, w)
      BY <2>3 DEF Headed
    <2>5. TestsNext(n) /\ more[i].node.deps = <<n>>
      BY <2>1, <2>2, <2>4 DEF Making
    <2>6. <<m>>[1] = m /\ <<n>>[1] = n
      OBVIOUS
    <2> QED
      BY <2>3, <2>5, <2>6
  <1>13. n \notin followups /\ \A m \in followups, x \in Present' \ Present : ~TestsAfter(m, x)'
    <2>1. n \notin followups
      BY <1>1 DEF PlanTyped, Settled
    <2> QED
      BY <1>12, <2>1
  <1>14. NamesMade /\ Finishes(n) => Untested(n)'
    <2> SUFFICES ASSUME NamesMade, Finishes(n), NEW x \in Present', TestsAfter(n, x)'
                 PROVE  FALSE
      BY DEF Untested
    <2>1. TestsNext(n) => ~Finishes(n)
      BY DEF TestsNext, Finishes
    <2>2. CASE x \in Present
      <3>1. TestsAfter(n, x)
        BY <1>2, <2>2 DEF TestsAfter
      <3>2. Headed(x, "validate_test") /\ dag[x].deps = <<n>>
        BY <3>1, TestsAreHeaded
      <3>3. PICK m \in Brings("validator") : dag[x].deps = <<m>>
        BY <2>2, <3>2 DEF NamesMade, MadeBy
      <3>4. m \in followups /\ <<m>>[1] = m /\ <<n>>[1] = n
        BY <3>3 DEF Brings
      <3> QED
        BY <1>13, <3>2, <3>3, <3>4
    <2>3. CASE x \notin Present
      BY <1>12, <2>1, <2>3
    <2> QED
      BY <2>2, <2>3
  <1>10. ASSUME TemplatesPlain, AllOrderly' PROVE NamesMade'
    <2>1. ASSUME NEW id \in Present PROVE MadeBy(id)'
      BY <1>1, <1>2, <1>5, <1>8, <1>9, <1>10, <1>13, MadeStays DEF NamesMade
    <2>2. ASSUME NEW id \in Present' \ Present PROVE MadeBy(id)'
      <3>1. PICK i \in DOMAIN more : more[i].id = id /\ dag'[id] = more[i].node
        BY <1>3
      <3>2. Making(n, more[i]) /\ n \in followups' /\ dag'[n] = dag[n]
        BY <1>2, <1>7 DEF Follow, Good
      <3>3. MadeBy(more[i].id)'
        BY <1>8, <1>9, <1>10, <1>14, <3>1, <3>2, MakingIsMade
      <3> QED
        BY <3>1, <3>3
    <2> QED
      BY <2>1, <2>2 DEF NamesMade
  <1>11. ASSUME TemplatesPlain PROVE RefusedForACause'
    <2>1. CASE outcome' = outcome
      BY <1>1, <2>1 DEF RefusedForACause
    <2>2. CASE /\ outcome' = "refused" /\ dag' = dag
               /\ \E i \in DOMAIN more : ~Fits(more, i)
      <3>1. CASE ~AllOrderly
        BY <1>1, <3>1 DEF AllOrderly, AcceptedPlans, RefusedForACause
      <3>2. CASE AllOrderly
        <4>1. PICK i \in DOMAIN more : ~Fits(more, i)
          BY <2>2
        <4>2. more[i].id \in Present \/ dag[n].depth + 2 > MaxGraphDepth
          BY <1>1, <4>1, FollowRefused
        <4>3. CASE more[i].id \in Present
          <5>1. Making(n, more[i])
            BY DEF Follow, Good
          <5>2. PICK m \in followups : Collide(m, n)
            BY <1>1, <1>9, <1>11, <3>2, <4>3, <5>1, Clash
          <5>3. Collide(m, n)'
            BY <2>2, <5>2 DEF Collide, TestsAfter
          <5> QED
            BY <1>5, <1>7, <5>2, <5>3 DEF RefusedForACause
        <4>4. CASE dag[n].depth + 2 > MaxGraphDepth
          BY <1>7, <2>2, <4>4 DEF RefusedForACause
        <4> QED
          BY <4>2, <4>3, <4>4
      <3> QED
        BY <3>1, <3>2
    <2> QED
      BY <1>4, <2>1, <2>2
  <1> QED
    BY <1>6, <1>10, <1>11 DEF PlanInv

LEMMA SubtasksAre ==
  ASSUME PlanTyped, NEW n \in Present, NEW plan \in Seq(Subtask)
  PROVE  /\ Subtasks(n, plan) \in Seq(Row) /\ DOMAIN Subtasks(n, plan) = DOMAIN plan
         /\ \A i \in DOMAIN plan :
              LET r == Subtasks(n, plan)[i]
              IN /\ r.id = plan[i].id /\ r.node.depth = dag[n].depth + 1
                 /\ r.node.fallback = NoId
                 /\ r.node.deps = IF plan[i].deps = << >> THEN <<n>> ELSE plan[i].deps
  <1>1. n \in AnyId /\ <<n>> \in Seq(AnyId) /\ dag[n].depth \in Nat
    BY DEF PlanTyped, AnyNode
  <1>2. PICK g : g = Subtasks(n, plan)
    OBVIOUS
  <1>3. ASSUME NEW i \in DOMAIN plan
        PROVE  /\ g[i] \in Row /\ g[i].id = plan[i].id /\ g[i].node.depth = dag[n].depth + 1
               /\ g[i].node.fallback = NoId
               /\ g[i].node.deps = IF plan[i].deps = << >> THEN <<n>> ELSE plan[i].deps
    <2>1. PICK d : d = IF plan[i].deps = << >> THEN <<n>> ELSE plan[i].deps
      OBVIOUS
    <2>2. plan[i] \in Subtask
      OBVIOUS
    <2>3. /\ plan[i].id \in AnyId /\ plan[i].role \in Roles /\ d \in Seq(AnyId)
          /\ plan[i].words \in SUBSET Topics
      BY <1>1, <2>1, <2>2 DEF Subtask
    <2>4. PICK x : x = Node(plan[i].role, d)
      OBVIOUS
    <2>5. x \in AnyNode /\ x.deps = d /\ x.fallback = NoId
      BY <2>3, <2>4, NodeIs
    <2>6. PICK y : y = [x EXCEPT !.words = plan[i].words]
      OBVIOUS
    <2>7. y \in AnyNode /\ y.deps = d /\ y.fallback = NoId
      BY <2>3, <2>5, <2>6, WordsIs
    <2>8. PICK z : z = Under(n, y, 1)
      OBVIOUS
    <2>9. z = [y EXCEPT !.depth = dag[n].depth + 1] /\ dag[n].depth + 1 \in Nat
      BY <1>1, <2>8 DEF Under
    <2>10. z \in AnyNode /\ z.deps = d /\ z.depth = dag[n].depth + 1 /\ z.fallback = NoId
      BY <2>7, <2>9, DepthIs
    <2>11. g[i] = NewNode(plan[i].id, z)
      BY <1>2, <2>1, <2>4, <2>6, <2>8 DEF Subtasks
    <2>12. g[i] \in Row /\ g[i].id = plan[i].id /\ g[i].node = z
      BY <2>3, <2>10, <2>11, RowIs
    <2> QED
      BY <2>1, <2>10, <2>12
  <1>4. DOMAIN plan = 1..Len(plan) /\ Len(plan) \in Nat
    OBVIOUS
  <1>5. g = [i \in 1..Len(plan) |-> g[i]]
    BY <1>2, <1>4 DEF Subtasks
  <1>6. DOMAIN g = DOMAIN plan
    BY <1>4, <1>5
  <1>7. g \in Seq(Row)
    BY <1>3, <1>4, <1>5
  <1> QED
    BY <1>2, <1>3, <1>6, <1>7

(* Of an accepted plan that is orderly add_node refuses nothing.           *)
LEMMA OrderlyFits ==
  ASSUME PlanTyped, NEW n \in Present, NEW plan \in Seq(Subtask), NEW p,
         p.plan = plan, p.there = Present, p.depth = dag[n].depth + 1,
         Accepted(plan, statics), Orderly(p), NEW i \in DOMAIN plan
  PROVE  Fits(Subtasks(n, plan), i)
  <1>1. PICK g : g = Subtasks(n, plan)
    OBVIOUS
  <1>2. /\ g \in Seq(Row) /\ DOMAIN g = DOMAIN plan
        /\ \A j \in DOMAIN plan :
              /\ g[j].id = plan[j].id /\ g[j].node.depth = dag[n].depth + 1
              /\ g[j].node.deps = IF plan[j].deps = << >> THEN <<n>> ELSE plan[j].deps
    BY <1>1, SubtasksAre
  <1>3. DOMAIN plan = 1..Len(plan) /\ Len(plan) \in Nat /\ 1..(i - 1) \subseteq DOMAIN plan
    OBVIOUS
  <1>4. \A j \in 1..(i - 1) : plan[j].id # plan[i].id
    BY DEF Accepted
  <1>5. /\ dag[n].depth + 1 =< MaxGraphDepth /\ plan[i].id \notin Present
        /\ Range(plan[i].deps) \subseteq Present \cup {plan[j].id : j \in 1..(i - 1)}
    BY DEF Orderly
  <1>6. {g[j].id : j \in 1..(i - 1)} = {plan[j].id : j \in 1..(i - 1)}
    <2>1. \A j \in 1..(i - 1) : g[j].id = plan[j].id
      BY <1>2, <1>3
    <2> QED
      BY <2>1
  <1>7. Range(g[i].node.deps) \subseteq Present \cup {plan[j].id : j \in 1..(i - 1)}
    BY <1>2, <1>5, RangeOne
  <1> QED
    BY <1>1, <1>2, <1>4, <1>5, <1>6, <1>7 DEF Fits

LEMMA PlanStep ==
  ASSUME PlanInv, NEW n \in Present, NEW plan \in PlanOutput, PlannerPlans(n, plan)
  PROVE  PlanInv'
  <1>1. PICK ok \in BOOLEAN : ok = Accepted(plan, statics)
    BY DEF Accepted
  <1>2. PICK more : more = IF ok THEN Subtasks(n, plan) ELSE << >>
    OBVIOUS
  <1>3. PICK skip : skip = IF ok THEN statics ELSE {}
    OBVIOUS
  <1>4. PICK p : p = [plan |-> plan, known |-> statics, there |-> Present,
                      depth |-> dag[n].depth + 1, accepted |-> ok]
    OBVIOUS
  <1>5. /\ PlanTyped /\ outcome = "open" /\ st[n] = "running"
        /\ UNCHANGED <<stage, statics, followups>> /\ Grow(n, more, skip)
        /\ plans' = Append(plans, p)
    BY <1>1, <1>2, <1>3, <1>4 DEF PlanInv, PlannerPlans, FollowedBy
  <1>6. plan \in Seq(Subtask)
    BY PlanningInputs
  <1>7. more \in Seq(Row)
    <2>1. << >> \in Seq(Row)
      OBVIOUS
    <2> QED
      BY <1>2, <1>5, <1>6, <2>1, SubtasksAre
  <1>8. /\ dag' \in [Present' -> AnyNode] /\ Present' \subseteq AnyId
        /\ st' \in [Present' -> {"pending", "running"} \cup Settled]
        /\ Present \subseteq Present' /\ \A m \in Present : dag'[m] = dag[m]
        /\ \A m \in Present : st[m] \in Settled => st'[m] \in Settled
    BY <1>5, <1>7, Grown
  <1>9. \A id \in Present' \ Present :
          \E i \in DOMAIN more : more[i].id = id /\ dag'[id] = more[i].node
    BY <1>5, <1>7, Grown
  <1>10. \/ outcome' = outcome
         \/ outcome' = "refused" /\ \E i \in DOMAIN more : ~Fits(more, i)
    BY <1>5, <1>7, Grown
  <1>11. p \in PlanRow
    <2>1. dag[n].depth + 1 \in Nat /\ statics \in SUBSET AnyId /\ Present \in SUBSET AnyId
      BY <1>5 DEF PlanTyped, AnyNode
    <2> QED
      BY <1>4, <2>1 DEF PlanRow
  <1>12. plans \in Seq(PlanRow)
    BY <1>5 DEF PlanTyped
  <1>13. /\ plans' \in Seq(PlanRow) /\ DOMAIN plans' = 1..(Len(plans) + 1) /\ Len(plans) \in Nat
         /\ DOMAIN plans = 1..Len(plans)
         /\ \A i \in 1..Len(plans) : plans'[i] = plans[i]
         /\ plans'[Len(plans) + 1] = p
    BY <1>5, <1>11, <1>12
  <1>14. PlanTyped'
    BY <1>5, <1>8, <1>13 DEF PlanTyped
  <1>15. /\ \A i \in AcceptedPlans : i \in AcceptedPlans' /\ plans'[i] = plans[i]
         /\ ok => \E i \in AcceptedPlans' : plans'[i] = p
    <2>1. p.accepted = ok
      BY <1>4
    <2>2. Len(plans) + 1 \in DOMAIN plans'
      BY <1>13
    <2> QED
      BY <1>13, <2>1, <2>2 DEF AcceptedPlans
  <1>16. AllOrderly' => AllOrderly /\ (ok => Orderly(p))
    BY <1>15 DEF AllOrderly
  <1>17. ASSUME TemplatesPlain, AllOrderly' PROVE NamesMade'
    <2>1. NamesMade /\ (ok => Orderly(p))
      BY <1>5, <1>16, <1>17 DEF PlanInv
    <2>3. ASSUME NEW id \in Present' \ Present
          PROVE  MadeBy(id)' /\ ~Headed(id, "validate_test")
      <3>1. PICK i \in DOMAIN more : more[i].id = id
        BY <1>9
      <3>2. ok
        BY <1>2, <3>1
      <3>3. i \in DOMAIN plan /\ plan[i].id = id
        BY <1>2, <1>5, <1>6, <3>1, <3>2, SubtasksAre
      <3>4. Head(id.name) \notin Reserved
        BY <1>4, <2>1, <3>2, <3>3 DEF Orderly
      <3> QED
        BY <3>4, PlainIsMade
    <2>4. \A m, x : TestsAfter(m, x)' => Headed(x, "validate_test")
      <3>1. << "validate_test" >> # << >> /\ Head(<< "validate_test" >>) = "validate_test"
        OBVIOUS
      <3> QED
        BY <3>1 DEF TestsAfter, Headed
    <2>2. ASSUME NEW id \in Present PROVE MadeBy(id)'
      BY <1>5, <1>8, <2>1, <2>3, <2>4, MadeStays DEF NamesMade, PlanTyped
    <2> QED
      BY <2>2, <2>3 DEF NamesMade
  <1>18. RefusedForACause'
    <2>1. CASE outcome' = outcome
      BY <1>5, <2>1 DEF RefusedForACause
    <2>2. CASE outcome' = "refused" /\ \E i \in DOMAIN more : ~Fits(more, i)
      <3>1. PICK i \in DOMAIN more : ~Fits(more, i)
        BY <2>2
      <3>2. ok
        BY <1>2, <3>1
      <3>3. i \in DOMAIN plan
        BY <1>2, <1>5, <1>6, <3>1, <3>2, SubtasksAre
      <3>4. p.plan = plan /\ p.there = Present /\ p.depth = dag[n].depth + 1
        BY <1>4
      <3>5. ~Orderly(p)
        BY <1>1, <1>2, <1>5, <1>6, <3>1, <3>2, <3>3, <3>4, OrderlyFits
      <3> QED
        BY <1>15, <3>2, <3>5 DEF RefusedForACause
    <2> QED
      BY <1>10, <2>1, <2>2
  <1> QED
    BY <1>14, <1>17, <1>18 DEF PlanInv

(* Steps that add nothing.                                                 *)
LEMMA QuietStep ==
  ASSUME PlanInv, UNCHANGED <<stage, dag, statics, plans, followups>>,
         st' \in [Present -> {"pending", "running"} \cup Settled],
         \A m \in Present : st[m] \in Settled => st'[m] \in Settled,
         outcome' = outcome \/ (outcome = "open" /\ outcome' \in {"ended", "failed_fast"})
  PROVE  PlanInv'
  <1>1. PlanTyped /\ Present' = Present
    BY DEF PlanInv, Present
  <1>2. PlanTyped'
    BY <1>1 DEF PlanTyped
  <1>3. AllOrderly' <=> AllOrderly
    BY DEF AllOrderly, AcceptedPlans
  <1>4. NamesMade => NamesMade'
    <2> SUFFICES ASSUME NamesMade PROVE NamesMade'
      OBVIOUS
    <2>1. ASSUME NEW id \in Present PROVE MadeBy(id)'
      <3>1. followups \subseteq Present /\ followups \subseteq followups'
        BY <1>1 DEF PlanTyped
      <3>2. Present' \ Present = {} /\ \A m \in Present : dag'[m] = dag[m]
        BY <1>1
      <3> QED
        BY <3>1, <3>2, MadeStays DEF NamesMade
    <2> QED
      BY <1>1, <2>1 DEF NamesMade
  <1>5. ASSUME TemplatesPlain PROVE RefusedForACause'
    <2>1. \A m, k : Collide(m, k)' <=> Collide(m, k)
      BY DEF Collide, TestsAfter
    <2>2. AcceptedPlans' = AcceptedPlans
      BY DEF AcceptedPlans
    <2> QED
      BY <1>5, <2>1, <2>2 DEF PlanInv, RefusedForACause
  <1> QED
    BY <1>2, <1>3, <1>4, <1>5 DEF PlanInv

LEMMA StatusIs ==
  ASSUME PlanTyped, NEW n \in Present, st[n] \notin Settled,
         NEW s \in {"pending", "running"} \cup Settled
  PROVE  /\ StatusOf({n}, s) \in [Present -> {"pending", "running"} \cup Settled]
         /\ \A m \in Present : st[m] \in Settled => StatusOf({n}, s)[m] \in Settled
  BY DEF PlanTyped, StatusOf

LEMMA PlanInvStep == PlanInv /\ [PlanningNext]_planningVars => PlanInv'
  <1> SUFFICES ASSUME PlanInv, [PlanningNext]_planningVars PROVE PlanInv'
    OBVIOUS
  <1>1. PlanTyped /\ st \in [Present -> {"pending", "running"} \cup Settled]
    BY DEF PlanInv, PlanTyped
  <1>2. "pending" \notin Settled /\ "running" \notin Settled
        /\ {"running", "skipped", "failed"} \subseteq {"pending", "running"} \cup Settled
    BY DEF Settled
  <1>3. ASSUME NEW n \in Present, Launch(n) PROVE PlanInv'
    BY <1>1, <1>2, <1>3, StatusIs, QuietStep DEF Launch
  <1>4. ASSUME NEW n \in Present, SkipForFallback(n) PROVE PlanInv'
    BY <1>1, <1>2, <1>4, StatusIs, QuietStep DEF SkipForFallback
  <1>5. ASSUME NEW n \in Present, FailFast(n) PROVE PlanInv'
    BY <1>1, <1>2, <1>5, StatusIs, QuietStep DEF FailFast
  <1>6. ASSUME NEW n \in Present, NodeFails(n) PROVE PlanInv'
    BY <1>1, <1>2, <1>6, StatusIs, QuietStep DEF NodeFails
  <1>7. ASSUME NEW n \in Present, NEW plan \in PlanOutput, PlannerPlans(n, plan) PROVE PlanInv'
    BY <1>7, PlanStep
  <1>8. ASSUME NEW n \in Present, PlannerTalks(n) PROVE PlanInv'
    <2>1. PICK more : more = IF dag[n].depth < 5 THEN Checkpoint(n) ELSE << >>
      OBVIOUS
    <2>2. dag[n].role = "planner" /\ FollowedBy(n, more, {}) /\ BringsFollowups(n, more)
      BY <1>8, <2>1 DEF PlannerTalks
    <2>3. Follow(n, more)
      BY <1>1, <2>1, <2>2, CheckpointFollows, FollowNone
    <2> QED
      BY <2>2, <2>3, FollowStep
  <1>9. ASSUME NEW n \in Present, NEW marks, Reviewed(n, marks) PROVE PlanInv'
    <2>1. PICK more : more = (IF "REQUEST_CHANGES" \in marks THEN ReviewRound(n) ELSE << >>)
                             \o (IF "INCOMPLETE" \in marks THEN Replan(n) ELSE << >>)
      OBVIOUS
    <2>2. dag[n].role = "reviewer" /\ FollowedBy(n, more, {}) /\ BringsFollowups(n, more)
      BY <1>9, <2>1 DEF Reviewed
    <2>3. Follow(n, more)
      BY <1>1, <2>1, <2>2, ReviewFollows
    <2> QED
      BY <2>2, <2>3, FollowStep
  <1>10. ASSUME NEW n \in Present, CheckPasses(n) PROVE PlanInv'
    <2>1. dag[n].role = "validator" /\ FollowedBy(n, AfterCheck(n), {})
          /\ BringsFollowups(n, AfterCheck(n))
      BY <1>10 DEF CheckPasses
    <2>2. Follow(n, AfterCheck(n))
      BY <1>1, <2>1, CheckFollows
    <2> QED
      BY <2>1, <2>2, FollowStep
  <1>11. ASSUME NEW n \in Present, WorkDone(n) PROVE PlanInv'
    <2>1. FollowedBy(n, << >>, {}) /\ BringsFollowups(n, << >>)
      BY <1>11 DEF WorkDone, BringsFollowups
    <2> QED
      BY <2>1, FollowNone, FollowStep
  <1>12. CASE StageEnds
    BY <1>1, <1>12, QuietStep DEF StageEnds
  <1>13. CASE UNCHANGED planningVars
    BY <1>1, <1>13, QuietStep DEF planningVars
  <1> QED
    BY <1>3, <1>4, <1>5, <1>6, <1>7, <1>8, <1>9, <1>10, <1>11, <1>12, <1>13 DEF PlanningNext

(* RefusedForACauseHolds: in every stage, whatever graph it starts with,    *)
(* whatever plans are written and however its reviews and checks go, a node *)
(* that add_node refuses is refused for one of the three causes, provided   *)
(* that templates leave alone the names the callback gives.                 *)
THEOREM RefusedForACauseHolds ==
  ASSUME TemplatesPlain PROVE PlanningSpec => []RefusedForACause
  <1>1. PlanningInit => PlanInv
    BY PlanInvInit
  <1>2. PlanInv => RefusedForACause
    BY TemplatesPlain DEF PlanInv
  <1> QED
    BY <1>1, <1>2, PlanInvStep, PTL DEF PlanningSpec

(* ------ what a stage that went well has done                             *)

Checkpointed == Id("dynamic_checkpoint", 0)
Tested == Id("validate_test", 0)
Committed == Id("git_commit", 0)
Finale == Id("summarize_final", 0)

(* What the callback may have at id, when no plan was accepted.            *)
Added(id, x) ==
  /\ id \in {Checkpointed, Tested, Committed, Finale}
  /\ x.role = IF id \in {Tested, Committed} THEN "validator" ELSE "summarizer"
  /\ x.onFail # "fallback_node" /\ x.fallback = NoId
  /\ id = Tested => "test" \in x.words /\ ~LintWords(x.words)
  /\ id = Committed => x.words = {"git"}

Placed ==
  /\ \A id \in Present : Static(id, dag[id]) \/ Added(id, dag[id])
  /\ Summarize \in Present <=> ValidateLint \notin Present
  /\ ValidateLint \in Present =>
       Code \in Present /\ dag[ValidateLint].words = CheckWords(stage.kind)

(* What is skipped while the stage is well, and what its checks led to.    *)
Skipped ==
  \A m \in Present : st[m] = "skipped" =>
    m = FallbackCode \/ (m = ValidateLint /\ st[Code] = "failed")
Done(id) == id \in Present /\ st[id] = "succeeded"
Kept ==
  /\ Done(ValidateLint) => {Tested, Finale} \cap Present # {}
  /\ Done(Tested) => Finale \in Present

(* What follows a check shows that the check has passed.                   *)
Tests ==
  IF stage.kind = "external_project" THEN stage.checks.repoTest /\ st[RepoAnalyze] # "failed"
  ELSE stage.checks.test
Earned ==
  /\ Tested \in Present => Done(ValidateLint)
  /\ Committed \in Present => Done(ValidateLint) /\ (Tests => Done(Tested))
  /\ Finale \in Present => ValidateLint \in Present

Undisturbed == stage.kind \notin {"template", "recovery", "followup"} /\ AcceptedPlans = {}
AnswerInv ==
  Undisturbed =>
    /\ Placed /\ Earned
    /\ outcome \in {"open", "ended"} => Skipped /\ Kept
    /\ outcome = "ended" => \A m \in Present : st[m] \in Settled

(* In an external project the analysis comes before the code and its check: *)
(* when the check is made, it is known whether there is one.                *)
Began(id) == st[id] \notin {"pending", "skipped"}
Looked ==
  stage.kind = "external_project" =>
    /\ {RepoAnalyze, Extract, Code, ValidateLint} \subseteq Present
    /\ dag[RepoAnalyze].role = "analyzer" /\ dag[RepoAnalyze].onFail = "continue_on_error"
    /\ dag[Extract].deps = <<RepoAnalyze>>
    /\ dag[Code].deps = << Extract, ContextProbe >> /\ dag[Code].onFail = "fail_fast"
    /\ armed \cap {Extract, Code, ValidateLint} = {}
    /\ st[RepoAnalyze] # "skipped"
    /\ Began(Extract) => st[RepoAnalyze] \in Settled
    /\ Began(Code) => st[Extract] = "succeeded"
    /\ Began(ValidateLint) => st[Code] = "succeeded"
LookInv == Undisturbed => Looked

InTurn(id, x) ==
  /\ id = RepoAnalyze => x.role = "analyzer" /\ x.onFail = "continue_on_error"
  /\ id = Extract => x.deps = <<RepoAnalyze>>
  /\ id = Code => x.deps = << Extract, ContextProbe >> /\ x.onFail = "fail_fast"
Turns(more) == \A i \in DOMAIN more : InTurn(more[i].id, more[i].node)

LEMMA TurnsJoin ==
  ASSUME NEW a \in Seq(Row), NEW b \in Seq(Row), Turns(a), Turns(b)
  PROVE  Turns(a \o b) /\ a \o b \in Seq(Row)
  <1> DEFINE k == Len(a)
             l == Len(b)
             c == a \o b
  <1>2. /\ k \in Nat /\ l \in Nat /\ DOMAIN a = 1..k /\ DOMAIN b = 1..l
        /\ c \in Seq(Row) /\ DOMAIN c = 1..(k + l)
        /\ \A i \in 1..(k + l) : c[i] = IF i =< k THEN a[i] ELSE b[i - k]
    OBVIOUS
  <1> HIDE DEF k, l, c
  <1>3. \A i \in 1..(k + l) : (i =< k /\ i \in 1..k) \/ (~(i =< k) /\ i - k \in 1..l)
    BY <1>2
  <1>4. Turns(c)
    BY <1>2, <1>3 DEF Turns
  <1> QED
    BY <1>2, <1>4 DEF c

LEMMA TurnIds ==
  /\ RepoAnalyze \in AnyId
  /\ RepoAnalyze \notin {Plan, Extract, ContextProbe, Code, FallbackCode, ValidateLint, NoId}
  /\ Extract \notin {Plan, ContextProbe, Code, FallbackCode, ValidateLint, NoId}
  /\ Code \notin {Plan, ContextProbe, FallbackCode, ValidateLint, NoId}
  /\ ValidateLint \notin {FallbackCode, NoId}
  <1>1. \A s, t : s # t => Id(s, 0) # Id(t, 0)
    BY IdsDiffer
  <1>2. \A s : Id(s, 0) # NoId
    BY NoIdIs DEF Id
  <1>3. Id("repo_analyze", 0) \in AnyId
    BY IdIs, PlanningInputs DEF StaticWords
  <1> QED
    BY <1>1, <1>2, <1>3
    DEF RepoAnalyze, Plan, Extract, ContextProbe, Code, FallbackCode, ValidateLint

LEMMA ExternalTurns == ExternalGraph \in Seq(Row) /\ Turns(ExternalGraph)
  <1> DEFINE look == [Node("extractor", <<RepoAnalyze>>) EXCEPT !.depth = 2]
             an == [Node("analyzer", <<Plan>>) EXCEPT !.depth = 1]
             co == [Strict(Node("coder", << Extract, ContextProbe >>))
                      EXCEPT !.fallback = FallbackCode, !.depth = 3]
             fb == [Node("fallback", <<Code>>) EXCEPT !.depth = 4]
             li == [Node("validator", <<Code>>) EXCEPT !.onFail = "fallback_node",
                      !.fallback = FallbackCode, !.depth = 4, !.words = {"external", "lint"}]
             r == NewNode(Plan, Planner)
             s == NewNode(RepoAnalyze, an)
             t == NewNode(Extract, look)
             u == NewNode(ContextProbe, look)
             v == NewNode(Code, co)
             w == NewNode(FallbackCode, fb)
             z == NewNode(ValidateLint, li)
  <1>1. ExternalGraph = <<r, s, t, u>> \o <<v, w>> \o <<z>>
    BY DEF ExternalGraph, Coding, FirstCheck
  <1>2. /\ <<Plan>> \in Seq(AnyId) /\ <<RepoAnalyze>> \in Seq(AnyId) /\ <<Code>> \in Seq(AnyId)
        /\ << Extract, ContextProbe >> \in Seq(AnyId)
        /\ {"planner", "analyzer", "extractor", "coder", "fallback", "validator"} \subseteq Roles
    BY OwnIds, TurnIds DEF Roles
  <1>3. look \in AnyNode /\ look.deps = <<RepoAnalyze>>
    <2>1. PICK d \in Seq(AnyId) : d = <<RepoAnalyze>>
      BY <1>2
    <2>2. PICK y : y = Node("extractor", d)
      OBVIOUS
    <2>3. y \in AnyNode /\ y.deps = d
      BY <1>2, <2>2, NodeIs
    <2>4. PICK x : x = [y EXCEPT !.depth = 2]
      OBVIOUS
    <2>5. x \in AnyNode /\ x.deps = d
      BY <2>3, <2>4, DepthIs
    <2> QED
      BY <2>1, <2>2, <2>4, <2>5
  <1>4. an \in AnyNode /\ an.role = "analyzer" /\ an.onFail = "continue_on_error"
    <2>1. PICK y : y = Node("analyzer", <<Plan>>)
      OBVIOUS
    <2>2. y \in AnyNode /\ y.role = "analyzer" /\ y.onFail = "continue_on_error"
      BY <1>2, <2>1, OwnIds, NodeAfter
    <2>3. PICK x : x = [y EXCEPT !.depth = 1]
      OBVIOUS
    <2>4. x \in AnyNode /\ x.role = "analyzer" /\ x.onFail = "continue_on_error"
      BY <2>2, <2>3, DepthIs
    <2> QED
      BY <2>1, <2>3, <2>4
  <1>5. co \in AnyNode /\ co.onFail = "fail_fast" /\ co.deps = << Extract, ContextProbe >>
    <2>1. PICK d \in Seq(AnyId) : d = << Extract, ContextProbe >>
      BY <1>2
    <2>2. PICK y : y = Node("coder", d)
      OBVIOUS
    <2>3. y \in AnyNode /\ y.deps = d
      BY <1>2, <2>2, NodeIs
    <2>4. PICK x : x = Strict(y)
      OBVIOUS
    <2>5. x \in AnyNode /\ x.deps = d /\ x.onFail = "fail_fast"
      BY <2>3, <2>4, StrictIs
    <2>6. PICK q : q = [x EXCEPT !.fallback = FallbackCode, !.depth = 3]
      OBVIOUS
    <2>7. q \in AnyNode /\ q.deps = d /\ q.onFail = "fail_fast"
      BY <2>5, <2>6, OwnIds DEF AnyNode
    <2> QED
      BY <2>1, <2>2, <2>4, <2>6, <2>7
  <1>6. fb \in AnyNode /\ li \in AnyNode
    <2>1. PICK y : y = Node("validator", <<Code>>)
      OBVIOUS
    <2>2. y \in AnyNode
      BY <1>2, <2>1, NodeIs
    <2>3. PICK x : x = [y EXCEPT !.onFail = "fallback_node", !.fallback = FallbackCode,
                                 !.depth = 4, !.words = {"external", "lint"}]
      OBVIOUS
    <2>4. x \in AnyNode
      BY <2>2, <2>3, OwnIds DEF AnyNode, Topics
    <2>5. fb \in AnyNode
      BY <1>2, NodeIs, DepthIs
    <2> QED
      BY <2>1, <2>3, <2>4, <2>5
  <1>7. Planner \in AnyNode
    <2>1. << >> \in Seq(AnyId)
      OBVIOUS
    <2> QED
      BY <1>2, <2>1, NodeIs, StrictIs DEF Planner
  <1> HIDE DEF look, an, co, fb, li
  <1>8. /\ r \in Row /\ InTurn(r.id, r.node) /\ s \in Row /\ InTurn(s.id, s.node)
        /\ t \in Row /\ InTurn(t.id, t.node) /\ u \in Row /\ InTurn(u.id, u.node)
        /\ v \in Row /\ InTurn(v.id, v.node) /\ w \in Row /\ InTurn(w.id, w.node)
        /\ z \in Row /\ InTurn(z.id, z.node)
    BY <1>3, <1>4, <1>5, <1>6, <1>7, RowIs, OwnIds, TurnIds DEF InTurn
  <1> HIDE DEF r, s, t, u, v, w, z
  <1>9. /\ <<r, s, t, u>> \in Seq(Row) /\ <<v, w>> \in Seq(Row) /\ <<z>> \in Seq(Row)
        /\ DOMAIN <<r, s, t, u>> = {1, 2, 3, 4} /\ DOMAIN <<v, w>> = {1, 2}
        /\ DOMAIN <<z>> = {1}
    BY <1>8
  <1>10. Turns(<<r, s, t, u>>) /\ Turns(<<v, w>>) /\ Turns(<<z>>)
    BY <1>8, <1>9 DEF Turns
  <1>11. PICK g : g = <<r, s, t, u>> \o <<v, w>>
    OBVIOUS
  <1>12. g \in Seq(Row) /\ Turns(g)
    BY <1>9, <1>10, <1>11, TurnsJoin
  <1>13. g \o <<z>> \in Seq(Row) /\ Turns(g \o <<z>>)
    BY <1>9, <1>10, <1>12, TurnsJoin
  <1> QED
    BY <1>1, <1>11, <1>13

LEMMA LookInvInit == ASSUME PlanningInit PROVE LookInv
  <1> SUFFICES ASSUME stage.kind = "external_project" PROVE Looked
    BY DEF LookInv, Looked
  <1>1. dag = Dag(ExternalGraph)
    BY DEF PlanningInit, BuildGraph
  <1>2. /\ DOMAIN dag = NewIds(ExternalGraph)
        /\ \A id \in Present : InTurn(id, dag[id])
    BY <1>1, ExternalTurns, DagIs DEF Turns, Present
  <1>3. {RepoAnalyze, Extract, Code, ValidateLint} \subseteq Present
    BY <1>2, ExternalIs DEF Present
  <1>4. \A id \in Present : st[id] = "pending"
    BY DEF PlanningInit
  <1>5. armed = {}
    BY DEF PlanningInit
  <1> QED
    BY <1>2, <1>3, <1>4, <1>5 DEF Looked, InTurn, Began

(* A node that is ready, and not because it was armed.                     *)
LEMMA ReadyIs ==
  ASSUME PlanTyped, NEW n \in Present, n \notin armed, Resolution(n) = "ready",
         NEW i \in DOMAIN dag[n].deps
  PROVE  LET s == st[dag[n].deps[i]]
         IN s = "succeeded" \/ (s \in Settled /\ dag[n].onFail = "continue_on_error")
  <1> DEFINE deps == dag[n].deps
             stops(j) == /\ st[deps[j]] # "succeeded"
                         /\ st[deps[j]] \in Settled => dag[n].onFail # "continue_on_error"
  <1>1. dag[n].onFail # "ready"
    BY DEF PlanTyped, AnyNode
  <1>2. \A j \in DOMAIN deps : ~stops(j)
    BY <1>1 DEF Resolution
  <1> QED
    BY <1>2

LEMMA CallbackIds ==
  /\ \A id \in {Checkpointed, Tested, Committed, Finale} :
        id \in AnyId /\ Head(id.name) \in Reserved
  /\ Tested # Committed /\ Tested # Finale /\ Committed # Finale
  /\ Checkpointed # Tested /\ Checkpointed # Committed /\ Checkpointed # Finale
  <1>1. \A w \in {"dynamic_checkpoint", "validate_test", "git_commit", "summarize_final"} :
          Id(w, 0) \in AnyId /\ Head(Id(w, 0).name) \in Reserved
    BY IdIs, PlanningInputs DEF Reserved
  <1>2. /\ Tested # Committed /\ Tested # Finale /\ Committed # Finale
        /\ Checkpointed # Tested /\ Checkpointed # Committed /\ Checkpointed # Finale
    BY IdsDiffer DEF Checkpointed, Tested, Committed, Finale
  <1> QED
    BY <1>1, <1>2 DEF Checkpointed, Tested, Committed, Finale

LEMMA OwnHeads ==
  \A id \in {Plan, Extract, ContextProbe, Code, FallbackCode, ValidateLint, Summarize} :
    Head(id.name) \notin Reserved
  <1>1. \A w \in {"plan", "extract", "context_probe", "code", "fallback_code",
                  "validate_lint", "summarize"} : Head(Id(w, 0).name) \notin Reserved
    BY IdIs, PlanningInputs DEF StaticWords, Reserved
  <1> QED
    BY <1>1 DEF Plan, Extract, ContextProbe, Code, FallbackCode, ValidateLint, Summarize

(* Who is who among the nodes.                                             *)
LEMMA WhoIsWho ==
  ASSUME Placed, NEW id \in Present
  PROVE  /\ dag[id].role # "reviewer"
         /\ dag[id].role = "validator" <=> id \in {ValidateLint, Tested, Committed}
         /\ dag[id].role = "summarizer" <=> id \in {Summarize, Checkpointed, Finale}
         /\ dag[id].onFail = "fallback_node" => id = ValidateLint /\ dag[id].deps = <<Code>>
         /\ dag[id].fallback \in {NoId, FallbackCode}
         /\ id = Tested => "test" \in dag[id].words /\ ~LintWords(dag[id].words)
         /\ id = Committed => dag[id].words = {"git"}
  <1>1. CASE Static(id, dag[id])
    BY <1>1, CallbackIds, OwnHeads DEF Static
  <1>2. CASE Added(id, dag[id])
    BY <1>2, CallbackIds, OwnHeads DEF Added
  <1> QED
    BY <1>1, <1>2 DEF Placed

LEMMA AnswerInvInit == ASSUME PlanningInit PROVE AnswerInv
  <1> SUFFICES ASSUME Undisturbed PROVE AnswerInv
    BY DEF AnswerInv
  <1>1. stage \in Stage /\ stage.kind \in StageKinds \ {"template"}
    BY PlanningInputs DEF PlanningInit, Undisturbed
  <1>2. PICK more : more = BuildGraph(stage.kind, stage.checks)
    OBVIOUS
  <1>3. StaticGraph(stage.kind, more)
    BY <1>1, <1>2, BuiltIs
  <1>4. dag = Dag(more)
    BY <1>1, <1>2 DEF PlanningInit
  <1>5. /\ more \in Seq(Row) /\ Checks(more, CheckWords(stage.kind))
        /\ \A i \in DOMAIN more : Static(more[i].id, more[i].node)
    BY <1>3 DEF StaticGraph, StaticRows, StaticRow
  <1>6. /\ Present = NewIds(more)
        /\ \A id \in Present : \E i \in DOMAIN more : more[i].id = id /\ dag[id] = more[i].node
    BY <1>4, <1>5, DagIs DEF Present
  <1>7. \A id \in Present : Static(id, dag[id])
    BY <1>5, <1>6
  <1>8. Summarize \in Present <=> ValidateLint \notin Present
    BY <1>3, <1>6 DEF StaticGraph, Undisturbed
  <1>9. ValidateLint \in Present =>
          Code \in Present /\ dag[ValidateLint].words = CheckWords(stage.kind)
    BY <1>3, <1>5, <1>6 DEF StaticGraph, Checks
  <1>10. {Checkpointed, Tested, Committed, Finale} \cap Present = {}
    BY <1>7, CallbackIds DEF Static
  <1>11. \A id \in Present : st[id] = "pending"
    BY DEF PlanningInit
  <1>12. outcome = "open"
    BY DEF PlanningInit
  <1> QED
    BY <1>7, <1>8, <1>9, <1>10, <1>11, <1>12 DEF AnswerInv, Placed, Earned, Skipped, Kept, Done

(* A check that has begun knows whether there is an analysis.              *)
LEMMA LookedFor ==
  ASSUME LookInv, Undisturbed, stage.kind = "external_project",
         st[ValidateLint] \in {"running", "succeeded"}
  PROVE  RepoAnalyze \in Present /\ st[RepoAnalyze] \in {"succeeded", "failed"}
  <1>1. Looked
    BY DEF LookInv
  <1>2. st[Code] = "succeeded"
    BY <1>1 DEF Looked, Began
  <1>3. st[Extract] = "succeeded"
    BY <1>1, <1>2 DEF Looked, Began
  <1>4. st[RepoAnalyze] \in Settled /\ st[RepoAnalyze] # "skipped" /\ RepoAnalyze \in Present
    BY <1>1, <1>3 DEF Looked, Began
  <1> QED
    BY <1>4 DEF Settled

(* One node's status moves, short of success.                              *)
LEMMA AnswerMove ==
  ASSUME PlanTyped, AnswerInv, LookInv, UNCHANGED <<stage, dag, plans>>, outcome = "open",
         NEW n \in Present, st[n] \notin Settled, NEW s \in {"running", "failed", "skipped"},
         st' = StatusOf({n}, s), outcome' \in {"open", "failed_fast"},
         (Undisturbed /\ outcome' = "open" /\ s = "skipped") =>
            n = FallbackCode \/ (n = ValidateLint /\ st[Code] = "failed")
  PROVE  AnswerInv'
  <1>1. Undisturbed' <=> Undisturbed
    BY DEF Undisturbed, AcceptedPlans
  <1> SUFFICES ASSUME Undisturbed PROVE AnswerInv'
    BY <1>1 DEF AnswerInv
  <1>2. Placed /\ Earned /\ Skipped /\ Kept
    BY DEF AnswerInv
  <1>3. /\ Present' = Present
        /\ \A m \in Present : st'[m] = IF m = n THEN s ELSE st[m]
    BY DEF Present, StatusOf
  <1>4. \A id : Done(id)' <=> Done(id)
    <2>1. st[n] # "succeeded" /\ s # "succeeded"
      BY DEF Settled
    <2> QED
      BY <1>3, <2>1 DEF Done
  <1>5. Placed'
    BY <1>2, <1>3 DEF Placed
  <1>6. Done(ValidateLint) => (Tests' => Tests)
    <2>1. (Done(ValidateLint) /\ stage.kind = "external_project") => st'[RepoAnalyze] = st[RepoAnalyze]
      <3> SUFFICES ASSUME Done(ValidateLint), stage.kind = "external_project"
                   PROVE  st'[RepoAnalyze] = st[RepoAnalyze]
        OBVIOUS
      <3>1. RepoAnalyze \in Present /\ st[RepoAnalyze] \in {"succeeded", "failed"}
        BY LookedFor DEF Done
      <3>2. RepoAnalyze # n
        BY <3>1 DEF Settled
      <3> QED
        BY <1>3, <3>1, <3>2
    <2> QED
      BY <2>1 DEF Tests
  <1>7. Earned'
    BY <1>2, <1>3, <1>4, <1>6 DEF Earned
  <1>8. Kept'
    BY <1>2, <1>3, <1>4 DEF Kept
  <1>9. outcome' = "open" => Skipped'
    <2> SUFFICES ASSUME outcome' = "open", NEW m \in Present, st'[m] = "skipped"
                 PROVE  m = FallbackCode \/ (m = ValidateLint /\ st'[Code] = "failed")
      BY <1>3 DEF Skipped
    <2>1. m = ValidateLint => Code \in Present /\ Code # ValidateLint
      BY <1>2, OwnIdsDiffer DEF Placed
    <2>2. CASE m = n
      BY <1>3, <2>1, <2>2
    <2>3. CASE m # n
      <3>1. m = FallbackCode \/ (m = ValidateLint /\ st[Code] = "failed")
        BY <1>2, <1>3, <2>3 DEF Skipped
      <3>2. st[Code] = "failed" => Code # n
        BY DEF Settled
      <3> QED
        BY <1>3, <2>1, <3>1, <3>2
    <2> QED
      BY <2>2, <2>3
  <1> QED
    BY <1>5, <1>7, <1>8, <1>9 DEF AnswerInv

LEMMA StopsAs ==
  ASSUME NEW n, Resolution(n) \in {"fail_fast", "fallback_node"}
  PROVE  dag[n].onFail \in {"fail_fast", "fallback_node"}
  BY DEF Resolution

LEMMA LookMove ==
  ASSUME PlanTyped, AnswerInv, LookInv, UNCHANGED <<stage, dag, plans>>, NEW n \in Present,
         st[n] \notin Settled, NEW s \in {"running", "failed", "skipped"},
         st' = StatusOf({n}, s),
         s = "running" => Resolution(n) = "ready",
         s = "failed" => st[n] = "running",
         s = "skipped" => dag[n].onFail # "continue_on_error",
         armed' \subseteq armed \cup {dag[n].fallback}
  PROVE  LookInv'
  <1>1. Undisturbed' <=> Undisturbed
    BY DEF Undisturbed, AcceptedPlans
  <1> SUFFICES ASSUME Undisturbed, stage.kind = "external_project" PROVE Looked'
    BY <1>1 DEF LookInv, Looked
  <1>2. Placed
    BY DEF AnswerInv
  <1>3. /\ {RepoAnalyze, Extract, Code, ValidateLint} \subseteq Present
        /\ dag[RepoAnalyze].role = "analyzer" /\ dag[RepoAnalyze].onFail = "continue_on_error"
        /\ dag[Extract].deps = <<RepoAnalyze>>
        /\ dag[Code].deps = << Extract, ContextProbe >> /\ dag[Code].onFail = "fail_fast"
        /\ armed \cap {Extract, Code, ValidateLint} = {}
        /\ st[RepoAnalyze] # "skipped"
        /\ Began(Extract) => st[RepoAnalyze] \in Settled
        /\ Began(Code) => st[Extract] = "succeeded"
        /\ Began(ValidateLint) => st[Code] = "succeeded"
    BY DEF LookInv, Looked
  <1>4. dag[ValidateLint].deps = <<Code>> /\ dag[ValidateLint].onFail = "fallback_node"
    BY <1>2, <1>3, CallbackIds, OwnHeads DEF Placed, Static, Added
  <1>5. /\ Present' = Present
        /\ \A m \in Present : st'[m] = IF m = n THEN s ELSE st[m]
    BY DEF Present, StatusOf
  <1>6. armed' \cap {Extract, Code, ValidateLint} = {}
    BY <1>2, <1>3, TurnIds, WhoIsWho
  <1>7. /\ RepoAnalyze # Extract /\ RepoAnalyze # Code /\ RepoAnalyze # ValidateLint
        /\ Extract # Code /\ Extract # ValidateLint /\ Code # ValidateLint
    BY TurnIds
  <1>8. st'[RepoAnalyze] # "skipped"
    BY <1>3, <1>5
  <1>9. Began(Extract)' => st'[RepoAnalyze] \in Settled
    <2>1. CASE n = Extract
      <3>1. s = "running" => st[RepoAnalyze] \in Settled
        <4>1. 1 \in DOMAIN dag[n].deps /\ dag[n].deps[1] = RepoAnalyze /\ n \notin armed
          BY <1>3, <2>1
        <4> QED
          BY <4>1, ReadyIs DEF Settled
      <3> QED
        BY <1>3, <1>5, <1>7, <2>1, <3>1 DEF Began
    <2>2. CASE n # Extract
      BY <1>3, <1>5, <2>2 DEF Began
    <2> QED
      BY <2>1, <2>2
  <1>10. Began(Code)' => st'[Extract] = "succeeded"
    <2>1. CASE n = Code
      <3>1. s = "running" => st[Extract] = "succeeded"
        <4>1. 1 \in DOMAIN dag[n].deps /\ dag[n].deps[1] = Extract /\ n \notin armed
          BY <1>3, <2>1
        <4> QED
          BY <1>3, <2>1, <4>1, ReadyIs
      <3> QED
        BY <1>3, <1>5, <1>7, <2>1, <3>1 DEF Began
    <2>2. CASE n # Code
      BY <1>3, <1>5, <2>2 DEF Began, Settled
    <2> QED
      BY <2>1, <2>2
  <1>11. Began(ValidateLint)' => st'[Code] = "succeeded"
    <2>1. CASE n = ValidateLint
      <3>1. s = "running" => st[Code] = "succeeded"
        <4>1. 1 \in DOMAIN dag[n].deps /\ dag[n].deps[1] = Code /\ n \notin armed
          BY <1>3, <1>4, <2>1
        <4> QED
          BY <1>4, <2>1, <4>1, ReadyIs
      <3> QED
        BY <1>3, <1>5, <1>7, <2>1, <3>1 DEF Began
    <2>2. CASE n # ValidateLint
      BY <1>3, <1>5, <2>2 DEF Began, Settled
    <2> QED
      BY <2>1, <2>2
  <1> QED
    BY <1>3, <1>5, <1>6, <1>8, <1>9, <1>10, <1>11 DEF Looked

(* Only the first check is skipped for its fallback, when the code failed. *)
LEMMA SkippedForCode ==
  ASSUME PlanTyped, AnswerInv, Undisturbed, outcome = "open", NEW n \in Present,
         Resolution(n) = "fallback_node"
  PROVE  n = ValidateLint /\ st[Code] = "failed"
  <1>1. Placed /\ Skipped
    BY DEF AnswerInv
  <1> DEFINE deps == dag[n].deps
             stops(i) == /\ st[deps[i]] # "succeeded"
                         /\ st[deps[i]] \in Settled => dag[n].onFail # "continue_on_error"
             first == CHOOSE i \in DOMAIN deps : stops(i) /\ \A j \in 1..(i - 1) : ~stops(j)
  <1>2. /\ ~ \A i \in DOMAIN deps : ~stops(i)
        /\ st[deps[first]] \in Settled /\ dag[n].onFail = "fallback_node"
    BY DEF Resolution
  <1>3. n = ValidateLint /\ deps = <<Code>>
    BY <1>1, <1>2, WhoIsWho
  <1>4. DOMAIN deps = {1} /\ deps[1] = Code
    BY <1>3
  <1>5. \E i \in DOMAIN deps : stops(i) /\ \A j \in 1..(i - 1) : ~stops(j)
    <2>1. stops(1)
      BY <1>2, <1>4
    <2> HIDE DEF stops
    <2> QED
      BY <1>4, <2>1
  <1>6. first \in DOMAIN deps /\ stops(first)
    <2> HIDE DEF stops, deps
    <2> QED
      BY <1>5
  <1>7. st[Code] # "succeeded" /\ st[Code] \in Settled
    <2>1. first = 1
      BY <1>4, <1>6
    <2> HIDE DEF first
    <2> QED
      BY <1>2, <1>4, <1>6, <2>1
  <1>8. Code \in Present /\ Code # FallbackCode /\ Code # ValidateLint
    BY <1>1, <1>3, OwnIdsDiffer DEF Placed
  <1> QED
    BY <1>1, <1>3, <1>7, <1>8 DEF Skipped, Settled

(* The callback's answer to n, in a stage without plans.                   *)
Answers(n, more) ==
  /\ more \in Seq(Row) /\ \A i \in DOMAIN more : Added(more[i].id, more[i].node)
  /\ n = ValidateLint => {Tested, Finale} \cap NewIds(more) # {}
  /\ n = Tested => Finale \in NewIds(more)
  /\ Tested \in NewIds(more) => n = ValidateLint
  /\ Committed \in NewIds(more) => (n = ValidateLint /\ ~Tests) \/ n = Tested
  /\ Finale \in NewIds(more) => n \in {ValidateLint, Tested}

(* Where add_node leaves the statuses.                                     *)
LEMMA GrownStatus ==
  ASSUME PlanTyped, outcome = "open", NEW n \in Present, NEW more \in Seq(Row),
         Grow(n, more, {})
  PROVE  /\ \A m \in Present :
              st'[m] = IF m = n THEN "succeeded"
                       ELSE IF m \in {dag[n].fallback} \cap (FallbackOnly \ armed) THEN "skipped"
                       ELSE st[m]
         /\ \A m \in Present' \ Present : st'[m] = "pending"
         /\ \/ outcome' = "open" /\ Present' = Present \cup NewIds(more)
            \/ outcome' = "refused" /\ Present' = Present
  <1> DEFINE spare == {dag[n].fallback} \cap (FallbackOnly \ armed)
             waiting == {m \in Present : st[m] = "pending"}
             after == [m \in Present |-> IF m = n THEN "succeeded"
                         ELSE IF m \in spare \/ (m \in {} /\ m \in waiting) THEN "skipped"
                         ELSE st[m]]
             new == NewIds(more)
  <1>1. \A m \in Present : after[m] = IF m = n THEN "succeeded"
                                      ELSE IF m \in spare THEN "skipped" ELSE st[m]
    OBVIOUS
  <1> HIDE DEF spare, waiting
  <1>2. \/ /\ \A i \in DOMAIN more : Fits(more, i)
           /\ dag' = [m \in Present \cup new |-> IF m \in new THEN Dag(more)[m] ELSE dag[m]]
           /\ st' = [m \in Present \cup new |-> IF m \in new THEN "pending" ELSE after[m]]
           /\ outcome' = outcome
        \/ outcome' = "refused" /\ st' = after /\ dag' = dag
    BY DEF Grow, spare, waiting
  <1> HIDE DEF after
  <1>3. CASE /\ \A i \in DOMAIN more : Fits(more, i)
             /\ dag' = [m \in Present \cup new |-> IF m \in new THEN Dag(more)[m] ELSE dag[m]]
             /\ st' = [m \in Present \cup new |-> IF m \in new THEN "pending" ELSE after[m]]
             /\ outcome' = outcome
    <2>1. new \cap Present = {}
      BY <1>3 DEF Fits, NewIds
    <2>2. Present' = Present \cup new
      BY <1>3 DEF Present
    <2> HIDE DEF new
    <2> QED
      BY <1>1, <1>3, <2>1, <2>2 DEF new, spare
  <1>4. CASE outcome' = "refused" /\ st' = after /\ dag' = dag
    BY <1>1, <1>4 DEF Present, spare
  <1> QED
    BY <1>2, <1>3, <1>4

LEMMA AnswerGrow ==
  ASSUME PlanTyped, AnswerInv, LookInv, Undisturbed, outcome = "open", UNCHANGED stage, AcceptedPlans' = {},
         NEW n \in Present, st[n] = "running", NEW more, Answers(n, more), Grow(n, more, {})
  PROVE  AnswerInv'
  <1>1. Placed /\ Earned /\ Skipped /\ Kept /\ more \in Seq(Row)
    BY DEF AnswerInv, Answers
  <1>2. /\ Present \subseteq Present' /\ \A m \in Present : dag'[m] = dag[m]
        /\ \A id \in Present' \ Present :
              \E i \in DOMAIN more : more[i].id = id /\ dag'[id] = more[i].node
    BY <1>1, Grown
  <1>3. /\ \A m \in Present : m # FallbackCode =>
             st'[m] = IF m = n THEN "succeeded" ELSE st[m]
        /\ \A m \in Present' \ Present : st'[m] = "pending"
    <2>1. {dag[n].fallback} \cap (FallbackOnly \ armed) \subseteq {FallbackCode}
      BY <1>1, WhoIsWho DEF FallbackOnly
    <2> QED
      BY <1>1, <2>1, GrownStatus
  <1>4. \/ outcome' = "open" /\ Present' = Present \cup NewIds(more)
        \/ outcome' = "refused" /\ Present' = Present
    BY <1>1, GrownStatus
  <1>5. \A id \in Present' \ Present : Added(id, dag'[id])
    BY <1>2 DEF Answers
  <1>6. /\ {Summarize, ValidateLint, Code, FallbackCode}
             \cap {Checkpointed, Tested, Committed, Finale} = {}
        /\ Code # FallbackCode /\ ValidateLint # FallbackCode /\ Code # ValidateLint
    BY CallbackIds, OwnHeads, OwnIdsDiffer
  <1>7. Placed'
    <2>1. \A id \in Present' : Static(id, dag'[id]) \/ Added(id, dag'[id])
      BY <1>1, <1>2, <1>5 DEF Placed
    <2>2. \A id \in {Summarize, ValidateLint, Code} : id \in Present' <=> id \in Present
      BY <1>2, <1>5, <1>6 DEF Added
    <2> QED
      BY <1>1, <1>2, <2>1, <2>2 DEF Placed
  <1>8. \A id \in Present : id # FallbackCode =>
          /\ Done(id) => Done(id)'
          /\ id = n => Done(id)'
          /\ Done(id)' => Done(id) \/ id = n
    BY <1>2, <1>3 DEF Done
  <1>9. \A id \in Present' \ Present : ~Done(id)'
    BY <1>3 DEF Done
  <1>10. st[ValidateLint] \in {"running", "succeeded"} => (Tests' => Tests)
    <2> SUFFICES ASSUME st[ValidateLint] \in {"running", "succeeded"},
                        stage.kind = "external_project"
                 PROVE  Tests' => Tests
      BY DEF Tests
    <2>1. /\ RepoAnalyze \in Present /\ st[RepoAnalyze] \in {"succeeded", "failed"}
          /\ RepoAnalyze # FallbackCode
      BY LookedFor, TurnIds
    <2>2. st'[RepoAnalyze] = st[RepoAnalyze]
      BY <1>3, <2>1
    <2> QED
      BY <2>2 DEF Tests
  <1>11. \A id \in Present' \ Present : id \in NewIds(more)
    BY <1>4
  <1>12. Earned'
    <2>1. Tested \in Present' => Done(ValidateLint)'
      BY <1>1, <1>6, <1>8, <1>11 DEF Earned, Answers, Done
    <2>2. Committed \in Present' => Done(ValidateLint)' /\ (Tests' => Done(Tested)')
      <3>1. CASE Committed \in Present
        BY <1>1, <1>6, <1>8, <1>10, <3>1 DEF Earned, Done
      <3>2. CASE Committed \in Present' \ Present
        <4>1. (n = ValidateLint /\ ~Tests) \/ n = Tested
          BY <1>11, <3>2 DEF Answers
        <4>2. n = Tested => Done(ValidateLint)
          BY <1>1 DEF Earned
        <4> QED
          BY <1>6, <1>8, <1>10, <4>1, <4>2 DEF Done
      <3> QED
        BY <3>1, <3>2
    <2>3. Finale \in Present' => ValidateLint \in Present'
      <3>1. CASE Finale \in Present
        BY <1>1, <1>2, <3>1 DEF Earned
      <3>2. CASE Finale \in Present' \ Present
        <4>1. n = ValidateLint \/ n = Tested
          BY <1>11, <3>2 DEF Answers
        <4>2. n = Tested => Done(ValidateLint)
          BY <1>1 DEF Earned
        <4> QED
          BY <1>2, <4>1, <4>2 DEF Done
      <3> QED
        BY <3>1, <3>2
    <2> QED
      BY <2>1, <2>2, <2>3 DEF Earned
  <1>13. ASSUME outcome' = "open" PROVE Skipped' /\ Kept'
    <2>1. Present' = Present \cup NewIds(more)
      BY <1>4, <1>13
    <2>2. Skipped'
      <3> SUFFICES ASSUME NEW m \in Present', st'[m] = "skipped", m # FallbackCode
                   PROVE  m = ValidateLint /\ st'[Code] = "failed"
        BY DEF Skipped
      <3>1. m \in Present /\ m # n /\ st[m] = "skipped"
        BY <1>3
      <3>2. m = ValidateLint /\ st[Code] = "failed"
        BY <1>1, <3>1 DEF Skipped
      <3>3. Code \in Present /\ Code # n
        BY <1>1, <3>1, <3>2 DEF Placed
      <3> QED
        BY <1>3, <1>6, <3>2, <3>3
    <2>3. Done(ValidateLint)' => {Tested, Finale} \cap Present' # {}
      <3>1. Done(ValidateLint)' => Done(ValidateLint) \/ n = ValidateLint
        BY <1>6, <1>8, <1>9 DEF Done
      <3>2. Done(ValidateLint) => {Tested, Finale} \cap Present # {}
        BY <1>1 DEF Kept
      <3>3. n = ValidateLint => {Tested, Finale} \cap NewIds(more) # {}
        BY DEF Answers
      <3> QED
        BY <2>1, <3>1, <3>2, <3>3
    <2>4. Done(Tested)' => Finale \in Present'
      <3>1. Done(Tested)' => Done(Tested) \/ n = Tested
        BY <1>6, <1>8, <1>9 DEF Done
      <3>2. Done(Tested) => Finale \in Present
        BY <1>1 DEF Kept
      <3>3. n = Tested => Finale \in NewIds(more)
        BY DEF Answers
      <3> QED
        BY <2>1, <3>1, <3>2, <3>3
    <2> QED
      BY <2>2, <2>3, <2>4 DEF Kept
  <1> QED
    BY <1>4, <1>7, <1>12, <1>13 DEF AnswerInv

LEMMA LookGrow ==
  ASSUME PlanTyped, AnswerInv, LookInv, Undisturbed, outcome = "open",
         UNCHANGED <<stage, armed>>, NEW n \in Present, st[n] = "running",
         NEW more \in Seq(Row), Grow(n, more, {})
  PROVE  LookInv'
  <1> SUFFICES ASSUME stage.kind = "external_project" PROVE Looked'
    BY DEF LookInv, Looked
  <1>1. Placed
    BY DEF AnswerInv
  <1>2. /\ {RepoAnalyze, Extract, Code, ValidateLint} \subseteq Present
        /\ dag[RepoAnalyze].role = "analyzer" /\ dag[RepoAnalyze].onFail = "continue_on_error"
        /\ dag[Extract].deps = <<RepoAnalyze>>
        /\ dag[Code].deps = << Extract, ContextProbe >> /\ dag[Code].onFail = "fail_fast"
        /\ armed \cap {Extract, Code, ValidateLint} = {}
        /\ st[RepoAnalyze] # "skipped"
        /\ Began(Extract) => st[RepoAnalyze] \in Settled
        /\ Began(Code) => st[Extract] = "succeeded"
        /\ Began(ValidateLint) => st[Code] = "succeeded"
    BY DEF LookInv, Looked
  <1>3. Present \subseteq Present' /\ \A m \in Present : dag'[m] = dag[m]
    BY Grown
  <1>4. \A m \in {RepoAnalyze, Extract, Code, ValidateLint} :
          st'[m] = IF m = n THEN "succeeded" ELSE st[m]
    <2>1. {dag[n].fallback} \cap (FallbackOnly \ armed) \subseteq {FallbackCode}
      BY <1>1, WhoIsWho DEF FallbackOnly
    <2> QED
      BY <1>2, <2>1, TurnIds, GrownStatus
  <1>5. \A m \in {RepoAnalyze, Extract, Code, ValidateLint} : Began(m)' => Began(m)
    BY <1>4 DEF Began
  <1>6. /\ st'[RepoAnalyze] # "skipped"
        /\ st[RepoAnalyze] \in Settled => st'[RepoAnalyze] \in Settled
        /\ st[Extract] = "succeeded" => st'[Extract] = "succeeded"
        /\ st[Code] = "succeeded" => st'[Code] = "succeeded"
    BY <1>2, <1>4 DEF Settled
  <1> QED
    BY <1>2, <1>3, <1>5, <1>6 DEF Looked

(* What the nodes that come and go without an answer leave as it is.       *)
LEMMA NoAnswer ==
  ASSUME NEW n, n \notin {ValidateLint, Tested}
  PROVE  Answers(n, << >>)
  <1>1. << >> \in Seq(Row) /\ DOMAIN << >> = {} /\ NewIds(<< >>) = {}
    BY DEF NewIds
  <1> QED
    BY <1>1 DEF Answers

LEMMA AddedIs ==
  ASSUME PlanTyped, NEW n \in Present, NEW x \in AnyNode, NEW k \in {1, 2}, NEW id, Added(id, x)
  PROVE  LET r == NewNode(id, Under(n, x, k))
         IN r \in Row /\ r.id = id /\ Added(r.id, r.node)
  <1>1. dag[n].depth \in Nat
    BY DEF PlanTyped, AnyNode
  <1>2. PICK y : y = Under(n, x, k)
    OBVIOUS
  <1>3. y = [x EXCEPT !.depth = dag[n].depth + k] /\ dag[n].depth + k \in Nat
    BY <1>1, <1>2 DEF Under
  <1>4. /\ y \in AnyNode /\ y.role = x.role /\ y.onFail = x.onFail
        /\ y.fallback = x.fallback /\ y.words = x.words
    BY <1>3, DepthIs
  <1>5. id \in AnyId
    BY CallbackIds DEF Added
  <1>6. NewNode(id, y) \in Row /\ NewNode(id, y).id = id /\ NewNode(id, y).node = y
    BY <1>4, <1>5, RowIs
  <1>7. Added(id, y)
    BY <1>4 DEF Added
  <1> QED
    BY <1>2, <1>6, <1>7

LEMMA AddedOne ==
  ASSUME NEW r, r \in Row, Added(r.id, r.node)
  PROVE  /\ <<r>> \in Seq(Row) /\ NewIds(<<r>>) = {r.id}
         /\ \A i \in DOMAIN <<r>> : Added((<<r>>)[i].id, (<<r>>)[i].node)
  BY DEF NewIds

LEMMA AddedTwo ==
  ASSUME NEW r, NEW s, r \in Row, s \in Row, Added(r.id, r.node), Added(s.id, s.node)
  PROVE  /\ <<r, s>> \in Seq(Row) /\ NewIds(<<r, s>>) = {r.id, s.id}
         /\ \A i \in DOMAIN <<r, s>> : Added((<<r, s>>)[i].id, (<<r, s>>)[i].node)
  <1>1. PICK g : g = <<r, s>>
    OBVIOUS
  <1>2. g \in Seq(Row) /\ DOMAIN g = {1, 2} /\ g[1] = r /\ g[2] = s
    BY <1>1
  <1>3. NewIds(g) = {r.id, s.id}
    BY <1>2 DEF NewIds
  <1> QED
    BY <1>1, <1>2, <1>3

LEMMA CheckpointAnswers ==
  ASSUME PlanTyped, Placed, NEW n \in Present, dag[n].role = "planner"
  PROVE  Answers(n, Checkpoint(n))
  <1>1. n \notin {ValidateLint, Tested}
    BY WhoIsWho
  <1>2. n \in AnyId /\ <<n>> \in Seq(AnyId) /\ "summarizer" \in Roles
    BY DEF PlanTyped, Roles
  <1>3. PICK x : x = Node("summarizer", <<n>>)
    OBVIOUS
  <1>4. x \in AnyNode /\ x.role = "summarizer" /\ x.onFail = "continue_on_error"
        /\ x.fallback = NoId
    BY <1>2, <1>3, NodeAfter
  <1>5. Added(Checkpointed, x)
    BY <1>4, CallbackIds DEF Added
  <1>6. PICK r : r = NewNode(Checkpointed, Under(n, x, 1))
    OBVIOUS
  <1>7. r \in Row /\ r.id = Checkpointed /\ Added(r.id, r.node)
    <2>1. 1 \in {1, 2}
      OBVIOUS
    <2> QED
      BY <1>4, <1>5, <1>6, <2>1, AddedIs
  <1>8. Answers(n, <<r>>)
    BY <1>1, <1>7, AddedOne, CallbackIds DEF Answers
  <1>9. Checkpoint(n) = IF stage.long THEN <<r>> ELSE << >>
    BY <1>3, <1>6 DEF Checkpoint, Checkpointed
  <1> QED
    BY <1>1, <1>8, <1>9, NoAnswer

LEMMA TestAnswers ==
  ASSUME PlanTyped, NEW n \in Present, n = ValidateLint,
         NEW w \in {{"test"}, {"external", "test"}}, NEW strict \in BOOLEAN
  PROVE  Answers(n, TestNode(n, Tested, w, strict))
  <1>1. n \in AnyId /\ <<n>> \in Seq(AnyId) /\ "validator" \in Roles /\ w \in SUBSET Topics
    BY DEF PlanTyped, Roles, Topics
  <1>2. PICK v : v = Node("validator", <<n>>)
    OBVIOUS
  <1>3. v \in AnyNode /\ v.role = "validator" /\ v.onFail = "continue_on_error"
        /\ v.fallback = NoId
    BY <1>1, <1>2, NodeAfter
  <1>4. PICK u : u = [v EXCEPT !.words = w]
    OBVIOUS
  <1>5. u \in AnyNode /\ u.role = "validator" /\ u.onFail = "continue_on_error"
        /\ u.fallback = NoId /\ u.words = w
    BY <1>1, <1>3, <1>4, WordsIs
  <1>6. PICK x : x = IF strict THEN Strict(u) ELSE u
    OBVIOUS
  <1>7. /\ x \in AnyNode /\ x.role = "validator" /\ x.onFail # "fallback_node"
        /\ x.fallback = NoId /\ x.words = w
    <2>1. /\ Strict(u) \in AnyNode /\ Strict(u).role = "validator"
          /\ Strict(u).onFail = "fail_fast" /\ Strict(u).fallback = NoId /\ Strict(u).words = w
      BY <1>5, StrictIs
    <2> QED
      BY <1>5, <1>6, <2>1
  <1>8. Added(Tested, x)
    BY <1>7, CallbackIds DEF Added, LintWords
  <1>9. PICK r : r = NewNode(Tested, Under(n, x, 1))
    OBVIOUS
  <1>10. r \in Row /\ r.id = Tested /\ Added(r.id, r.node)
    <2>1. 1 \in {1, 2}
      OBVIOUS
    <2> QED
      BY <1>7, <1>8, <1>9, <2>1, AddedIs
  <1>11. n # Tested
    BY CallbackIds, OwnHeads
  <1>12. Answers(n, <<r>>)
    BY <1>10, <1>11, AddedOne, CallbackIds DEF Answers
  <1>13. TestNode(n, Tested, w, strict) = <<r>>
    BY <1>2, <1>4, <1>6, <1>9 DEF TestNode
  <1> QED
    BY <1>12, <1>13

LEMMA FinishAnswers ==
  ASSUME PlanTyped, NEW n \in Present, n \in {ValidateLint, Tested}, n = ValidateLint => ~Tests
  PROVE  Answers(n, GitAndSummary(n))
  <1>1. /\ n \in AnyId /\ <<n>> \in Seq(AnyId) /\ << Committed >> \in Seq(AnyId)
        /\ "validator" \in Roles /\ "summarizer" \in Roles /\ {"git"} \in SUBSET Topics
    BY CallbackIds DEF PlanTyped, Roles, Topics
  <1>2. ASSUME NEW d \in Seq(AnyId), NEW ro \in Roles
        PROVE  LET x == Strict(Node(ro, d))
               IN /\ x \in AnyNode /\ x.role = ro /\ x.onFail = "fail_fast"
                  /\ x.fallback = NoId
    <2>1. PICK y : y = Node(ro, d)
      OBVIOUS
    <2>2. y \in AnyNode /\ y.role = ro /\ y.fallback = NoId
      BY <2>1, NodeIs
    <2> QED
      BY <2>1, <2>2, StrictIs
  <1>3. PICK v : v = Strict(Node("validator", <<n>>))
    OBVIOUS
  <1>4. v \in AnyNode /\ v.role = "validator" /\ v.onFail = "fail_fast" /\ v.fallback = NoId
    BY <1>1, <1>2, <1>3
  <1>5. PICK git : git = [v EXCEPT !.words = {"git"}]
    OBVIOUS
  <1>6. /\ git \in AnyNode /\ git.role = "validator" /\ git.onFail = "fail_fast"
        /\ git.fallback = NoId /\ git.words = {"git"}
    BY <1>1, <1>4, <1>5, WordsIs
  <1>7. PICK after : after = Strict(Node("summarizer", << Committed >>))
    OBVIOUS
  <1>8. PICK now : now = Strict(Node("summarizer", <<n>>))
    OBVIOUS
  <1>9. /\ after \in AnyNode /\ after.role = "summarizer" /\ after.onFail = "fail_fast"
        /\ after.fallback = NoId
    BY <1>1, <1>2, <1>7
  <1>10. /\ now \in AnyNode /\ now.role = "summarizer" /\ now.onFail = "fail_fast"
         /\ now.fallback = NoId
    BY <1>1, <1>2, <1>8
  <1>11. Added(Committed, git) /\ Added(Finale, after) /\ Added(Finale, now)
    BY <1>6, <1>9, <1>10, CallbackIds DEF Added
  <1>12. PICK r : r = NewNode(Committed, Under(n, git, 1))
    OBVIOUS
  <1>13. PICK s : s = NewNode(Finale, Under(n, after, 2))
    OBVIOUS
  <1>14. PICK t : t = NewNode(Finale, Under(n, now, 1))
    OBVIOUS
  <1>15. 1 \in {1, 2} /\ 2 \in {1, 2}
    OBVIOUS
  <1>16. r \in Row /\ r.id = Committed /\ Added(r.id, r.node)
    BY <1>6, <1>11, <1>12, <1>15, AddedIs
  <1>17. s \in Row /\ s.id = Finale /\ Added(s.id, s.node)
    BY <1>9, <1>11, <1>13, <1>15, AddedIs
  <1>18. t \in Row /\ t.id = Finale /\ Added(t.id, t.node)
    BY <1>10, <1>11, <1>14, <1>15, AddedIs
  <1>19. ValidateLint # Tested
    BY CallbackIds, OwnHeads
  <1>20. Answers(n, <<r, s>>)
    BY <1>16, <1>17, <1>19, AddedTwo, CallbackIds DEF Answers
  <1>21. Answers(n, <<t>>)
    BY <1>18, <1>19, AddedOne, CallbackIds DEF Answers
  <1>22. GitAndSummary(n) = IF stage.checks.git THEN <<r, s>> ELSE <<t>>
    BY <1>3, <1>5, <1>7, <1>8, <1>12, <1>13, <1>14 DEF GitAndSummary, Committed, Finale
  <1> QED
    BY <1>20, <1>21, <1>22

LEMMA CheckAnswers ==
  ASSUME PlanTyped, Placed, LookInv, Undisturbed, NEW n \in Present,
         dag[n].role = "validator", st[n] = "running"
  PROVE  Answers(n, AfterCheck(n))
  <1>1. n \in {ValidateLint, Tested, Committed}
    BY WhoIsWho
  <1>2. PICK w : w = dag[n].words
    OBVIOUS
  <1> DEFINE external == "external" \in w
  <1>4. CASE n = ValidateLint
    <2>1. w = CheckWords(stage.kind)
      BY <1>2, <1>4 DEF Placed
    <2>2. LintWords(w) /\ (external <=> stage.kind = "external_project")
      BY <2>1 DEF CheckWords, LintWords
    <2>3. AfterCheck(n) =
            IF ~TestsKnown(external) THEN GitAndSummary(n)
            ELSE IF external THEN TestNode(n, Tested, {"external", "test"}, FALSE)
            ELSE TestNode(n, Tested, {"test"}, TRUE)
      BY <1>2, <1>4, <2>2 DEF AfterCheck, LintWords, Tested
    <2>4. Answers(n, TestNode(n, Tested, {"external", "test"}, FALSE))
          /\ Answers(n, TestNode(n, Tested, {"test"}, TRUE))
      BY <1>4, TestAnswers
    <2>5. ~Tests => Answers(n, GitAndSummary(n))
      BY <1>4, FinishAnswers
    <2>6. Tests => TestsKnown(external)
      <3>1. CASE stage.kind # "external_project"
        BY <2>2, <3>1 DEF Tests, TestsKnown
      <3>2. CASE stage.kind = "external_project"
        <4>1. RepoAnalyze \in Present /\ st[RepoAnalyze] \in {"succeeded", "failed"}
          BY <1>4, <3>2, LookedFor
        <4>2. dag[RepoAnalyze].role = "analyzer"
          BY <3>2 DEF LookInv, Looked
        <4> QED
          BY <2>2, <3>2, <4>1, <4>2 DEF Tests, TestsKnown, Analysed
      <3> QED
        BY <3>1, <3>2
    <2> QED
      BY <2>3, <2>4, <2>5, <2>6
  <1>5. CASE n = Tested
    <2>1. "test" \in w /\ ~LintWords(w)
      BY <1>2, <1>5, WhoIsWho
    <2>2. AfterCheck(n) = GitAndSummary(n)
      BY <1>2, <2>1 DEF AfterCheck, LintWords
    <2>3. n # ValidateLint
      BY <1>5, CallbackIds, OwnHeads
    <2> QED
      BY <1>5, <2>2, <2>3, FinishAnswers
  <1>6. CASE n = Committed
    <2>1. w = {"git"}
      BY <1>2, <1>6, WhoIsWho
    <2>2. ~LintWords(w) /\ "test" \notin w
      BY <2>1 DEF LintWords
    <2>4. AfterCheck(n) = << >>
      BY <1>2, <2>2 DEF AfterCheck, LintWords
    <2>3. n \notin {ValidateLint, Tested}
      BY <1>6, CallbackIds, OwnHeads
    <2> QED
      BY <2>3, <2>4, NoAnswer
  <1> QED
    BY <1>1, <1>4, <1>5, <1>6

(* What a success does, when the answer is one of those.                   *)
LEMMA AnswerStep ==
  ASSUME PlanTyped, AnswerInv, LookInv, NEW n \in Present, NEW more, FollowedBy(n, more, {}),
         Undisturbed' => Undisturbed, Undisturbed => AcceptedPlans' = {} \/ ~Undisturbed',
         Undisturbed => Answers(n, more)
  PROVE  AnswerInv' /\ LookInv'
  <1> SUFFICES ASSUME Undisturbed' PROVE AnswerInv' /\ LookInv'
    BY DEF AnswerInv, LookInv
  <1>1. /\ outcome = "open" /\ st[n] = "running" /\ Grow(n, more, {})
        /\ UNCHANGED <<stage, armed>>
    BY DEF FollowedBy
  <1>2. Answers(n, more) /\ more \in Seq(Row)
    BY DEF Answers
  <1> QED
    BY <1>1, <1>2, AnswerGrow, LookGrow DEF Undisturbed

LEMMA AnswerInvStep ==
  PlanInv /\ AnswerInv /\ LookInv /\ [PlanningNext]_planningVars => AnswerInv' /\ LookInv'
  <1> SUFFICES ASSUME PlanInv, AnswerInv, LookInv, [PlanningNext]_planningVars PROVE AnswerInv' /\ LookInv'
    OBVIOUS
  <1>1. PlanTyped
    BY DEF PlanInv
  <1>2. "pending" \notin Settled /\ "running" \notin Settled
    BY DEF Settled
  <1>3. Undisturbed => Placed
    BY DEF AnswerInv
  <1>4. UNCHANGED <<stage, plans>> => (Undisturbed' <=> Undisturbed)
    BY DEF Undisturbed, AcceptedPlans
  <1>5. Undisturbed => AcceptedPlans = {}
    BY DEF Undisturbed
  <1>6. UNCHANGED plans => AcceptedPlans' = AcceptedPlans
    BY DEF AcceptedPlans
  <1>7. ASSUME NEW n \in Present, Launch(n) PROVE AnswerInv' /\ LookInv'
    BY <1>1, <1>2, <1>7, AnswerMove, LookMove DEF Launch
  <1>8. ASSUME NEW n \in Present, SkipForFallback(n) PROVE AnswerInv' /\ LookInv'
    <2>1. dag[n].onFail # "continue_on_error" /\ st[n] \notin Settled
      BY <1>2, <1>8, StopsAs DEF SkipForFallback
    <2> QED
      BY <1>1, <1>2, <1>8, <2>1, AnswerMove, LookMove, SkippedForCode DEF SkipForFallback
  <1>9. ASSUME NEW n \in Present, FailFast(n) PROVE AnswerInv' /\ LookInv'
    <2>1. dag[n].onFail # "continue_on_error" /\ st[n] \notin Settled
      BY <1>2, <1>9, StopsAs DEF FailFast
    <2> QED
      BY <1>1, <1>2, <1>9, <2>1, AnswerMove, LookMove DEF FailFast
  <1>10. ASSUME NEW n \in Present, NodeFails(n) PROVE AnswerInv' /\ LookInv'
    BY <1>1, <1>2, <1>10, AnswerMove, LookMove DEF NodeFails
  <1>11. ASSUME NEW n \in Present, NEW plan \in PlanOutput, PlannerPlans(n, plan)
         PROVE  AnswerInv' /\ LookInv'
    <2> SUFFICES ASSUME Undisturbed' PROVE AnswerInv' /\ LookInv'
      BY DEF AnswerInv, LookInv
    <2>1. PICK p : /\ plans' = Append(plans, p) /\ p.accepted = Accepted(plan, statics)
                   /\ UNCHANGED stage /\ dag[n].role = "planner"
      <3>1. PICK p : p = [plan |-> plan, known |-> statics, there |-> Present,
                          depth |-> dag[n].depth + 1, accepted |-> Accepted(plan, statics)]
        OBVIOUS
      <3> QED
        BY <1>11, <3>1 DEF PlannerPlans, FollowedBy
    <2>2. plans \in Seq(PlanRow)
      BY <1>1 DEF PlanTyped
    <2>3. /\ DOMAIN plans = 1..Len(plans) /\ Len(plans) \in Nat
          /\ DOMAIN plans' = 1..(Len(plans) + 1) /\ plans'[Len(plans) + 1] = p
          /\ \A i \in 1..Len(plans) : plans'[i] = plans[i]
      BY <2>1, <2>2
    <2>4. ~Accepted(plan, statics) /\ AcceptedPlans = {}
      <3>1. \A i \in DOMAIN plans' : ~plans'[i].accepted
        BY DEF Undisturbed, AcceptedPlans
      <3>2. Len(plans) + 1 \in DOMAIN plans'
        BY <2>3
      <3>3. ~p.accepted
        BY <2>3, <3>1, <3>2
      <3> QED
        BY <2>1, <2>3, <3>1, <3>3 DEF AcceptedPlans
    <2>5. Undisturbed
      BY <2>1, <2>4 DEF Undisturbed
    <2>6. FollowedBy(n, << >>, {})
      BY <1>11, <2>4 DEF PlannerPlans
    <2>7. n \notin {ValidateLint, Tested}
      BY <1>3, <2>1, <2>5, WhoIsWho
    <2>8. AcceptedPlans' = {}
      BY DEF Undisturbed
    <2> QED
      BY <1>1, <1>3, <2>5, <2>6, <2>7, <2>8, NoAnswer, AnswerStep
  <1>12. ASSUME NEW n \in Present, PlannerTalks(n) PROVE AnswerInv' /\ LookInv'
    <2>1. PICK more : more = IF dag[n].depth < 5 THEN Checkpoint(n) ELSE << >>
      OBVIOUS
    <2>2. dag[n].role = "planner" /\ FollowedBy(n, more, {}) /\ UNCHANGED <<stage, plans>>
      BY <1>12, <2>1 DEF PlannerTalks, FollowedBy, BringsFollowups
    <2>3. Undisturbed => Answers(n, more)
      <3> SUFFICES ASSUME Undisturbed PROVE Answers(n, more)
        OBVIOUS
      <3>1. n \notin {ValidateLint, Tested}
        BY <1>3, <2>2, WhoIsWho
      <3>2. Answers(n, << >>)
        BY <1>3, <3>1, NoAnswer
      <3> QED
        BY <1>1, <1>3, <2>1, <2>2, <3>2, CheckpointAnswers
    <2> QED
      BY <1>1, <1>4, <1>5, <1>6, <2>2, <2>3, AnswerStep
  <1>13. ASSUME NEW n \in Present, NEW marks, Reviewed(n, marks) PROVE AnswerInv' /\ LookInv'
    <2>1. dag[n].role = "reviewer" /\ UNCHANGED <<stage, plans>>
      BY <1>13 DEF Reviewed, FollowedBy, BringsFollowups
    <2>2. ~Undisturbed
      BY <1>3, <2>1, WhoIsWho
    <2> QED
      BY <1>4, <2>1, <2>2 DEF AnswerInv, LookInv
  <1>14. ASSUME NEW n \in Present, CheckPasses(n) PROVE AnswerInv' /\ LookInv'
    <2>1. dag[n].role = "validator" /\ FollowedBy(n, AfterCheck(n), {})
          /\ st[n] = "running" /\ UNCHANGED <<stage, plans>>
      BY <1>14 DEF CheckPasses, FollowedBy, BringsFollowups
    <2>2. Undisturbed => Answers(n, AfterCheck(n))
      BY <1>1, <1>3, <2>1, CheckAnswers
    <2> QED
      BY <1>1, <1>4, <1>5, <1>6, <2>1, <2>2, AnswerStep
  <1>15. ASSUME NEW n \in Present, WorkDone(n) PROVE AnswerInv' /\ LookInv'
    <2>1. dag[n].role # "validator" /\ FollowedBy(n, << >>, {}) /\ UNCHANGED <<stage, plans>>
      BY <1>15 DEF WorkDone, FollowedBy
    <2>2. Undisturbed => Answers(n, << >>)
      BY <1>3, <2>1, WhoIsWho, NoAnswer
    <2> QED
      BY <1>1, <1>4, <1>5, <1>6, <2>1, <2>2, AnswerStep
  <1>16. CASE StageEnds \/ UNCHANGED planningVars
    <2>1. /\ UNCHANGED <<stage, dag, st, armed, plans>>
          /\ \/ outcome' = outcome
             \/ /\ outcome = "open" /\ outcome' = "ended"
                /\ \A m \in Present : st[m] \in Settled
      BY <1>16 DEF StageEnds, planningVars
    <2>2. (Placed' <=> Placed) /\ (Skipped' <=> Skipped) /\ (Undisturbed' <=> Undisturbed)
          /\ Present' = Present
      BY <2>1 DEF Placed, Skipped, Undisturbed, AcceptedPlans, Present
    <2>3. \A id : Done(id)' <=> Done(id)
      BY <2>1 DEF Done, Present
    <2>4. (Earned' <=> Earned) /\ (Kept' <=> Kept)
      BY <2>1, <2>2, <2>3 DEF Earned, Kept, Tests
    <2>5. LookInv'
      BY <2>1, <2>2 DEF LookInv, Looked, Began
    <2> QED
      BY <2>1, <2>2, <2>4, <2>5 DEF AnswerInv
  <1> QED
    BY <1>7, <1>8, <1>9, <1>10, <1>11, <1>12, <1>13, <1>14, <1>15, <1>16 DEF PlanningNext

LEMMA AnswersFollow == PlanInv /\ AnswerInv => StageAnswers
  <1> SUFFICES ASSUME PlanTyped, AnswerInv, Undisturbed PROVE StageAnswers
    BY DEF PlanInv, StageAnswers, Undisturbed
  <1>1. Placed /\ Earned
    BY DEF AnswerInv
  <1>2. ASSUME outcome = "ended", \A n \in Present : st[n] # "failed"
        PROVE  Cardinality({n \in Present : /\ dag[n].role = "summarizer"
                                           /\ n # Id("dynamic_checkpoint", 0)
                                           /\ st[n] = "succeeded"}) = 1
    <2> DEFINE last == {n \in Present : /\ dag[n].role = "summarizer"
                                        /\ n # Id("dynamic_checkpoint", 0)
                                        /\ st[n] = "succeeded"}
    <2>1. Skipped /\ Kept /\ \A m \in Present : st[m] \in Settled
      BY <1>2 DEF AnswerInv
    <2>2. /\ FallbackCode \notin {Summarize, Finale, Tested, ValidateLint}
          /\ ValidateLint \notin {Summarize, Finale, Tested} /\ Summarize # Finale
          /\ Checkpointed \notin {Summarize, Finale}
      BY CallbackIds, OwnHeads, OwnIdsDiffer
    <2>3. \A m \in Present : m # FallbackCode => st[m] = "succeeded"
      <3>1. ASSUME NEW m \in Present, st[m] = "skipped", m # FallbackCode PROVE FALSE
        <4>1. m = ValidateLint /\ st[Code] = "failed"
          BY <2>1, <3>1 DEF Skipped
        <4>2. Code \in Present
          BY <1>1, <3>1, <4>1 DEF Placed
        <4> QED
          BY <1>2, <4>1, <4>2
      <3> QED
        BY <1>2, <2>1, <3>1 DEF Settled
    <2>4. \A m \in Present : m \in last <=> m \in {Summarize, Finale}
      <3>1. \A m \in Present : dag[m].role = "summarizer" <=>
                               m \in {Summarize, Checkpointed, Finale}
        BY <1>1, WhoIsWho
      <3> QED
        BY <2>2, <2>3, <3>1 DEF Checkpointed
    <2>5. last \subseteq Present
      OBVIOUS
    <2> HIDE DEF last
    <2>6. CASE ValidateLint \in Present
      <3>1. Finale \in Present
        BY <2>1, <2>2, <2>3, <2>6 DEF Kept, Done
      <3>2. Summarize \notin Present
        BY <1>1, <2>6 DEF Placed
      <3>3. last = {Finale}
        BY <2>4, <2>5, <3>1, <3>2
      <3> QED
        BY <3>3, FS_Singleton DEF last
    <2>7. CASE ValidateLint \notin Present
      <3>1. Finale \notin Present
        BY <1>1, <2>7 DEF Earned
      <3>2. Summarize \in Present
        BY <1>1, <2>7 DEF Placed
      <3>3. last = {Summarize}
        BY <2>4, <2>5, <3>1, <3>2
      <3> QED
        BY <3>3, FS_Singleton DEF last
    <2> QED
      BY <2>6, <2>7
  <1>3. ASSUME Committed \in Present
        PROVE  /\ st[ValidateLint] = "succeeded"
               /\ Tests => Tested \in Present /\ st[Tested] = "succeeded"
    BY <1>1, <1>3 DEF Earned, Done
  <1> QED
    BY <1>2, <1>3 DEF StageAnswers, Committed, Tested, Tests

(* StageAnswersHolds: a stage that build_graph starts, that goes well and   *)
(* whose planner leaves it as it is, ends with one summary, and commits     *)
(* only what every check that is there has passed, for any checks and any   *)
(* way its nodes take turns.                                                *)
THEOREM StageAnswersHolds == PlanningSpec => []StageAnswers
  <1>1. PlanningInit => PlanInv /\ AnswerInv /\ LookInv
    BY PlanInvInit, AnswerInvInit, LookInvInit
  <1>2. PlanInv /\ AnswerInv /\ LookInv /\ [PlanningNext]_planningVars
          => (PlanInv /\ AnswerInv /\ LookInv)'
    BY PlanInvStep, AnswerInvStep
  <1> QED
    BY <1>1, <1>2, AnswersFollow, PTL DEF PlanningSpec

(* ------ fallbacks                                                        *)

(* Only the code of a built graph and its first check name a fallback, and *)
(* nothing the callback or a plan adds does.                               *)
Spares ==
  stage.kind # "template" =>
    \A n \in Present :
      dag[n].fallback # NoId =>
        /\ n \in {Code, ValidateLint} /\ dag[n].fallback = FallbackCode
        /\ {Code, FallbackCode} \subseteq Present
        /\ dag[Code].fallback = FallbackCode /\ dag[FallbackCode].deps = <<Code>>
        /\ n = ValidateLint => dag[n].deps = <<Code>> /\ dag[n].onFail = "fallback_node"

LEMMA SparesInit == ASSUME PlanningInit PROVE Spares
  <1> SUFFICES ASSUME stage.kind # "template" PROVE Spares
    BY DEF Spares
  <1>1. stage.kind \in StageKinds \ {"template"}
    BY PlanningInputs DEF PlanningInit
  <1>2. PICK more : more = BuildGraph(stage.kind, stage.checks)
    OBVIOUS
  <1>3. StaticGraph(stage.kind, more)
    BY <1>1, <1>2, BuiltIs
  <1>4. dag = Dag(more) /\ more \in Seq(Row)
    BY <1>2, <1>3 DEF PlanningInit, StaticGraph, StaticRows
  <1>5. Present = NewIds(more) /\ \A id \in Present : Static(id, dag[id])
    <2>1. /\ DOMAIN dag = NewIds(more)
          /\ \A id \in NewIds(more) :
               \E i \in DOMAIN more : more[i].id = id /\ dag[id] = more[i].node
      BY <1>4, DagIs
    <2>2. \A i \in DOMAIN more : Static(more[i].id, more[i].node)
      BY <1>3 DEF StaticGraph, StaticRows, StaticRow
    <2> QED
      BY <2>1, <2>2 DEF Present
  <1>6. /\ ValidateLint \in Present => Code \in Present
        /\ Code \in Present => FallbackCode \in Present
    BY <1>3, <1>5 DEF StaticGraph
  <1>7. ASSUME NEW n \in Present, dag[n].fallback # NoId
        PROVE  /\ n \in {Code, ValidateLint} /\ dag[n].fallback = FallbackCode
               /\ {Code, FallbackCode} \subseteq Present
               /\ dag[Code].fallback = FallbackCode /\ dag[FallbackCode].deps = <<Code>>
               /\ n = ValidateLint => dag[n].deps = <<Code>> /\ dag[n].onFail = "fallback_node"
    <2>1. Static(n, dag[n])
      BY <1>5
    <2>2. n \in {Code, ValidateLint} /\ dag[n].fallback = FallbackCode
      BY <1>7, <2>1 DEF Static
    <2>3. Code \in Present /\ FallbackCode \in Present
      BY <1>6, <2>2
    <2>4. Static(Code, dag[Code]) /\ Static(FallbackCode, dag[FallbackCode])
      BY <1>5, <2>3
    <2>5. dag[Code].fallback = FallbackCode /\ dag[FallbackCode].deps = <<Code>>
      BY <2>4 DEF Static
    <2>6. n = ValidateLint => dag[n].deps = <<Code>> /\ dag[n].onFail = "fallback_node"
      BY <2>1 DEF Static
    <2> QED
      BY <2>2, <2>3, <2>5, <2>6
  <1> QED
    BY <1>7 DEF Spares

LEMMA SparesStay ==
  ASSUME Spares, UNCHANGED stage, Present \subseteq Present',
         \A m \in Present : dag'[m] = dag[m],
         \A id \in Present' \ Present : dag'[id].fallback = NoId
  PROVE  Spares'
  <1>1. ASSUME stage.kind # "template", NEW n \in Present', dag'[n].fallback # NoId
        PROVE  /\ n \in {Code, ValidateLint} /\ dag'[n].fallback = FallbackCode
               /\ {Code, FallbackCode} \subseteq Present'
               /\ dag'[Code].fallback = FallbackCode /\ dag'[FallbackCode].deps = <<Code>>
               /\ n = ValidateLint => dag'[n].deps = <<Code>> /\ dag'[n].onFail = "fallback_node"
    <2>1. n \in Present /\ dag'[n] = dag[n] /\ dag[n].fallback # NoId
      BY <1>1
    <2>2. /\ n \in {Code, ValidateLint} /\ dag[n].fallback = FallbackCode
          /\ Code \in Present /\ FallbackCode \in Present
          /\ dag[Code].fallback = FallbackCode /\ dag[FallbackCode].deps = <<Code>>
          /\ n = ValidateLint => dag[n].deps = <<Code>> /\ dag[n].onFail = "fallback_node"
      BY <1>1, <2>1 DEF Spares
    <2>3. dag'[Code] = dag[Code] /\ dag'[FallbackCode] = dag[FallbackCode]
      BY <2>2
    <2> QED
      BY <2>1, <2>2, <2>3
  <1> QED
    BY <1>1 DEF Spares

LEMMA SparesGrow ==
  ASSUME PlanTyped, Spares, NEW n \in Present, NEW more \in Seq(Row), NEW skip,
         FollowedBy(n, more, skip), \A i \in DOMAIN more : more[i].node.fallback = NoId
  PROVE  Spares'
  <1>1. st[n] = "running" /\ Grow(n, more, skip) /\ UNCHANGED stage
    BY DEF FollowedBy
  <1>2. Present \subseteq Present' /\ \A m \in Present : dag'[m] = dag[m]
    BY <1>1, Grown
  <1>3. \A id \in Present' \ Present :
          \E i \in DOMAIN more : more[i].id = id /\ dag'[id] = more[i].node
    BY <1>1, Grown
  <1> QED
    BY <1>1, <1>2, <1>3, SparesStay

LEMMA SparesFollow ==
  ASSUME PlanTyped, Spares, NEW n \in Present, NEW more, Follow(n, more),
         FollowedBy(n, more, {})
  PROVE  Spares'
  <1>1. more \in Seq(Row) /\ \A i \in DOMAIN more : more[i].node.fallback = NoId
    BY DEF Follow, Good
  <1> QED
    BY <1>1, SparesGrow

LEMMA SparesStep == PlanInv /\ Spares /\ [PlanningNext]_planningVars => Spares'
  <1> SUFFICES ASSUME PlanInv, Spares, [PlanningNext]_planningVars PROVE Spares'
    OBVIOUS
  <1>1. PlanTyped
    BY DEF PlanInv
  <1>2. UNCHANGED <<stage, dag>> => Spares'
    <2> SUFFICES ASSUME UNCHANGED <<stage, dag>> PROVE Spares'
      OBVIOUS
    <2>1. Present' = Present
      BY DEF Present
    <2> QED
      BY <2>1, SparesStay
  <1>3. ASSUME NEW n \in Present, Launch(n) \/ SkipForFallback(n) \/ FailFast(n) \/ NodeFails(n)
        PROVE  Spares'
    BY <1>2, <1>3 DEF Launch, SkipForFallback, FailFast, NodeFails
  <1>4. ASSUME NEW n \in Present, NEW plan \in PlanOutput, PlannerPlans(n, plan) PROVE Spares'
    <2>1. PICK more : more = IF Accepted(plan, statics) THEN Subtasks(n, plan) ELSE << >>
      OBVIOUS
    <2>2. PICK skip : skip = IF Accepted(plan, statics) THEN statics ELSE {}
      OBVIOUS
    <2>3. FollowedBy(n, more, skip)
      BY <1>4, <2>1, <2>2 DEF PlannerPlans
    <2>4. plan \in Seq(Subtask) /\ << >> \in Seq(Row) /\ DOMAIN << >> = {}
      BY PlanningInputs
    <2>5. more \in Seq(Row) /\ \A i \in DOMAIN more : more[i].node.fallback = NoId
      <3>1. CASE more = Subtasks(n, plan)
        <4>1. /\ Subtasks(n, plan) \in Seq(Row) /\ DOMAIN Subtasks(n, plan) = DOMAIN plan
              /\ \A i \in DOMAIN plan : Subtasks(n, plan)[i].node.fallback = NoId
          BY <1>1, <2>4, SubtasksAre
        <4> QED
          BY <3>1, <4>1
      <3>2. CASE more = << >>
        BY <2>4, <3>2
      <3> QED
        BY <2>1, <3>1, <3>2
    <2> QED
      BY <1>1, <2>3, <2>5, SparesGrow
  <1>5. ASSUME NEW n \in Present, PlannerTalks(n) PROVE Spares'
    <2>1. PICK more : more = IF dag[n].depth < 5 THEN Checkpoint(n) ELSE << >>
      OBVIOUS
    <2>2. dag[n].role = "planner" /\ FollowedBy(n, more, {})
      BY <1>5, <2>1 DEF PlannerTalks
    <2>3. Follow(n, more)
      BY <1>1, <2>1, <2>2, CheckpointFollows, FollowNone
    <2> QED
      BY <1>1, <2>2, <2>3, SparesFollow
  <1>6. ASSUME NEW n \in Present, NEW marks, Reviewed(n, marks) PROVE Spares'
    <2>1. PICK more : more = (IF "REQUEST_CHANGES" \in marks THEN ReviewRound(n) ELSE << >>)
                             \o (IF "INCOMPLETE" \in marks THEN Replan(n) ELSE << >>)
      OBVIOUS
    <2>2. dag[n].role = "reviewer" /\ FollowedBy(n, more, {})
      BY <1>6, <2>1 DEF Reviewed
    <2>3. Follow(n, more)
      BY <1>1, <2>1, <2>2, ReviewFollows
    <2> QED
      BY <1>1, <2>2, <2>3, SparesFollow
  <1>7. ASSUME NEW n \in Present, CheckPasses(n) PROVE Spares'
    <2>1. dag[n].role = "validator" /\ FollowedBy(n, AfterCheck(n), {})
      BY <1>7 DEF CheckPasses
    <2>2. Follow(n, AfterCheck(n))
      BY <1>1, <2>1, CheckFollows
    <2> QED
      BY <1>1, <2>1, <2>2, SparesFollow
  <1>8. ASSUME NEW n \in Present, WorkDone(n) PROVE Spares'
    <2>1. FollowedBy(n, << >>, {})
      BY <1>8 DEF WorkDone
    <2> QED
      BY <1>1, <2>1, FollowNone, SparesFollow
  <1>9. CASE StageEnds \/ UNCHANGED planningVars
    BY <1>2, <1>9 DEF StageEnds, planningVars
  <1> QED
    BY <1>3, <1>4, <1>5, <1>6, <1>7, <1>8, <1>9 DEF PlanningNext

(* f is there, waits for the node o that owns it, and a second one that    *)
(* names f waits for o alone, gives way to it, and is nobody's fallback.   *)
Owned(f) ==
  /\ f \in Present
  /\ \E o \in Present :
       /\ dag[o].fallback = f /\ o \in Range(dag[f].deps)
       /\ \A p \in Present \ {o} :
            dag[p].fallback = f =>
              /\ Range(dag[p].deps) = {o} /\ dag[p].onFail = "fallback_node"
              /\ \A n \in Present : dag[n].fallback # p

(* FallbacksOwned: whatever a stage grows to, its fallbacks are owned.  The *)
(* runtime needs this of the graphs that build_graph makes and the callback *)
(* extends: without it its resolver can report a deadlock (GraphRuntime's   *)
(* NoDeadlockError) while a fallback could still run.                       *)
FallbacksOwned ==
  stage.kind # "template" => \A f \in {dag[n].fallback : n \in Present} \ {NoId} : Owned(f)

LEMMA SparesOwned ==
  ASSUME Spares, stage.kind # "template", NEW n \in Present, dag[n].fallback # NoId
  PROVE  Owned(dag[n].fallback)
  <1>1. PICK f : f = dag[n].fallback
    OBVIOUS
  <1>2. /\ f = FallbackCode /\ Code \in Present /\ FallbackCode \in Present
        /\ dag[Code].fallback = FallbackCode /\ dag[FallbackCode].deps = <<Code>>
    BY <1>1 DEF Spares
  <1>3. Range(<<Code>>) = {Code}
    BY RangeOne
  <1>4. ASSUME NEW p \in Present, p # Code, dag[p].fallback = f
        PROVE  /\ Range(dag[p].deps) = {Code} /\ dag[p].onFail = "fallback_node"
               /\ \A m \in Present : dag[m].fallback # p
    <2>1. p = ValidateLint /\ dag[p].deps = <<Code>> /\ dag[p].onFail = "fallback_node"
      BY <1>1, <1>4 DEF Spares
    <2>2. ValidateLint # NoId /\ ValidateLint # FallbackCode
      <3>1. ValidateLint.name # << >>
        BY DEF ValidateLint, Id
      <3> QED
        BY <3>1, NoIdIs, OwnIdsDiffer
    <2>3. \A m \in Present : dag[m].fallback # p
      BY <2>1, <2>2 DEF Spares
    <2> QED
      BY <1>3, <2>1, <2>3
  <1>5. Code \in Range(dag[f].deps)
    BY <1>2, <1>3
  <1>6. Owned(f)
    BY <1>2, <1>4, <1>5 DEF Owned
  <1> QED
    BY <1>1, <1>6

LEMMA SparesSuffice == Spares => FallbacksOwned
  <1>1. ASSUME Spares, stage.kind # "template",
               NEW f \in {dag[n].fallback : n \in Present} \ {NoId}
        PROVE  Owned(f)
    <2>1. PICK n \in Present : dag[n].fallback = f /\ f # NoId
      BY <1>1
    <2> QED
      BY <1>1, <2>1, SparesOwned
  <1> QED
    BY <1>1 DEF FallbacksOwned

(* FallbacksOwnedHolds: a stage that is no template has, whatever its plan, *)
(* its reviews and its checks add to it, only fallbacks that one node of it *)
(* owns, which is what NoDeadlockHolds asks of the graphs the runtime is    *)
(* given; the templates are left to that theorem's hypothesis.              *)
THEOREM FallbacksOwnedHolds == PlanningSpec => []FallbacksOwned
  <1>1. PlanningInit => PlanInv /\ Spares
    BY PlanInvInit, SparesInit
  <1>2. PlanInv /\ Spares /\ [PlanningNext]_planningVars => (PlanInv /\ Spares)'
    BY PlanInvStep, SparesStep
  <1> QED
    BY <1>1, <1>2, SparesSuffice, PTL DEF PlanningSpec

=============================================================================
