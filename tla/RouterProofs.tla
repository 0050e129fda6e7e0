----------------------------- MODULE RouterProofs -----------------------------
(***************************************************************************)
(* What the model router promises, proved of ModelRouter's own             *)
(* specification, for every catalogue, any number of settings handlers and *)
(* any patches: a call gives up only on a chain that has failed or is out  *)
(* of time, and a restart routes the calls as the router did; and of        *)
(* ProviderStream's, for every reply and limit of the buffer: an answer     *)
(* does not depend on how the reply was cut into chunks.                   *)
(***************************************************************************)
EXTENDS ModelRouter, ProviderStream, DataLemmas, FunctionTheorems, SequenceTheorems

-----------------------------------------------------------------------------
(* The ranking                                                             *)

(* The catalogue of a router: ids are its own.                              *)
LEMMA ModelsAre ==
  ASSUME NEW r
  PROVE  /\ DOMAIN Models(r) = 1..Len(Models(r)) /\ Len(Models(r)) \in Nat
         /\ \A i \in DOMAIN Models(r) : IsModel(Models(r)[i])
         /\ \A i, j \in DOMAIN Models(r) : Models(r)[i].id = Models(r)[j].id => i = j
         /\ \A i \in DOMAIN Models(r) :
              \/ i \in DOMAIN Catalog /\ Models(r)[i] = Catalog[i]
              \/ Models(r)[i] = CustomModel
  <1>1. IsModel(CustomModel)
    BY DEF CustomModel, IsModel, ModelSpec, Provider
  <1>2. /\ \A i \in DOMAIN Catalog : IsModel(Catalog[i]) /\ Catalog[i].id # CustomModel.id
        /\ \A i, j \in DOMAIN Catalog : Catalog[i].id = Catalog[j].id => i = j
    BY CatalogAssumption
  <1>3. /\ Catalog \in Seq(Range(Catalog)) /\ Len(Catalog) \in Nat
        /\ DOMAIN Catalog = 1..Len(Catalog)
    BY CatalogAssumption
  <1>4. CASE Models(r) = Catalog
    BY <1>2, <1>3, <1>4
  <1>5. CASE Models(r) = Append(Catalog, CustomModel)
    <2>1. /\ DOMAIN Models(r) = 1..(Len(Catalog) + 1) /\ Len(Models(r)) = Len(Catalog) + 1
          /\ \A i \in 1..Len(Catalog) : Models(r)[i] = Catalog[i]
          /\ Models(r)[Len(Catalog) + 1] = CustomModel
      BY <1>3, <1>5
    <2>2. \A i \in DOMAIN Models(r) : i \in DOMAIN Catalog \/ i = Len(Catalog) + 1
      BY <1>3, <2>1
    <2> QED
      BY <1>1, <1>2, <1>3, <2>1, <2>2
  <1> QED
    BY <1>4, <1>5 DEF Models

(* Scores are numbers.                                                      *)
LEMMA FitIs ==
  ASSUME NEW a \in Nat, NEW b \in Nat \ {0}
  PROVE  Fit(a, b) \in Int
  <1>1. (a * 10000) \div b \in Int
    OBVIOUS
  <1>2. \A x \in Int : (Least(15000, x) * 2) \div 3 \in Int
    BY DEF Least
  <1> QED
    BY <1>1, <1>2 DEF Fit

LEMMA WorthIs ==
  ASSUME NEW r, NEW m, IsModel(m)
  PROVE  Worth(r, m) \in Int
  <1> DEFINE k == Constraints(Profile)
             a1 == k.quality * m.quality * 100
             a2 == (Most(3000 - k.quality * 25, 1000) * Fit(k.latency, m.latency)) \div 100
             a3 == 20 * Fit(k.cost, m.cost)
             a4 == 20 * Fit(m.context, k.context)
             a5 == k.tool * m.tool * 100
  <1>1. /\ k.quality \in Nat /\ k.latency \in Nat /\ k.cost \in Nat
        /\ k.context \in Nat \ {0} /\ k.tool \in Nat
    BY DEF Constraints
  <1>2. /\ m.quality \in Nat /\ m.latency \in Nat \ {0} /\ m.cost \in Nat \ {0}
        /\ m.context \in Nat /\ m.tool \in Nat
    BY DEF IsModel
  <1> HIDE DEF k
  <1>3. Fit(k.latency, m.latency) \in Int
    BY <1>1, <1>2, FitIs
  <1>4. Fit(k.cost, m.cost) \in Int
    BY <1>1, <1>2, FitIs
  <1>5. Fit(m.context, k.context) \in Int
    BY <1>1, <1>2, FitIs
  <1>6. a2 \in Int
    <2>1. Most(3000 - k.quality * 25, 1000) \in Int
      BY <1>1 DEF Most
    <2> QED
      BY <1>3, <2>1
  <1>7. a1 \in Int /\ a5 \in Int
    BY <1>1, <1>2
  <1>8. a3 \in Int /\ a4 \in Int
    BY <1>4, <1>5
  <1>9. Score(m, k) = a1 + a2 + a3 + a4 + a5
    BY Zenon DEF Score
  <1> HIDE DEF a1, a2, a3, a4, a5
  <1>10. Score(m, k) \in Int
    BY <1>6, <1>7, <1>8, <1>9
  <1> QED
    BY <1>10 DEF Worth, k

(* Every place of a ranking is somebody's.                                  *)
LEMMA Places ==
  ASSUME NEW r, NEW S \in SUBSET Nat, IsFiniteSet(S),
         \A i \in S : Worth(r, Models(r)[i]) \in Int
  PROVE  \A k \in 1..Cardinality(S) : \E i \in S : Rank(r, S, i) = k
  <1> DEFINE n == Cardinality(S)
             B(i) == {j \in S : Outranks(r, j, i)}
             f == [i \in S |-> Rank(r, S, i)]
  <1>1. n \in Nat
    BY FS_CardinalityType
  <1>2. \A i \in S : ~Outranks(r, i, i)
    BY DEF Outranks
  <1>3. \A i, j \in S : i # j => Outranks(r, i, j) \/ Outranks(r, j, i)
    BY DEF Outranks
  <1>4. \A i, j, k \in S : Outranks(r, i, j) /\ Outranks(r, j, k) => Outranks(r, i, k)
    BY DEF Outranks
  <1>5. \A i \in S : IsFiniteSet(B(i)) /\ Cardinality(B(i)) \in Nat /\ Cardinality(B(i)) < n
    <2> SUFFICES ASSUME NEW i \in S
                 PROVE  IsFiniteSet(B(i)) /\ Cardinality(B(i)) \in Nat /\ Cardinality(B(i)) < n
      OBVIOUS
    <2>1. B(i) \in SUBSET S /\ B(i) # S
      BY <1>2
    <2> HIDE DEF B
    <2> QED
      BY <1>1, <2>1, FS_Subset, FS_CardinalityType
  <1>6. \A i, j \in S : Outranks(r, i, j) => Cardinality(B(i)) < Cardinality(B(j))
    <2> SUFFICES ASSUME NEW i \in S, NEW j \in S, Outranks(r, i, j)
                 PROVE  Cardinality(B(i)) < Cardinality(B(j))
      OBVIOUS
    <2>1. B(i) \in SUBSET B(j) /\ B(i) # B(j)
      BY <1>2, <1>4
    <2> HIDE DEF B
    <2> QED
      BY <1>5, <2>1, FS_Subset
  <1>7. f \in Injection(S, 1..n)
    <2>1. \A i \in S : Rank(r, S, i) = Cardinality(B(i)) + 1
      BY DEF Rank
    <2> HIDE DEF B, n
    <2>2. f \in [S -> 1..n]
      BY <1>1, <1>5, <2>1
    <2>3. \A i, j \in S : f[i] = f[j] => i = j
      BY <1>3, <1>5, <1>6, <2>1
    <2> HIDE DEF f
    <2> QED
      BY <2>2, <2>3 DEF Injection, IsInjective
  <1>8. IsFiniteSet(1..n) /\ Cardinality(1..n) = n
    BY <1>1, FS_Interval
  <1>9. f \in Surjection(S, 1..n)
    <2> HIDE DEF f
    <2> QED
      BY <1>7, <1>8, FS_Injection
  <1> QED
    BY <1>9 DEF Surjection

(* A ranking names models of the catalogue, none twice.                     *)
LEMMA RankingIs ==
  ASSUME NEW r
  PROVE  /\ Len(Ranking(r)) \in Nat
         /\ DOMAIN Ranking(r) = 1..Len(Ranking(r))
         /\ \A k, l \in DOMAIN Ranking(r) : Ranking(r)[k].id = Ranking(r)[l].id => k = l
  <1> DEFINE S == Selectable(r)
             n == Cardinality(S)
             who(k) == CHOOSE i \in S : Rank(r, S, i) = k
  <1>1. S \in SUBSET (DOMAIN Models(r)) /\ S \in SUBSET Nat
    BY ModelsAre DEF Selectable
  <1>2. IsFiniteSet(S) /\ n \in Nat
    <2>1. IsFiniteSet(DOMAIN Models(r))
      BY ModelsAre, FS_Interval
    <2> HIDE DEF S
    <2> QED
      BY <1>1, <2>1, FS_Subset, FS_CardinalityType
  <1>3. \A i \in S : Worth(r, Models(r)[i]) \in Int
    <2> HIDE DEF S
    <2>1. \A i \in S : IsModel(Models(r)[i])
      BY <1>1, ModelsAre
    <2> QED
      BY <2>1, WorthIs
  <1> HIDE DEF S
  <1>4. \A k \in 1..n : who(k) \in S /\ Rank(r, S, who(k)) = k
    <2>1. \A k \in 1..n : \E i \in S : Rank(r, S, i) = k
      BY <1>1, <1>2, <1>3, Places
    <2> QED
      BY <2>1
  <1>5. Ranking(r) = [k \in 1..n |-> Models(r)[who(k)]]
    BY DEF Ranking, Ranked, S
  <1> HIDE DEF who, n
  <1>7. Len(Ranking(r)) = n /\ DOMAIN Ranking(r) = 1..n
    BY <1>2, <1>5
  <1>8. \A k, l \in 1..n : Models(r)[who(k)].id = Models(r)[who(l)].id => k = l
    <2> SUFFICES ASSUME NEW k \in 1..n, NEW l \in 1..n,
                        Models(r)[who(k)].id = Models(r)[who(l)].id
                 PROVE  k = l
      OBVIOUS
    <2>1. who(k) \in DOMAIN Models(r) /\ who(l) \in DOMAIN Models(r)
      BY <1>1, <1>4
    <2>2. who(k) = who(l)
      BY <2>1, ModelsAre
    <2> QED
      BY <1>4, <2>2
  <1> QED
    BY <1>2, <1>5, <1>7, <1>8

-----------------------------------------------------------------------------
(* What a call is. Its chain names no model twice; those before the current *)
(* one have failed, and what was shown in part is theirs.                   *)
LiveCall(c) ==
  /\ c = [pc |-> c.pc, stream |-> c.stream, key |-> c.key, chain |-> c.chain, at |-> c.at,
          failed |-> c.failed, shown |-> c.shown, late |-> c.late]
  /\ c.stream \in BOOLEAN /\ c.late \in BOOLEAN
ChainNames(c) ==
  /\ Len(c.chain) \in Nat /\ DOMAIN c.chain = 1..Len(c.chain)
  /\ \A k, l \in DOMAIN c.chain : c.chain[k].id = c.chain[l].id => k = l
Shown(c) == c.shown \in Seq(Range(c.shown))
PartsOf(c, S) == \A s \in Range(c.shown) : s[2] = "part" => s[1] \in S
At(c) == c.at \in 1..Len(c.chain) /\ c.failed = {c.chain[i].id : i \in 1..(c.at - 1)}
Trying(c) == At(c) /\ PartsOf(c, c.failed)
Answered(c) ==
  /\ c.stream => Last(c.shown) = <<c.chain[c.at].id, "all">>
  /\ PartsOf(c, c.failed \ {c.chain[c.at].id})
CallOK(c) ==
  /\ c.pc \in {"idle", "cached", "choosing", "calling", "failed", "answered"}
  /\ c.pc \in {"choosing", "calling", "failed", "answered"} =>
       LiveCall(c) /\ ChainNames(c) /\ Shown(c)
  /\ c.pc \in {"choosing", "calling"} => Trying(c)
  /\ c.pc = "failed" /\ ~c.late => \A i \in DOMAIN c.chain : c.chain[i].id \in c.failed
  /\ c.pc = "answered" => Answered(c)

(* A call with another pc, place, failures, output and deadline.            *)
Remade(c, p, a, f, s, l) ==
  [pc |-> p, stream |-> c.stream, key |-> c.key, chain |-> c.chain, at |-> a,
   failed |-> f, shown |-> s, late |-> l]
LEMMA CallFields ==
  ASSUME NEW c, LiveCall(c), NEW p, NEW a, NEW f, NEW s, NEW l \in BOOLEAN, NEW d,
         d = Remade(c, p, a, f, s, l)
  PROVE  /\ LiveCall(d) /\ d.pc = p /\ d.at = a /\ d.failed = f /\ d.shown = s
         /\ d.late = l /\ d.chain = c.chain /\ d.stream = c.stream
  BY DEF LiveCall, Remade

(* One more piece of output.                                                *)
LEMMA ShownMore ==
  ASSUME NEW q, q \in Seq(Range(q)), NEW x
  PROVE  /\ Append(q, x) \in Seq(Range(Append(q, x))) /\ Last(Append(q, x)) = x
         /\ Range(Append(q, x)) = Range(q) \cup {x}
  <1> DEFINE R == Range(q) \cup {x}
  <1>1. q \in Seq(R) /\ Len(q) \in Nat /\ DOMAIN q = 1..Len(q)
    OBVIOUS
  <1>2. PICK h : h = Append(q, x)
    OBVIOUS
  <1>3. h \in Seq(R) /\ Len(h) = Len(q) + 1 /\ DOMAIN h = 1..(Len(q) + 1)
    BY <1>1, <1>2
  <1>4. (\A i \in DOMAIN q : h[i] = q[i]) /\ h[Len(q) + 1] = x
    BY <1>1, <1>2
  <1>5. Range(h) = R
    BY <1>1, <1>3, <1>4 DEF Range
  <1> HIDE DEF R
  <1>6. h \in Seq(Range(h))
    BY <1>3, <1>5
  <1>7. Last(h) = x
    BY <1>3, <1>4 DEF Last
  <1> QED
    BY <1>2, <1>5, <1>6, <1>7 DEF R

(* Going on to the next model of the chain.                                 *)
LEMMA NextModelOK ==
  ASSUME NEW c, LiveCall(c), ChainNames(c), Shown(c), At(c),
         PartsOf(c, c.failed \cup {c.chain[c.at].id})
  PROVE  CallOK(NextModel(c))
  <1> DEFINE p == IF c.at = Len(c.chain) THEN "failed" ELSE "choosing"
             f == c.failed \cup {c.chain[c.at].id}
             d == NextModel(c)
  <1>0. c = [pc |-> c.pc, stream |-> c.stream, key |-> c.key, chain |-> c.chain,
       at |-> c.at, failed |-> c.failed, shown |-> c.shown, late |-> c.late]
    BY DEF LiveCall
  <1>1. d = [c EXCEPT !.pc = p, !.at = c.at + 1, !.failed = f]
    BY DEF NextModel
  <1> HIDE DEF p, f, d
  <1>2. d = Remade(c, p, c.at + 1, f, c.shown, c.late)
    BY <1>0, <1>1 DEF Remade
  <1>3. c.late \in BOOLEAN
    BY DEF LiveCall
  <1>4. /\ LiveCall(d) /\ d.pc = p /\ d.at = c.at + 1 /\ d.failed = f /\ d.shown = c.shown
        /\ d.late = c.late /\ d.chain = c.chain /\ d.stream = c.stream
    BY <1>2, <1>3, CallFields
  <1>5. f = {c.chain[i].id : i \in 1..(d.at - 1)}
    <2>1. d.at - 1 = c.at /\ c.at \in Nat \ {0}
      BY <1>4 DEF At, ChainNames
    <2>2. \A i : i \in 1..c.at <=> i \in 1..(c.at - 1) \/ i = c.at
      BY <2>1
    <2>3. c.failed = {c.chain[i].id : i \in 1..(c.at - 1)}
      BY DEF At
    <2> QED
      BY <2>1, <2>2, <2>3 DEF f
  <1>6. p \in {"failed", "choosing"}
    BY DEF p
  <1>7. ChainNames(d) /\ Shown(d)
    BY <1>4 DEF ChainNames, Shown
  <1>8. p = "choosing" => Trying(d)
    <2> SUFFICES ASSUME p = "choosing" PROVE Trying(d)
      OBVIOUS
    <2>1. c.at # Len(c.chain)
      BY DEF p
    <2>2. d.at \in 1..Len(d.chain)
      BY <1>4, <2>1 DEF At, ChainNames
    <2> QED
      BY <1>4, <1>5, <2>2 DEF Trying, At, PartsOf, f
  <1>9. p = "failed" => \A i \in DOMAIN d.chain : d.chain[i].id \in d.failed
    <2> SUFFICES ASSUME p = "failed" PROVE \A i \in DOMAIN d.chain : d.chain[i].id \in d.failed
      OBVIOUS
    <2>1. c.at = Len(c.chain)
      BY DEF p
    <2>2. DOMAIN d.chain = 1..c.at /\ d.at - 1 = c.at
      BY <1>4, <2>1 DEF At, ChainNames
    <2> QED
      BY <1>4, <1>5, <2>2
  <1>10. CallOK(d)
    BY <1>4, <1>6, <1>7, <1>8, <1>9 DEF CallOK
  <1> QED
    BY <1>10 DEF d

(* A fresh call.                                                            *)
LEMMA ChooseOK ==
  ASSUME NEW s \in BOOLEAN, NEW k, Choose(s, k)
  PROVE  CallOK(call')
  <1> DEFINE chain == Ranking(rt)
             d == call'
             p == IF chain = << >> THEN "failed" ELSE "choosing"
  <1>1. d = [pc |-> p, stream |-> s, key |-> k, chain |-> chain, at |-> 1,
             failed |-> {}, shown |-> << >>, late |-> FALSE]
    BY DEF Choose
  <1>2. /\ Len(chain) \in Nat /\ DOMAIN chain = 1..Len(chain)
        /\ \A i, j \in DOMAIN chain : chain[i].id = chain[j].id => i = j
    BY RankingIs
  <1>3. chain # << >> => Len(chain) >= 1
    <2> SUFFICES ASSUME Len(chain) = 0 PROVE chain = << >>
      BY <1>2
    <2>1. chain = [i \in 1..0 |-> Models(rt)[CHOOSE j \in Selectable(rt) :
                                       Rank(rt, Selectable(rt), j) = i]]
      BY <1>2 DEF Ranking, Ranked
    <2> QED
      BY <2>1
  <1> HIDE DEF chain, d
  <1>4. /\ d.pc = p /\ d.chain = chain /\ d.at = 1 /\ d.failed = {} /\ d.shown = << >>
        /\ d.late = FALSE /\ d.stream = s
    BY <1>1
  <1>5. LiveCall(d)
    BY <1>1 DEF LiveCall
  <1>6. ChainNames(d)
    BY <1>2, <1>4 DEF ChainNames
  <1>7. Shown(d) /\ PartsOf(d, d.failed)
    BY <1>4 DEF Shown, PartsOf, Range
  <1>8. p = "choosing" => At(d)
    BY <1>2, <1>3, <1>4 DEF At
  <1>9. p = "failed" => DOMAIN d.chain = {}
    BY <1>4
  <1> QED
    BY <1>4, <1>5, <1>6, <1>7, <1>8, <1>9 DEF CallOK, Trying, d

(* An answer.                                                               *)
LEMMA RepliesOK ==
  ASSUME CallOK(call), Replies
  PROVE  CallOK(call')
  <1> DEFINE id == Current.id
             h == IF call.stream THEN Append(call.shown, <<id, "all">>) ELSE call.shown
             d == call'
  <1>1. LiveCall(call) /\ ChainNames(call) /\ Shown(call) /\ Trying(call)
    BY DEF CallOK, Replies
  <1>0. call = [pc |-> call.pc, stream |-> call.stream, key |-> call.key, chain |-> call.chain,
       at |-> call.at, failed |-> call.failed, shown |-> call.shown, late |-> call.late]
    BY <1>1 DEF LiveCall
  <1>2. d = [call EXCEPT !.pc = "answered", !.shown = h]
    BY DEF Replies
  <1>4. id \notin call.failed
    <2>1. /\ call.at \in DOMAIN call.chain /\ call.at \in Int
          /\ \A i \in 1..(call.at - 1) : i \in DOMAIN call.chain /\ i # call.at
      BY <1>1 DEF Trying, At, ChainNames
    <2>2. \A i \in DOMAIN call.chain : call.chain[i].id = id => i = call.at
      BY <1>1, <2>1 DEF ChainNames, Current
    <2>3. call.failed = {call.chain[i].id : i \in 1..(call.at - 1)}
      BY <1>1 DEF Trying, At
    <2> HIDE DEF id
    <2> QED
      BY <2>1, <2>2, <2>3
  <1>5. /\ h \in Seq(Range(h)) /\ (call.stream => Last(h) = <<id, "all">>)
        /\ \A s \in Range(h) : s[2] = "part" => s[1] \in call.failed
    <2>1. CASE call.stream
      <3>1. h = Append(call.shown, <<id, "all">>)
        BY <2>1
      <3> HIDE DEF h
      <3>2. <<id, "all">>[2] # "part"
        OBVIOUS
      <3>3. PartsOf(call, call.failed)
        BY <1>1 DEF Trying
      <3>4. /\ h \in Seq(Range(h)) /\ Last(h) = <<id, "all">>
            /\ Range(h) = Range(call.shown) \cup {<<id, "all">>}
        BY <1>1, <3>1, ShownMore DEF Shown
      <3> QED
        BY <3>2, <3>3, <3>4 DEF PartsOf
    <2>2. CASE ~call.stream
      BY <1>1, <2>2 DEF Trying, PartsOf, Shown
    <2> QED
      BY <2>1, <2>2
  <1> HIDE DEF h, d, id
  <1>3. d = Remade(call, "answered", call.at, call.failed, h, call.late)
    BY <1>0, <1>2 DEF Remade
  <1>6. call.late \in BOOLEAN
    BY <1>1 DEF LiveCall
  <1>7. /\ LiveCall(d) /\ d.pc = "answered" /\ d.at = call.at /\ d.failed = call.failed
        /\ d.shown = h /\ d.chain = call.chain /\ d.stream = call.stream
    BY <1>1, <1>3, <1>6, CallFields
  <1>8. ChainNames(d) /\ Shown(d)
    BY <1>1, <1>5, <1>7 DEF ChainNames, Shown
  <1>9. d.chain[d.at].id = id
    BY <1>7 DEF id, Current
  <1>10. Answered(d)
    BY <1>4, <1>5, <1>7, <1>9 DEF Answered, PartsOf
  <1> QED
    BY <1>7, <1>8, <1>10 DEF CallOK, d

(* A model that is tried, skipped, fails or comes too late.                 *)
LEMMA TryOK ==
  ASSUME CallOK(call), TryModel \/ Errs \/ Late
  PROVE  CallOK(call')
  <1>1. LiveCall(call) /\ ChainNames(call) /\ Shown(call) /\ Trying(call)
    BY DEF CallOK, TryModel, Errs, Late
  <1>2. call.late \in BOOLEAN
    BY <1>1 DEF LiveCall
  <1>0. call = [pc |-> call.pc, stream |-> call.stream, key |-> call.key, chain |-> call.chain,
       at |-> call.at, failed |-> call.failed, shown |-> call.shown, late |-> call.late]
    BY <1>1 DEF LiveCall
  <1>3. ASSUME NEW p \in {"calling", "failed"}, NEW l \in BOOLEAN, p = "failed" => l,
               call' = Remade(call, p, call.at, call.failed, call.shown, l)
        PROVE  CallOK(call')
    <2> DEFINE d == call'
    <2>1. d = Remade(call, p, call.at, call.failed, call.shown, l)
      BY <1>3
    <2> HIDE DEF d
    <2>2. /\ LiveCall(d) /\ d.pc = p /\ d.at = call.at /\ d.failed = call.failed
          /\ d.shown = call.shown /\ d.late = l /\ d.chain = call.chain
      BY <1>1, <2>1, CallFields
    <2>3. ChainNames(d) /\ Shown(d) /\ Trying(d)
      BY <1>1, <2>2 DEF ChainNames, Shown, Trying, At, PartsOf
    <2>4. CallOK(d)
      BY <1>3, <2>2, <2>3 DEF CallOK
    <2> QED
      BY <2>4 DEF d
  <1>4. CASE call' = NextModel(call)
    <2>1. At(call) /\ PartsOf(call, call.failed \cup {call.chain[call.at].id})
      BY <1>1 DEF Trying, PartsOf
    <2> QED
      BY <1>1, <1>4, <2>1, NextModelOK
  <1>5. CASE TryModel
    <2>1. CASE ~Enabled(Current)
      BY <1>4, <1>5, <2>1 DEF TryModel
    <2>2. CASE Enabled(Current)
      <3>1. call' = [call EXCEPT !.pc = "calling"]
        BY <1>5, <2>2 DEF TryModel
      <3>2. call' = Remade(call, "calling", call.at, call.failed, call.shown, call.late)
        BY <1>0, <3>1 DEF Remade
      <3> QED
        BY <1>2, <1>3, <3>2
    <2> QED
      BY <2>1, <2>2
  <1>6. CASE Late
    <2>1. call' = [call EXCEPT !.pc = "failed", !.late = TRUE]
      BY <1>6 DEF Late
    <2>2. call' = Remade(call, "failed", call.at, call.failed, call.shown, TRUE)
      BY <1>0, <2>1 DEF Remade
    <2> QED
      BY <1>3, <2>2
  <1>7. CASE Errs
    <2> DEFINE x == <<Current.id, "part">>
               h == Append(call.shown, x)
    <2>1. PICK tokens \in BOOLEAN :
            call' = NextModel([call EXCEPT !.shown = IF tokens THEN Append(@, x) ELSE @])
      BY <1>7 DEF Errs, Incremental
    <2>2. CASE ~tokens
      <3>1. [call EXCEPT !.shown = call.shown] = call
        BY <1>1 DEF LiveCall
      <3> QED
        BY <1>4, <2>1, <2>2, <3>1
    <2>3. CASE tokens
      <3> DEFINE c == [call EXCEPT !.shown = h]
      <3>1. call' = NextModel(c)
        BY <2>1, <2>3
      <3>3. /\ h \in Seq(Range(h))
            /\ \A s \in Range(h) : s[2] = "part" => s[1] \in call.failed \/ s = x
        <4>1. PartsOf(call, call.failed)
          BY <1>1 DEF Trying
        <4>2. h \in Seq(Range(h)) /\ Range(h) = Range(call.shown) \cup {x}
          BY <1>1, ShownMore DEF Shown
        <4> QED
          BY <4>1, <4>2 DEF PartsOf
      <3>4. x[1] = call.chain[call.at].id
        BY DEF Current
      <3>8. c = [call EXCEPT !.shown = h]
        OBVIOUS
      <3> HIDE DEF c, h, x
      <3>2. c = Remade(call, call.pc, call.at, call.failed, h, call.late)
        BY <1>0, <3>8 DEF Remade
      <3>5. /\ LiveCall(c) /\ c.at = call.at /\ c.failed = call.failed
            /\ c.shown = h /\ c.chain = call.chain
        BY <1>1, <1>2, <3>2, CallFields
      <3>6. ChainNames(c) /\ Shown(c) /\ At(c)
        <4>1. ChainNames(c)
          BY <1>1, <3>5 DEF ChainNames
        <4>2. Shown(c)
          BY <3>3, <3>5 DEF Shown
        <4>3. At(c)
          BY <1>1, <3>5 DEF Trying, At
        <4> QED
          BY <4>1, <4>2, <4>3
      <3>7. PartsOf(c, c.failed \cup {c.chain[c.at].id})
        BY <3>3, <3>4, <3>5 DEF PartsOf
      <3> QED
        BY <3>1, <3>5, <3>6, <3>7, NextModelOK
    <2> QED
      BY <2>1, <2>2, <2>3
  <1> QED
    BY <1>5, <1>6, <1>7

LEMMA CallStep ==
  ASSUME CallOK(call), [RouterNext]_routerVars
  PROVE  CallOK(call')
  <1>1. ASSUME call' = NoCall PROVE CallOK(call')
    BY <1>1 DEF CallOK, NoCall
  <1>2. ASSUME NEW a \in Admin, NEW p \in Patch, UpdateBegins(a, p) PROVE CallOK(call')
    BY <1>2 DEF UpdateBegins, inference
  <1>3. ASSUME NEW a \in Admin, NEW x \in Switch, ToggleProvider(a, x) \/ ToggleModel(a, x)
        PROVE  CallOK(call')
    BY <1>3 DEF ToggleProvider, ToggleModel, inference
  <1>4. ASSUME NEW a \in Admin, LoadReturns(a) \/ SaveReturns(a) PROVE CallOK(call')
    BY <1>4 DEF LoadReturns, SaveReturns, inference
  <1>5. ASSUME NEW k \in Key, Infer(k) PROVE CallOK(call')
    <2>1. CASE Choose(FALSE, k)
      BY <2>1, ChooseOK
    <2>2. CASE call' = [pc |-> "cached", stream |-> FALSE, key |-> k, from |-> cache[k]]
      BY <2>2 DEF CallOK
    <2> QED
      BY <1>5, <2>1, <2>2 DEF Infer
  <1>6. ASSUME NEW k \in Key, InferStream(k) PROVE CallOK(call')
    BY <1>6, ChooseOK DEF InferStream
  <1>7. ASSUME NEW k \in Key, Expire(k) PROVE CallOK(call')
    BY <1>7 DEF Expire
  <1>8. CASE TryModel \/ Errs \/ Late
    BY <1>8, TryOK
  <1>9. CASE Replies
    BY <1>9, RepliesOK
  <1>10. CASE CallEnds \/ Restart
    BY <1>1, <1>10 DEF CallEnds, Restart
  <1>11. CASE UNCHANGED routerVars
    BY <1>11 DEF routerVars
  <1> QED
    BY <1>2, <1>3, <1>4, <1>5, <1>6, <1>7, <1>8, <1>9, <1>10, <1>11 DEF RouterNext

(* ChainHonest for every catalogue and every change of the settings in the  *)
(* middle of a call.                                                        *)
THEOREM ChainHonestHolds == RouterSpec => []ChainHonest
  <1>1. RouterInit => CallOK(call)
    BY DEF RouterInit, NoCall, CallOK
  <1>2. CallOK(call) /\ [RouterNext]_routerVars => CallOK(call)'
    BY CallStep
  <1>3. CallOK(call) => ChainHonest
    BY DEF CallOK, ChainHonest, Answered, PartsOf, Current, Range
  <1> QED
    BY <1>1, <1>2, <1>3, PTL DEF RouterSpec

-----------------------------------------------------------------------------
(* What is known of the router and of the row. What the settings s make of  *)
(* a router:                                                                *)
Steered(s) ==
  LET c == Normalize(s)
  IN  IF c = NoCli \/ s.preferred # Nothing THEN s.preferred ELSE CliId(c.backend)
Kept(s) ==
  LET c == Normalize(s)
  IN  IF c = NoCli THEN Backend
      ELSE IF c.only THEN Provider \ {c.backend} ELSE Backend \ {c.backend}
Barred(s) ==
  IF s.cliEnabled /\ s.cliOnly THEN Kept(s) ELSE Kept(s) \cup ReadBack(s.disabledProviders)
Ids(r) == {m.id : m \in Range(Models(r))}

Router(r) ==
  r = [preferred |-> r.preferred, disabledModels |-> r.disabledModels,
       disabled |-> r.disabled, cli |-> r.cli, custom |-> r.custom]
CliOK(r) ==
  \/ r.cli = NoCli
  \/ /\ r.cli = [backend |-> r.cli.backend, only |-> r.cli.only]
     /\ r.cli.backend # Nothing /\ r.preferred # Nothing
(* The providers a call to r can come to.                                   *)
InReach(r, p) == p \in Backend => r.cli.backend = p
(* A router that routes as one made of s does, but for the custom model and *)
(* for OpenAI, which may be off although s does not say so in the name that *)
(* is read back.                                                           *)
Agrees(r, s) ==
  /\ r.custom = s.custom /\ r.cli = Normalize(s) /\ r.preferred = Steered(s)
  /\ \A id \in s.disabledModels : id \in r.disabledModels
  /\ \A m \in Range(Catalog) : m.id \in r.disabledModels => m.id \in s.disabledModels
  /\ \/ s.cliEnabled /\ s.cliOnly
     \/ \A p \in Provider : InReach(r, p) =>
          /\ p \in Barred(s) => p \in r.disabled
          /\ p # "open_ai" /\ p \in r.disabled => p \in Barred(s)
(* What the router does not hold is in the row.                             *)
RowKnown(r, w) ==
  IF w = NoRow THEN r.custom = FALSE
  ELSE r.custom = w.custom /\ Normalize(w) = r.cli

Admins(ad) ==
  /\ ad = [a \in Admin |-> ad[a]]
  /\ \A a \in Admin :
       \/ ad[a] = Quiet
       \/ /\ ad[a].pc = "loading"
          /\ ad[a] = [pc |-> "loading", seen |-> ad[a].seen, patch |-> ad[a].patch]
       \/ ad[a].pc = "saving" /\ ad[a] = [pc |-> "saving", settings |-> ad[a].settings]
OneBusy(ad) == \A a, b \in Admin : ad[a] # Quiet /\ ad[b] # Quiet => a = b
LoadOK(r, w, ad) ==
  \A a \in Admin : ad[a].pc = "loading" => RowKnown(r, w) /\ ad[a].seen = GetSettings(r)
SaveOK(r, ad) ==
  \A a \in Admin :
    ad[a].pc = "saving" => ad[a].settings # NoRow /\ Agrees(r, ad[a].settings)
RestOK(r, w, ad) ==
  (\A a \in Admin : ad[a] = Quiet) => RowKnown(r, w) /\ (w # NoRow => Agrees(r, w))
SettingsInv ==
  /\ Router(rt) /\ CliOK(rt) /\ Admins(admin) /\ calm \in BOOLEAN
  /\ calm => /\ OneBusy(admin) /\ LoadOK(rt, row, admin)
             /\ SaveOK(rt, admin) /\ RestOK(rt, row, admin)

(* What apply_settings_to_runtime makes of any router.                      *)
LEMMA Applied ==
  ASSUME NEW r, Router(r), NEW s
  PROVE  Apply(r, s) =
           [preferred |-> Steered(s),
            disabledModels |-> (r.disabledModels \ Ids(r)) \cup s.disabledModels,
            disabled |-> Barred(s), cli |-> Normalize(s), custom |-> s.custom]
  <1> DEFINE c == Normalize(s)
             ids == Ids(r)
             only == s.cliEnabled /\ s.cliOnly
  <1>1. PICK cleared :
          cleared = [r EXCEPT !.preferred = s.preferred, !.disabled = {},
                              !.disabledModels = @ \ ids]
    OBVIOUS
  <1>2. cleared = [preferred |-> s.preferred, disabledModels |-> r.disabledModels \ ids,
                   disabled |-> {}, cli |-> r.cli, custom |-> r.custom]
    <2> HIDE DEF ids
    <2> QED
      BY <1>1 DEF Router
  <1>3. PICK w : w = SetCli(SetVllm(cleared, s.custom), c)
    OBVIOUS
  <1>4. w = [preferred |-> s.preferred, disabledModels |-> r.disabledModels \ ids,
             disabled |-> IF c = NoCli THEN Backend ELSE Backend \ {c.backend},
             cli |-> c, custom |-> s.custom]
    <2> HIDE DEF c, ids
    <2>1. PICK v : v = SetVllm(cleared, s.custom)
      OBVIOUS
    <2>2. v = [preferred |-> s.preferred, disabledModels |-> r.disabledModels \ ids,
               disabled |-> {}, cli |-> r.cli, custom |-> s.custom]
      BY <1>2, <2>1 DEF SetVllm
    <2>3. w = [v EXCEPT !.cli = c,
                        !.disabled = IF c = NoCli THEN @ \cup Backend
                                     ELSE (@ \ {c.backend}) \cup (Backend \ {c.backend})]
      BY <1>3, <2>1 DEF SetCli
    <2>4. CASE c = NoCli
      <3>1. w = [v EXCEPT !.cli = c, !.disabled = @ \cup Backend]
        BY <2>3, <2>4
      <3>2. v.disabled \cup Backend = Backend
        BY <2>2
      <3> QED
        BY <2>2, <2>4, <3>1, <3>2
    <2>5. CASE c # NoCli
      <3>1. w = [v EXCEPT !.cli = c,
                          !.disabled = (@ \ {c.backend}) \cup (Backend \ {c.backend})]
        BY <2>3, <2>5
      <3>2. (v.disabled \ {c.backend}) \cup (Backend \ {c.backend}) = Backend \ {c.backend}
        BY <2>2
      <3> QED
        BY <2>2, <2>5, <3>1, <3>2
    <2> QED
      BY <2>4, <2>5
  <1>5. PICK z : z = IF c = NoCli THEN w
                     ELSE [Bootstrap(w, c) EXCEPT
                             !.preferred = IF s.preferred = Nothing THEN @ ELSE s.preferred]
    OBVIOUS
  <1>6. z = [preferred |-> Steered(s), disabledModels |-> r.disabledModels \ ids,
             disabled |-> Kept(s), cli |-> c, custom |-> s.custom]
    <2>1. CASE c = NoCli
      <3>1. Steered(s) = s.preferred /\ Kept(s) = Backend
        BY <2>1 DEF Steered, Kept
      <3> HIDE DEF c, ids
      <3> QED
        BY <1>4, <1>5, <2>1, <3>1
    <2>2. CASE c # NoCli
      <3>1. /\ Steered(s) = IF s.preferred = Nothing THEN CliId(c.backend) ELSE s.preferred
            /\ Kept(s) = IF c.only THEN Provider \ {c.backend} ELSE Backend \ {c.backend}
        BY <2>2 DEF Steered, Kept
      <3> HIDE DEF c, ids
      <3>2. PICK b : b = Bootstrap(w, c)
        OBVIOUS
      <3>3. w.disabled = Backend \ {c.backend}
        BY <1>4, <2>2
      <3>4. b = [w EXCEPT !.preferred = CliId(c.backend),
                          !.disabled = IF c.only THEN Provider \ {c.backend}
                                       ELSE @ \ {c.backend}]
        BY <3>2 DEF Bootstrap
      <3>5. (IF c.only THEN Provider \ {c.backend} ELSE w.disabled \ {c.backend}) = Kept(s)
        BY <3>1, <3>3
      <3>6. b = [w EXCEPT !.preferred = CliId(c.backend), !.disabled = Kept(s)]
        BY <1>4, <3>4, <3>5
      <3>7. b = [preferred |-> CliId(c.backend), disabledModels |-> r.disabledModels \ ids,
                 disabled |-> Kept(s), cli |-> c, custom |-> s.custom]
        BY <1>4, <3>6
      <3>8. z = [b EXCEPT !.preferred = IF s.preferred = Nothing THEN @ ELSE s.preferred]
        BY <1>5, <2>2, <3>2
      <3>9. z = [b EXCEPT !.preferred = Steered(s)]
        BY <3>1, <3>7, <3>8
      <3> QED
        BY <3>7, <3>9
    <2> QED
      BY <2>1, <2>2
  <1>7. Apply(r, s) = [z EXCEPT !.disabledModels = @ \cup s.disabledModels,
                                !.disabled = IF only THEN @
                                             ELSE @ \cup ReadBack(s.disabledProviders)]
    BY <1>1, <1>3, <1>5, Zenon DEF Apply, Ids
  <1>8. PICK y : y = Apply(r, s)
    OBVIOUS
  <1>9. (IF only THEN z.disabled ELSE z.disabled \cup ReadBack(s.disabledProviders)) = Barred(s)
    BY <1>6 DEF Barred
  <1> HIDE DEF only, c, ids
  <1>10. y = [z EXCEPT !.disabledModels = @ \cup s.disabledModels, !.disabled = Barred(s)]
    BY <1>6, <1>7, <1>8, <1>9
  <1>11. y = [preferred |-> Steered(s),
              disabledModels |-> (r.disabledModels \ ids) \cup s.disabledModels,
              disabled |-> Barred(s), cli |-> c, custom |-> s.custom]
    BY <1>6, <1>10
  <1> QED
    BY <1>8, <1>11 DEF c, ids

LEMMA CliIs ==
  ASSUME NEW s
  PROVE  \/ Normalize(s) = NoCli
         \/ /\ Normalize(s) = [backend |-> s.cliBackend, only |-> s.cliOnly]
            /\ s.cliEnabled /\ s.cliBackend # Nothing
  BY DEF Normalize

(* A router agrees with the settings it was given.                          *)
LEMMA ApplyAgrees ==
  ASSUME NEW r, Router(r), NEW s, NEW y, y = Apply(r, s)
  PROVE  Router(y) /\ CliOK(y) /\ Agrees(y, s)
  <1>1. y = [preferred |-> Steered(s),
             disabledModels |-> (r.disabledModels \ Ids(r)) \cup s.disabledModels,
             disabled |-> Barred(s), cli |-> Normalize(s), custom |-> s.custom]
    BY Applied
  <1>2. /\ y.preferred = Steered(s) /\ y.disabled = Barred(s)
        /\ y.disabledModels = (r.disabledModels \ Ids(r)) \cup s.disabledModels
        /\ y.cli = Normalize(s) /\ y.custom = s.custom
    BY <1>1
  <1>3. Router(y)
    BY <1>1 DEF Router
  <1>4. CliOK(y)
    <2>1. CASE Normalize(s) = NoCli
      BY <1>2, <2>1 DEF CliOK
    <2>2. CASE Normalize(s) # NoCli
      <3>1. Steered(s) # Nothing
        BY <2>2 DEF Steered, CliId, Nothing
      <3>2. /\ Normalize(s) = [backend |-> s.cliBackend, only |-> s.cliOnly]
            /\ s.cliBackend # Nothing
        BY <2>2, CliIs
      <3> QED
        BY <1>2, <3>1, <3>2 DEF CliOK
    <2> QED
      BY <2>1, <2>2
  <1>5. \A m \in Range(Catalog) : m.id \in Ids(r)
    <2>1. \A i \in DOMAIN Catalog : i \in DOMAIN Models(r) /\ Models(r)[i] = Catalog[i]
      <3>1. CASE Models(r) = Append(Catalog, CustomModel)
        <4>1. Catalog \in Seq(Range(Catalog))
          BY CatalogAssumption
        <4>2. /\ DOMAIN Models(r) = 1..(Len(Catalog) + 1) /\ DOMAIN Catalog = 1..Len(Catalog)
              /\ \A i \in 1..Len(Catalog) : Models(r)[i] = Catalog[i]
          BY <3>1, <4>1
        <4>3. Len(Catalog) \in Nat
          BY <4>1
        <4> QED
          BY <4>2, <4>3
      <3>2. CASE Models(r) = Catalog
        BY <3>2
      <3> QED
        BY <3>1, <3>2 DEF Models
    <2> QED
      BY <2>1 DEF Ids, Range
  <1>6. Agrees(y, s)
    BY <1>2, <1>5 DEF Agrees
  <1> QED
    BY <1>3, <1>4, <1>6

(* A toggle saves settings the router agrees with.                          *)
LEMMA MergedAgrees ==
  ASSUME NEW r, Router(r), CliOK(r), NEW w, RowKnown(r, w), NEW s,
         s = Merged(GetSettings(r), w)
  PROVE  Agrees(r, s)
  <1> DEFINE g == GetSettings(r)
             names == {Written(p) : p \in r.disabled}
  <1>1. /\ g.preferred = r.preferred /\ g.disabledModels = r.disabledModels
        /\ g.disabledProviders = names /\ g.cliEnabled = (r.cli # NoCli)
        /\ g.cliBackend = r.cli.backend /\ g.cliOnly = r.cli.only /\ g.custom = FALSE
    BY DEF GetSettings
  <1>2. /\ s.preferred = r.preferred /\ s.disabledModels = r.disabledModels
        /\ s.disabledProviders = names /\ s.custom = r.custom
        /\ \/ /\ s.cliEnabled = (r.cli # NoCli) /\ s.cliBackend = r.cli.backend
              /\ s.cliOnly = r.cli.only
           \/ /\ r.cli = NoCli /\ w # NoRow /\ s.cliEnabled = TRUE /\ w.cliEnabled
              /\ s.cliBackend = w.cliBackend /\ s.cliOnly = w.cliOnly
    <2>1. CASE w = NoRow
      <3>1. s = g /\ r.custom = FALSE
        BY <2>1 DEF Merged, RowKnown
      <3> HIDE DEF g
      <3> QED
        BY <1>1, <3>1
    <2>2. CASE w # NoRow
      <3>1. PICK t : t = [g EXCEPT !.custom = w.custom]
        OBVIOUS
      <3>2. t = [preferred |-> r.preferred, disabledModels |-> r.disabledModels,
                 disabledProviders |-> names, cliEnabled |-> r.cli # NoCli,
                 cliBackend |-> r.cli.backend, cliOnly |-> r.cli.only, custom |-> w.custom]
        BY <3>1 DEF GetSettings
      <3>3. s = IF ~t.cliEnabled /\ w.cliEnabled
                THEN [t EXCEPT !.cliEnabled = TRUE, !.cliBackend = w.cliBackend,
                               !.cliOnly = w.cliOnly]
                ELSE t
        BY <2>2, <3>1 DEF Merged
      <3>4. w.custom = r.custom
        BY <2>2 DEF RowKnown
      <3>5. CASE ~t.cliEnabled /\ w.cliEnabled
        <4>1. s = [t EXCEPT !.cliEnabled = TRUE, !.cliBackend = w.cliBackend,
                            !.cliOnly = w.cliOnly]
          BY <3>3, <3>5
        <4>2. r.cli = NoCli
          BY <3>2, <3>5
        <4>3. s = [preferred |-> r.preferred, disabledModels |-> r.disabledModels,
                   disabledProviders |-> names, cliEnabled |-> TRUE,
                   cliBackend |-> w.cliBackend, cliOnly |-> w.cliOnly, custom |-> w.custom]
          BY <3>2, <4>1
        <4>4. /\ s.preferred = r.preferred /\ s.disabledModels = r.disabledModels
              /\ s.disabledProviders = names /\ s.custom = r.custom
              /\ s.cliEnabled = TRUE /\ s.cliBackend = w.cliBackend /\ s.cliOnly = w.cliOnly
          BY <3>4, <4>3
        <4>5. w.cliEnabled
          BY <3>5
        <4> QED
          BY <2>2, <4>2, <4>4, <4>5
      <3>6. CASE ~(~t.cliEnabled /\ w.cliEnabled)
        <4>1. s = t
          BY <3>3, <3>6
        <4> QED
          BY <3>2, <3>4, <4>1
      <3> QED
        BY <3>5, <3>6
    <2> QED
      BY <2>1, <2>2
  <1>3. Normalize(s) = r.cli
    <2>1. CASE /\ s.cliEnabled = (r.cli # NoCli) /\ s.cliBackend = r.cli.backend
               /\ s.cliOnly = r.cli.only
      BY <2>1 DEF Normalize, CliOK
    <2>2. CASE /\ r.cli = NoCli /\ w # NoRow /\ s.cliEnabled = TRUE /\ w.cliEnabled
               /\ s.cliBackend = w.cliBackend /\ s.cliOnly = w.cliOnly
      <3>1. Normalize(w) = NoCli
        BY <2>2 DEF RowKnown
      <3>2. Normalize(s) = Normalize(w)
        BY <2>2 DEF Normalize
      <3> QED
        BY <2>2, <3>1, <3>2
    <2> QED
      BY <1>2, <2>1, <2>2
  <1>4. r.preferred = Steered(s)
    <2>1. CASE r.cli = NoCli
      BY <1>2, <1>3, <2>1 DEF Steered
    <2>2. CASE r.cli # NoCli
      BY <1>2, <1>3, <2>2 DEF Steered, CliOK
    <2> QED
      BY <2>1, <2>2
  <1>5. ASSUME ~(s.cliEnabled /\ s.cliOnly), NEW p \in Provider, InReach(r, p)
        PROVE  /\ p \in Barred(s) => p \in r.disabled
               /\ p # "open_ai" /\ p \in r.disabled => p \in Barred(s)
    <2>1. Barred(s) = Kept(s) \cup ReadBack(names)
      <3> HIDE DEF names
      <3> QED
        BY <1>2, <1>5 DEF Barred
    <2>3. /\ p \in ReadBack(names) => p \in r.disabled
          /\ p # "open_ai" /\ p \in r.disabled => p \in ReadBack(names)
      BY <1>5 DEF ReadBack, Written, Provider, Backend
    <2>2. p \notin Kept(s)
      <3>1. CASE r.cli = NoCli
        <4>1. Kept(s) = Backend
          BY <1>3, <3>1 DEF Kept
        <4>2. r.cli.backend = Nothing /\ Nothing \notin Backend
          BY <3>1 DEF NoCli, Nothing, Backend
        <4> QED
          BY <1>5, <4>1, <4>2 DEF InReach
      <3>2. CASE r.cli # NoCli
        <4>1. s.cliEnabled /\ r.cli = [backend |-> s.cliBackend, only |-> s.cliOnly]
          BY <1>3, <3>2, CliIs
        <4>2. ~r.cli.only
          BY <1>5, <4>1
        <4>3. Kept(s) = Backend \ {r.cli.backend}
          BY <1>3, <3>2, <4>2 DEF Kept
        <4> QED
          BY <1>5, <4>3 DEF InReach
      <3> QED
        BY <3>1, <3>2
    <2> HIDE DEF names
    <2> QED
      BY <2>1, <2>2, <2>3
  <1> QED
    BY <1>2, <1>3, <1>4, <1>5 DEF Agrees

(* Settings are never the missing row.                                      *)
LEMMA SettingsThere ==
  ASSUME NEW r, NEW w, NEW s, s = Merged(GetSettings(r), w), NEW p
  PROVE  s # NoRow /\ Patched(s, p) # NoRow
  <1>1. "custom" \notin DOMAIN NoRow
    BY DEF NoRow
  <1>2. "custom" \in DOMAIN GetSettings(r)
    BY DEF GetSettings
  <1>3. "custom" \in DOMAIN s
    <2> DEFINE g == GetSettings(r)
    <2> HIDE DEF g
    <2>1. DOMAIN s = DOMAIN g
      BY DEF Merged, g
    <2> QED
      BY <1>2, <2>1 DEF g
  <1>4. "custom" \in DOMAIN Patched(s, p)
    <2> DEFINE u == [s EXCEPT !.cliBackend = Nothing]
    <2>1. DOMAIN u = DOMAIN s
      OBVIOUS
    <2> DEFINE off == "cliEnabled" \in DOMAIN p /\ ~p["cliEnabled"]
               t == Override(p, IF off THEN u ELSE s)
    <2>2. "custom" \in DOMAIN t
      <3> HIDE DEF u, off
      <3>1. "custom" \in DOMAIN (IF off THEN u ELSE s)
        BY <1>3, <2>1
      <3> QED
        BY <3>1 DEF Override
    <2>3. \/ Patched(s, p) = t
          \/ \E v : Patched(s, p) = [t EXCEPT !.preferred = v]
      BY DEF Patched
    <2> HIDE DEF t
    <2>4. \A v : DOMAIN [t EXCEPT !.preferred = v] = DOMAIN t
      OBVIOUS
    <2> QED
      BY <2>2, <2>3, <2>4
  <1> QED
    BY <1>1, <1>3, <1>4

(* A handler that begins.                                                   *)
LEMMA BeginsInv ==
  ASSUME SettingsInv, NEW a \in Admin, NEW p, admin[a] = Quiet,
         calm' = (calm /\ AllQuiet), row' = row, Router(rt'), CliOK(rt'),
         rt'.custom = rt.custom, rt'.cli = rt.cli,
         admin' = [admin EXCEPT ![a] = [pc |-> "loading", seen |-> GetSettings(rt'),
                                        patch |-> p]]
  PROVE  SettingsInv'
  <1> DEFINE m == [pc |-> "loading", seen |-> GetSettings(rt'), patch |-> p]
             ad == admin'
             r == rt'
  <1>1. /\ ad = [b \in Admin |-> ad[b]] /\ ad[a] = m
        /\ \A b \in Admin : b # a => ad[b] = admin[b]
    BY DEF SettingsInv, Admins
  <1>2. /\ m.pc = "loading" /\ m.seen = GetSettings(r) /\ m.patch = p
        /\ m = [pc |-> "loading", seen |-> m.seen, patch |-> m.patch]
    OBVIOUS
  <1>3. Quiet.pc = "idle"
    BY DEF Quiet
  <1> HIDE DEF m, ad
  <1>4. Admins(ad)
    BY <1>1, <1>2 DEF SettingsInv, Admins
  <1>5. ASSUME calm /\ AllQuiet
        PROVE  OneBusy(ad) /\ LoadOK(r, row, ad) /\ SaveOK(r, ad) /\ RestOK(r, row, ad)
    <2>1. RowKnown(rt, row)
      BY <1>5 DEF SettingsInv, RestOK, AllQuiet
    <2>2. RowKnown(r, row)
      BY <2>1 DEF RowKnown
    <2>3. \A b \in Admin : b # a => ad[b] = Quiet
      BY <1>1, <1>5 DEF AllQuiet
    <2>4. OneBusy(ad)
      BY <2>3 DEF OneBusy
    <2>5. LoadOK(r, row, ad)
      BY <1>1, <1>2, <1>3, <2>2, <2>3 DEF LoadOK
    <2>6. SaveOK(r, ad)
      BY <1>1, <1>2, <1>3, <2>3 DEF SaveOK
    <2>7. RestOK(r, row, ad)
      BY <1>1, <1>2, <1>3 DEF RestOK
    <2> QED
      BY <2>4, <2>5, <2>6, <2>7
  <1>6. calm' \in BOOLEAN /\ (calm' => calm /\ AllQuiet)
    BY DEF SettingsInv
  <1> QED
    BY <1>4, <1>5, <1>6 DEF SettingsInv, ad

LEMMA TogglesInv ==
  ASSUME SettingsInv, NEW a \in Admin, NEW x, ToggleProvider(a, x) \/ ToggleModel(a, x)
  PROVE  SettingsInv'
  <1>1. /\ admin[a] = Quiet /\ calm' = (calm /\ AllQuiet) /\ row' = row
        /\ admin' = [admin EXCEPT ![a] = [pc |-> "loading", seen |-> GetSettings(rt'),
                                          patch |-> NoPatch]]
    BY DEF ToggleProvider, ToggleModel, Begins
  <1>2. rt = [preferred |-> rt.preferred, disabledModels |-> rt.disabledModels,
              disabled |-> rt.disabled, cli |-> rt.cli, custom |-> rt.custom]
    BY DEF SettingsInv, Router
  <1>3. PICK d, e :
          rt' = [preferred |-> rt.preferred, disabledModels |-> e,
                 disabled |-> d, cli |-> rt.cli, custom |-> rt.custom]
    <2>1. CASE ToggleProvider(a, x)
      <3>1. rt' = [rt EXCEPT !.disabled = Toggled(rt.disabled, x)]
        BY <2>1 DEF ToggleProvider
      <3> QED
        BY <1>2, <3>1
    <2>2. CASE ToggleModel(a, x)
      <3>1. rt' = [rt EXCEPT !.disabledModels = Toggled(rt.disabledModels, x)]
        BY <2>2 DEF ToggleModel
      <3> QED
        BY <1>2, <3>1
    <2> QED
      BY <2>1, <2>2
  <1>4. /\ rt'.custom = rt.custom /\ rt'.cli = rt.cli /\ rt'.preferred = rt.preferred
        /\ Router(rt')
    BY <1>3 DEF Router
  <1>5. CliOK(rt')
    BY <1>4 DEF SettingsInv, CliOK
  <1> QED
    BY <1>1, <1>4, <1>5, BeginsInv

LEMMA UpdateInv ==
  ASSUME SettingsInv, NEW a \in Admin, NEW p, UpdateBegins(a, p)
  PROVE  SettingsInv'
  <1>1. /\ admin[a] = Quiet /\ calm' = (calm /\ AllQuiet) /\ row' = row /\ rt' = rt
        /\ admin' = [admin EXCEPT ![a] = [pc |-> "loading", seen |-> GetSettings(rt'),
                                          patch |-> p]]
    BY DEF UpdateBegins, Begins
  <1>2. Router(rt') /\ CliOK(rt') /\ rt'.custom = rt.custom /\ rt'.cli = rt.cli
    BY <1>1 DEF SettingsInv
  <1> QED
    BY <1>1, <1>2, BeginsInv

(* The row arrives.                                                         *)
LEMMA LoadInv ==
  ASSUME SettingsInv, NEW a \in Admin, LoadReturns(a)
  PROVE  SettingsInv'
  <1>1. PICK stored \in {row, NoRow} :
          /\ IF stored = row THEN RowFine ELSE RowError
          /\ LET s == Merged(admin[a].seen, stored)
                 t == IF admin[a].patch = NoPatch THEN s ELSE Patched(s, admin[a].patch)
             IN  /\ rt' = IF admin[a].patch = NoPatch THEN rt ELSE Apply(rt, t)
                 /\ admin' = [admin EXCEPT ![a] = [pc |-> "saving", settings |-> t]]
    BY DEF LoadReturns
  <1> DEFINE s == Merged(admin[a].seen, stored)
             t == IF admin[a].patch = NoPatch THEN s ELSE Patched(s, admin[a].patch)
             m == [pc |-> "saving", settings |-> t]
             ad == admin'
             r == rt'
  <1>2. /\ r = (IF admin[a].patch = NoPatch THEN rt ELSE Apply(rt, t))
        /\ ad = [admin EXCEPT ![a] = m]
    BY <1>1
  <1>3. row' = row /\ admin[a].pc = "loading"
    BY DEF LoadReturns
  <1>4. calm' \in BOOLEAN /\ (calm' => calm /\ stored = row)
    BY <1>1 DEF RowFine, RowError, SettingsInv
  <1>5. m.pc = "saving" /\ m.settings = t /\ m = [pc |-> "saving", settings |-> m.settings]
    OBVIOUS
  <1>6. Quiet.pc = "idle"
    BY DEF Quiet
  <1> HIDE DEF m, ad, r, t
  <1>7. /\ ad = [b \in Admin |-> ad[b]] /\ ad[a] = m
        /\ \A b \in Admin : b # a => ad[b] = admin[b]
    BY <1>2 DEF SettingsInv, Admins
  <1>8. Admins(ad)
    BY <1>5, <1>7 DEF SettingsInv, Admins
  <1>9. Router(rt) /\ CliOK(rt)
    BY DEF SettingsInv
  <1>10. admin[a].patch # NoPatch => Router(r) /\ CliOK(r) /\ Agrees(r, t)
    BY <1>2, <1>9, ApplyAgrees
  <1>11. admin[a].patch = NoPatch => r = rt
    BY <1>2
  <1>12. Router(r) /\ CliOK(r)
    BY <1>9, <1>10, <1>11
  <1>13. ASSUME calm, stored = row
         PROVE  OneBusy(ad) /\ LoadOK(r, row, ad) /\ SaveOK(r, ad) /\ RestOK(r, row, ad)
    <2>1. RowKnown(rt, row) /\ admin[a].seen = GetSettings(rt)
      BY <1>3, <1>13 DEF SettingsInv, LoadOK
    <2>2. s = Merged(GetSettings(rt), row)
      BY <1>13, <2>1
    <2> HIDE DEF s
    <2>3. Agrees(rt, s)
      BY <1>9, <2>1, <2>2, MergedAgrees
    <2>4. Agrees(r, t)
      BY <1>10, <1>11, <2>3 DEF t
    <2>5. t # NoRow
      BY <2>2, SettingsThere DEF t
    <2>6. OneBusy(admin) /\ admin[a] # Quiet
      BY <1>3, <1>6, <1>13 DEF SettingsInv
    <2>7. \A b \in Admin : b # a => ad[b] = Quiet
      BY <1>7, <2>6 DEF OneBusy
    <2>8. OneBusy(ad)
      BY <2>7 DEF OneBusy
    <2>9. LoadOK(r, row, ad)
      BY <1>5, <1>6, <1>7, <2>7 DEF LoadOK
    <2>10. SaveOK(r, ad)
      BY <1>5, <1>6, <1>7, <2>4, <2>5, <2>7 DEF SaveOK
    <2>11. RestOK(r, row, ad)
      BY <1>5, <1>6, <1>7 DEF RestOK
    <2> QED
      BY <2>8, <2>9, <2>10, <2>11
  <1> QED
    BY <1>3, <1>4, <1>8, <1>12, <1>13 DEF SettingsInv, ad, r

(* The row is written, or not.                                              *)
LEMMA SaveInv ==
  ASSUME SettingsInv, NEW a \in Admin, SaveReturns(a)
  PROVE  SettingsInv'
  <1> DEFINE ad == admin'
             w == row'
  <1>1. rt' = rt /\ admin[a].pc = "saving" /\ ad = [admin EXCEPT ![a] = Quiet]
    BY DEF SaveReturns
  <1>2. calm' \in BOOLEAN /\ (calm' => calm /\ w = admin[a].settings)
    <2>1. CASE w = admin[a].settings /\ RowFine
      BY <2>1 DEF RowFine, SettingsInv
    <2>2. CASE RowError
      BY <2>2 DEF RowError
    <2> QED
      BY <2>1, <2>2 DEF SaveReturns
  <1>3. Quiet.pc = "idle"
    BY DEF Quiet
  <1> HIDE DEF ad, w
  <1>4. /\ ad = [b \in Admin |-> ad[b]] /\ ad[a] = Quiet
        /\ \A b \in Admin : b # a => ad[b] = admin[b]
    BY <1>1 DEF SettingsInv, Admins
  <1>5. Admins(ad)
    BY <1>4 DEF SettingsInv, Admins
  <1>6. ASSUME calm, w = admin[a].settings
        PROVE  OneBusy(ad) /\ LoadOK(rt, w, ad) /\ SaveOK(rt, ad) /\ RestOK(rt, w, ad)
    <2>1. OneBusy(admin) /\ SaveOK(rt, admin) /\ admin[a] # Quiet
      BY <1>1, <1>3, <1>6 DEF SettingsInv
    <2>2. \A b \in Admin : ad[b] = Quiet
      BY <1>4, <2>1 DEF OneBusy
    <2>3. w # NoRow /\ Agrees(rt, w)
      BY <1>1, <1>6, <2>1 DEF SaveOK
    <2>4. RowKnown(rt, w)
      BY <2>3 DEF RowKnown, Agrees
    <2>5. OneBusy(ad)
      BY <2>2 DEF OneBusy
    <2>6. LoadOK(rt, w, ad) /\ SaveOK(rt, ad)
      BY <1>3, <2>2 DEF LoadOK, SaveOK
    <2>7. RestOK(rt, w, ad)
      BY <2>3, <2>4 DEF RestOK
    <2> QED
      BY <2>5, <2>6, <2>7
  <1> QED
    BY <1>1, <1>2, <1>5, <1>6 DEF SettingsInv, ad, w

(* A router before any settings.                                            *)
LEMMA NewRouterIs ==
  /\ Router(NewRouter) /\ CliOK(NewRouter)
  /\ NewRouter.custom = FALSE /\ NewRouter.cli = NoCli /\ NewRouter.disabledModels = {}
  <1> DEFINE b == [preferred |-> Nothing, disabledModels |-> {}, disabled |-> {},
                   cli |-> NoCli, custom |-> FALSE]
  <1>1. NewRouter = [b EXCEPT !.cli = NoCli, !.disabled = @ \cup Backend]
    BY DEF NewRouter, SetCli
  <1>2. PICK c : c = b
    OBVIOUS
  <1>3. c = [preferred |-> Nothing, disabledModels |-> {}, disabled |-> {},
             cli |-> NoCli, custom |-> FALSE]
    BY <1>2
  <1>4. NewRouter = [c EXCEPT !.cli = NoCli, !.disabled = @ \cup Backend]
    BY <1>1, <1>2
  <1> HIDE DEF b
  <1>5. NewRouter = [preferred |-> Nothing, disabledModels |-> {},
                     disabled |-> c.disabled \cup Backend, cli |-> NoCli, custom |-> FALSE]
    BY <1>3, <1>4
  <1> QED
    BY <1>5 DEF Router, CliOK

LEMMA RebootInv ==
  ASSUME SettingsInv, Restart
  PROVE  SettingsInv'
  <1> DEFINE ad == admin'
             r == rt'
  <1>1. /\ r = Rebooted /\ ad = [b \in Admin |-> Quiet] /\ row' = row
        /\ calm' = (calm /\ AllQuiet)
    BY DEF Restart
  <1>2. Quiet.pc = "idle"
    BY DEF Quiet
  <1> HIDE DEF ad, r
  <1>3. \A b \in Admin : ad[b] = Quiet
    BY <1>1
  <1>4. Admins(ad)
    BY <1>1, <1>3 DEF Admins
  <1>5. Router(r) /\ CliOK(r) /\ RowKnown(r, row) /\ (row # NoRow => Agrees(r, row))
    <2>1. CASE row = NoRow
      BY <1>1, <2>1, NewRouterIs DEF Rebooted, RowKnown
    <2>2. CASE row # NoRow
      <3>1. r = Apply(NewRouter, row)
        BY <1>1, <2>2 DEF Rebooted
      <3>2. Router(r) /\ CliOK(r) /\ Agrees(r, row)
        BY <3>1, NewRouterIs, ApplyAgrees
      <3> QED
        BY <2>2, <3>2 DEF RowKnown, Agrees
    <2> QED
      BY <2>1, <2>2
  <1>6. OneBusy(ad) /\ LoadOK(r, row, ad) /\ SaveOK(r, ad)
    BY <1>2, <1>3 DEF OneBusy, LoadOK, SaveOK
  <1>7. RestOK(r, row, ad)
    BY <1>5 DEF RestOK
  <1>8. calm' \in BOOLEAN
    BY <1>1 DEF SettingsInv
  <1> QED
    BY <1>1, <1>4, <1>5, <1>6, <1>7, <1>8 DEF SettingsInv, ad, r

LEMMA SettingsStep ==
  ASSUME SettingsInv, [RouterNext]_routerVars
  PROVE  SettingsInv'
  <1>1. CASE UNCHANGED <<rt, row, admin, calm>>
    BY <1>1 DEF SettingsInv
  <1>2. ASSUME NEW k \in Key, Infer(k) \/ InferStream(k) \/ Expire(k)
        PROVE  SettingsInv'
    BY <1>1, <1>2 DEF Infer, InferStream, Expire, settingsVars
  <1>3. CASE TryModel \/ Late \/ Errs \/ Replies \/ CallEnds
    BY <1>1, <1>3 DEF TryModel, Late, Errs, Replies, CallEnds, settingsVars
  <1>4. CASE UNCHANGED routerVars
    BY <1>1, <1>4 DEF routerVars
  <1> QED
    BY <1>2, <1>3, <1>4, UpdateInv, TogglesInv, LoadInv, SaveInv, RebootInv DEF RouterNext

(* A ranking looks at the catalogue and at the preferred model only.        *)
RankedBy(models, preferred, S) ==
  LET worth(m) == Score(m, Constraints(Profile))
                    + (IF m.id = preferred THEN 150000 ELSE 0)
      before(i, j) == \/ worth(models[i]) > worth(models[j])
                      \/ worth(models[i]) = worth(models[j]) /\ i < j
      rank(i) == Cardinality({j \in S : before(j, i)}) + 1
  IN  [k \in 1..Cardinality(S) |-> models[CHOOSE i \in S : rank(i) = k]]
LEMMA RankedIs ==
  ASSUME NEW r, NEW S
  PROVE  Ranked(r, S) = RankedBy(Models(r), r.preferred, S)
  BY DEF Ranked, Rank, Outranks, Worth, RankedBy

LEMMA SameRoute ==
  ASSUME SettingsInv, AllQuiet, calm, row # NoRow, ~(row.cliEnabled /\ row.cliOnly), ~StaysOff
  PROVE  Route(Rebooted) = Route(Remembered)
  <1>1. PICK y : y = Apply(NewRouter, row)
    OBVIOUS
  <1>2. Rebooted = y
    BY <1>1 DEF Rebooted
  <1>3. Agrees(rt, row)
    BY DEF SettingsInv, RestOK, AllQuiet
  <1>4. /\ y.preferred = Steered(row) /\ y.disabled = Barred(row)
        /\ y.disabledModels = (NewRouter.disabledModels \ Ids(NewRouter)) \cup row.disabledModels
        /\ y.cli = Normalize(row) /\ y.custom = row.custom
    <2>1. y = [preferred |-> Steered(row),
               disabledModels |-> (NewRouter.disabledModels \ Ids(NewRouter))
                                    \cup row.disabledModels,
               disabled |-> Barred(row), cli |-> Normalize(row), custom |-> row.custom]
      BY <1>1, Applied, NewRouterIs
    <2> QED
      BY <2>1
  <1>5. /\ y.preferred = rt.preferred /\ y.cli = rt.cli /\ y.custom = rt.custom
        /\ y.disabledModels = row.disabledModels
    BY <1>3, <1>4, NewRouterIs DEF Agrees
  <1> DEFINE off == IF "open_ai" \in row.disabledProviders THEN rt.disabled
                    ELSE rt.disabled \ {"open_ai"}
  <1>11. PICK q : q = Remembered
    OBVIOUS
  <1>12. q = [preferred |-> rt.preferred, disabledModels |-> rt.disabledModels,
              disabled |-> off, cli |-> rt.cli, custom |-> rt.custom]
    <2>1. q = [rt EXCEPT !.disabled = IF "open_ai" \in row.disabledProviders THEN @
                                      ELSE @ \ {"open_ai"}]
      BY <1>11 DEF Remembered
    <2>2. rt = [preferred |-> rt.preferred, disabledModels |-> rt.disabledModels,
                disabled |-> rt.disabled, cli |-> rt.cli, custom |-> rt.custom]
      BY DEF SettingsInv, Router
    <2> QED
      BY <2>1, <2>2
  <1> HIDE DEF off
  <1>13. /\ q.preferred = rt.preferred /\ q.cli = rt.cli /\ q.custom = rt.custom
         /\ q.disabledModels = rt.disabledModels /\ q.disabled = off
    BY <1>12
  <1>6. Models(y) = Models(rt) /\ Models(q) = Models(rt)
    BY <1>5, <1>13 DEF Models
  <1>14. "open_ai" \in Barred(row) <=> "open_ai" \in row.disabledProviders
    <2>1. "open_ai" \notin Kept(row) /\ "open_ai" \in Provider
      <3>1. CASE Normalize(row) = NoCli
        BY <3>1 DEF Kept, Backend, Provider
      <3>2. CASE Normalize(row) # NoCli
        <4>1. ~Normalize(row).only
          BY <3>2, CliIs
        <4> QED
          BY <3>2, <4>1 DEF Kept, Backend, Provider
      <3> QED
        BY <3>1, <3>2
    <2> QED
      BY <2>1 DEF Barred, ReadBack
  <1>7. ASSUME NEW i \in DOMAIN Models(rt), InReach(rt, Models(rt)[i].provider)
        PROVE  Models(rt)[i].provider \in y.disabled <=> Models(rt)[i].provider \in q.disabled
    <2>1. PICK p \in Provider : p = Models(rt)[i].provider
      BY <1>7, ModelsAre DEF IsModel
    <2>2. /\ p \in Barred(row) => p \in rt.disabled
          /\ p # "open_ai" /\ p \in rt.disabled => p \in Barred(row)
      BY <1>3, <1>7, <2>1 DEF Agrees
    <2>3. p \in Barred(row) <=> p \in off
      BY <1>14, <2>2 DEF off
    <2> QED
      BY <1>4, <1>13, <2>1, <2>3
  <1>8. ASSUME NEW i \in DOMAIN Models(rt)
        PROVE  Models(rt)[i].id \in y.disabledModels <=> Models(rt)[i].id \in rt.disabledModels
    <2>1. CASE i \in DOMAIN Catalog /\ Models(rt)[i] = Catalog[i]
      BY <1>3, <1>5, <2>1 DEF Agrees, Range
    <2>2. CASE Models(rt)[i] = CustomModel
      BY <1>3, <1>5, <2>2 DEF Agrees, StaysOff
    <2> QED
      BY <1>8, <2>1, <2>2, ModelsAre
  <1> DEFINE S(r) == {i \in Selectable(r) :
                        LET p == Models(r)[i].provider IN p \in Backend => r.cli.backend = p}
  <1>9. S(y) = S(q)
    BY <1>5, <1>6, <1>7, <1>8, <1>13 DEF Selectable, InReach
  <1>10. Route(y) = Ranked(y, S(y)) /\ Route(q) = Ranked(q, S(q))
    BY DEF Route
  <1> HIDE DEF S
  <1> QED
    BY <1>2, <1>5, <1>6, <1>9, <1>10, <1>11, <1>13, RankedIs

(* RestartKeepsRouting for every catalogue, any handlers and any patches.   *)
THEOREM RestartKeepsRoutingHolds == RouterSpec => []RestartKeepsRouting
  <1>1. RouterInit => SettingsInv
    <2> SUFFICES ASSUME RouterInit PROVE SettingsInv
      OBVIOUS
    <2>1. rt = NewRouter /\ row = NoRow /\ admin = [a \in Admin |-> Quiet] /\ calm = TRUE
      BY DEF RouterInit
    <2>2. (\A a \in Admin : admin[a] = Quiet) /\ Quiet.pc = "idle"
      BY <2>1 DEF Quiet
    <2>3. Admins(admin) /\ OneBusy(admin)
      BY <2>1, <2>2 DEF Admins, OneBusy
    <2>4. LoadOK(rt, row, admin) /\ SaveOK(rt, admin)
      BY <2>2 DEF LoadOK, SaveOK
    <2>5. RestOK(rt, row, admin)
      BY <2>1, NewRouterIs DEF RestOK, RowKnown
    <2> QED
      BY <2>1, <2>3, <2>4, <2>5, NewRouterIs DEF SettingsInv
  <1>2. SettingsInv /\ [RouterNext]_routerVars => SettingsInv'
    BY SettingsStep
  <1>3. SettingsInv => RestartKeepsRouting
    BY SameRoute DEF RestartKeepsRouting
  <1> QED
    BY <1>1, <1>2, <1>3, PTL DEF RouterSpec
-----------------------------------------------------------------------------
-----------------------------------------------------------------------------
SplitState == [lines : Seq(Seq(Piece)), rest : Seq(Piece)]

LEMMA TakingIs ==
  ASSUME NEW s \in SplitState, NEW x \in Piece
  PROVE  Taking(s, x) \in SplitState
  <1>1. PICK l \in Seq(Seq(Piece)), r \in Seq(Piece) : s = [lines |-> l, rest |-> r]
    BY DEF SplitState
  <1>2. Append(l, r) \in Seq(Seq(Piece)) /\ Append(r, x) \in Seq(Piece) /\ << >> \in Seq(Piece)
    BY <1>1
  <1> QED
    BY <1>1, <1>2 DEF Taking, SplitState

(* s is the table of what the reader has split off b.                       *)
IsSplit(s, b) ==
  /\ s \in [0..Len(b) -> SplitState] /\ s[0] = Nil
  /\ \A n \in 1..Len(b) : s[n] = Taking(s[n - 1], b[n])

LEMMA SplitTable ==
  ASSUME NEW b \in Seq(Piece)
  PROVE  \E s : IsSplit(s, b) /\ Split(b) = s[Len(b)]
  <1> DEFINE N == Len(b)
             Eq(s) == s = [n \in 0..N |-> IF n = 0 THEN Nil ELSE Taking(s[n - 1], b[n])]
             next == [n \in 1..N |-> [d \in SplitState |-> Taking(d, b[n])]]
  <1>1. N \in Nat /\ \A n \in 1..N : b[n] \in Piece
    OBVIOUS
  <1>2. Nil \in SplitState
    BY DEF Nil, SplitState
  <1>3. next \in [1..N -> [SplitState -> SplitState]]
    BY <1>1, TakingIs
  <1>4. \A n \in 1..N, d \in SplitState : next[n][d] = Taking(d, b[n])
    OBVIOUS
  <1>5. Split(b) = (CHOOSE s : Eq(s))[N]
    BY DEF Split
  <1> HIDE DEF next, N
  <1>6a. \E h : IsTable(h, N, SplitState, Nil, next)
    BY <1>1, <1>2, <1>3, TableExists
  <1>6. PICK h \in [0..N -> SplitState] :
          h[0] = Nil /\ \A n \in 1..N : h[n] = next[n][h[n - 1]]
    BY <1>6a DEF IsTable
  <1>7. Eq(h)
    <2>1. \A n \in 0..N : h[n] = IF n = 0 THEN Nil ELSE Taking(h[n - 1], b[n])
      <3> SUFFICES ASSUME NEW n \in 0..N, n # 0 PROVE h[n] = Taking(h[n - 1], b[n])
        BY <1>6
      <3>1. n \in 1..N /\ n - 1 \in 0..N
        BY <1>1
      <3>2. h[n - 1] \in SplitState
        BY <1>6, <3>1
      <3> QED
        BY <1>4, <1>6, <3>1, <3>2
    <2> QED
      BY <1>6, <2>1
  <1> DEFINE s == CHOOSE k : Eq(k)
  <1>8. Eq(s)
    BY <1>7
  <1> HIDE DEF s
  <1>9. s[0] = Nil /\ \A n \in 1..N : s[n] = Taking(s[n - 1], b[n])
    BY <1>1, <1>8
  <1>10. DOMAIN s = 0..N
    BY <1>8
  <1> HIDE DEF Eq
  <1>11. \A n \in 0..N : s[n] \in SplitState
    <2> DEFINE W == {n \in 0..N : s[n] \in SplitState}
    <2>1. 0 \in W
      BY <1>1, <1>2, <1>9
    <2>2. ASSUME NEW n \in 1..N, n - 1 \in W PROVE n \in W
      <3>1. s[n - 1] \in SplitState /\ b[n] \in Piece
        BY <1>1, <2>2
      <3>2. Taking(s[n - 1], b[n]) \in SplitState
        BY <3>1, TakingIs
      <3> QED
        BY <1>1, <1>9, <3>2
    <2> HIDE DEF W
    <2>3. \A n \in 0..N : n \in W
      BY <1>1, <2>1, <2>2, IntervalInduction
    <2> QED
      BY <2>3 DEF W
  <1>12. s = [n \in 0..N |-> s[n]]
    BY <1>8 DEF Eq
  <1>13. s \in [0..N -> SplitState]
    BY <1>11, <1>12
  <1>14. IsSplit(s, b)
    BY <1>9, <1>13 DEF IsSplit, N
  <1>15. Split(b) = s[Len(b)]
    BY <1>5 DEF s, N
  <1> QED
    BY <1>14, <1>15

NoEnd(r) == \A i \in 1..Len(r) : r[i] # End

LEMMA TakingParts ==
  ASSUME NEW s \in SplitState, NEW x \in Piece
  PROVE  /\ s.lines \in Seq(Seq(Piece)) /\ s.rest \in Seq(Piece)
         /\ Taking(s, x).lines = IF x = End THEN Append(s.lines, s.rest) ELSE s.lines
         /\ Taking(s, x).rest = IF x = End THEN << >> ELSE Append(s.rest, x)
  BY DEF Taking, SplitState

(* What is left over has no end of a line.                                  *)
LEMMA RestHasNoEnd ==
  ASSUME NEW b \in Seq(Piece), NEW s, IsSplit(s, b)
  PROVE  \A n \in 0..Len(b) : NoEnd(s[n].rest)
  <1> DEFINE N == Len(b)
             W == {n \in 0..N : NoEnd(s[n].rest)}
  <1>1. N \in Nat /\ \A n \in 1..N : b[n] \in Piece
    OBVIOUS
  <1>2. 0 \in W
    BY DEF IsSplit, Nil, NoEnd
  <1>3. ASSUME NEW n \in 1..N, n - 1 \in W PROVE n \in W
    <2>1. s[n - 1] \in SplitState /\ s[n] = Taking(s[n - 1], b[n]) /\ NoEnd(s[n - 1].rest)
      BY <1>3 DEF IsSplit
    <2>2. b[n] \in Piece /\ s[n - 1].rest \in Seq(Piece)
      BY <1>1, <2>1, TakingParts
    <2>3. s[n].rest = IF b[n] = End THEN << >> ELSE Append(s[n - 1].rest, b[n])
      BY <2>1, <2>2, TakingParts
    <2>4. NoEnd(s[n].rest)
      BY <2>1, <2>2, <2>3 DEF NoEnd
    <2> QED
      BY <1>1, <2>4
  <1>4. \A n \in 1..N : n - 1 \in W => n \in W
    BY <1>3
  <1> HIDE DEF W
  <1>5. \A n \in 0..N : n \in W
    BY <1>1, <1>2, <1>4, IntervalInduction
  <1> QED
    BY <1>5 DEF W

(* What has no end of a line is all left over.                              *)
LEMMA RestIsKept ==
  ASSUME NEW r \in Seq(Piece), NoEnd(r), NEW q \in Seq(Piece), NEW s, IsSplit(s, r \o q)
  PROVE  s[Len(r)].lines = << >> /\ s[Len(r)].rest = r
  <1> DEFINE N == Len(r)
             b == r \o q
             W == {n \in 0..N : s[n].lines = << >> /\ s[n].rest = SubSeq(r, 1, n)}
  <1>0. IsSplit(s, b)
    OBVIOUS
  <1>1. /\ N \in Nat /\ Len(b) \in Nat /\ N =< Len(b)
        /\ \A n \in 1..N : b[n] \in Piece /\ b[n] = r[n] /\ b[n] # End
    BY DEF NoEnd
  <1>2. 0 \in W
    <2>1. s[0].lines = << >> /\ s[0].rest = << >>
      BY DEF IsSplit, Nil
    <2>2. SubSeq(r, 1, 0) = << >>
      OBVIOUS
    <2>3. s[0].lines = << >> /\ s[0].rest = SubSeq(r, 1, 0) /\ 0 \in 0..N
      BY <1>1, <2>1, <2>2
    <2> HIDE DEF N, b
    <2> QED
      BY <2>3
  <1>3. ASSUME NEW n \in 1..N, n - 1 \in W PROVE n \in W
    <2>1. s[n - 1] \in SplitState /\ s[n] = Taking(s[n - 1], b[n])
      <3>1. n \in 1..Len(b) /\ n - 1 \in 0..Len(b)
        BY <1>1
      <3> HIDE DEF b, N, W
      <3>2. s \in [0..Len(b) -> SplitState] /\ s[n] = Taking(s[n - 1], b[n])
        BY <1>0, <3>1 DEF IsSplit
      <3> QED
        BY <3>1, <3>2
    <2>2. b[n] \in Piece /\ b[n] # End /\ b[n] = r[n]
      BY <1>1
    <2> DEFINE x == b[n]
               c == s[n - 1]
    <2> HIDE DEF x, c
    <2>3. /\ Taking(c, x).lines = IF x = End THEN Append(c.lines, c.rest) ELSE c.lines
          /\ Taking(c, x).rest = IF x = End THEN << >> ELSE Append(c.rest, x)
      BY <2>1, <2>2, TakingParts DEF x, c
    <2>4. s[n].lines = c.lines /\ s[n].rest = Append(c.rest, r[n])
      BY <2>1, <2>2, <2>3 DEF x, c
    <2>5. c.lines = << >> /\ c.rest = SubSeq(r, 1, n - 1)
      BY <1>3 DEF c
    <2>6. Append(SubSeq(r, 1, n - 1), r[n]) = SubSeq(r, 1, n)
      <3>1. n \in 1..Len(r) /\ r \in Seq(Piece)
        BY <1>3
      <3> HIDE DEF N
      <3> QED
        BY <3>1
    <2>7. s[n].lines = << >> /\ s[n].rest = SubSeq(r, 1, n)
      BY <2>4, <2>5, <2>6
    <2> QED
      BY <1>1, <2>7
  <1>4. \A n \in 1..N : n - 1 \in W => n \in W
    BY <1>3
  <1> HIDE DEF W
  <1>5. \A n \in 0..N : n \in W
    BY <1>1, <1>2, <1>4, IntervalInduction
  <1>6. N \in W
    BY <1>1, <1>5
  <1>7. SubSeq(r, 1, N) = r
    OBVIOUS
  <1> QED
    BY <1>6, <1>7 DEF W

(* Two tables that start alike and see the same agree.                      *)
LEMMA SplitsAgree ==
  ASSUME NEW p \in Seq(Piece), NEW q \in Seq(Piece),
         NEW s, IsSplit(s, p), NEW u, IsSplit(u, p \o q)
  PROVE  u[Len(p)] = s[Len(p)]
  <1> DEFINE N == Len(p)
             b == p \o q
             W == {n \in 0..N : u[n] = s[n]}
  <1>1. /\ N \in Nat /\ Len(b) \in Nat /\ N =< Len(b)
        /\ \A n \in 1..N : b[n] = p[n]
    OBVIOUS
  <1>2. 0 \in W
    BY <1>1 DEF IsSplit
  <1>3. ASSUME NEW n \in 1..N, n - 1 \in W PROVE n \in W
    <2>1. u[n] = Taking(u[n - 1], b[n]) /\ s[n] = Taking(s[n - 1], p[n])
      BY <1>1 DEF IsSplit
    <2> QED
      BY <1>1, <1>3, <2>1
  <1>4. \A n \in 1..N : n - 1 \in W => n \in W
    BY <1>3
  <1> HIDE DEF W
  <1>5. \A n \in 0..N : n \in W
    BY <1>1, <1>2, <1>4, IntervalInduction
  <1> QED
    BY <1>1, <1>5 DEF W

(* A line at the end of what is joined.                                     *)
LEMMA LinesJoined ==
  ASSUME NEW a \in Seq(Seq(Piece)), NEW b \in Seq(Seq(Piece)), NEW x \in Seq(Piece),
         NEW w
  PROVE  w = a \o b => Append(w, x) = a \o Append(b, x)
  <1> DEFINE l == Append(a \o b, x)
             r == a \o Append(b, x)
  <1>1. Len(l) = Len(r) /\ \A i \in 1..Len(l) : l[i] = r[i]
    OBVIOUS
  <1>2. l \in Seq(Seq(Piece)) /\ r \in Seq(Seq(Piece))
    OBVIOUS
  <1> HIDE DEF l, r
  <1>3. l = r
    BY <1>1, <1>2, SeqEqual
  <1> QED
    BY <1>3 DEF l, r

(* Lines from before stay before those taken.                               *)
LEMMA TakingJoined ==
  ASSUME NEW l \in Seq(Seq(Piece)), NEW x \in Piece,
         NEW a \in SplitState, NEW c \in SplitState, a.rest = c.rest, a.lines = l \o c.lines
  PROVE  /\ Taking(a, x).rest = Taking(c, x).rest
         /\ Taking(a, x).lines = l \o Taking(c, x).lines
  <1>1. /\ c.lines \in Seq(Seq(Piece)) /\ c.rest \in Seq(Piece)
        /\ Taking(c, x).lines = IF x = End THEN Append(c.lines, c.rest) ELSE c.lines
        /\ Taking(c, x).rest = IF x = End THEN << >> ELSE Append(c.rest, x)
    BY TakingParts
  <1>2. /\ Taking(a, x).lines = IF x = End THEN Append(a.lines, a.rest) ELSE a.lines
        /\ Taking(a, x).rest = IF x = End THEN << >> ELSE Append(a.rest, x)
    BY TakingParts
  <1>3. Append(l \o c.lines, c.rest) = l \o Append(c.lines, c.rest)
    <2>1. PICK m \in Seq(Seq(Piece)) : m = c.lines
      BY <1>1
    <2>2. PICK y \in Seq(Piece) : y = c.rest
      BY <1>1
    <2>3. PICK w : w = l \o m
      OBVIOUS
    <2>4. Append(w, y) = l \o Append(m, y)
      BY <2>3, LinesJoined
    <2> QED
      BY <2>1, <2>2, <2>3, <2>4
  <1> QED
    BY <1>1, <1>2, <1>3

(* The split of what follows depends on what is left over only, and adds to *)
(* the lines.                                                              *)
LEMMA SplitsFollow ==
  ASSUME NEW p \in Seq(Piece), NEW r \in Seq(Piece), NEW q \in Seq(Piece),
         NEW l \in Seq(Seq(Piece)),
         NEW u, IsSplit(u, p \o q), u[Len(p)].lines = l, u[Len(p)].rest = r,
         NEW v, IsSplit(v, r \o q), v[Len(r)].lines = << >>, v[Len(r)].rest = r
  PROVE  \A n \in 0..Len(q) : /\ u[Len(p) + n].rest = v[Len(r) + n].rest
                              /\ u[Len(p) + n].lines = l \o v[Len(r) + n].lines
  <1> DEFINE N == Len(q)
             P == Len(p)
             R == Len(r)
             W == {n \in 0..N : /\ u[P + n].rest = v[R + n].rest
                                /\ u[P + n].lines = l \o v[R + n].lines}
  <1>1. /\ N \in Nat /\ P \in Nat /\ R \in Nat
        /\ Len(p \o q) = P + N /\ Len(r \o q) = R + N
        /\ \A n \in 1..N : (p \o q)[P + n] = q[n] /\ (r \o q)[R + n] = q[n] /\ q[n] \in Piece
    OBVIOUS
  <1>2. 0 \in W
    <2>1. l \o << >> = l /\ P + 0 = P /\ R + 0 = R
      BY <1>1
    <2> QED
      BY <1>1, <2>1
  <1>3. ASSUME NEW n \in 1..N, n - 1 \in W PROVE n \in W
    <2>0. /\ P + (n - 1) \in 0..(P + N) /\ P + n \in 1..(P + N) /\ (P + n) - 1 = P + (n - 1)
          /\ R + (n - 1) \in 0..(R + N) /\ R + n \in 1..(R + N) /\ (R + n) - 1 = R + (n - 1)
      BY <1>1
    <2>1. u[P + (n - 1)] \in SplitState /\ u[P + n] = Taking(u[P + (n - 1)], (p \o q)[P + n])
      BY <1>1, <2>0 DEF IsSplit
    <2>2. v[R + (n - 1)] \in SplitState /\ v[R + n] = Taking(v[R + (n - 1)], (r \o q)[R + n])
      BY <1>1, <2>0 DEF IsSplit
    <2> DEFINE x == q[n]
               a == u[P + (n - 1)]
               c == v[R + (n - 1)]
    <2>3. x \in Piece /\ u[P + n] = Taking(a, x) /\ v[R + n] = Taking(c, x)
      BY <1>1, <2>1, <2>2
    <2>4. a.rest = c.rest /\ a.lines = l \o c.lines
      BY <1>3
    <2>5. a \in SplitState /\ c \in SplitState
      BY <2>1, <2>2
    <2> HIDE DEF a, c, x
    <2>9. /\ Taking(a, x).rest = Taking(c, x).rest
          /\ Taking(a, x).lines = l \o Taking(c, x).lines
      BY <2>3, <2>4, <2>5, TakingJoined
    <2>10. u[P + n].rest = v[R + n].rest /\ u[P + n].lines = l \o v[R + n].lines
      BY <2>3, <2>9
    <2> QED
      BY <1>1, <2>10
  <1>4. \A n \in 1..N : n - 1 \in W => n \in W
    BY <1>3
  <1> HIDE DEF W
  <1>5. \A n \in 0..N : n \in W
    BY <1>1, <1>2, <1>4, IntervalInduction
  <1> QED
    BY <1>5 DEF W

(* A cut does not change the lines: those of a whole are the lines up to    *)
(* the cut and the lines of what is left over with what follows.            *)
LEMMA LinesAcrossACut ==
  ASSUME NEW p \in Seq(Piece), NEW q \in Seq(Piece)
  PROVE  /\ Lines(p) \in Seq(Seq(Piece)) /\ Rest(p) \in Seq(Piece)
         /\ Lines(p \o q) = Lines(p) \o Lines(Rest(p) \o q)
         /\ Rest(p \o q) = Rest(Rest(p) \o q)
  <1>1. PICK s : IsSplit(s, p) /\ Split(p) = s[Len(p)]
    BY SplitTable
  <1>2. s[Len(p)] \in SplitState /\ NoEnd(s[Len(p)].rest)
    <2>1. Len(p) \in 0..Len(p)
      OBVIOUS
    <2> QED
      BY <1>1, <2>1, RestHasNoEnd DEF IsSplit
  <1>3. PICK l \in Seq(Seq(Piece)), r \in Seq(Piece) : s[Len(p)] = [lines |-> l, rest |-> r]
    BY <1>2 DEF SplitState
  <1>4. Lines(p) = l /\ Rest(p) = r /\ NoEnd(r)
    BY <1>1, <1>2, <1>3 DEF Lines, Rest
  <1>5. p \o q \in Seq(Piece) /\ r \o q \in Seq(Piece)
    OBVIOUS
  <1>6. PICK u : IsSplit(u, p \o q) /\ Split(p \o q) = u[Len(p \o q)]
    BY <1>5, SplitTable
  <1>7. PICK v : IsSplit(v, r \o q) /\ Split(r \o q) = v[Len(r \o q)]
    BY <1>5, SplitTable
  <1>8. u[Len(p)] = [lines |-> l, rest |-> r]
    BY <1>1, <1>3, <1>6, SplitsAgree
  <1>9. v[Len(r)].lines = << >> /\ v[Len(r)].rest = r
    BY <1>4, <1>7, RestIsKept
  <1>10. u[Len(p)].lines = l /\ u[Len(p)].rest = r
    BY <1>8
  <1>11. \A n \in 0..Len(q) : /\ u[Len(p) + n].rest = v[Len(r) + n].rest
                              /\ u[Len(p) + n].lines = l \o v[Len(r) + n].lines
    <2>1. p \in Seq(Piece) /\ q \in Seq(Piece) /\ l \in Seq(Seq(Piece)) /\ r \in Seq(Piece)
      BY <1>3
    <2>2. IsSplit(u, p \o q) /\ IsSplit(v, r \o q)
      BY <1>6, <1>7
    <2> QED
      BY <1>9, <1>10, <2>1, <2>2, SplitsFollow
  <1>12. /\ Len(q) \in 0..Len(q)
         /\ Len(p \o q) = Len(p) + Len(q) /\ Len(r \o q) = Len(r) + Len(q)
    OBVIOUS
  <1>13. /\ Split(p \o q).rest = Split(r \o q).rest
         /\ Split(p \o q).lines = l \o Split(r \o q).lines
    BY <1>6, <1>7, <1>11, <1>12
  <1> QED
    BY <1>4, <1>13 DEF Lines, Rest

-----------------------------------------------------------------------------
Formats == {"openai", "anthropic", "gemini"}
Usage == [seen : BOOLEAN, in : Nat, out : Nat]
Gathering == [tokens : Seq(Tokens), usage : Usage, done : BOOLEAN]

(* A token read is at the end of the ones before.                           *)
Extends(g, h) == /\ Len(g.tokens) =< Len(h.tokens)
                 /\ SubSeq(h.tokens, 1, Len(g.tokens)) = g.tokens

LEMMA TokensRead ==
  ASSUME NEW q \in Seq(Tokens), NEW c
  PROVE  LET r == IF c \in Tokens THEN Append(q, c) ELSE q
         IN  /\ r \in Seq(Tokens) /\ Len(q) =< Len(r) /\ SubSeq(r, 1, Len(q)) = q
  <1>1. CASE c \in Tokens
    <2> DEFINE r == Append(q, c)
    <2>1. r \in Seq(Tokens) /\ Len(q) \in Nat /\ Len(r) = Len(q) + 1 /\ \A i \in 1..Len(q) : r[i] = q[i]
      BY <1>1
    <2> HIDE DEF r
    <2>2. SubSeq(r, 1, Len(q)) = q
      BY <2>1
    <2> QED
      BY <1>1, <2>1, <2>2 DEF r
  <1>2. CASE c \notin Tokens
    <2>1. SubSeq(q, 1, Len(q)) = q /\ Len(q) =< Len(q)
      OBVIOUS
    <2> QED
      BY <1>2, <2>1
  <1> QED
    BY <1>1, <1>2

LEMMA ReplacingIs ==
  ASSUME NEW u \in Usage, NEW c
  PROVE  Replacing(u, c) \in Usage
  BY DEF Replacing, Count, Usage

LEMMA EnlargedIs ==
  ASSUME NEW u \in Usage, NEW c
  PROVE  Enlarged(u, c) \in Usage
  <1>1. PICK s \in BOOLEAN, i \in Nat, o \in Nat : u = [seen |-> s, in |-> i, out |-> o]
    BY DEF Usage
  <1>2. Count(c) \in Nat /\ Larger(i, Count(c)) \in Nat /\ Larger(o, Count(c)) \in Nat
    BY DEF Count, Larger
  <1>3. CASE c \in {"in1", "in2"}
    <2>1. Enlarged(u, c) = [u EXCEPT !.seen = TRUE, !.in = Larger(@, Count(c))]
      BY <1>3 DEF Enlarged
    <2>2. Enlarged(u, c) = [seen |-> TRUE, in |-> Larger(i, Count(c)), out |-> o]
      BY <1>1, <2>1
    <2> QED
      BY <1>2, <2>2 DEF Usage
  <1>4. CASE c \in {"out1", "out2"}
    <2>1. Enlarged(u, c) = [u EXCEPT !.seen = TRUE, !.out = Larger(@, Count(c))]
      BY <1>4 DEF Enlarged
    <2>2. Enlarged(u, c) = [seen |-> TRUE, in |-> i, out |-> Larger(o, Count(c))]
      BY <1>1, <2>1
    <2> QED
      BY <1>2, <2>2 DEF Usage
  <1>5. CASE c \notin {"in1", "in2"} /\ c \notin {"out1", "out2"}
    BY <1>5 DEF Enlarged
  <1> QED
    BY <1>3, <1>4, <1>5

LEMMA LineIs ==
  ASSUME NEW f \in Formats, NEW g \in Gathering, NEW line \in Seq(Piece)
  PROVE  /\ ReadLine(f, g, line) \in Gathering
         /\ Extends(g, ReadLine(f, g, line))
         /\ f # "openai" => ReadLine(f, g, line).done = g.done
         /\ f = "openai" /\ g.done => ReadLine(f, g, line) = g
  <1> DEFINE c == line[2]
  <1>1. PICK q \in Seq(Tokens), u \in Usage, d \in BOOLEAN :
          g = [tokens |-> q, usage |-> u, done |-> d]
    BY DEF Gathering
  <1> DEFINE r == IF c \in Tokens THEN Append(q, c) ELSE q
  <1>2. r \in Seq(Tokens) /\ Len(q) =< Len(r) /\ SubSeq(r, 1, Len(q)) = q
    BY TokensRead
  <1>3. Extends(g, g)
    BY <1>1 DEF Extends
  <1>4. CASE Len(line) # 2
    BY <1>3, <1>4 DEF ReadLine
  <1>5. CASE Len(line) = 2 /\ f = "openai"
    <2>1. ReadLine(f, g, line) = OpenAiLine(g, c)
      BY <1>5 DEF ReadLine
    <2> HIDE DEF c, r
    <2>2. CASE d
      <3>1. OpenAiLine(g, c) = g
        BY <1>1, <2>2 DEF OpenAiLine
      <3> QED
        BY <1>3, <1>5, <2>1, <3>1
    <2>3. CASE ~ d
      <3>1. OpenAiLine(g, c) = [tokens |-> r, usage |-> Replacing(u, c), done |-> c = "[DONE]"]
        BY <1>1, <2>3 DEF OpenAiLine, r
      <3>2. Replacing(u, c) \in Usage
        BY ReplacingIs
      <3>3. PICK e \in BOOLEAN : e = (c = "[DONE]")
        OBVIOUS
      <3>4. ReadLine(f, g, line) = [tokens |-> r, usage |-> Replacing(u, c), done |-> e]
        BY <2>1, <3>1, <3>3
      <3>5. ReadLine(f, g, line) \in Gathering
        BY <1>2, <3>2, <3>4 DEF Gathering
      <3>6. Extends(g, ReadLine(f, g, line))
        BY <1>1, <1>2, <3>4 DEF Extends
      <3>7. ~ g.done
        BY <1>1, <2>3
      <3> QED
        BY <1>5, <3>5, <3>6, <3>7
    <2> QED
      BY <2>2, <2>3
  <1>6. CASE Len(line) = 2 /\ f = "gemini"
    <2>1. ReadLine(f, g, line) = GeminiLine(g, c)
      BY <1>6 DEF ReadLine
    <2> HIDE DEF c, r
    <2>2. GeminiLine(g, c) = [tokens |-> r, usage |-> Replacing(u, c), done |-> d]
      <3>1. g.tokens = q /\ g.usage = u
        BY <1>1
      <3>2. GeminiLine(g, c) = [g EXCEPT !.tokens = r, !.usage = Replacing(u, c)]
        BY <3>1 DEF GeminiLine, r
      <3> QED
        BY <1>1, <3>2
    <2>3. Replacing(u, c) \in Usage
      BY ReplacingIs
    <2> QED
      BY <1>1, <1>2, <1>6, <2>1, <2>2, <2>3 DEF Gathering, Extends
  <1>7. CASE Len(line) = 2 /\ f = "anthropic"
    <2>1. ReadLine(f, g, line) = AnthropicLine(g, c)
      BY <1>7 DEF ReadLine
    <2> HIDE DEF c, r
    <2>2. AnthropicLine(g, c) = [tokens |-> r, usage |-> Enlarged(u, c), done |-> d]
      <3>1. g.tokens = q /\ g.usage = u
        BY <1>1
      <3>2. AnthropicLine(g, c) = [g EXCEPT !.tokens = r, !.usage = Enlarged(u, c)]
        BY <3>1 DEF AnthropicLine, r
      <3> QED
        BY <1>1, <3>2
    <2>3. Enlarged(u, c) \in Usage
      BY EnlargedIs
    <2> QED
      BY <1>1, <1>2, <1>7, <2>1, <2>2, <2>3 DEF Gathering, Extends
  <1> QED
    BY <1>4, <1>5, <1>6, <1>7 DEF Formats

(* h is the table of what a reader of f has gathered from ls, on top of g.  *)
IsGathering(h, f, g, ls) ==
  /\ h \in [0..Len(ls) -> Gathering] /\ h[0] = g
  /\ \A n \in 1..Len(ls) : h[n] = ReadLine(f, h[n - 1], ls[n])

LEMMA GatheringTable ==
  ASSUME NEW f \in Formats, NEW g \in Gathering, NEW ls \in Seq(Seq(Piece))
  PROVE  \E h : IsGathering(h, f, g, ls) /\ Gathered(f, g, ls) = h[Len(ls)]
  <1> DEFINE N == Len(ls)
             Eq(h) == h = [n \in 0..N |-> IF n = 0 THEN g ELSE ReadLine(f, h[n - 1], ls[n])]
             next == [n \in 1..N |-> [d \in Gathering |-> ReadLine(f, d, ls[n])]]
  <1>1. N \in Nat /\ \A n \in 1..N : ls[n] \in Seq(Piece)
    OBVIOUS
  <1>2. \A d \in Gathering, x \in Seq(Piece) : ReadLine(f, d, x) \in Gathering
    BY LineIs
  <1>3. next \in [1..N -> [Gathering -> Gathering]]
    BY <1>1, <1>2
  <1>4. \A n \in 1..N, d \in Gathering : next[n][d] = ReadLine(f, d, ls[n])
    OBVIOUS
  <1>5. Gathered(f, g, ls) = (CHOOSE h : Eq(h))[N]
    BY DEF Gathered
  <1> HIDE DEF next, N
  <1>6a. \E h : IsTable(h, N, Gathering, g, next)
    BY <1>1, <1>3, TableExists
  <1>6. PICK h \in [0..N -> Gathering] :
          h[0] = g /\ \A n \in 1..N : h[n] = next[n][h[n - 1]]
    BY <1>6a DEF IsTable
  <1>7. Eq(h)
    <2>1. \A n \in 0..N : h[n] = IF n = 0 THEN g ELSE ReadLine(f, h[n - 1], ls[n])
      <3> SUFFICES ASSUME NEW n \in 0..N, n # 0 PROVE h[n] = ReadLine(f, h[n - 1], ls[n])
        BY <1>6
      <3>1. n \in 1..N /\ n - 1 \in 0..N
        BY <1>1
      <3>2. h[n - 1] \in Gathering
        BY <1>6, <3>1
      <3> QED
        BY <1>4, <1>6, <3>1, <3>2
    <2> QED
      BY <1>6, <2>1
  <1> DEFINE s == CHOOSE k : Eq(k)
  <1>8. Eq(s)
    BY <1>7
  <1> HIDE DEF s
  <1>9. s[0] = g /\ \A n \in 1..N : s[n] = ReadLine(f, s[n - 1], ls[n])
    BY <1>1, <1>8
  <1>12. s = [n \in 0..N |-> s[n]]
    BY <1>8
  <1> HIDE DEF Eq
  <1>11. \A n \in 0..N : s[n] \in Gathering
    <2> DEFINE W == {n \in 0..N : s[n] \in Gathering}
    <2>1. 0 \in W
      BY <1>1, <1>9
    <2>2. ASSUME NEW n \in 1..N, n - 1 \in W PROVE n \in W
      <3>1. s[n - 1] \in Gathering /\ ls[n] \in Seq(Piece)
        BY <1>1, <2>2
      <3>2. ReadLine(f, s[n - 1], ls[n]) \in Gathering
        BY <1>2, <3>1
      <3> QED
        BY <1>1, <1>9, <3>2
    <2>3. \A n \in 1..N : n - 1 \in W => n \in W
      BY <2>2
    <2> HIDE DEF W
    <2>4. \A n \in 0..N : n \in W
      BY <1>1, <2>1, <2>3, IntervalInduction
    <2> QED
      BY <2>4 DEF W
  <1>13. s \in [0..N -> Gathering]
    BY <1>11, <1>12
  <1>14. IsGathering(s, f, g, ls)
    BY <1>9, <1>13 DEF IsGathering, N
  <1>15. Gathered(f, g, ls) = s[Len(ls)]
    BY <1>5 DEF s, N
  <1> QED
    BY <1>14, <1>15

LEMMA ExtendsOn ==
  ASSUME NEW g \in Gathering, NEW h \in Gathering, NEW k \in Gathering,
         Extends(g, h), Extends(h, k)
  PROVE  Extends(g, k)
  <1> DEFINE a == g.tokens
             b == h.tokens
             c == k.tokens
  <1>1. a \in Seq(Tokens) /\ b \in Seq(Tokens) /\ c \in Seq(Tokens)
    BY DEF Gathering
  <1>2. /\ Len(a) =< Len(b) /\ SubSeq(b, 1, Len(a)) = a
        /\ Len(b) =< Len(c) /\ SubSeq(c, 1, Len(b)) = b
    BY DEF Extends
  <1> HIDE DEF a, b, c
  <1>3. Len(a) \in Nat /\ Len(b) \in Nat /\ Len(c) \in Nat
    BY <1>1
  <1>4. \A i \in 1..Len(b) : c[i] = b[i]
    <2>1. \A i \in 1..Len(b) : SubSeq(c, 1, Len(b))[i] = c[i]
      BY <1>1, <1>2, <1>3
    <2> QED
      BY <1>2, <2>1
  <1>5. \A i \in 1..Len(a) : b[i] = a[i]
    <2>1. \A i \in 1..Len(a) : SubSeq(b, 1, Len(a))[i] = b[i]
      BY <1>1, <1>2, <1>3
    <2> QED
      BY <1>2, <2>1
  <1>6. \A i \in 1..Len(a) : c[i] = a[i]
    BY <1>2, <1>3, <1>4, <1>5
  <1>7. SubSeq(c, 1, Len(a)) = a
    BY <1>1, <1>2, <1>3, <1>6
  <1> QED
    BY <1>2, <1>3, <1>7 DEF Extends, a, b, c

(* What a reader gathers extends what it had, and OpenAI's stops at its     *)
(* last line.                                                              *)
LEMMA GatheredIs ==
  ASSUME NEW f \in Formats, NEW g \in Gathering, NEW ls \in Seq(Seq(Piece))
  PROVE  /\ Gathered(f, g, ls) \in Gathering
         /\ Extends(g, Gathered(f, g, ls))
         /\ f # "openai" => Gathered(f, g, ls).done = g.done
         /\ f = "openai" /\ g.done => Gathered(f, g, ls) = g
  <1> DEFINE N == Len(ls)
             Good(k) == /\ Extends(g, k)
                        /\ f # "openai" => k.done = g.done
                        /\ f = "openai" /\ g.done => k = g
  <1>1. PICK h : IsGathering(h, f, g, ls) /\ Gathered(f, g, ls) = h[N]
    BY GatheringTable
  <1>2. N \in Nat /\ \A n \in 1..N : ls[n] \in Seq(Piece)
    OBVIOUS
  <1> DEFINE W == {n \in 0..N : Good(h[n])}
  <1>3. 0 \in W
    <2>1. g.tokens \in Seq(Tokens)
      BY DEF Gathering
    <2>2. Extends(g, g)
      BY <2>1 DEF Extends
    <2> QED
      BY <1>1, <1>2, <2>2 DEF IsGathering
  <1>4. ASSUME NEW n \in 1..N, n - 1 \in W PROVE n \in W
    <2>0. n - 1 \in 0..N /\ n \in 0..N /\ n \in 1..N
      BY <1>2
    <2>1a. h \in [0..N -> Gathering]
      BY <1>1 DEF IsGathering
    <2>1b. h[n] = ReadLine(f, h[n - 1], ls[n])
      BY <1>1, <2>0 DEF IsGathering
    <2>1. h[n - 1] \in Gathering /\ h[n] \in Gathering /\ h[n] = ReadLine(f, h[n - 1], ls[n])
      BY <2>0, <2>1a, <2>1b
    <2>2. PICK k \in Gathering : k = h[n - 1]
      BY <2>1
    <2>3. PICK x \in Seq(Piece) : x = ls[n]
      BY <1>2
    <2>4. /\ ReadLine(f, k, x) \in Gathering
          /\ Extends(k, ReadLine(f, k, x))
          /\ f # "openai" => ReadLine(f, k, x).done = k.done
          /\ f = "openai" /\ k.done => ReadLine(f, k, x) = k
      BY LineIs
    <2>5. Good(k)
      BY <1>4, <2>2
    <2>6. h[n] = ReadLine(f, k, x)
      BY <2>1, <2>2, <2>3
    <2>7. Extends(g, h[n])
      BY <2>4, <2>5, <2>6, ExtendsOn
    <2>8. Good(h[n])
      BY <2>4, <2>5, <2>6, <2>7
    <2> HIDE DEF Good
    <2> QED
      BY <1>2, <2>8
  <1>5. \A n \in 1..N : n - 1 \in W => n \in W
    BY <1>4
  <1> HIDE DEF W
  <1>6. \A n \in 0..N : n \in W
    BY <1>2, <1>3, <1>5, IntervalInduction
  <1>7. N \in 0..N
    BY <1>2
  <1>8. N \in W
    BY <1>6, <1>7
  <1>9. Good(h[N])
    BY <1>8 DEF W
  <1>10. h[N] \in Gathering
    BY <1>1, <1>7 DEF IsGathering
  <1> QED
    BY <1>1, <1>9, <1>10

(* Lines may be read in two turns.                                          *)
LEMMA GatheredInTurns ==
  ASSUME NEW f \in Formats, NEW g \in Gathering,
         NEW a \in Seq(Seq(Piece)), NEW b \in Seq(Seq(Piece))
  PROVE  Gathered(f, g, a \o b) = Gathered(f, Gathered(f, g, a), b)
  <1> DEFINE A == Len(a)
             B == Len(b)
  <1>1. /\ A \in Nat /\ B \in Nat /\ Len(a \o b) = A + B
        /\ a \o b \in Seq(Seq(Piece))
        /\ \A n \in 1..A : (a \o b)[n] = a[n]
        /\ \A n \in 1..B : (a \o b)[A + n] = b[n]
    OBVIOUS
  <1>2. PICK h : IsGathering(h, f, g, a) /\ Gathered(f, g, a) = h[A]
    BY GatheringTable
  <1>3. PICK m \in Gathering : m = Gathered(f, g, a)
    BY GatheredIs
  <1>4. PICK k : IsGathering(k, f, m, b) /\ Gathered(f, m, b) = k[B]
    BY GatheringTable
  <1>5. PICK u : IsGathering(u, f, g, a \o b) /\ Gathered(f, g, a \o b) = u[A + B]
    <2>1. PICK c : c = a \o b
      OBVIOUS
    <2>2. c \in Seq(Seq(Piece)) /\ Len(c) = A + B
      BY <1>1, <2>1
    <2>3. \E u : IsGathering(u, f, g, c) /\ Gathered(f, g, c) = u[Len(c)]
      BY <2>2, GatheringTable
    <2> QED
      BY <2>1, <2>2, <2>3
  <1>6. u[A] = h[A]
    <2> DEFINE W == {n \in 0..A : u[n] = h[n]}
    <2>1. 0 \in W
      BY <1>1, <1>2, <1>5 DEF IsGathering
    <2>2. ASSUME NEW n \in 1..A, n - 1 \in W PROVE n \in W
      <3>1. n \in 1..(A + B)
        BY <1>1
      <3>2. u[n] = ReadLine(f, u[n - 1], (a \o b)[n]) /\ h[n] = ReadLine(f, h[n - 1], a[n])
        BY <1>1, <1>2, <1>5, <3>1 DEF IsGathering
      <3> QED
        BY <1>1, <2>2, <3>2
    <2>3. \A n \in 1..A : n - 1 \in W => n \in W
      BY <2>2
    <2> HIDE DEF W
    <2>4. \A n \in 0..A : n \in W
      BY <1>1, <2>1, <2>3, IntervalInduction
    <2> QED
      BY <1>1, <2>4 DEF W
  <1>7. u[A + B] = k[B]
    <2> DEFINE W == {n \in 0..B : u[A + n] = k[n]}
    <2>1. 0 \in W
      <3>1. k[0] = m /\ A + 0 = A /\ 0 \in 0..B
        BY <1>1, <1>4 DEF IsGathering
      <3> QED
        BY <1>2, <1>3, <1>6, <3>1
    <2>2. ASSUME NEW n \in 1..B, n - 1 \in W PROVE n \in W
      <3>1. A + n \in 1..(A + B) /\ (A + n) - 1 = A + (n - 1)
        BY <1>1
      <3>2. /\ u[A + n] = ReadLine(f, u[A + (n - 1)], (a \o b)[A + n])
            /\ k[n] = ReadLine(f, k[n - 1], b[n])
        BY <1>1, <1>4, <1>5, <3>1 DEF IsGathering
      <3>3. u[A + (n - 1)] = k[n - 1] /\ (a \o b)[A + n] = b[n]
        BY <1>1, <2>2
      <3>4. u[A + n] = k[n]
        BY <3>2, <3>3
      <3> QED
        BY <1>1, <3>4
    <2>3. \A n \in 1..B : n - 1 \in W => n \in W
      BY <2>2
    <2> HIDE DEF W
    <2>4. \A n \in 0..B : n \in W
      BY <1>1, <2>1, <2>3, IntervalInduction
    <2> QED
      BY <1>1, <2>4 DEF W
  <1> QED
    BY <1>3, <1>4, <1>5, <1>7

-----------------------------------------------------------------------------
(* What arrived, and what its lines say.                                   *)
Arrived == SubSeq(sent, 1, read)
Said(b) == Gathered(format, Fresh, Lines(b))

(* While a reply is read, the buffer is what is left over of what arrived,  *)
(* and what is gathered is what its lines say, the last one not among them; *)
(* an answer is what the lines of the whole reply say.                      *)
StreamInv ==
  /\ format \in Formats /\ sent \in Seq(Piece) /\ read \in 0..Len(sent)
  /\ output \in Seq(Tokens) /\ usage \in Usage /\ shown = output
  /\ reader = "reading" =>
       /\ buf = Rest(Arrived)
       /\ Said(Arrived).tokens = output /\ Said(Arrived).usage = usage
       /\ Said(Arrived).done = FALSE
  /\ reader = "ok" => Said(sent).tokens = output /\ Said(sent).usage = usage

LEMMA GatheringParts ==
  ASSUME NEW g \in Gathering
  PROVE  g.tokens \in Seq(Tokens) /\ g.usage \in Usage /\ g.done \in BOOLEAN
  BY DEF Gathering

LEMMA FreshIs == Fresh \in Gathering
  BY DEF Fresh, NoUsage, Gathering, Usage

LEMMA SaidIs ==
  ASSUME NEW b \in Seq(Piece), format \in Formats
  PROVE  Said(b) \in Gathering /\ (format # "openai" => Said(b).done = FALSE)
  <1>1. Lines(b) \in Seq(Seq(Piece))
    BY LinesAcrossACut
  <1>2. Fresh.done = FALSE
    BY DEF Fresh
  <1>3. PICK f \in Formats : f = format
    OBVIOUS
  <1>4. PICK ls \in Seq(Seq(Piece)) : ls = Lines(b)
    BY <1>1
  <1>5. /\ Gathered(f, Fresh, ls) \in Gathering
        /\ f # "openai" => Gathered(f, Fresh, ls).done = Fresh.done
    BY FreshIs, GatheredIs
  <1> QED
    BY <1>2, <1>3, <1>4, <1>5 DEF Said

(* What a longer reply says is what is gathered on top of what the first of *)
(* it says, of the lines left over and those that follow.                   *)
LEMMA SaidInTurns ==
  ASSUME NEW p \in Seq(Piece), NEW q \in Seq(Piece), format \in Formats
  PROVE  /\ Said(p \o q) = Gathered(format, Said(p), Lines(Rest(p) \o q))
         /\ Rest(p \o q) = Rest(Rest(p) \o q)
         /\ Lines(Rest(p) \o q) \in Seq(Seq(Piece))
  <1>1. /\ Lines(p) \in Seq(Seq(Piece)) /\ Rest(p) \in Seq(Piece)
        /\ Lines(p \o q) = Lines(p) \o Lines(Rest(p) \o q)
        /\ Rest(p \o q) = Rest(Rest(p) \o q)
    BY LinesAcrossACut
  <1>2. PICK r \in Seq(Piece) : r = Rest(p)
    BY <1>1
  <1>3a. r \o q \in Seq(Piece)
    OBVIOUS
  <1>3. PICK b \in Seq(Piece) : b = r \o q
    BY <1>3a, Zenon
  <1>4. PICK new \in Seq(Seq(Piece)) : new = Lines(b)
    BY LinesAcrossACut
  <1>5. PICK old \in Seq(Seq(Piece)) : old = Lines(p)
    BY <1>1
  <1>6. PICK f \in Formats : f = format
    OBVIOUS
  <1>7. Gathered(f, Fresh, old \o new) = Gathered(f, Gathered(f, Fresh, old), new)
    BY FreshIs, GatheredInTurns
  <1>8. Lines(p \o q) = old \o new
    BY <1>1, <1>2, <1>3, <1>4, <1>5
  <1>9. Said(p \o q) = Gathered(f, Fresh, old \o new) /\ Said(p) = Gathered(f, Fresh, old)
    BY <1>5, <1>6, <1>8 DEF Said
  <1> QED
    BY <1>1, <1>2, <1>3, <1>4, <1>6, <1>7, <1>9

LEMMA StreamInitially == StreamInit => StreamInv
  <1> SUFFICES ASSUME StreamInit PROVE StreamInv
    OBVIOUS
  <1>1. /\ format \in Formats /\ sent \in Seq(Piece) /\ read = 0 /\ buf = << >>
        /\ shown = << >> /\ output = << >> /\ usage = NoUsage /\ reader = "reading"
    BY StreamAssumption DEF StreamInit, Formats
  <1>2. Arrived = << >> /\ << >> \in Seq(Piece) /\ Len(sent) \in Nat
    BY <1>1 DEF Arrived
  <1>3. PICK e \in Seq(Piece) : e = << >>
    BY <1>2
  <1>4. PICK s : IsSplit(s, e) /\ Split(e) = s[Len(e)]
    BY SplitTable
  <1>5. Split(e) = Nil
    BY <1>3, <1>4 DEF IsSplit
  <1>6. Lines(e) = << >> /\ Rest(e) = << >>
    BY <1>5 DEF Lines, Rest, Nil
  <1>7a. << >> \in Seq(Seq(Piece))
    OBVIOUS
  <1>7. PICK ls \in Seq(Seq(Piece)) : ls = << >>
    BY <1>7a, Zenon
  <1>8. PICK f \in Formats : f = format
    BY <1>1
  <1>9. PICK h : IsGathering(h, f, Fresh, ls) /\ Gathered(f, Fresh, ls) = h[Len(ls)]
    BY FreshIs, GatheringTable
  <1>10. Gathered(f, Fresh, ls) = Fresh
    BY <1>7, <1>9 DEF IsGathering
  <1>11. Said(Arrived) = Fresh
    BY <1>2, <1>3, <1>6, <1>7, <1>8, <1>10 DEF Said
  <1>12. Fresh.tokens = << >> /\ Fresh.usage = NoUsage /\ Fresh.done = FALSE
    BY DEF Fresh
  <1>13. output \in Seq(Tokens) /\ usage \in Usage
    BY <1>1 DEF NoUsage, Usage
  <1> QED
    BY <1>1, <1>2, <1>3, <1>6, <1>11, <1>12, <1>13 DEF StreamInv

LEMMA ReceiveKeeps ==
  ASSUME StreamInv, Receive
  PROVE  StreamInv'
  <1>1. /\ format \in Formats /\ sent \in Seq(Piece) /\ read \in 0..Len(sent)
        /\ output \in Seq(Tokens) /\ usage \in Usage /\ shown = output
        /\ reader = "reading" /\ buf = Rest(Arrived)
        /\ Said(Arrived).tokens = output /\ Said(Arrived).usage = usage
        /\ Said(Arrived).done = FALSE
    BY DEF StreamInv, Receive
  <1>2. format' = format /\ sent' = sent
    BY DEF Receive
  <1> DEFINE G(b) == Gathered(format, [tokens |-> output, usage |-> usage, done |-> FALSE],
                              Lines(b))
  <1>3. PICK n \in 1..(Len(sent) - read) :
          /\ read' = read + n
          /\ IF Len(buf \o Chunk(n)) > MaxBuffer
             THEN reader' = "err" /\ UNCHANGED <<buf, shown, output, usage>>
             ELSE /\ buf' = Rest(buf \o Chunk(n))
                  /\ output' = G(buf \o Chunk(n)).tokens /\ usage' = G(buf \o Chunk(n)).usage
                  /\ shown' = shown \o SubSeq(G(buf \o Chunk(n)).tokens, Len(output) + 1,
                                              Len(G(buf \o Chunk(n)).tokens))
                  /\ reader' = IF G(buf \o Chunk(n)).done THEN "ok" ELSE reader
    BY DEF Receive
  <1>4. /\ Len(sent) \in Nat /\ read \in Nat /\ n \in Nat /\ read + n \in 0..Len(sent)
        /\ read \in 0..(read + n) /\ read + n =< Len(sent)
    BY <1>1
  <1>5. CASE Len(buf \o Chunk(n)) > MaxBuffer
    <2>1. reader' = "err" /\ shown' = shown /\ output' = output /\ usage' = usage
      BY <1>3, <1>5
    <2> QED
      BY <1>1, <1>2, <1>3, <1>4, <2>1 DEF StreamInv
  <1>6. CASE ~ (Len(buf \o Chunk(n)) > MaxBuffer)
    <2>0. Arrived \in Seq(Piece) /\ Chunk(n) \in Seq(Piece)
      BY <1>1, <1>4 DEF Arrived, Chunk
    <2>1. PICK p \in Seq(Piece) : p = Arrived
      BY <2>0, Zenon
    <2>2. PICK q \in Seq(Piece) : q = Chunk(n)
      BY <2>0, Zenon
    <2>3. p \o q = SubSeq(sent, 1, read + n)
      <3>1. /\ 1 \in 1..Len(sent) + 1 /\ read \in 1 - 1..Len(sent)
            /\ read + n \in read..Len(sent)
        BY <1>4
      <3>2. SubSeq(sent, 1, read) \o SubSeq(sent, read + 1, read + n) = SubSeq(sent, 1, read + n)
        BY <1>1, <3>1, ConcatAdjacentSubSeq
      <3> QED
        BY <2>1, <2>2, <3>2 DEF Arrived, Chunk
    <2>4. Arrived' = p \o q
      BY <1>2, <1>3, <2>3 DEF Arrived
    <2>5. PICK b : b = Rest(p) \o q
      OBVIOUS
    <2>6. buf \o Chunk(n) = b
      BY <1>1, <2>1, <2>2, <2>5
    <2>7. /\ Said(p \o q) = Gathered(format, Said(p), Lines(b))
          /\ Rest(p \o q) = Rest(b)
          /\ Lines(b) \in Seq(Seq(Piece))
      BY <1>1, <2>5, SaidInTurns
    <2>8. Said(p) = [tokens |-> output, usage |-> usage, done |-> FALSE]
      <3>1. Said(p) \in Gathering
        BY <1>1, SaidIs
      <3>2. Said(p).tokens = output /\ Said(p).usage = usage /\ Said(p).done = FALSE
        BY <1>1, <2>1
      <3> QED
        BY <3>1, <3>2 DEF Gathering
    <2>9. PICK g : g = Said(p \o q)
      OBVIOUS
    <2>10. G(b) = g
      BY <2>7, <2>8, <2>9
    <2>11. p \o q \in Seq(Piece)
      OBVIOUS
    <2>12. g \in Gathering /\ (format # "openai" => g.done = FALSE)
      BY <1>1, <2>9, <2>11, SaidIs
    <2>13. g.tokens \in Seq(Tokens) /\ g.usage \in Usage /\ g.done \in BOOLEAN
      BY <2>12, GatheringParts
    <2>14. /\ buf' = Rest(p \o q) /\ output' = g.tokens /\ usage' = g.usage
           /\ shown' = shown \o SubSeq(g.tokens, Len(output) + 1, Len(g.tokens))
           /\ reader' = IF g.done THEN "ok" ELSE reader
      <3> HIDE DEF G
      <3> QED
        BY <1>3, <1>6, <2>6, <2>7, <2>10
    <2>15. shown' = output'
      <3>1. Extends(Said(p), g)
        <4>1. Said(p) \in Gathering
          BY <1>1, SaidIs
        <4> QED
          BY <1>1, <2>7, <2>9, <4>1, GatheredIs
      <3>2. Len(output) =< Len(g.tokens) /\ SubSeq(g.tokens, 1, Len(output)) = output
        BY <1>1, <2>1, <3>1 DEF Extends
      <3>3. PICK t \in Seq(Tokens) : t = g.tokens
        BY <2>13
      <3>4. /\ 1 \in 1..Len(t) + 1 /\ Len(output) \in 1 - 1..Len(t)
            /\ Len(t) \in Len(output)..Len(t)
        BY <1>1, <3>2, <3>3
      <3>5. SubSeq(t, 1, Len(output)) \o SubSeq(t, Len(output) + 1, Len(t)) = SubSeq(t, 1, Len(t))
        BY <3>4, ConcatAdjacentSubSeq
      <3>6. SubSeq(t, 1, Len(t)) = t
        OBVIOUS
      <3> QED
        BY <1>1, <2>14, <3>2, <3>3, <3>5, <3>6
    <2>16. Said(Arrived)' = g
      BY <1>2, <2>4, <2>9 DEF Said
    <2>17. CASE g.done
      <3>1. reader' = "ok" /\ format = "openai"
        BY <2>12, <2>14, <2>17
      <3>2. PICK z \in Seq(Piece) : (p \o q) \o z = sent
        <4> DEFINE k == read + n
        <4>1. PICK z : z = SubSeq(sent, k + 1, Len(sent))
          OBVIOUS
        <4>2. z \in Seq(Piece)
          BY <1>1, <1>4, <4>1
        <4>3. /\ 1 \in 1..Len(sent) + 1 /\ k \in 1 - 1..Len(sent)
              /\ Len(sent) \in k..Len(sent)
          BY <1>4
        <4>4. SubSeq(sent, 1, k) \o SubSeq(sent, k + 1, Len(sent)) = SubSeq(sent, 1, Len(sent))
          BY <1>1, <4>3, ConcatAdjacentSubSeq
        <4>5. SubSeq(sent, 1, Len(sent)) = sent
          BY <1>1
        <4> QED
          BY <2>3, <4>1, <4>2, <4>4, <4>5
      <3>3. PICK w \in Seq(Piece) : w = p \o q
        BY <2>11
      <3>4. /\ Said(w \o z) = Gathered(format, Said(w), Lines(Rest(w) \o z))
            /\ Lines(Rest(w) \o z) \in Seq(Seq(Piece))
        BY <1>1, SaidInTurns
      <3>5. PICK ls \in Seq(Seq(Piece)) : ls = Lines(Rest(w) \o z)
        BY <3>4
      <3>6. Gathered(format, g, ls) = g
        BY <1>1, <2>12, <2>17, <3>1, GatheredIs
      <3>7. Said(sent) = g
        BY <2>9, <3>2, <3>3, <3>4, <3>5, <3>6
      <3>8. Said(sent)' = g
        BY <1>2, <3>7 DEF Said
      <3> QED
        BY <1>1, <1>2, <1>3, <1>4, <2>13, <2>14, <2>15, <3>1, <3>8 DEF StreamInv
    <2>18. CASE ~ g.done
      <3>1. reader' = "reading" /\ g.done = FALSE
        BY <1>1, <2>13, <2>14, <2>18
      <3>2. buf' = Rest(Arrived)'
        BY <2>4, <2>14
      <3> QED
        BY <1>1, <1>2, <1>3, <1>4, <2>13, <2>14, <2>15, <2>16, <3>1, <3>2 DEF StreamInv
    <2> QED
      BY <2>17, <2>18
  <1> QED
    BY <1>5, <1>6

(* An answer is what the lines of the reply say, however the reply was cut  *)
(* into chunks, for every reply and every limit of the buffer.              *)
THEOREM CutsDoNotMatterHolds == StreamSpec => []CutsDoNotMatter
  <1>1. StreamInit => StreamInv
    BY StreamInitially
  <1>2. StreamInv /\ [StreamNext]_streamVars => StreamInv'
    <2> SUFFICES ASSUME StreamInv, [StreamNext]_streamVars PROVE StreamInv'
      OBVIOUS
    <2>1. CASE Receive
      BY <2>1, ReceiveKeeps
    <2>2. CASE Closed
      <3>1. /\ reader = "reading" /\ read = Len(sent) /\ reader' = "ok"
            /\ UNCHANGED <<format, sent, read, shown, output, usage>>
        BY <2>2 DEF Closed
      <3>2. Arrived = sent
        BY <3>1 DEF Arrived, StreamInv
      <3>3. Said(sent).tokens = output /\ Said(sent).usage = usage
        BY <3>1, <3>2 DEF StreamInv
      <3>4. Said(sent)' = Said(sent)
        BY <3>1 DEF Said
      <3> QED
        BY <3>1, <3>3, <3>4 DEF StreamInv
    <2>3. CASE Breaks
      BY <2>3 DEF Breaks, StreamInv
    <2>4. CASE UNCHANGED streamVars
      <3>1. UNCHANGED <<format, sent, read, buf, shown, output, usage, reader>>
        BY <2>4 DEF streamVars
      <3>2. Arrived' = Arrived
        BY <3>1 DEF Arrived
      <3>3. Said(Arrived)' = Said(Arrived) /\ Said(sent)' = Said(sent)
        BY <3>1, <3>2 DEF Said
      <3> QED
        BY <3>1, <3>2, <3>3 DEF StreamInv
    <2> QED
      BY <2>1, <2>2, <2>3, <2>4 DEF StreamNext
  <1>3. StreamInv => CutsDoNotMatter
    BY DEF StreamInv, CutsDoNotMatter, Said
  <1> QED
    BY <1>1, <1>2, <1>3, PTL DEF StreamSpec
=============================================================================
