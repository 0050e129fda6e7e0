----------------------------- MODULE DataLemmas -----------------------------
(***************************************************************************)
(* Facts about data that the other proofs need: induction over the subsets  *)
(* of a finite set and up an interval, stated for a set W instead of a      *)
(* predicate, and that a recursion up an interval is defined; what the      *)
(* community modules' sum over a set computes, a fold that takes the        *)
(* elements in an order nobody knows (SumTakesOut says that any order gives *)
(* the same); what is in a sequence; and what a fold that leaves out one    *)
(* kind of element leaves (OmittedKeeps).                                   *)
(***************************************************************************)
EXTENDS Integers, FiniteSets, SequencesExt, FiniteSetTheorems, WellFoundedInduction, TLAPS

(* The element the fold takes first.                                       *)
First(s) == CHOOSE x \in s : TRUE

(* it is the table of the sums of f over the subsets of S.                  *)
Tabulates(it, f, S) ==
  it = [s \in SUBSET S |-> IF s = {} THEN 0 ELSE f[First(s)] + it[s \ {First(s)}]]

(* A set that has every subset whose proper subsets it has has them all.    *)
LEMMA SubsetInduction ==
  ASSUME NEW A, IsFiniteSet(A), NEW W,
         \A s \in SUBSET A : (\A t \in SUBSET s : t # s => t \in W) => s \in W
  PROVE  \A s \in SUBSET A : s \in W
  <1> DEFINE R == StrictSubsetOrdering(A)
             T == (SUBSET A) \ W
  <1> SUFFICES ASSUME T # {} PROVE FALSE
    OBVIOUS
  <1>1. IsWellFoundedOn(R, SUBSET A)
    <2>1. IsWellFoundedOn(R, FiniteSubsetsOf(A))
      BY FS_StrictSubsetOrderingWellFounded
    <2>2. FiniteSubsetsOf(A) = SUBSET A
      BY FS_FiniteSubsetsOfFinite
    <2> HIDE DEF R
    <2> QED
      BY <2>1, <2>2
  <1>2. T \subseteq SUBSET A
    OBVIOUS
  <1> HIDE DEF R
  <1>3. PICK s \in T : \A t \in T : ~ (<<t, s>> \in R)
    <2> HIDE DEF T
    <2> QED
      BY <1>1, <1>2, WFMin
  <1>4. \A t \in SUBSET s : t # s => t \in W
    <2> SUFFICES ASSUME NEW t \in SUBSET s, t # s, t \notin W PROVE FALSE
      OBVIOUS
    <2>1. t \in SUBSET A /\ t \in T
      OBVIOUS
    <2>2. <<t, s>> \in R
      BY <2>1 DEF R, StrictSubsetOrdering
    <2> QED
      BY <1>3, <2>1, <2>2
  <1> QED
    BY <1>4

(* A set of numbers that is not empty has a least one.                     *)
LEMMA LeastNumber ==
  ASSUME NEW T \in SUBSET Nat, T # {}
  PROVE  \E x \in T : \A y \in T : x =< y
  <1> DEFINE U == {1..n : n \in T}
             R == StrictSubsetOrdering(Nat)
  <1>1. IsWellFoundedOn(R, FiniteSubsetsOf(Nat))
    BY FS_StrictSubsetOrderingWellFounded
  <1>2. U \subseteq FiniteSubsetsOf(Nat)
    BY FS_Interval DEF FiniteSubsetsOf
  <1>2a. U # {}
    OBVIOUS
  <1> HIDE DEF R, U
  <1>3. PICK u \in U : \A v \in U : ~ (<<v, u>> \in R)
    BY <1>1, <1>2, <1>2a, WFMin
  <1>4. PICK x \in T : u = 1..x
    BY DEF U
  <1>5. ASSUME NEW y \in T, y < x PROVE FALSE
    <2>1. 1..y \in U
      BY DEF U
    <2>2. 1..y \subseteq 1..x /\ x \in 1..x /\ x \notin 1..y
      BY <1>5
    <2>3. 1..x \in SUBSET Nat /\ 1..y \in SUBSET Nat
      OBVIOUS
    <2> QED
      BY <1>3, <1>4, <2>1, <2>2, <2>3 DEF R, StrictSubsetOrdering
  <1> QED
    BY <1>5

(* Induction up an interval.                                                *)
LEMMA IntervalInduction ==
  ASSUME NEW N \in Nat, NEW W, 0 \in W,
         \A n \in 1..N : n - 1 \in W => n \in W
  PROVE  \A n \in 0..N : n \in W
  <1> DEFINE T == (0..N) \ W
  <1> SUFFICES ASSUME T # {} PROVE FALSE
    OBVIOUS
  <1>1. T \in SUBSET Nat
    OBVIOUS
  <1>2. PICK x \in T : \A y \in T : x =< y
    <2> HIDE DEF T
    <2> QED
      BY <1>1, LeastNumber
  <1>3. x \in 1..N
    OBVIOUS
  <1>4. x - 1 \in 0..N /\ ~ (x =< x - 1)
    BY <1>3
  <1>5. x - 1 \in W
    BY <1>2, <1>4
  <1> QED
    BY <1>3, <1>5

(* h is the table of a recursion up an interval.                            *)
IsTable(h, m, D, first, next) ==
  h \in [0..m -> D] /\ h[0] = first /\ \A n \in 1..m : h[n] = next[n][h[n - 1]]

(* Such a recursion is defined: it has a table.                             *)
LEMMA TableExists ==
  ASSUME NEW N \in Nat, NEW D, NEW first \in D, NEW next \in [1..N -> [D -> D]]
  PROVE  \E h : IsTable(h, N, D, first, next)
  <1> DEFINE W == {m \in 0..N : \E h : IsTable(h, m, D, first, next)}
  <1>1. 0 \in W
    <2>1. IsTable([n \in 0..0 |-> first], 0, D, first, next)
      BY DEF IsTable
    <2> QED
      BY <2>1
  <1>2. ASSUME NEW m \in 1..N, m - 1 \in W PROVE m \in W
    <2>1. PICK h : IsTable(h, m - 1, D, first, next)
      BY <1>2
    <2> DEFINE k == [n \in 0..m |-> IF n = m THEN next[m][h[m - 1]] ELSE h[n]]
    <2>2. h[m - 1] \in D
      BY <2>1 DEF IsTable
    <2>3. next[m][h[m - 1]] \in D
      BY <2>2
    <2>4. k \in [0..m -> D]
      BY <2>1, <2>3 DEF IsTable
    <2>5. k[0] = first
      BY <2>1 DEF IsTable
    <2>6. ASSUME NEW n \in 1..m PROVE k[n] = next[n][k[n - 1]]
      <3>1. n - 1 \in 0..m /\ n - 1 # m /\ k[n - 1] = h[n - 1]
        BY <2>6
      <3>2. n # m => h[n] = next[n][h[n - 1]]
        BY <2>1 DEF IsTable
      <3> QED
        BY <3>1, <3>2
    <2> HIDE DEF k
    <2>7. IsTable(k, m, D, first, next)
      BY <2>4, <2>5, <2>6 DEF IsTable
    <2> QED
      BY <2>7
  <1> HIDE DEF W
  <1>3. \A n \in 1..N : n - 1 \in W => n \in W
    BY <1>2
  <1>4. \A n \in 0..N : n \in W
    BY <1>1, <1>3, IntervalInduction
  <1>5. N \in W
    BY <1>4
  <1> QED
    BY <1>5 DEF W

(* The sum is an entry of the table.                                        *)
LEMMA SumIsTabulated ==
  ASSUME NEW f, NEW S
  PROVE  SumFunctionOnSet(f, S) = (CHOOSE it : Tabulates(it, f, S))[S]
  <1>1. SumFunctionOnSet(f, S) = 
          LET iter[s \in SUBSET S] ==
                IF s = {} THEN 0
                ELSE LET x == CHOOSE y \in s : TRUE
                     IN  f[x] + iter[s \ {x}]
          IN  iter[S]
    BY DEF SumFunctionOnSet, FoldFunctionOnSet, MapThenFoldSet
  <1> QED
    BY <1>1 DEF Tabulates, First

(* The recursion of the fold is well defined: there is such a table, and    *)
(* only one.                                                               *)
LEMMA SumUnfolds ==
  ASSUME NEW A, IsFiniteSet(A), NEW f \in [A -> Nat]
  PROVE  \A S \in SUBSET A :
           SumFunctionOnSet(f, S) =
             IF S = {} THEN 0
             ELSE f[First(S)] + SumFunctionOnSet(f, S \ {First(S)})
  <1> DEFINE Value(S) == IF S = {} THEN 0
                         ELSE f[First(S)] + SumFunctionOnSet(f, S \ {First(S)})
             W == {S \in SUBSET A : SumFunctionOnSet(f, S) = Value(S)}
  <1>1. ASSUME NEW S \in SUBSET A, \A t \in SUBSET S : t # S => t \in W
        PROVE  S \in W
    <2> DEFINE h == [t \in SUBSET S |-> Value(t)]
    <2>0. \A t \in SUBSET S : t # {} => First(t) \in t /\ t \ {First(t)} \in SUBSET S /\ t \ {First(t)} # S
      BY DEF First
    <2>1. \A t \in SUBSET S : t # S => h[t] = SumFunctionOnSet(f, t)
      BY <1>1
    <2>2. Tabulates(h, f, S)
      <3>1. \A t \in SUBSET S :
              Value(t) = IF t = {} THEN 0 ELSE f[First(t)] + h[t \ {First(t)}]
        BY <2>0, <2>1
      <3> HIDE DEF Value
      <3> QED
        BY <3>1 DEF Tabulates
    <2>3. ASSUME NEW it, Tabulates(it, f, S) PROVE it[S] = h[S]
      <3> DEFINE Same == {t \in SUBSET S : it[t] = h[t]}
      <3>1. ASSUME NEW t \in SUBSET S, \A u \in SUBSET t : u # t => u \in Same
            PROVE  t \in Same
        <4>1. it[t] = IF t = {} THEN 0 ELSE f[First(t)] + it[t \ {First(t)}]
          BY <2>3 DEF Tabulates
        <4>2. h[t] = IF t = {} THEN 0 ELSE f[First(t)] + h[t \ {First(t)}]
          BY <2>2 DEF Tabulates
        <4>3. t # {} => it[t \ {First(t)}] = h[t \ {First(t)}]
          <5> SUFFICES ASSUME t # {} PROVE it[t \ {First(t)}] = h[t \ {First(t)}]
            OBVIOUS
          <5>1. First(t) \in t
            BY <2>0
          <5>2. t \ {First(t)} \in SUBSET t /\ t \ {First(t)} # t
            BY <5>1
          <5> HIDE DEF h
          <5> QED
            BY <3>1, <5>2
        <4> HIDE DEF h
        <4> QED
          BY <4>1, <4>2, <4>3
      <3>2. IsFiniteSet(S)
        BY FS_Subset
      <3> HIDE DEF Same
      <3>3. \A t \in SUBSET S : t \in Same
        BY <3>1, <3>2, SubsetInduction
      <3> QED
        BY <3>3 DEF Same
    <2>4. SumFunctionOnSet(f, S) = h[S]
      <3> HIDE DEF h
      <3> QED
        BY <2>2, <2>3, SumIsTabulated
    <2> QED
      BY <2>4
  <1> HIDE DEF W
  <1>2. \A S \in SUBSET A : S \in W
    BY <1>1, SubsetInduction
  <1> QED
    BY <1>2 DEF W

(* A sum of naturals is a natural.                                          *)
LEMMA SumIsNatural ==
  ASSUME NEW A, IsFiniteSet(A), NEW f \in [A -> Nat]
  PROVE  \A S \in SUBSET A : SumFunctionOnSet(f, S) \in Nat
  <1> DEFINE W == {S \in SUBSET A : SumFunctionOnSet(f, S) \in Nat}
  <1>1. ASSUME NEW S \in SUBSET A, \A t \in SUBSET S : t # S => t \in W
        PROVE  S \in W
    <2>1. CASE S = {}
      <3>1. SumFunctionOnSet(f, S) = 0
        BY <2>1, SumUnfolds
      <3> QED
        BY <3>1
    <2>2. CASE S # {}
      <3>1. First(S) \in S
        BY <2>2 DEF First
      <3>2. SumFunctionOnSet(f, S \ {First(S)}) \in Nat
        BY <1>1, <3>1
      <3>3. SumFunctionOnSet(f, S) = f[First(S)] + SumFunctionOnSet(f, S \ {First(S)})
        BY <2>2, SumUnfolds
      <3> QED
        BY <3>1, <3>2, <3>3
    <2> QED
      BY <2>1, <2>2
  <1> HIDE DEF W
  <1>2. \A S \in SUBSET A : S \in W
    BY <1>1, SubsetInduction
  <1> QED
    BY <1>2 DEF W

(* Any element can be the one that is added last.                          *)
LEMMA SumTakesOut ==
  ASSUME NEW A, IsFiniteSet(A), NEW f \in [A -> Nat]
  PROVE  \A S \in SUBSET A : \A x \in S :
           SumFunctionOnSet(f, S) = f[x] + SumFunctionOnSet(f, S \ {x})
  <1> DEFINE Total(S) == SumFunctionOnSet(f, S)
             W == {S \in SUBSET A : \A x \in S : Total(S) = f[x] + Total(S \ {x})}
  <1>0. \A S \in SUBSET A : Total(S) \in Nat
    BY SumIsNatural
  <1>1. ASSUME NEW S \in SUBSET A, \A t \in SUBSET S : t # S => t \in W
        PROVE  S \in W
    <2> SUFFICES ASSUME NEW x \in S PROVE Total(S) = f[x] + Total(S \ {x})
      OBVIOUS
    <2> DEFINE y == First(S)
    <2>1. y \in S
      BY DEF First
    <2>2. Total(S) = f[y] + Total(S \ {y})
      BY <2>1, SumUnfolds
    <2>3. CASE x = y
      BY <2>2, <2>3
    <2>4. CASE x # y
      <3>1. Total(S \ {y}) = f[x] + Total((S \ {y}) \ {x})
        <4>1. S \ {y} \in W /\ x \in S \ {y}
          BY <1>1, <2>1, <2>4
        <4> QED
          BY <4>1
      <3>2. Total(S \ {x}) = f[y] + Total((S \ {x}) \ {y})
        <4>1. S \ {x} \in W /\ y \in S \ {x}
          BY <1>1, <2>1, <2>4
        <4> QED
          BY <4>1
      <3>3. (S \ {x}) \ {y} = (S \ {y}) \ {x} /\ (S \ {x}) \ {y} \in SUBSET A
        OBVIOUS
      <3>4. f[x] \in Nat /\ f[y] \in Nat /\ Total((S \ {x}) \ {y}) \in Nat
        BY <1>0, <2>1, <3>3
      <3> HIDE DEF Total, y
      <3> QED
        BY <2>2, <3>1, <3>2, <3>3, <3>4
    <2> QED
      BY <2>3, <2>4
  <1> HIDE DEF W
  <1>2. \A S \in SUBSET A : S \in W
    BY <1>1, SubsetInduction
  <1> QED
    BY <1>2 DEF W

(* Only the values on the set count.                                       *)
LEMMA SumAgrees ==
  ASSUME NEW A, IsFiniteSet(A), NEW f \in [A -> Nat], NEW g \in [A -> Nat],
         NEW S \in SUBSET A, \A x \in S : f[x] = g[x]
  PROVE  SumFunctionOnSet(f, S) = SumFunctionOnSet(g, S)
  <1> DEFINE W == {t \in SUBSET S : SumFunctionOnSet(f, t) = SumFunctionOnSet(g, t)}
  <1>1. ASSUME NEW t \in SUBSET S, \A u \in SUBSET t : u # t => u \in W
        PROVE  t \in W
    <2>1. t \in SUBSET A
      OBVIOUS
    <2>2. CASE t = {}
      BY <2>1, <2>2, SumUnfolds
    <2>3. CASE t # {}
      <3>1. First(t) \in t
        BY <2>3 DEF First
      <3>2. t \ {First(t)} \in W
        BY <1>1, <3>1
      <3>3. /\ SumFunctionOnSet(f, t) = f[First(t)] + SumFunctionOnSet(f, t \ {First(t)})
            /\ SumFunctionOnSet(g, t) = g[First(t)] + SumFunctionOnSet(g, t \ {First(t)})
        BY <2>1, <2>3, SumUnfolds
      <3> QED
        BY <3>1, <3>2, <3>3
    <2> QED
      BY <2>2, <2>3
  <1>2. IsFiniteSet(S)
    BY FS_Subset
  <1> HIDE DEF W
  <1>3. \A t \in SUBSET S : t \in W
    BY <1>1, <1>2, SubsetInduction
  <1> QED
    BY <1>3 DEF W

-----------------------------------------------------------------------------
(* Sequences.                                                              *)

(* x is in s; x is in s at most once.                                      *)
Has(s, x) == \E i \in DOMAIN s : s[i] = x
Once(s, x) == \A i, j \in DOMAIN s : s[i] = x /\ s[j] = x => i = j

(* A function on 1..n is a sequence of length n.                           *)
LEMMA SeqIs ==
  ASSUME NEW S, NEW n \in Nat, NEW s \in [1..n -> S]
  PROVE  s \in Seq(S) /\ Len(s) = n /\ DOMAIN s = 1..n
  <1>2. s \in Seq(S)
    OBVIOUS
  <1> QED
    BY <1>2

(* A sequence over a set is one over a larger set.                         *)
LEMMA SeqWidens ==
  ASSUME NEW S, NEW T, S \subseteq T, NEW s \in Seq(S)
  PROVE  s \in Seq(T)
  OBVIOUS

(* A sequence with one element replaced.                                   *)
LEMMA SeqUpdated ==
  ASSUME NEW S, NEW s \in Seq(S), NEW f, NEW x \in S
  PROVE  /\ [s EXCEPT ![f] = x] \in Seq(S) /\ Len([s EXCEPT ![f] = x]) = Len(s)
         /\ DOMAIN [s EXCEPT ![f] = x] = DOMAIN s
         /\ \A g \in DOMAIN s : [s EXCEPT ![f] = x][g] = IF g = f THEN x ELSE s[g]
  <1> DEFINE u == [s EXCEPT ![f] = x]
             n == Len(s)
  <1>1. n \in Nat /\ DOMAIN s = 1..n /\ \A g \in 1..n : s[g] \in S
    OBVIOUS
  <1>2. u = [g \in DOMAIN s |-> IF g = f THEN x ELSE s[g]]
    OBVIOUS
  <1>3. \A g \in DOMAIN s : u[g] = IF g = f THEN x ELSE s[g]
    BY <1>2
  <1>4. u \in [1..n -> S]
    BY <1>1, <1>2
  <1> HIDE DEF u, n
  <1>6. u \in Seq(S) /\ Len(u) = n /\ DOMAIN u = 1..n
    BY <1>1, <1>4, SeqIs
  <1> QED
    BY <1>1, <1>3, <1>6 DEF u, n

(* A sequence with one element more: what is in it, and what is in it once.*)
LEMMA HasMore ==
  ASSUME NEW S, NEW s \in Seq(S), NEW x \in S
  PROVE  /\ Append(s, x) \in Seq(S)
         /\ \A y : Has(Append(s, x), y) <=> Has(s, y) \/ y = x
         /\ \A y : Once(s, y) /\ (y = x => ~Has(s, y)) => Once(Append(s, x), y)
  <1> DEFINE u == Append(s, x)
             n == Len(s)
  <1>1. /\ u \in Seq(S) /\ n \in Nat /\ DOMAIN s = 1..n /\ DOMAIN u = 1..(n + 1)
        /\ u[n + 1] = x /\ \A k \in 1..n : u[k] = s[k]
    OBVIOUS
  <1> HIDE DEF u, n
  <1>2. \A k \in 1..(n + 1) : k \in 1..n \/ k = n + 1
    BY <1>1
  <1>3. (\A k \in 1..n : k \in 1..(n + 1) /\ k # n + 1) /\ n + 1 \in 1..(n + 1)
    BY <1>1
  <1>4. \A y : Has(u, y) <=> Has(s, y) \/ y = x
    BY <1>1, <1>2, <1>3 DEF Has
  <1>5. ASSUME NEW y, Once(s, y), y = x => ~Has(s, y)
        PROVE  Once(u, y)
    BY <1>1, <1>2, <1>5 DEF Has, Once
  <1> QED
    BY <1>1, <1>4, <1>5 DEF u

-----------------------------------------------------------------------------
(* A sequence without the elements that are e, as a fold of it writes it.   *)
Omitted(s, e) ==
  FoldLeft(LAMBDA kept, x : IF x = e THEN kept ELSE Append(kept, x), << >>, s)

(* it is the table of the folds over the sets of positions in S.           *)
OmitsBy(it, s, e, S) ==
  it = [t \in SUBSET S |->
          IF t = {} THEN << >>
          ELSE IF s[Max(t)] = e THEN it[t \ {Max(t)}] ELSE Append(it[t \ {Max(t)}], s[Max(t)])]
OneMore(o, x, e) == IF x = e THEN o ELSE Append(o, x)
OmittedOn(s, e, S) == (CHOOSE it : OmitsBy(it, s, e, S))[S]

(* What is left is an entry of the table of folds.                          *)
LEMMA OmittedIs ==
  ASSUME NEW s, NEW e
  PROVE  Omitted(s, e) = OmittedOn(s, e, DOMAIN s)
  <1>1. Omitted(s, e) =
          LET iter[t \in SUBSET DOMAIN s] ==
                IF t = {} THEN << >>
                ELSE LET x == Max(t)
                     IN  IF s[x] = e THEN iter[t \ {x}] ELSE Append(iter[t \ {x}], s[x])
          IN  iter[DOMAIN s]
    BY DEF Omitted, FoldLeft, MapThenFoldSet
  <1> QED
    BY <1>1 DEF OmittedOn, OmitsBy

(* The largest of a set of positions, and of an interval.                   *)
LEMMA MaxIn ==
  ASSUME NEW n \in Nat
  PROVE  /\ \A t \in SUBSET (1..n) : t # {} => Max(t) \in t
         /\ \A k \in 1..n : Max(1..k) = k
  <1>1. ASSUME NEW t \in SUBSET (1..n), t # {} PROVE Max(t) \in t
    <2> DEFINE T == {n - x : x \in t}
    <2>1. T \in SUBSET Nat /\ T # {}
      BY <1>1
    <2>2. PICK y \in T : \A z \in T : y =< z
      BY <2>1, LeastNumber
    <2>3. PICK x \in t : y = n - x
      BY <2>2
    <2>4. \A z \in t : x >= z
      <3> SUFFICES ASSUME NEW z \in t PROVE x >= z
        OBVIOUS
      <3>1. n - z \in T
        OBVIOUS
      <3>2. y =< n - z
        BY <2>2, <3>1
      <3> QED
        BY <2>3, <3>2
    <2> QED
      BY <2>4 DEF Max
  <1>2. ASSUME NEW k \in 1..n PROVE Max(1..k) = k
    <2>1. k \in 1..k /\ \A y \in 1..k : k >= y
      OBVIOUS
    <2>2. \A x \in 1..k : (\A y \in 1..k : x >= y) => x = k
      BY <2>1
    <2> QED
      BY <2>1, <2>2 DEF Max
  <1> QED
    BY <1>1, <1>2

(* An entry comes from that of the positions before the last.               *)
LEMMA OmitUnfolds ==
  ASSUME NEW n \in Nat, NEW s, NEW e
  PROVE  \A S \in SUBSET (1..n) :
           OmittedOn(s, e, S) =
             IF S = {} THEN << >> ELSE OneMore(OmittedOn(s, e, S \ {Max(S)}), s[Max(S)], e)
  <1> DEFINE A == 1..n
             Value(S) == IF S = {} THEN << >>
                         ELSE IF s[Max(S)] = e THEN OmittedOn(s, e, S \ {Max(S)})
                         ELSE Append(OmittedOn(s, e, S \ {Max(S)}), s[Max(S)])
             W == {S \in SUBSET A : OmittedOn(s, e, S) = Value(S)}
  <1>0. IsFiniteSet(A)
    BY FS_Interval
  <1>1. ASSUME NEW S \in SUBSET A, \A t \in SUBSET S : t # S => t \in W
        PROVE  S \in W
    <2> DEFINE h == [t \in SUBSET S |-> Value(t)]
    <2>0. \A t \in SUBSET S : t # {} =>
             Max(t) \in t /\ t \ {Max(t)} \in SUBSET S /\ t \ {Max(t)} # S /\ t \ {Max(t)} # t
      BY MaxIn
    <2>1. \A t \in SUBSET S : t # S => h[t] = OmittedOn(s, e, t)
      BY <1>1
    <2>2. OmitsBy(h, s, e, S)
      <3>1. \A t \in SUBSET S :
              Value(t) = IF t = {} THEN << >>
                         ELSE IF s[Max(t)] = e THEN h[t \ {Max(t)}]
                         ELSE Append(h[t \ {Max(t)}], s[Max(t)])
        <4> HIDE DEF h
        <4> QED
          BY <2>0, <2>1
      <3> HIDE DEF Value
      <3> QED
        BY <3>1 DEF OmitsBy
    <2>3. ASSUME NEW it, OmitsBy(it, s, e, S) PROVE it[S] = h[S]
      <3> DEFINE Same == {t \in SUBSET S : it[t] = h[t]}
      <3>1. ASSUME NEW t \in SUBSET S, \A u \in SUBSET t : u # t => u \in Same
            PROVE  t \in Same
        <4>1. it[t] = IF t = {} THEN << >>
                      ELSE IF s[Max(t)] = e THEN it[t \ {Max(t)}]
                      ELSE Append(it[t \ {Max(t)}], s[Max(t)])
          BY <2>3 DEF OmitsBy
        <4>2. h[t] = IF t = {} THEN << >>
                     ELSE IF s[Max(t)] = e THEN h[t \ {Max(t)}]
                     ELSE Append(h[t \ {Max(t)}], s[Max(t)])
          <5> HIDE DEF h
          <5> QED
            BY <2>2 DEF OmitsBy
        <4>3. t # {} => it[t \ {Max(t)}] = h[t \ {Max(t)}]
          <5> SUFFICES ASSUME t # {} PROVE it[t \ {Max(t)}] = h[t \ {Max(t)}]
            OBVIOUS
          <5>1. t \ {Max(t)} \in SUBSET t /\ t \ {Max(t)} # t
            BY <2>0
          <5> HIDE DEF h
          <5> QED
            BY <3>1, <5>1
        <4> HIDE DEF h
        <4> QED
          BY <4>1, <4>2, <4>3
      <3>2. IsFiniteSet(S)
        BY <1>0, FS_Subset
      <3> HIDE DEF Same
      <3>3. \A t \in SUBSET S : t \in Same
        BY <3>1, <3>2, SubsetInduction
      <3> QED
        BY <3>3 DEF Same
    <2>4. OmittedOn(s, e, S) = h[S]
      <3> HIDE DEF h
      <3> QED
        BY <2>2, <2>3 DEF OmittedOn
    <2> QED
      BY <2>4
  <1> HIDE DEF W, A
  <1>2. \A S \in SUBSET A : S \in W
    BY <1>0, <1>1, SubsetInduction
  <1> QED
    BY <1>2 DEF W, A, OneMore

(* What is left of the first k elements when one of the e is.              *)
LEMMA OmittedPrefix ==
  ASSUME NEW n \in Nat, NEW s, NEW e
  PROVE  /\ OmittedOn(s, e, 1..0) = << >>
         /\ \A k \in 0..(n - 1) :
              OmittedOn(s, e, 1..(k + 1)) = OneMore(OmittedOn(s, e, 1..k), s[k + 1], e)
  <1>0. \A T \in SUBSET (1..n) :
          OmittedOn(s, e, T) = IF T = {} THEN << >>
                               ELSE OneMore(OmittedOn(s, e, T \ {Max(T)}), s[Max(T)], e)
    BY OmitUnfolds, ZenonT(30)
  <1>1. 1..0 = {} /\ 1..0 \in SUBSET (1..n)
    OBVIOUS
  <1>2. OmittedOn(s, e, 1..0) = << >>
    BY <1>0, <1>1
  <1>3. ASSUME NEW k \in 0..(n - 1)
        PROVE  OmittedOn(s, e, 1..(k + 1)) = OneMore(OmittedOn(s, e, 1..k), s[k + 1], e)
    <2> DEFINE m == k + 1
               S == 1..m
    <2>1. m \in 1..n /\ m \in S /\ S \in SUBSET (1..n)
      OBVIOUS
    <2>2. S \ {m} = 1..k
      <3>1. \A x \in S : x # m => x \in 1..k
        OBVIOUS
      <3>2. \A x \in 1..k : x \in S /\ x # m
        OBVIOUS
      <3> HIDE DEF S, m
      <3> QED
        BY <3>1, <3>2
    <2>3. Max(S) = m
      <3> HIDE DEF m
      <3> QED
        BY <2>1, MaxIn DEF S
    <2>4. OmittedOn(s, e, S) = OneMore(OmittedOn(s, e, 1..k), s[m], e)
      <3>1. S # {}
        BY <2>1
      <3>2. OmittedOn(s, e, S) =
              IF S = {} THEN << >>
              ELSE OneMore(OmittedOn(s, e, S \ {Max(S)}), s[Max(S)], e)
        <4> HIDE DEF S, m
        <4> QED
          BY <2>1, <1>0, Zenon
      <3>3. OmittedOn(s, e, S) = OneMore(OmittedOn(s, e, S \ {Max(S)}), s[Max(S)], e)
        <4> HIDE DEF S, m
        <4> QED
          BY <3>1, <3>2
      <3> HIDE DEF S, m
      <3> QED
        BY <2>2, <2>3, <3>3
    <2> QED
      BY <2>4
  <1> QED
    BY <1>2, <1>3

(* Nothing else is left out, and nothing is doubled.                       *)
LEMMA OmittedKeeps ==
  ASSUME NEW S, NEW s \in Seq(S), NEW e
  PROVE  /\ Omitted(s, e) \in Seq(S)
         /\ \A y : Has(Omitted(s, e), y) <=> Has(s, y) /\ y # e
         /\ \A y : Once(s, y) => Once(Omitted(s, e), y)
  <1> DEFINE n == Len(s)
             O(k) == OmittedOn(s, e, 1..k)
             Upto(k, y) == \E i \in 1..k : s[i] = y
             Good(k) == /\ O(k) \in Seq(S)
                        /\ \A y : Has(O(k), y) <=> Upto(k, y) /\ y # e
                        /\ \A y : Once(s, y) => Once(O(k), y)
             Bad == {k \in 0..n : ~Good(k)}
  <1>1. n \in Nat /\ DOMAIN s = 1..n /\ \A i \in 1..n : s[i] \in S
    OBVIOUS
  <1> HIDE DEF n
  <1>2. O(0) = << >>
    BY <1>1, OmittedPrefix
  <1>3. \A k \in 0..(n - 1) : O(k + 1) = OneMore(O(k), s[k + 1], e)
    BY <1>1, OmittedPrefix
  <1> HIDE DEF O
  <1>4. Good(0)
    <2>1. O(0) \in Seq(S) /\ DOMAIN O(0) = {}
      <3>1. << >> \in Seq(S) /\ DOMAIN << >> = {}
        OBVIOUS
      <3> QED
        BY <1>2, <3>1
    <2>2. \A y : ~Upto(0, y)
      OBVIOUS
    <2> QED
      BY <2>1, <2>2 DEF Has, Once
  <1>5. ASSUME NEW k \in 0..(n - 1), Good(k) PROVE Good(k + 1)
    <2> DEFINE x == s[k + 1]
    <2>0. k + 1 \in 1..n /\ x \in S
      BY <1>1
    <2>1. \A y : Upto(k + 1, y) <=> Upto(k, y) \/ y = x
      <3>1. \A i \in 1..(k + 1) : i \in 1..k \/ i = k + 1
        BY <1>1
      <3>2. k + 1 \in 1..(k + 1) /\ \A i \in 1..k : i \in 1..(k + 1)
        BY <1>1
      <3> QED
        BY <3>1, <3>2
    <2>2. \A y : Once(s, y) /\ y = x => ~Upto(k, y)
      <3> SUFFICES ASSUME Once(s, x), NEW i \in 1..k, s[i] = x PROVE FALSE
        OBVIOUS
      <3>1. i \in 1..n /\ i # k + 1
        BY <1>1
      <3> QED
        BY <1>1, <2>0, <3>1 DEF Once
    <2>3. CASE x = e
      <3>1. O(k + 1) = O(k)
        BY <1>3, <2>3 DEF OneMore
      <3> QED
        BY <1>5, <2>1, <2>3, <3>1
    <2>4. CASE x # e
      <3>1. O(k + 1) = Append(O(k), x)
        BY <1>3, <2>4 DEF OneMore
      <3> HIDE DEF x
      <3>2. /\ O(k + 1) \in Seq(S)
            /\ \A y : Has(O(k + 1), y) <=> Has(O(k), y) \/ y = x
            /\ \A y : Once(O(k), y) /\ (y = x => ~Has(O(k), y)) => Once(O(k + 1), y)
        <4> DEFINE o == O(k)
        <4>1. o \in Seq(S)
          BY <1>5
        <4> HIDE DEF o
        <4>2. /\ Append(o, x) \in Seq(S)
              /\ \A y : Has(Append(o, x), y) <=> Has(o, y) \/ y = x
              /\ \A y : Once(o, y) /\ (y = x => ~Has(o, y)) => Once(Append(o, x), y)
          BY <2>0, <4>1, HasMore
        <4> QED
          BY <3>1, <4>2 DEF o
      <3> HIDE DEF Upto
      <3> QED
        BY <1>5, <2>1, <2>2, <2>4, <3>2
    <2> QED
      BY <2>3, <2>4
  <1>6. Bad = {}
    <2> SUFFICES ASSUME Bad # {} PROVE FALSE
      OBVIOUS
    <2>1. Bad \in SUBSET Nat
      BY <1>1
    <2> HIDE DEF Good
    <2>2. PICK k \in Bad : \A l \in Bad : k =< l
      <3> HIDE DEF Bad
      <3> QED
        BY <2>1, LeastNumber
    <2>3. k # 0 /\ k \in 0..n /\ ~Good(k)
      BY <1>4, <2>2
    <2>4. k - 1 \in 0..(n - 1) /\ (k - 1) + 1 = k
      BY <1>1, <2>3
    <2>5. k - 1 \notin Bad
      BY <2>2, <2>3
    <2>6. Good(k - 1)
      BY <1>1, <2>4, <2>5
    <2> QED
      BY <1>5, <2>3, <2>4, <2>6
  <1>7. Good(n)
    BY <1>1, <1>6
  <1>8. Omitted(s, e) = O(n)
    BY <1>1, OmittedIs DEF O
  <1>9. \A y : Upto(n, y) <=> Has(s, y)
    BY <1>1 DEF Has
  <1> HIDE DEF Upto
  <1> QED
    BY <1>7, <1>8, <1>9

(* The rest of a sequence.                                                 *)
LEMMA TailOf ==
  ASSUME NEW S, NEW q \in Seq(S), q # << >>
  PROVE  /\ Len(q) \in Nat \ {0} /\ Head(q) = q[1] /\ DOMAIN q = 1..Len(q)
         /\ Tail(q) \in Seq(S) /\ Len(Tail(q)) = Len(q) - 1
         /\ \A k \in 1..Len(q) - 1 : Tail(q)[k] = q[k + 1]
         /\ Len(q) = 1 => Tail(q) = << >>
         /\ Len(q) # 1 => Tail(q) # << >> /\ Last(Tail(q)) = Last(q)
  <1> DEFINE t == Tail(q)
  <1>1. /\ Len(q) \in Nat \ {0} /\ Head(q) = q[1] /\ t \in Seq(S) /\ Len(t) = Len(q) - 1
        /\ DOMAIN q = 1..Len(q) /\ \A k \in 1..Len(q) - 1 : t[k] = q[k + 1]
    OBVIOUS
  <1> HIDE DEF t
  <1>2. \A z \in Seq(S) : z = << >> <=> Len(z) = 0
    OBVIOUS
  <1>3. t = << >> <=> Len(q) = 1
    BY <1>1, <1>2
  <1>4. ASSUME Len(q) # 1 PROVE Last(t) = Last(q)
    <2>1. Len(q) - 1 \in 1..Len(q) - 1 /\ Len(q) - 1 + 1 = Len(q)
      BY <1>1, <1>4
    <2> QED
      BY <1>1, <2>1 DEF Last
  <1> QED
    BY <1>1, <1>3, <1>4 DEF t

(* One element more.                                                       *)
LEMMA Appended ==
  ASSUME NEW S, NEW q \in Seq(S), NEW x \in S
  PROVE  /\ Append(q, x) \in Seq(S) /\ DOMAIN q \subseteq DOMAIN Append(q, x)
         /\ \A i \in DOMAIN q : Append(q, x)[i] = q[i]
         /\ \A i \in DOMAIN Append(q, x) : i \in DOMAIN q \/ Append(q, x)[i] = x
         /\ \A i, j \in DOMAIN Append(q, x) : i \in DOMAIN q \/ j \in DOMAIN q \/ i = j
  <1> DEFINE a == Append(q, x)
  <1>1. /\ a \in Seq(S) /\ Len(q) \in Nat /\ DOMAIN q = 1..Len(q) /\ DOMAIN a = 1..Len(q) + 1
        /\ \A i \in 1..Len(q) : a[i] = q[i]
        /\ a[Len(q) + 1] = x
    OBVIOUS
  <1> HIDE DEF a
  <1>2. \A i \in 1..Len(q) + 1 : i \in 1..Len(q) \/ i = Len(q) + 1
    BY <1>1
  <1>3. 1..Len(q) \subseteq 1..Len(q) + 1
    BY <1>1
  <1> QED
    BY <1>1, <1>2, <1>3 DEF a
=============================================================================
