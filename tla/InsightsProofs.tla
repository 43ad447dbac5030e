----------------------------- MODULE InsightsProofs -----------------------------
(***************************************************************************)
(* Theorems about Insights, for any sessions, projects, scales and times.  *)
(*                                                                         *)
(* Induction over data is by a least counterexample: LeastNumber.          *)
(***************************************************************************)
EXTENDS Insights, TLAPS, FiniteSetTheorems, SequenceTheorems, WellFoundedInduction

-----------------------------------------------------------------------------
(* Recursion over the subsets of a finite set. *)

(* Every set of naturals that is not empty has a least element. *)
LEMMA LeastNumber ==
    ASSUME NEW T \in SUBSET Nat, T # {}
    PROVE  \E n \in T : \A m \in T : n <= m
<1> DEFINE R == {ss \in Nat \X Nat : ss[1] < ss[2]}
<1>1. IsWellFoundedOn(R, Nat)
  <2>1. IsWellFoundedOn(OpToRel(<, Nat), Nat)
    BY NatLessThanWellFounded
  <2>2. OpToRel(<, Nat) = R
    BY DEF OpToRel
  <2> QED BY <2>1, <2>2
<1> HIDE DEF R
<1>2. PICK n \in T : \A m \in T : ~ (<<m, n>> \in R)
  BY <1>1, WFMin
<1>3. \A m \in T : ~ (m < n)
  BY <1>2 DEF R
<1> QED BY <1>2, <1>3

(* The first size for which a set of sizes has no member is zero or the    *)
(* successor of one for which it has.                                      *)
LEMMA CountingUp ==
    ASSUME NEW G, 0 \in G, \A k \in Nat : k \in G => k + 1 \in G
    PROVE  Nat \subseteq G
<1> SUFFICES ASSUME Nat \ G # {} PROVE FALSE
  OBVIOUS
<1>1. PICK n \in Nat \ G : \A m \in Nat \ G : n <= m
  BY LeastNumber
<1>2. n - 1 \in Nat /\ n - 1 \notin Nat \ G
  BY <1>1
<1> QED BY <1>1, <1>2

(* A fold over the subsets of D, of which pick chooses the element to fold *)
(* next, is defined, and its values are of the kind that step makes.       *)
Picks(pick, D) == \A s \in SUBSET D : s # {} => pick[s] \in s
Steps(step, D, V) == \A x \in D, v \in V : step[x][v] \in V
IsFold(g, D, base, pick, step) == \A s \in SUBSET D :
    g[s] = IF s = {} THEN base ELSE step[pick[s]][g[s \ {pick[s]}]]

LEMMA FoldExists ==
    ASSUME NEW D, IsFiniteSet(D), NEW V, NEW base \in V,
           NEW pick, Picks(pick, D), NEW step, Steps(step, D, V)
    PROVE  \E g \in [SUBSET D -> V] : IsFold(g, D, base, pick, step)
<1> USE DEF Picks, Steps, IsFold
<1> DEFINE Level(k) == {s \in SUBSET D : Cardinality(s) <= k}
           Folds(k) == \E g \in [Level(k) -> V] : \A s \in Level(k) :
              g[s] = IF s = {} THEN base ELSE step[pick[s]][g[s \ {pick[s]}]]
           G == {k \in Nat : Folds(k)}
<1>1. \A s \in SUBSET D : IsFiniteSet(s) /\ Cardinality(s) \in Nat /\ (Cardinality(s) = 0 <=> s = {})
  BY FS_Subset, FS_CardinalityType, FS_EmptySet
<1>2. \A s \in SUBSET D : s # {} =>
         s \ {pick[s]} \in SUBSET D /\ Cardinality(s \ {pick[s]}) = Cardinality(s) - 1
  BY <1>1, FS_RemoveElement
<1>3. 0 \in G
  <2>1. \A s \in Level(0) : s = {}
    BY <1>1
  <2>2. [s \in Level(0) |-> base] \in [Level(0) -> V]
    OBVIOUS
  <2> QED BY <2>1, <2>2
<1>4. ASSUME NEW k \in Nat, k \in G PROVE k + 1 \in G
  <2>1. PICK g \in [Level(k) -> V] : \A s \in Level(k) :
           g[s] = IF s = {} THEN base ELSE step[pick[s]][g[s \ {pick[s]}]]
    BY <1>4
  <2> DEFINE h == [s \in Level(k + 1) |->
                     IF s \in Level(k) THEN g[s] ELSE step[pick[s]][g[s \ {pick[s]}]]]
  <2>2. \A s \in Level(k + 1) : s # {} => s \ {pick[s]} \in Level(k) /\ pick[s] \in D
    BY <1>1, <1>2
  <2>3. \A s \in Level(k + 1) : s \notin Level(k) => s # {}
    BY <1>1
  <2>4. Level(k) \subseteq Level(k + 1)
    BY <1>1
  <2>5. h \in [Level(k + 1) -> V]
    <3>1. ASSUME NEW s \in Level(k + 1) PROVE h[s] \in V
      <4>1. CASE s \in Level(k)
        <5>1. h[s] = g[s]
          BY <4>1
        <5> QED BY <4>1, <5>1
      <4>2. CASE s \notin Level(k)
        <5>1. h[s] = step[pick[s]][g[s \ {pick[s]}]]
          BY <4>2
        <5>2. s \ {pick[s]} \in Level(k) /\ pick[s] \in D
          BY <2>2, <2>3, <4>2
        <5>3. g[s \ {pick[s]}] \in V
          BY <5>2
        <5> HIDE DEF h, Level
        <5> QED BY <5>1, <5>2, <5>3
      <4> QED BY <4>1, <4>2
    <3> QED BY <3>1
  <2>6. ASSUME NEW s \in Level(k + 1)
        PROVE  h[s] = IF s = {} THEN base ELSE step[pick[s]][h[s \ {pick[s]}]]
    <3>1. s # {} => s \ {pick[s]} \in Level(k + 1) /\ h[s \ {pick[s]}] = g[s \ {pick[s]}]
      <4>1. ASSUME NEW u \in Level(k) PROVE u \in Level(k + 1) /\ h[u] = g[u]
        <5>1. u \in Level(k + 1)
          <6> HIDE DEF Level
          <6> QED BY <2>4
        <5> QED BY <5>1
      <4> HIDE DEF h, Level
      <4> QED BY <2>2, <4>1
    <3>2. CASE s \in Level(k)
      <4>1. h[s] = g[s]
        BY <3>2
      <4> QED BY <2>1, <3>1, <3>2, <4>1
    <3>3. CASE s \notin Level(k)
      <4>1. h[s] = step[pick[s]][g[s \ {pick[s]}]]
        BY <3>3
      <4>2. s # {}
        BY <2>3, <3>3
      <4> HIDE DEF h, Level
      <4> QED BY <3>1, <4>1, <4>2
    <3> QED BY <3>2, <3>3
  <2>7. Folds(k + 1)
    <3> HIDE DEF h, Level
    <3> QED BY <2>5, <2>6
  <2>8. k + 1 \in Nat
    OBVIOUS
  <2> HIDE DEF Folds
  <2> QED BY <2>7, <2>8
<1>5. Nat \subseteq G
  <2> HIDE DEF G
  <2> QED BY <1>3, <1>4, CountingUp
<1>6. Cardinality(D) \in Nat /\ Level(Cardinality(D)) = SUBSET D
  BY FS_CardinalityType, FS_Subset
<1>7. PICK S : S = Level(Cardinality(D))
  OBVIOUS
<1>8. \E g \in [S -> V] : \A s \in S :
         g[s] = IF s = {} THEN base ELSE step[pick[s]][g[s \ {pick[s]}]]
  <2>1. Folds(Cardinality(D))
    BY <1>5, <1>6
  <2> QED BY <2>1, <1>7
<1>9. S = SUBSET D
  BY <1>6, <1>7
<1> QED BY <1>8, <1>9

(* Induction over the subsets of a finite set, G being those for which     *)
(* what is to be shown holds.                                              *)
LEMMA SubsetInduction ==
    ASSUME NEW D, IsFiniteSet(D), NEW G,
           \A s \in SUBSET D : (\A x \in s : s \ {x} \in G) => s \in G
    PROVE  \A s \in SUBSET D : s \in G
<1> DEFINE H == {k \in Nat : \A s \in SUBSET D : Cardinality(s) <= k => s \in G}
<1>1. \A s \in SUBSET D : IsFiniteSet(s) /\ Cardinality(s) \in Nat /\ (Cardinality(s) = 0 <=> s = {})
  BY FS_Subset, FS_CardinalityType, FS_EmptySet
<1>2. 0 \in H
  <2>1. \A s \in SUBSET D : Cardinality(s) <= 0 => s = {}
    BY <1>1
  <2> QED BY <2>1
<1>3. ASSUME NEW k \in Nat, k \in H PROVE k + 1 \in H
  <2>1. ASSUME NEW s \in SUBSET D, Cardinality(s) <= k + 1 PROVE s \in G
    <3>1. ASSUME NEW x \in s PROVE s \ {x} \in G
      <4>1. Cardinality(s \ {x}) = Cardinality(s) - 1
        BY <1>1, FS_RemoveElement
      <4>2. Cardinality(s \ {x}) <= k
        BY <1>1, <2>1, <4>1
      <4> QED BY <1>3, <4>2
    <3> QED BY <3>1
  <2> QED BY <2>1
<1>4. Nat \subseteq H
  <2> HIDE DEF H
  <2> QED BY <1>2, <1>3, CountingUp
<1> QED BY <1>1, <1>4

LEMMA ImageIsFinite ==
    ASSUME NEW S, IsFiniteSet(S), NEW f
    PROVE  LET T == {f[x] : x \in S}
           IN  IsFiniteSet(T) /\ Cardinality(T) <= Cardinality(S)
<1>1. PICK T : T = {f[x] : x \in S}
  OBVIOUS
<1>2. [x \in S |-> f[x]] \in Surjection(S, T)
  BY <1>1 DEF Surjection
<1> QED BY <1>1, <1>2, FS_Surjection

(* Sums of a function over the parts of its domain, in whatever order.     *)
Chosen(s) == CHOOSE x \in s : TRUE
IsChosenSum(g, D, f) ==
    /\ g \in [SUBSET D -> Int]
    /\ \A s \in SUBSET D : g[s] = IF s = {} THEN 0 ELSE f[Chosen(s)] + g[s \ {Chosen(s)}]

LEMMA SumFold ==
    ASSUME NEW f, IsFiniteSet(DOMAIN f), \A x \in DOMAIN f : f[x] \in Int
    PROVE  \E g : IsChosenSum(g, DOMAIN f, f) /\ SumFunction(f) = g[DOMAIN f]
<1> DEFINE D == DOMAIN f
           pick == [s \in SUBSET D |-> CHOOSE x \in s : TRUE]
           step == [x \in D |-> [v \in Int |-> f[x] + v]]
           IsIter(i) == i = [s \in SUBSET D |->
                     IF s = {} THEN 0
                     ELSE f[CHOOSE x \in s : TRUE] + i[s \ {CHOOSE x \in s : TRUE}]]
           iter == CHOOSE i : IsIter(i)
<1>1. Picks(pick, D)
  BY DEF Picks
<1>2. Steps(step, D, Int)
  BY DEF Steps
<1>3. PICK g \in [SUBSET D -> Int] : IsFold(g, D, 0, pick, step)
  <2>1. 0 \in Int
    OBVIOUS
  <2> HIDE DEF D, pick, step
  <2>2. IsFiniteSet(D)
    BY DEF D
  <2> QED BY <1>1, <1>2, <2>1, <2>2, FoldExists
<1>4. \A s \in SUBSET D : g[s] =
         IF s = {} THEN 0
         ELSE f[CHOOSE x \in s : TRUE] + g[s \ {CHOOSE x \in s : TRUE}]
  BY <1>1, <1>3 DEF Picks, IsFold
<1>5. IsIter(g)
  BY <1>4
<1>6. IsIter(iter)
  <2> HIDE DEF IsIter
  <2> QED BY <1>5
<1>7. SumFunction(f) = iter[D]
  BY DEF SumFunction, SumFunctionOnSet, FoldFunctionOnSet, MapThenFoldSet
<1>8. \A s \in SUBSET D : iter[s] = g[s]
  <2> DEFINE G == {s \in SUBSET D : iter[s] = g[s]}
  <2>1. ASSUME NEW s \in SUBSET D, \A x \in s : s \ {x} \in G PROVE s \in G
    <3>1. iter[s] = IF s = {} THEN 0
                    ELSE f[CHOOSE x \in s : TRUE] + iter[s \ {CHOOSE x \in s : TRUE}]
      BY <1>6
    <3>2. s # {} => (CHOOSE x \in s : TRUE) \in s
      OBVIOUS
    <3> HIDE DEF iter
    <3> QED BY <1>4, <2>1, <3>1, <3>2
  <2>2. \A s \in SUBSET D : s \in G
    <3> HIDE DEF G
    <3> QED BY <2>1, SubsetInduction
  <2> QED BY <2>2
<1> QED BY <1>4, <1>7, <1>8 DEF IsChosenSum, Chosen

(* What the sum of f over each part of D comes to. *)
IsSum(g, D, f) ==
    /\ g \in [SUBSET D -> Int] /\ g[{}] = 0
    /\ \A s \in SUBSET D : \A x \in s : g[s] = f[x] + g[s \ {x}]

LEMMA Sums ==
    ASSUME NEW D, IsFiniteSet(D), NEW f, \A x \in D : f[x] \in Int
    PROVE  \E g : IsSum(g, D, f) /\ \A s \in SUBSET D : SumFunction([x \in s |-> f[x]]) = g[s]
<1>1. PICK h : h = [x \in D |-> f[x]]
  OBVIOUS
<1>2. PICK g : IsChosenSum(g, D, h)
  <2>1. DOMAIN h = D /\ \A x \in D : h[x] \in Int
    BY <1>1
  <2>2. IsFiniteSet(DOMAIN h) /\ \A x \in DOMAIN h : h[x] \in Int
    BY <2>1
  <2> QED BY <2>1, <2>2, SumFold
<1>3. \A s \in SUBSET D : s # {} => Chosen(s) \in s /\ h[Chosen(s)] = f[Chosen(s)]
  BY <1>1 DEF Chosen
<1> USE DEF IsChosenSum
<1>4. \A s \in SUBSET D : \A x \in s : g[s] = f[x] + g[s \ {x}]
  <2> DEFINE G == {s \in SUBSET D : \A x \in s : g[s] = f[x] + g[s \ {x}]}
  <2>1. ASSUME NEW s \in SUBSET D, \A x \in s : s \ {x} \in G PROVE s \in G
    <3>1. ASSUME NEW x \in s PROVE g[s] = f[x] + g[s \ {x}]
      <4>1. PICK y \in s : g[s] = f[y] + g[s \ {y}]
        BY <1>2, <1>3
      <4>2. CASE x = y
        BY <4>1, <4>2
      <4>3. CASE x # y
        <5>1. g[s \ {y}] = f[x] + g[(s \ {y}) \ {x}]
          BY <2>1, <4>3
        <5>2. g[s \ {x}] = f[y] + g[(s \ {x}) \ {y}]
          BY <2>1, <4>3
        <5>3. (s \ {y}) \ {x} = (s \ {x}) \ {y} /\ (s \ {x}) \ {y} \in SUBSET D
          OBVIOUS
        <5>4. g[(s \ {x}) \ {y}] \in Int /\ f[x] \in Int /\ f[y] \in Int
          BY <1>2, <5>3
        <5>5. g[(s \ {y}) \ {x}] = g[(s \ {x}) \ {y}]
          BY <5>3
        <5>6. PICK a, b, v : a = f[x] /\ b = f[y] /\ v = g[(s \ {x}) \ {y}]
          OBVIOUS
        <5>7. a \in Int /\ b \in Int /\ v \in Int
          BY <5>4, <5>6
        <5>8. g[s] = b + (a + v) /\ f[x] + g[s \ {x}] = a + (b + v)
          BY <4>1, <5>1, <5>2, <5>5, <5>6
        <5> QED BY <5>7, <5>8
      <4> QED BY <4>2, <4>3
    <3> QED BY <3>1
  <2>2. \A s \in SUBSET D : s \in G
    <3> HIDE DEF G
    <3> QED BY <2>1, SubsetInduction
  <2> QED BY <2>2
<1>5. ASSUME NEW E \in SUBSET D PROVE SumFunction([x \in E |-> f[x]]) = g[E]
  <2>1. PICK e : e = [x \in E |-> f[x]]
    OBVIOUS
  <2>2. IsFiniteSet(E)
    BY FS_Subset
  <2>3. PICK i : IsChosenSum(i, E, e) /\ SumFunction(e) = i[E]
    <3> HIDE DEF IsChosenSum
    <3>1. DOMAIN e = E /\ \A x \in E : e[x] \in Int
      BY <2>1
    <3>2. IsFiniteSet(DOMAIN e) /\ \A x \in DOMAIN e : e[x] \in Int
      BY <2>2, <3>1
    <3> QED BY <3>1, <3>2, SumFold
  <2> DEFINE G == {s \in SUBSET E : i[s] = g[s]}
  <2>4. ASSUME NEW s \in SUBSET E, \A x \in s : s \ {x} \in G PROVE s \in G
    <3>1. s # {} => Chosen(s) \in s /\ e[Chosen(s)] = h[Chosen(s)]
      BY <1>1, <1>3, <2>1
    <3>2. s # {} => i[s \ {Chosen(s)}] = g[s \ {Chosen(s)}]
      BY <2>4, <3>1
    <3> QED BY <1>2, <2>3, <3>1, <3>2
  <2>5. \A s \in SUBSET E : s \in G
    <3> HIDE DEF G
    <3> QED BY <2>2, <2>4, SubsetInduction
  <2>6. E \in G
    BY <2>5
  <2> QED BY <2>1, <2>3, <2>6
<1>6. g[{}] = 0
  BY <1>2
<1> QED BY <1>2, <1>4, <1>5, <1>6 DEF IsSum

(* Sums of parts. *)
LEMMA SumOfUnion ==
    ASSUME NEW D, IsFiniteSet(D), NEW f, \A x \in D : f[x] \in Int, NEW g, IsSum(g, D, f),
           NEW A \in SUBSET D, NEW B \in SUBSET D, A \cap B = {}
    PROVE  g[A \cup B] = g[A] + g[B]
<1> DEFINE G == {s \in SUBSET D : s \cap B = {} => g[s \cup B] = g[s] + g[B]}
<1>1. ASSUME NEW s \in SUBSET D, \A x \in s : s \ {x} \in G PROVE s \in G
  <2> SUFFICES ASSUME s \cap B = {} PROVE g[s \cup B] = g[s] + g[B]
    OBVIOUS
  <2>1. CASE s = {}
    <3>1. s \cup B = B
      BY <2>1
    <3> QED BY <2>1, <3>1 DEF IsSum
  <2>2. CASE s # {}
    <3>1. PICK x \in s : TRUE
      BY <2>2
    <3>2. (s \cup B) \ {x} = (s \ {x}) \cup B
      BY <3>1
    <3>3. g[(s \ {x}) \cup B] = g[s \ {x}] + g[B]
      BY <1>1, <3>1
    <3>4. g[s] = f[x] + g[s \ {x}] /\ g[s \cup B] = f[x] + g[(s \ {x}) \cup B]
      BY <3>1, <3>2 DEF IsSum
    <3>5. f[x] \in Int /\ g[s \ {x}] \in Int /\ g[B] \in Int
      BY <3>1 DEF IsSum
    <3> QED BY <3>3, <3>4, <3>5
  <2> QED BY <2>1, <2>2
<1>2. \A s \in SUBSET D : s \in G
  <2> HIDE DEF G
  <2> QED BY <1>1, SubsetInduction
<1> QED BY <1>2

LEMMA SumIsMonotone ==
    ASSUME NEW D, IsFiniteSet(D), NEW f, \A x \in D : f[x] \in Nat, NEW g, IsSum(g, D, f)
    PROVE  /\ \A s \in SUBSET D : g[s] \in Nat
           /\ \A s \in SUBSET D : \A t \in SUBSET s : g[t] <= g[s]
<1> DEFINE G == {s \in SUBSET D : g[s] \in Nat}
<1>1. ASSUME NEW s \in SUBSET D, \A x \in s : s \ {x} \in G PROVE s \in G
  <2>1. CASE s = {}
    BY <2>1 DEF IsSum
  <2>2. CASE s # {}
    <3>1. PICK x \in s : TRUE
      BY <2>2
    <3>2. g[s] = f[x] + g[s \ {x}] /\ f[x] \in Nat /\ g[s \ {x}] \in Nat
      BY <1>1, <3>1 DEF IsSum
    <3> QED BY <3>2
  <2> QED BY <2>1, <2>2
<1>2. \A s \in SUBSET D : s \in G
  <2> HIDE DEF G
  <2> QED BY <1>1, SubsetInduction
<1>3. ASSUME NEW s \in SUBSET D, NEW t \in SUBSET s PROVE g[t] <= g[s]
  <2>1. t \cup (s \ t) = s /\ t \cap (s \ t) = {} /\ t \in SUBSET D /\ s \ t \in SUBSET D
    OBVIOUS
  <2>2. g[t \cup (s \ t)] = g[t] + g[s \ t]
    <3>1. \A x \in D : f[x] \in Int
      OBVIOUS
    <3> QED BY <2>1, <3>1, SumOfUnion
  <2>3. g[s] = g[t] + g[s \ t]
    BY <2>1, <2>2
  <2>4. g[t] \in Nat /\ g[s \ t] \in Nat
    BY <1>2, <2>1
  <2> QED BY <2>3, <2>4
<1> QED BY <1>2, <1>3

LEMMA SumOfMultiples ==
    ASSUME NEW D, IsFiniteSet(D), NEW n \in Int,
           NEW f, NEW g, IsSum(g, D, f),
           NEW k, \A x \in D : k[x] \in Int, NEW h, IsSum(h, D, k),
           \A x \in D : f[x] = n * k[x]
    PROVE  \A s \in SUBSET D : g[s] = n * h[s]
<1> DEFINE G == {s \in SUBSET D : g[s] = n * h[s]}
<1>1. ASSUME NEW s \in SUBSET D, \A x \in s : s \ {x} \in G PROVE s \in G
  <2>1. CASE s = {}
    BY <2>1 DEF IsSum
  <2>2. CASE s # {}
    <3>1. PICK x \in s : TRUE
      BY <2>2
    <3>2. PICK a, H : a = k[x] /\ H = h[s \ {x}]
      OBVIOUS
    <3>3. a \in Int /\ H \in Int
      BY <3>1, <3>2 DEF IsSum
    <3>4. g[s \ {x}] = n * H
      BY <1>1, <3>1, <3>2
    <3>5. g[s] = n * a + n * H /\ h[s] = a + H
      BY <3>1, <3>2, <3>4 DEF IsSum
    <3>6. n * (a + H) = n * a + n * H
      BY <3>3
    <3> QED BY <3>5, <3>6
  <2> QED BY <2>1, <2>2
<1>2. \A s \in SUBSET D : s \in G
  <2> HIDE DEF G
  <2> QED BY <1>1, SubsetInduction
<1> QED BY <1>2

(* Rounding every number and rounding their sum differ by no more than the *)
(* roundings.                                                              *)
LEMMA RoundingsAddUp ==
    ASSUME NEW D, IsFiniteSet(D), NEW n \in Nat,
           NEW f, \A x \in D : f[x] \in Int, NEW g, IsSum(g, D, f),
           NEW k, \A x \in D : k[x] \in Int, NEW h, IsSum(h, D, k),
           \A x \in D : - n <= 2 * (n * k[x] - f[x]) /\ 2 * (n * k[x] - f[x]) <= n
    PROVE  \A s \in SUBSET D : /\ - (n * Cardinality(s)) <= 2 * (n * h[s] - g[s])
                               /\ 2 * (n * h[s] - g[s]) <= n * Cardinality(s)
<1> DEFINE G == {s \in SUBSET D : /\ - (n * Cardinality(s)) <= 2 * (n * h[s] - g[s])
                                  /\ 2 * (n * h[s] - g[s]) <= n * Cardinality(s)}
<1>1. ASSUME NEW s \in SUBSET D, \A x \in s : s \ {x} \in G PROVE s \in G
  <2>1. CASE s = {}
    <3>1. h[s] = 0 /\ g[s] = 0 /\ Cardinality(s) = 0
      BY <2>1, FS_EmptySet DEF IsSum
    <3> QED BY <3>1
  <2>2. CASE s # {}
    <3>1. PICK x \in s : TRUE
      BY <2>2
    <3>2. PICK a, b, H, K, c : /\ a = f[x] /\ b = k[x] /\ H = g[s \ {x}] /\ K = h[s \ {x}]
                               /\ c = Cardinality(s \ {x})
      OBVIOUS
    <3>3. a \in Int /\ b \in Int /\ H \in Int /\ K \in Int
      BY <3>1, <3>2 DEF IsSum
    <3>4. c \in Nat /\ Cardinality(s) = c + 1
      <4>1. IsFiniteSet(s) /\ Cardinality(s) \in Nat
        BY FS_Subset, FS_CardinalityType
      <4>2. IsFiniteSet(s \ {x}) /\ Cardinality(s \ {x}) = Cardinality(s) - 1
        BY <3>1, <4>1, FS_RemoveElement
      <4>3. Cardinality(s \ {x}) \in Nat
        BY <4>2, FS_CardinalityType
      <4> QED BY <3>2, <4>1, <4>2, <4>3
    <3>5. g[s] = a + H /\ h[s] = b + K
      BY <3>1, <3>2 DEF IsSum
    <3>6. - (n * c) <= 2 * (n * K - H) /\ 2 * (n * K - H) <= n * c
      BY <1>1, <3>1, <3>2
    <3>7. - n <= 2 * (n * b - a) /\ 2 * (n * b - a) <= n
      BY <3>1, <3>2
    <3>8. n * (b + K) = n * b + n * K /\ n * (c + 1) = n * c + n
      BY <3>3, <3>4
    <3>9. n * b \in Int /\ n * K \in Int /\ n * c \in Int
      BY <3>3, <3>4
    <3>10. /\ - (n * c + n) <= 2 * ((n * b + n * K) - (a + H))
           /\ 2 * ((n * b + n * K) - (a + H)) <= n * c + n
      BY <3>3, <3>6, <3>7, <3>9
    <3> QED BY <3>4, <3>5, <3>8, <3>10
  <2> QED BY <2>1, <2>2
<1>2. \A s \in SUBSET D : s \in G
  <2> HIDE DEF G
  <2> QED BY <1>1, SubsetInduction
<1> QED BY <1>2

-----------------------------------------------------------------------------
(* Rounding. *)

LEMMA HalfEvenIsNear ==
    ASSUME NEW x \in Int, NEW n \in Nat \ {0}
    PROVE  /\ HalfEven(x, n) \in Int
           /\ - n <= 2 * (n * HalfEven(x, n) - x) /\ 2 * (n * HalfEven(x, n) - x) <= n
<1>1. PICK q, r : q = x \div n /\ r = x % n
  OBVIOUS
<1>2. q \in Int /\ r \in Int /\ 0 <= r /\ r < n /\ x = n * q + r
  BY <1>1
<1>3. HalfEven(x, n) = IF 2 * r > n \/ (2 * r = n /\ q % 2 = 1) THEN q + 1 ELSE q
  BY <1>1 DEF HalfEven
<1>4. n * (q + 1) = n * q + n /\ n * q \in Int
  BY <1>2
<1> QED BY <1>2, <1>3, <1>4

LEMMA Division ==
    ASSUME NEW y \in Int, NEW m \in Nat \ {0}
    PROVE  \E q \in Int, r \in Int : q = y \div m /\ 0 <= r /\ r < m /\ y = m * q + r
<1>1. PICK q, r : q = y \div m /\ r = y % m
  OBVIOUS
<1>2. q \in Int /\ r \in Int /\ 0 <= r /\ r < m /\ y = m * q + r
  BY <1>1
<1> QED BY <1>1, <1>2

LEMMA HalfUpIsNear ==
    ASSUME NEW x \in Int, NEW n \in Nat \ {0}
    PROVE  /\ HalfUp(x, n) \in Int
           /\ - n <= 2 * (n * HalfUp(x, n) - x) /\ 2 * (n * HalfUp(x, n) - x) <= n
<1>1. PICK y, m : y = 2 * x + n /\ m = 2 * n
  OBVIOUS
<1>2. y \in Int /\ m \in Nat \ {0}
  BY <1>1
<1>3. PICK q \in Int, r \in Int : q = y \div m /\ 0 <= r /\ r < m /\ y = m * q + r
  BY <1>2, Division
<1>4. m * q = 2 * (n * q) /\ n * q \in Int
  BY <1>1
<1>5. HalfUp(x, n) = q
  BY <1>1, <1>3 DEF HalfUp
<1> QED BY <1>1, <1>3, <1>4, <1>5

LEMMA ExactRounding ==
    ASSUME NEW q \in Int, NEW n \in Nat \ {0}
    PROVE  HalfEven(n * q, n) = q /\ HalfUp(n * q, n) = q
<1>1. PICK x : x = n * q
  OBVIOUS
<1>2. x \in Int
  BY <1>1
<1>3. ASSUME NEW t \in Int, - n <= 2 * (n * t - x), 2 * (n * t - x) <= n
      PROVE  t = q
  <2>1. PICK d : d = t - q
    OBVIOUS
  <2>2. d \in Int /\ n * t - x = n * d /\ n * d \in Int
    BY <1>1, <2>1
  <2>3. ~ (d >= 1)
    <3> SUFFICES ASSUME d >= 1 PROVE FALSE
      OBVIOUS
    <3>1. n * d >= n
      BY <2>2
    <3> QED BY <1>3, <2>2, <3>1
  <2>4. ~ (d <= -1)
    <3> SUFFICES ASSUME d <= -1 PROVE FALSE
      OBVIOUS
    <3>1. n * d <= - n
      BY <2>2
    <3> QED BY <1>3, <2>2, <3>1
  <2> QED BY <2>1, <2>2, <2>3, <2>4
<1>4. HalfEven(x, n) = q
  BY <1>2, <1>3, HalfEvenIsNear
<1>5. HalfUp(x, n) = q
  BY <1>2, <1>3, HalfUpIsNear
<1> QED BY <1>1, <1>4, <1>5

LEMMA Multiples ==
    ASSUME NEW y \in Int, NEW m \in Nat \ {0}, y % m = 0
    PROVE  \E q \in Int : y = m * q
<1>1. PICK q, r : q = y \div m /\ r = y % m
  OBVIOUS
<1>2. q \in Int /\ y = m * q + r /\ r = 0
  BY <1>1
<1> QED BY <1>2

-----------------------------------------------------------------------------
(* Recorded time. *)

(* Segments are typed, end after they begin and not ahead of the clock, and*)
(* those of a session follow one another; stopped sessions have no open    *)
(* segment and every session that was started has a segment.               *)
Recorded ==
    /\ segments \subseteq Segment /\ IsFiniteSet(segments)
    /\ now \in 0..MaxTime
    /\ stopped \subseteq Started /\ Started \subseteq Sessions
    /\ \A g \in segments : /\ g.session \in Started
                           /\ g.start <= now
                           /\ g.end = Open \/ (g.start < g.end /\ g.end <= now)
                           /\ g.end = Open => g.session \notin stopped
    /\ \A g, h \in segments : g.session = h.session /\ g # h => g.end <= h.start \/ h.end <= g.start
    /\ \A s \in Started : \E g \in segments : g.session = s

LEMMA OpenIsAfterAll ==
    /\ MaxTime \in Nat /\ Open \in Int /\ Open > MaxTime
    /\ \A g \in Segment : /\ g.start \in Nat /\ g.end \in Nat /\ g.session \in Sessions
                          /\ g.start <= MaxTime
                          /\ g = [session |-> g.session, start |-> g.start, end |-> g.end]
BY ScaleAssumption DEF Open, Segment

LEMMA OpeningIsRecorded ==
    ASSUME Recorded, NEW s \in Sessions, OpenSegment(s), \A g \in Of(s) : g.end <= now,
           s \notin stopped, s \in DOMAIN owner', UNCHANGED <<stopped, now>>,
           DOMAIN owner' = DOMAIN owner \cup {s}
    PROVE  Recorded'
<1> DEFINE new == [session |-> s, start |-> now, end |-> Open]
<1>1. segments' = segments \cup {new}
  BY DEF OpenSegment
<1>2. new \in Segment /\ new.session = s /\ new.start = now /\ new.end = Open
  BY OpenIsAfterAll DEF Segment, Recorded, Open
<1> HIDE DEF new
<1>3. segments' \subseteq Segment /\ IsFiniteSet(segments')
  BY <1>1, <1>2, FS_AddElement DEF Recorded
<1>4. \A g \in segments' : /\ g.session \in DOMAIN owner'
                           /\ g.start <= now'
                           /\ g.end = Open \/ (g.start < g.end /\ g.end <= now')
                           /\ g.end = Open => g.session \notin stopped'
  BY <1>1, <1>2, OpenIsAfterAll DEF Recorded, Started
<1>5. ASSUME NEW g \in segments', NEW h \in segments', g.session = h.session, g # h
      PROVE  g.end <= h.start \/ h.end <= g.start
  BY <1>1, <1>2, <1>5 DEF Recorded, Of
<1>6. \A t \in DOMAIN owner' : \E g \in segments' : g.session = t
  BY <1>1, <1>2 DEF Recorded, Started
<1> QED BY <1>3, <1>4, <1>5, <1>6 DEF Recorded, Started

LEMMA ClosingIsRecorded ==
    ASSUME Recorded, NEW s \in Sessions, CloseSegment(s), UNCHANGED <<owner, now>>,
           stopped' = stopped \/ (stopped' = stopped \cup {s} /\ s \in Started)
    PROVE  Recorded'
<1>1. PICK g \in Of(s) : /\ g.end = Open /\ g.start < now
                         /\ segments' = (segments \ {g}) \cup {[g EXCEPT !.end = now]}
  BY DEF CloseSegment
<1>2. g \in segments /\ g \in Segment /\ g.session = s /\ g.start \in Nat /\ now \in Nat /\ now <= MaxTime
  BY <1>1, OpenIsAfterAll DEF Of, Recorded
<1>3. PICK new : new = [g EXCEPT !.end = now]
  OBVIOUS
<1>4. new \in Segment /\ new.session = s /\ new.start = g.start /\ new.end = now
  BY <1>1, <1>2, <1>3, OpenIsAfterAll DEF Segment, Open
<1>5. segments' = (segments \ {g}) \cup {new}
  BY <1>1, <1>3
<1>6. ASSUME NEW h \in segments, h.session = s, h # g PROVE h.end <= g.start
  <2>1. h \in Segment /\ h.start <= MaxTime
    BY OpenIsAfterAll DEF Recorded
  <2> QED BY <1>1, <1>2, <1>6, <2>1, OpenIsAfterAll DEF Recorded
<1>7. segments' \subseteq Segment /\ IsFiniteSet(segments')
  <2>1. IsFiniteSet(segments \ {g})
    BY FS_RemoveElement DEF Recorded
  <2> QED BY <1>4, <1>5, <2>1, FS_AddElement DEF Recorded
<1>8. \A h \in segments' : /\ h.session \in Started
                           /\ h.start <= now
                           /\ h.end = Open \/ (h.start < h.end /\ h.end <= now)
  BY <1>1, <1>2, <1>4, <1>5 DEF Recorded
<1>9. \A h \in segments' : h.end = Open => h.session \notin stopped'
  <2>1. ASSUME NEW h \in segments', h.end = Open PROVE h \in segments /\ h # g /\ h.session # s
    BY <1>2, <1>4, <1>5, <1>6, <2>1, OpenIsAfterAll
  <2> QED BY <2>1 DEF Recorded
<1>10. ASSUME NEW h \in segments', NEW k \in segments', h.session = k.session, h # k
       PROVE  h.end <= k.start \/ k.end <= h.start
  BY <1>2, <1>4, <1>5, <1>6, <1>10 DEF Recorded
<1>11. \A t \in Started : \E h \in segments' : h.session = t
  BY <1>2, <1>4, <1>5 DEF Recorded
<1> QED BY <1>7, <1>8, <1>9, <1>10, <1>11 DEF Recorded, Started

(* Whatever is requested in whatever order, what is recorded is consistent.*)
THEOREM RecordedTheorem == Spec => []Recorded
<1>1. Init => Recorded
  <2> SUFFICES ASSUME Init PROVE Recorded
    OBVIOUS
  <2>1. DOMAIN owner = {}
    BY DEF Init
  <2>2. 0 \in 0..MaxTime
    BY ScaleAssumption
  <2> QED BY <2>1, <2>2, FS_EmptySet DEF Init, Recorded, Started
<1>2. Recorded /\ [Next]_vars => Recorded'
  <2> SUFFICES ASSUME Recorded, [Next]_vars PROVE Recorded'
    OBVIOUS
  <2>1. CASE UNCHANGED vars
    BY <2>1 DEF vars, Recorded, Started
  <2>2. CASE Passes
    BY <2>2, OpenIsAfterAll DEF Passes, Recorded, Started
  <2>3. ASSUME NEW s \in Sessions, Start(s) PROVE Recorded'
    <3>1. DOMAIN owner' = DOMAIN owner \cup {s} /\ s \notin Started /\ OpenSegment(s)
          /\ UNCHANGED <<stopped, now>>
      BY <2>3 DEF Start, Started
    <3>2. Of(s) = {} /\ s \notin stopped
      BY <3>1 DEF Of, Recorded
    <3> QED BY <3>1, <3>2, OpeningIsRecorded
  <2>4. ASSUME NEW s \in Sessions, ResumeSession(s) PROVE Recorded'
    <3>1. s \in Started /\ s \notin stopped /\ OpenSegment(s) /\ UNCHANGED <<owner, stopped, now>>
          /\ \A g \in Of(s) : g.end <= now
      BY <2>4 DEF ResumeSession
    <3>2. s \in DOMAIN owner' /\ DOMAIN owner' = DOMAIN owner \cup {s}
      BY <3>1 DEF Started
    <3> QED BY <3>1, <3>2, OpeningIsRecorded
  <2>5. ASSUME NEW s \in Sessions, PauseSession(s) PROVE Recorded'
    BY <2>5, ClosingIsRecorded DEF PauseSession
  <2>6. ASSUME NEW s \in Sessions, StopSession(s) PROVE Recorded'
    <3>1. CASE s \in Running
      BY <2>6, <3>1, ClosingIsRecorded DEF StopSession
    <3>2. CASE s \notin Running
      <4>1. \A g \in segments : g.session = s => g.end # Open
        BY <3>2 DEF Running, Of
      <4>2. UNCHANGED <<segments, owner, now>> /\ stopped' = stopped \cup {s} /\ s \in Started
        BY <2>6, <3>2 DEF StopSession
      <4> QED BY <4>1, <4>2 DEF Recorded, Started
    <3> QED BY <3>1, <3>2
  <2> QED BY <2>1, <2>2, <2>3, <2>4, <2>5, <2>6 DEF Next
<1> QED BY <1>1, <1>2, PTL DEF Spec

-----------------------------------------------------------------------------
(* The rows of a report. *)

LEMMA MinOf ==
    ASSUME NEW S \in SUBSET Nat, S # {}
    PROVE  Min(S) \in S /\ \A y \in S : Min(S) <= y
<1>1. \E x \in S : \A y \in S : x <= y
  BY LeastNumber
<1> QED BY <1>1 DEF Min

LEMMA MaxOf ==
    ASSUME NEW n \in Nat, NEW S \in SUBSET (0..n), S # {}
    PROVE  Max(S) \in S /\ \A y \in S : Max(S) >= y
<1> DEFINE T == {m \in Nat : n - m \in S}
<1>1. T \in SUBSET Nat /\ T # {}
  <2>1. PICK x \in S : x \in 0..n
    OBVIOUS
  <2>2. n - x \in Nat /\ n - (n - x) = x
    BY <2>1
  <2> QED BY <2>1, <2>2
<1>2. PICK m \in T : \A k \in T : m <= k
  BY <1>1, LeastNumber
<1>3. ASSUME NEW y \in S PROVE n - m >= y
  <2>1. y \in 0..n /\ n - y \in Nat /\ n - (n - y) = y
    OBVIOUS
  <2>2. n - y \in T
    BY <2>1
  <2>3. m <= n - y
    <3> HIDE DEF T
    <3> QED BY <1>2, <2>2
  <2> QED BY <2>1, <2>3
<1>4. \E x \in S : \A y \in S : x >= y
  BY <1>2, <1>3
<1> QED BY <1>4 DEF Max

LEMMA MaxOfTwo == \A a, b \in Int : Max({a, b}) = IF a >= b THEN a ELSE b
BY DEF Max

LEMMA MinOfTwo == \A a, b \in Int : Min({a, b}) = IF a <= b THEN a ELSE b
BY DEF Min

LEMMA PeriodBegins ==
    ASSUME Recorded, NEW p \in Periods
    PROVE  PeriodStart(p) \in Nat /\ PeriodStart(p) <= now
<1> DEFINE days == {d * DayTicks : d \in p} \cap 0..now
<1>1. now \in Nat
  BY OpenIsAfterAll DEF Recorded
<1>2. 0 \in days
  <2>1. 0 * DayTicks = 0 /\ 0 \in p
    BY TickAssumption, PeriodAssumption
  <2> QED BY <1>1, <2>1
<1>3. Max(days) \in days
  <2>1. days \in SUBSET (0..now)
    OBVIOUS
  <2> HIDE DEF days
  <2> QED BY <1>1, <1>2, <2>1, MaxOf
<1> QED BY <1>1, <1>3 DEF PeriodStart

(* A segment cut to a period that begins with tick first.                  *)
Cut(g, first) == [session |-> g.session, start |-> IF g.start >= first THEN g.start ELSE first,
                  end |-> EndNow(g)]

LEMMA SegmentTimes ==
    ASSUME Recorded, NEW g \in segments
    PROVE  /\ g.start \in Nat /\ EndNow(g) \in Nat /\ EndNow(g) <= now /\ now \in Nat
           /\ g.start <= EndNow(g) /\ g.session \in Started
BY OpenIsAfterAll DEF Recorded, EndNow

LEMMA RowsAreCuts ==
    ASSUME Recorded, NEW p \in Periods
    PROVE  LET first == PeriodStart(p) IN
           Rows(p) = {Cut(g, first) : g \in {h \in segments : h.start < EndNow(h) /\ EndNow(h) > first}}
<1>1. PICK first : first = PeriodStart(p)
  OBVIOUS
<1>2. first \in Nat /\ first <= now
  BY <1>1, PeriodBegins
<1> DEFINE cut(g) == [session |-> g.session, start |-> Max({g.start, first}),
                      end |-> Min({EndNow(g), now})]
           reach == {h \in segments : h.start < now /\ EndNow(h) > h.start /\ EndNow(h) > first}
<1>3. ASSUME NEW g \in segments PROVE cut(g) = Cut(g, first)
  <2>1. Max({g.start, first}) = IF g.start >= first THEN g.start ELSE first
    BY <1>2, SegmentTimes, MaxOfTwo
  <2>2. Min({EndNow(g), now}) = EndNow(g)
    BY SegmentTimes, MinOfTwo
  <2> QED BY <2>1, <2>2 DEF Cut
<1>4. reach = {h \in segments : h.start < EndNow(h) /\ EndNow(h) > first}
  BY <1>2, SegmentTimes
<1>5. \A g \in reach : Cut(g, first).end > Cut(g, first).start
  BY <1>2, SegmentTimes DEF Cut
<1>6. Rows(p) = {r \in {cut(g) : g \in reach} : r.end > r.start}
  BY <1>1 DEF Rows
<1>7. {cut(g) : g \in reach} = {Cut(g, first) : g \in reach}
  BY <1>3
<1>8. Rows(p) = {Cut(g, first) : g \in reach}
  BY <1>5, <1>6, <1>7
<1> QED BY <1>1, <1>4, <1>8

LEMMA RowTimes ==
    ASSUME Recorded, NEW p \in Periods
    PROVE  /\ IsFiniteSet(Rows(p))
           /\ \A r \in Rows(p) : /\ r.start \in Nat /\ r.end \in Nat /\ r.start < r.end
                                 /\ r.end <= now /\ PeriodStart(p) <= r.start
                                 /\ r.session \in Started
<1>1. PICK first : first = PeriodStart(p)
  OBVIOUS
<1>2. PICK reach : reach = {h \in segments : h.start < EndNow(h) /\ EndNow(h) > first}
  OBVIOUS
<1>3. Rows(p) = {Cut(g, first) : g \in reach}
  BY <1>1, <1>2, RowsAreCuts
<1>4. IsFiniteSet(Rows(p))
  <2>1. IsFiniteSet(reach)
    BY <1>2, FS_Subset DEF Recorded
  <2>2. PICK f : f = [g \in reach |-> Cut(g, first)]
    OBVIOUS
  <2>3. Rows(p) = {f[g] : g \in reach}
    BY <1>3, <2>2
  <2> QED BY <2>1, <2>3, ImageIsFinite
<1>5. \A g \in reach : LET r == Cut(g, first) IN
         /\ r.start \in Nat /\ r.end \in Nat /\ r.start < r.end
         /\ r.end <= now /\ first <= r.start
         /\ r.session \in Started
  BY <1>1, <1>2, PeriodBegins, SegmentTimes DEF Cut
<1> QED BY <1>1, <1>3, <1>4, <1>5

LEMMA RowSeconds ==
    ASSUME Recorded, NEW p \in Periods, NEW r \in Rows(p)
    PROVE  /\ Seconds(r) \in Nat /\ r.end - r.start \in Nat
           /\ - Ticks <= 2 * (Ticks * Seconds(r) - (r.end - r.start))
           /\ 2 * (Ticks * Seconds(r) - (r.end - r.start)) <= Ticks
<1>1. PICK x, n : x = r.end - r.start /\ n = Ticks
  OBVIOUS
<1>2. x \in Nat /\ n \in Nat \ {0}
  BY <1>1, RowTimes, TickAssumption
<1>3. HalfEven(x, n) \in Int /\ - n <= 2 * (n * HalfEven(x, n) - x) /\ 2 * (n * HalfEven(x, n) - x) <= n
  BY <1>2, HalfEvenIsNear
<1>4. PICK e : e = HalfEven(x, n)
  OBVIOUS
<1>5. e >= 0
  <2> SUFFICES ASSUME e < 0 PROVE FALSE
    BY <1>3, <1>4
  <2>1. e \in Int /\ e <= -1 /\ - n <= 2 * (n * e - x)
    BY <1>3, <1>4
  <2>2. n * e <= - n /\ n * e \in Int
    BY <1>2, <2>1
  <2> QED BY <1>2, <2>1, <2>2
<1> QED BY <1>1, <1>2, <1>3, <1>4, <1>5 DEF Seconds

(* In whole seconds nothing is rounded. *)
LEMMA WholeRows ==
    ASSUME Recorded, WholeSeconds, NEW p \in Periods, NEW r \in Rows(p)
    PROVE  r.end - r.start = Ticks * Seconds(r)
<1>1. PICK n : n = Ticks
  OBVIOUS
<1>2. n \in Nat \ {0}
  BY <1>1, TickAssumption
<1>3. \E q \in Int : PeriodStart(p) = n * q
  <2> DEFINE days == {d * DayTicks : d \in p} \cap 0..now
  <2>1. now \in Nat /\ 0 \in days
    <3>1. 0 * DayTicks = 0 /\ 0 \in p
      BY TickAssumption, PeriodAssumption
    <3>2. now \in Nat
      BY OpenIsAfterAll DEF Recorded
    <3> QED BY <3>1, <3>2
  <2>2. Max(days) \in days
    <3>1. days \in SUBSET (0..now)
      OBVIOUS
    <3> HIDE DEF days
    <3> QED BY <2>1, <3>1, MaxOf
  <2>3. PICK d \in p : PeriodStart(p) = d * DayTicks
    BY <2>2 DEF PeriodStart
  <2>4. PICK q \in Int : DayTicks = n * q
    <3>1. DayTicks \in Int /\ DayTicks % n = 0
      BY <1>1, TickAssumption
    <3> QED BY <1>2, <3>1, Multiples
  <2>5. d \in Int
    BY <2>3, PeriodAssumption
  <2>6. d * (n * q) = n * (d * q) /\ d * q \in Int
    BY <1>2, <2>4, <2>5
  <2> QED BY <2>3, <2>4, <2>6
<1>4. ASSUME NEW g \in segments
      PROVE  (\E q \in Int : g.start = n * q) /\ (\E q \in Int : EndNow(g) = n * q)
  <2>1. g.start \in Int /\ EndNow(g) \in Int /\ g.start % n = 0 /\ EndNow(g) % n = 0
    BY <1>1, SegmentTimes DEF WholeSeconds
  <2> QED BY <1>2, <2>1, Multiples
<1>5. (\E q \in Int : r.start = n * q) /\ (\E q \in Int : r.end = n * q)
  <2>1. PICK g \in segments : r = Cut(g, PeriodStart(p))
    BY RowsAreCuts
  <2> QED BY <1>3, <1>4, <2>1 DEF Cut
<1>6. PICK a \in Int, b \in Int : r.start = n * a /\ r.end = n * b
  BY <1>5
<1>7. n * b - n * a = n * (b - a) /\ b - a \in Int
  BY <1>2
<1>8. HalfEven(r.end - r.start, n) = b - a
  BY <1>2, <1>6, <1>7, ExactRounding
<1> QED BY <1>1, <1>6, <1>7, <1>8 DEF Seconds

-----------------------------------------------------------------------------
(* Elapsed time. *)

(* The rows of a report can be sorted. *)
SortedRows(R) == {q \in SetToSeqs(R) : \A i, j \in 1..Len(q) : i < j => ~ Earlier(q[j], q[i])}

LEMMA RowSequences ==
    ASSUME NEW R, IsFiniteSet(R), NEW q
    PROVE  q \in SetToSeqs(R) <=>
             /\ q \in Seq(R) /\ Len(q) = Cardinality(R) /\ DOMAIN q = 1..Cardinality(R)
             /\ \A i, j \in 1..Cardinality(R) : i # j => q[i] # q[j]
<1>1. Cardinality(R) \in Nat
  BY FS_CardinalityType
<1>2. q \in [1..Cardinality(R) -> R] => q \in Seq(R) /\ Len(q) = Cardinality(R)
  BY <1>1
<1>3. q \in Seq(R) /\ Len(q) = Cardinality(R) => q \in [1..Cardinality(R) -> R]
  BY LenProperties
<1> QED BY <1>2, <1>3 DEF SetToSeqs

LEMMA LastRow ==
    ASSUME NEW S, S # {}, NEW n \in Nat, \A r \in S : r.start \in 0..n /\ r.end \in 0..n
    PROVE  \E r \in S : \A t \in S : ~ Earlier(r, t)
<1> DEFINE starts == {r.start : r \in S}
<1>1. PICK m : m \in starts /\ \A y \in starts : m >= y
  <2>1. starts \in SUBSET (0..n) /\ starts # {}
    OBVIOUS
  <2> HIDE DEF starts
  <2> QED BY <2>1, MaxOf
<1> DEFINE ends == {r.end : r \in {t \in S : t.start = m}}
<1>2. PICK e : e \in ends /\ \A y \in ends : e >= y
  <2>1. ends \in SUBSET (0..n) /\ ends # {}
    BY <1>1
  <2> HIDE DEF ends
  <2> QED BY <2>1, MaxOf
<1>3. PICK r \in S : r.start = m /\ r.end = e
  BY <1>2
<1>4. ASSUME NEW t \in S PROVE ~ Earlier(r, t)
  <2>1. m >= t.start /\ (t.start = m => e >= t.end)
    BY <1>1, <1>2
  <2>2. m \in Nat /\ e \in Nat /\ t.start \in Nat /\ t.end \in Nat
    BY <1>3
  <2> QED BY <1>3, <2>1, <2>2 DEF Earlier
<1> QED BY <1>4

LEMMA RowsCanBeSorted ==
    ASSUME NEW R, IsFiniteSet(R), NEW n \in Nat, \A r \in R : r.start \in 0..n /\ r.end \in 0..n
    PROVE  SortedRows(R) # {}
<1> DEFINE G == {s \in SUBSET R : SortedRows(s) # {}}
<1>1. ASSUME NEW s \in SUBSET R, \A x \in s : s \ {x} \in G PROVE s \in G
  <2>1. CASE s = {}
    <3>1. Cardinality(s) = 0 /\ IsFiniteSet(s)
      BY <2>1, FS_EmptySet
    <3>2. <<>> \in Seq(s) /\ Len(<<>>) = 0 /\ DOMAIN <<>> = 1..0
      OBVIOUS
    <3>3. <<>> \in SetToSeqs(s)
      <4>1. \A i, j \in 1..0 : i # j => <<>>[i] # <<>>[j]
        OBVIOUS
      <4>2. /\ <<>> \in Seq(s) /\ Len(<<>>) = Cardinality(s) /\ DOMAIN <<>> = 1..Cardinality(s)
            /\ \A i, j \in 1..Cardinality(s) : i # j => <<>>[i] # <<>>[j]
        BY <3>1, <3>2, <4>1
      <4> QED BY <3>1, <4>2, RowSequences
    <3> QED BY <3>2, <3>3 DEF SortedRows
  <2>2. CASE s # {}
    <3>1. PICK r \in s : \A t \in s : ~ Earlier(r, t)
      BY <2>2, LastRow
    <3>2. PICK q : q \in SortedRows(s \ {r})
      BY <1>1, <3>1
    <3>3. PICK c : c = Cardinality(s \ {r})
      OBVIOUS
    <3>4. IsFiniteSet(s) /\ IsFiniteSet(s \ {r}) /\ c \in Nat /\ Cardinality(s) = c + 1
      <4>1. IsFiniteSet(s) /\ Cardinality(s) \in Nat
        BY FS_Subset, FS_CardinalityType
      <4>2. IsFiniteSet(s \ {r}) /\ c = Cardinality(s) - 1
        BY <3>1, <3>3, <4>1, FS_RemoveElement
      <4>3. c \in Nat
        BY <3>3, <4>2, FS_CardinalityType
      <4> QED BY <4>1, <4>2, <4>3
    <3>5. /\ q \in Seq(s \ {r}) /\ Len(q) = c /\ DOMAIN q = 1..c
          /\ \A i, j \in 1..c : i # j => q[i] # q[j]
          /\ \A i, j \in 1..c : i < j => ~ Earlier(q[j], q[i])
      <4>1. /\ q \in SetToSeqs(s \ {r})
            /\ \A i, j \in 1..Len(q) : i < j => ~ Earlier(q[j], q[i])
        BY <3>2 DEF SortedRows
      <4>2. /\ q \in Seq(s \ {r}) /\ Len(q) = Cardinality(s \ {r}) /\ DOMAIN q = 1..Cardinality(s \ {r})
            /\ \A i, j \in 1..Cardinality(s \ {r}) : i # j => q[i] # q[j]
        BY <3>4, <4>1, RowSequences
      <4> QED BY <3>3, <4>1, <4>2
    <3>6. q \in [1..c -> s \ {r}]
      BY <3>5, LenProperties
    <3> DEFINE w == [i \in 1..(c + 1) |-> IF i <= c THEN q[i] ELSE r]
    <3>7. w \in [1..(c + 1) -> s]
      BY <3>1, <3>4, <3>6
    <3>8. w \in Seq(s) /\ Len(w) = c + 1 /\ DOMAIN w = 1..(c + 1)
      BY <3>4, <3>7
    <3>9. \A i \in 1..(c + 1) : (i \in 1..c /\ w[i] = q[i] /\ q[i] \in s \ {r}) \/ (i = c + 1 /\ w[i] = r)
      BY <3>4, <3>6
    <3> HIDE DEF w
    <3>10. \A i, j \in 1..(c + 1) : i # j => w[i] # w[j]
      BY <3>5, <3>9
    <3>11. \A i, j \in 1..(c + 1) : i < j => ~ Earlier(w[j], w[i])
      BY <3>1, <3>4, <3>5, <3>9
    <3>12. w \in SetToSeqs(s)
      BY <3>4, <3>8, <3>10, RowSequences
    <3> QED BY <3>8, <3>11, <3>12 DEF SortedRows
  <2> QED BY <2>1, <2>2
<1>2. \A s \in SUBSET R : s \in G
  <2> HIDE DEF G
  <2> QED BY <1>1, SubsetInduction
<1> QED BY <1>2

(* Merging the rows one after another. *)
Spans == [before : Int, start : Int, end : Int]
IsMergeRun(m, n, t, base) == /\ m[0] = base /\ \A i \in 1..n : m[i] = Merge(m[i - 1], t[i])
                             /\ FoldLeft(Merge, base, t) = m[n]

LEMMA MergeFold ==
    ASSUME NEW n \in Nat, NEW t, DOMAIN t = 1..n,
           \A i \in 1..n : t[i].start \in Int /\ t[i].end \in Int,
           NEW base \in Spans
    PROVE  \E m \in [0..n -> Spans] : IsMergeRun(m, n, t, base)
<1> DEFINE D == 1..n
           pick == [s \in SUBSET D |-> Max(s)]
           step == [i \in D |-> [v \in Spans |-> Merge(v, t[i])]]
           IsIter(f) == f = [s \in SUBSET D |->
                     IF s = {} THEN base ELSE Merge(f[s \ {Max(s)}], t[Max(s)])]
           iter == CHOOSE f : IsIter(f)
<1>1. ASSUME NEW s \in SUBSET D, s # {} PROVE Max(s) \in s /\ \A y \in s : Max(s) >= y
  <2>1. s \in SUBSET (0..n)
    OBVIOUS
  <2> QED BY <1>1, <2>1, MaxOf
<1>2. Picks(pick, D)
  BY <1>1 DEF Picks
<1>3. Steps(step, D, Spans)
  <2>1. ASSUME NEW i \in D, NEW v \in Spans PROVE Merge(v, t[i]) \in Spans
    <3>1. v.end \in Int /\ v.start \in Int /\ v.before \in Int
          /\ t[i].end \in Int /\ t[i].start \in Int
      BY DEF Spans
    <3>2. Max({v.end, t[i].end}) \in Int
      BY <3>1, MaxOfTwo
    <3>3. PICK x : x = Max({v.end, t[i].end})
      OBVIOUS
    <3>4. v = [before |-> v.before, start |-> v.start, end |-> v.end]
      BY DEF Spans
    <3>5. [v EXCEPT !.end = x] = [before |-> v.before, start |-> v.start, end |-> x]
      BY <3>4
    <3>6. Merge(v, t[i]) = IF t[i].start <= v.end THEN [v EXCEPT !.end = x]
             ELSE [before |-> v.before + (v.end - v.start), start |-> t[i].start, end |-> t[i].end]
      BY <3>3 DEF Merge
    <3>7. CASE t[i].start <= v.end
      BY <3>1, <3>2, <3>3, <3>5, <3>6, <3>7 DEF Spans
    <3>8. CASE ~ (t[i].start <= v.end)
      BY <3>1, <3>6, <3>8 DEF Spans
    <3> QED BY <3>7, <3>8
  <2> QED BY <2>1 DEF Steps
<1>4. IsFiniteSet(D)
  BY FS_Interval
<1>5. PICK g \in [SUBSET D -> Spans] : IsFold(g, D, base, pick, step)
  <2> HIDE DEF D, pick, step
  <2> QED BY <1>2, <1>3, <1>4, FoldExists
<1>6. \A s \in SUBSET D : g[s] = IF s = {} THEN base ELSE Merge(g[s \ {Max(s)}], t[Max(s)])
  BY <1>1, <1>5 DEF IsFold
<1>7. IsIter(g)
  BY <1>6
<1>8. IsIter(iter)
  <2> HIDE DEF IsIter
  <2> QED BY <1>7
<1>9. FoldLeft(Merge, base, t) = iter[D]
  BY DEF FoldLeft, MapThenFoldSet
<1>10. \A s \in SUBSET D : iter[s] = g[s]
  <2> DEFINE G == {s \in SUBSET D : iter[s] = g[s]}
  <2>1. ASSUME NEW s \in SUBSET D, \A x \in s : s \ {x} \in G PROVE s \in G
    <3>1. iter[s] = IF s = {} THEN base ELSE Merge(iter[s \ {Max(s)}], t[Max(s)])
      BY <1>8
    <3> HIDE DEF iter
    <3>2. s # {} => iter[s \ {Max(s)}] = g[s \ {Max(s)}]
      BY <1>1, <2>1
    <3> QED BY <1>6, <3>1, <3>2
  <2>2. \A s \in SUBSET D : s \in G
    <3> HIDE DEF G
    <3> QED BY <1>4, <2>1, SubsetInduction
  <2> QED BY <2>2
<1> DEFINE m == [i \in 0..n |-> g[1..i]]
<1>11. \A i \in 0..n : 1..i \in SUBSET D
  OBVIOUS
<1>12. m \in [0..n -> Spans] /\ m[0] = base
  <2>1. \A i \in 0..n : g[1..i] \in Spans
    <3> HIDE DEF D
    <3> QED BY <1>5, <1>11
  <2>2. g[1..0] = base
    <3>1. 1..0 = {} /\ {} \in SUBSET D
      OBVIOUS
    <3> QED BY <1>6, <3>1
  <2>3. 0 \in 0..n
    OBVIOUS
  <2> QED BY <2>1, <2>2, <2>3
<1>13. ASSUME NEW i \in 1..n PROVE m[i] = Merge(m[i - 1], t[i])
  <2>1. 1..i \in SUBSET D /\ 1..i # {} /\ i \in 1..i /\ i - 1 \in 0..n /\ i \in 0..n
    <3>1. i \in 1..i /\ i - 1 \in 0..n /\ i \in 0..n
      OBVIOUS
    <3> QED BY <1>11, <3>1
  <2>2. Max(1..i) = i
    <3>1. PICK x : x = Max(1..i)
      OBVIOUS
    <3>2. x \in 1..i /\ x >= i
      BY <1>1, <2>1, <3>1
    <3> QED BY <3>1, <3>2
  <2>3. (1..i) \ {i} = 1..(i - 1)
    OBVIOUS
  <2>4. g[1..i] = Merge(g[(1..i) \ {Max(1..i)}], t[Max(1..i)])
    BY <1>6, <2>1
  <2>5. g[1..i] = Merge(g[1..(i - 1)], t[i])
    BY <2>2, <2>3, <2>4
  <2> QED BY <2>1, <2>5
<1>14. FoldLeft(Merge, base, t) = m[n]
  <2>1. D \in SUBSET D /\ n \in 0..n
    OBVIOUS
  <2>2. m[n] = g[D]
    BY <2>1
  <2>3. iter[D] = g[D]
    BY <1>10, <2>1
  <2> HIDE DEF iter, m
  <2> QED BY <1>9, <2>2, <2>3
<1> HIDE DEF m
<1> QED BY <1>12, <1>13, <1>14 DEF IsMergeRun

\* A merged span stands for the instants that the rows so far have covered.
StandsFor(v, U, N) ==
  /\ v.start \in Nat /\ v.end \in 0..N /\ v.start < v.end
  /\ \A t \in 0..N : t >= v.start => (t \in U <=> t < v.end)
  /\ Cardinality(U) = v.before + (v.end - v.start)

LEMMA MergeOfRow ==
    ASSUME NEW v \in Spans, NEW r, r.start \in Int, r.end \in Int
    PROVE  /\ r.start <= v.end => Merge(v, r) = [before |-> v.before, start |-> v.start,
                                     end |-> IF v.end >= r.end THEN v.end ELSE r.end]
           /\ ~ (r.start <= v.end) => Merge(v, r) = [before |-> v.before + (v.end - v.start),
                                        start |-> r.start, end |-> r.end]
<1>1. v.end \in Int /\ v = [before |-> v.before, start |-> v.start, end |-> v.end]
  BY DEF Spans
<1>2. PICK x : x = Max({v.end, r.end})
  OBVIOUS
<1>3. x = IF v.end >= r.end THEN v.end ELSE r.end
  BY <1>1, <1>2, MaxOfTwo
<1>4. [v EXCEPT !.end = x] = [before |-> v.before, start |-> v.start, end |-> x]
  BY <1>1
<1>5. Merge(v, r) = IF r.start <= v.end THEN [v EXCEPT !.end = x]
         ELSE [before |-> v.before + (v.end - v.start), start |-> r.start, end |-> r.end]
  BY <1>2 DEF Merge
<1> QED BY <1>3, <1>4, <1>5

LEMMA DisjointSum ==
    ASSUME NEW N \in Nat, NEW U \in SUBSET (0..N), NEW a \in Int, NEW b \in Int, a <= b,
           \A t \in a..(b - 1) : t \notin U
    PROVE  Cardinality(U) \in Int /\ Cardinality(U \cup (a..(b - 1))) = Cardinality(U) + (b - a)
<1>1. IsFiniteSet(U)
  <2>1. IsFiniteSet(0..N)
    BY FS_Interval
  <2> QED BY <2>1, FS_Subset
<1>2. PICK V : V = a..(b - 1)
  OBVIOUS
<1>3. IsFiniteSet(V) /\ Cardinality(V) = b - a
  <2>1. b - 1 \in Int /\ (IF a > b - 1 THEN 0 ELSE (b - 1) - a + 1) = b - a
    OBVIOUS
  <2> QED BY <1>2, <2>1, FS_Interval
<1>4. U \cap V = {}
  BY <1>2
<1>5. Cardinality(U \cap V) = 0
  BY <1>4, FS_EmptySet
<1>6. Cardinality(U \cup V) = Cardinality(U) + Cardinality(V) - Cardinality(U \cap V)
  BY <1>1, <1>3, FS_Union
<1>7. Cardinality(U) \in Int
  BY <1>1, FS_CardinalityType
<1> QED BY <1>2, <1>3, <1>5, <1>6, <1>7

\* A row that starts no earlier than the merged span adds its instants to it.
LEMMA MergedRow ==
    ASSUME NEW N \in Nat, NEW U \in SUBSET (0..N), NEW v \in Spans, StandsFor(v, U, N),
           NEW r, r.start \in Nat, r.end \in 0..N, r.start < r.end, v.start <= r.start
    PROVE  /\ StandsFor(Merge(v, r), U \cup (r.start..(r.end - 1)), N)
           /\ Merge(v, r).start <= r.start
<1>1. PICK a, b, s, e, d : a = r.start /\ b = r.end /\ s = v.start /\ e = v.end /\ d = v.before
  OBVIOUS
<1>2. /\ a \in Nat /\ b \in 0..N /\ a < b /\ s \in Nat /\ e \in 0..N /\ s < e /\ s <= a /\ d \in Int
      /\ \A t \in 0..N : t >= s => (t \in U <=> t < e)
      /\ Cardinality(U) = d + (e - s)
  BY <1>1 DEF StandsFor, Spans
<1>3. PICK W : W = U \cup (a..(b - 1))
  OBVIOUS
<1>4. PICK w : w = Merge(v, r)
  OBVIOUS
<1>5. r.start \in Int /\ r.end \in Int
  BY <1>1, <1>2
<1>6. CASE a <= e
  <2>1. PICK f : f = IF e >= b THEN e ELSE b
    OBVIOUS
  <2>2. w = [before |-> d, start |-> s, end |-> f]
    BY <1>1, <1>4, <1>5, <1>6, <2>1, MergeOfRow
  <2>3. f \in 0..N /\ e <= f /\ b <= f /\ (f = e \/ f = b)
    BY <1>2, <2>1
  <2>4. \A t \in e..(f - 1) : t \notin U
    BY <1>2, <2>3
  <2>5. W = U \cup (e..(f - 1))
    <3>1. \A t \in a..(b - 1) : t \in U \/ t \in e..(f - 1)
      BY <1>2, <2>3
    <3>2. \A t \in e..(f - 1) : t \in a..(b - 1)
      BY <1>2, <1>6, <2>3
    <3> QED BY <1>3, <3>1, <3>2
  <2>6. Cardinality(W) = Cardinality(U) + (f - e)
    <3>1. e \in Int /\ f \in Int /\ e <= f
      BY <1>2, <2>3
    <3>2. Cardinality(U \cup (e..(f - 1))) = Cardinality(U) + (f - e)
      BY <2>4, <3>1, DisjointSum
    <3> QED BY <2>5, <3>2
  <2>7. \A t \in 0..N : t >= s => (t \in W <=> t < f)
    BY <1>2, <2>3, <2>5
  <2>8. StandsFor(w, W, N)
    <3>1. w.before = d /\ w.start = s /\ w.end = f
      BY <2>2
    <3>2. Cardinality(W) = d + (f - s) /\ s < f
      BY <1>2, <2>3, <2>6
    <3> QED BY <1>2, <2>3, <2>7, <3>1, <3>2 DEF StandsFor
  <2>9. w.start <= r.start
    BY <1>1, <1>2, <2>2
  <2> QED BY <1>1, <1>3, <1>4, <2>8, <2>9
<1>7. CASE ~ (a <= e)
  <2>1. w = [before |-> d + (e - s), start |-> a, end |-> b]
    BY <1>1, <1>4, <1>5, <1>7, MergeOfRow
  <2>2. \A t \in a..(b - 1) : t \notin U
    BY <1>2, <1>7
  <2>3. Cardinality(W) = Cardinality(U) + (b - a)
    <3>1. a \in Int /\ b \in Int /\ a <= b
      BY <1>2
    <3>2. Cardinality(U \cup (a..(b - 1))) = Cardinality(U) + (b - a)
      BY <2>2, <3>1, DisjointSum
    <3> QED BY <1>3, <3>2
  <2>4. \A t \in 0..N : t >= a => (t \in W <=> t < b)
    <3>1. \A t \in 0..N : t >= a => t \notin U
      BY <1>2, <1>7
    <3> QED BY <1>2, <1>3, <3>1
  <2>5. StandsFor(w, W, N)
    <3>1. w.before = d + (e - s) /\ w.start = a /\ w.end = b
      BY <2>1
    <3>2. Cardinality(W) = (d + (e - s)) + (b - a)
      BY <1>2, <2>3
    <3> QED BY <1>2, <2>4, <3>1, <3>2 DEF StandsFor
  <2>6. w.start <= r.start
    BY <1>1, <1>2, <2>1
  <2> QED BY <1>1, <1>3, <1>4, <2>5, <2>6
<1> QED BY <1>6, <1>7

\* The instants up to N that the first rows of a sequence cover.
Instants(q, k, N) == {t \in 0..N : \E j \in 1..k : q[j].start <= t /\ t < q[j].end}

LEMMA MergedRows ==
    ASSUME NEW N \in Nat, NEW n \in Nat, NEW q,
           \A i \in 1..(n + 1) : q[i].start \in Nat /\ q[i].end \in 0..N /\ q[i].start < q[i].end,
           \A i, j \in 1..(n + 1) : i < j => q[i].start <= q[j].start,
           NEW m \in [0..n -> Spans],
           m[0] = [before |-> 0, start |-> q[1].start, end |-> q[1].end],
           \A i \in 1..n : m[i] = Merge(m[i - 1], q[i + 1])
    PROVE  StandsFor(m[n], Instants(q, n + 1, N), N)
<1> DEFINE U(k) == Instants(q, k, N)
           G == {i \in Nat : i <= n => StandsFor(m[i], U(i + 1), N) /\ m[i].start <= q[i + 1].start}
<1>1. \A k \in Nat : U(k) \in SUBSET (0..N)
  BY DEF Instants
<1>2. 0 \in G
  <2>1. PICK a, b : a = q[1].start /\ b = q[1].end
    OBVIOUS
  <2>2. a \in Nat /\ b \in 0..N /\ a < b
    <3>1. 1 \in 1..(n + 1)
      OBVIOUS
    <3> QED BY <2>1, <3>1
  <2>3. U(1) = a..(b - 1)
    BY <2>1, <2>2 DEF Instants
  <2>4. Cardinality(U(1)) = b - a
    <3>1. b - 1 \in Int /\ (IF a > b - 1 THEN 0 ELSE (b - 1) - a + 1) = b - a
      BY <2>2
    <3> QED BY <2>2, <2>3, <3>1, FS_Interval
  <2>5. m[0].before = 0 /\ m[0].start = a /\ m[0].end = b
    BY <2>1
  <2>6. \A t \in 0..N : t >= a => (t \in U(1) <=> t < b)
    BY <2>2, <2>3
  <2>7. StandsFor(m[0], U(1), N)
    <3> HIDE DEF U
    <3> QED BY <2>2, <2>4, <2>5, <2>6 DEF StandsFor
  <2> QED BY <2>1, <2>2, <2>5, <2>7
<1>3. ASSUME NEW k \in Nat, k \in G PROVE k + 1 \in G
  <2> SUFFICES ASSUME k + 1 <= n
               PROVE  /\ StandsFor(m[k + 1], U((k + 1) + 1), N)
                      /\ m[k + 1].start <= q[(k + 1) + 1].start
    OBVIOUS
  <2>1. PICK l : l = k + 1
    OBVIOUS
  <2>2. l \in Nat /\ l \in 1..n /\ l - 1 = k /\ k \in 0..n /\ l \in 1..(n + 1) /\ l + 1 \in 1..(n + 1) /\ l < l + 1
    BY <2>1
  <2>3. PICK v, r : v = m[k] /\ r = q[l + 1]
    OBVIOUS
  <2>4. v \in Spans /\ StandsFor(v, U(l), N) /\ v.start <= q[l].start
    BY <1>3, <2>1, <2>2, <2>3
  <2>5. r.start \in Nat /\ r.end \in 0..N /\ r.start < r.end /\ q[l].start \in Nat /\ q[l].start <= r.start
    BY <2>2, <2>3
  <2>6. v.start <= r.start
    <3>1. v.start \in Nat
      BY <2>4 DEF StandsFor
    <3> QED BY <2>4, <2>5, <3>1
  <2>7. U(l + 1) = U(l) \cup (r.start..(r.end - 1))
    <3>1. \A t \in 0..N : t \in U(l + 1) <=> (t \in U(l) \/ (r.start <= t /\ t < r.end))
      <4>1. \A j \in 1..(l + 1) : j \in 1..l \/ j = l + 1
        BY <2>2
      <4>2. \A j \in 1..l : j \in 1..(l + 1)
        BY <2>2
      <4> QED BY <2>2, <2>3, <4>1, <4>2 DEF Instants
    <3>2. \A t \in r.start..(r.end - 1) : t \in 0..N /\ r.start <= t /\ t < r.end
      BY <2>5
    <3>3. \A t \in 0..N : r.start <= t /\ t < r.end => t \in r.start..(r.end - 1)
      BY <2>5
    <3>4. U(l + 1) \in SUBSET (0..N) /\ U(l) \in SUBSET (0..N)
      BY <1>1, <2>2
    <3> HIDE DEF U
    <3> QED BY <3>1, <3>2, <3>3, <3>4
  <2>8. m[l] = Merge(v, r)
    BY <2>2, <2>3
  <2>9. StandsFor(m[l], U(l + 1), N) /\ m[l].start <= r.start
    <3>1. U(l) \in SUBSET (0..N)
      BY <1>1, <2>2
    <3>2. PICK X, Y : X = U(l) /\ Y = U(l + 1)
      OBVIOUS
    <3> HIDE DEF U
    <3>3. X \in SUBSET (0..N) /\ StandsFor(v, X, N) /\ Y = X \cup (r.start..(r.end - 1))
      BY <2>4, <2>7, <3>1, <3>2
    <3>4. v \in Spans /\ r.start \in Nat /\ r.end \in 0..N /\ r.start < r.end /\ v.start <= r.start
      BY <2>4, <2>5, <2>6
    <3>5. StandsFor(Merge(v, r), X \cup (r.start..(r.end - 1)), N) /\ Merge(v, r).start <= r.start
      BY <3>3, <3>4, MergedRow
    <3> QED BY <2>8, <3>2, <3>3, <3>5
  <2> HIDE DEF U
  <2> QED BY <2>1, <2>3, <2>9
<1>4. n \in G
  <2>1. Nat \subseteq G
    <3> HIDE DEF G
    <3> QED BY <1>2, <1>3, CountingUp
  <2> QED BY <2>1
<1> QED BY <1>4

\* A sequence of a set has each of its elements once.
LEMMA InSequence ==
    ASSUME NEW R, IsFiniteSet(R), NEW q \in SetToSeqs(R)
    PROVE  /\ q \in Seq(R) /\ Len(q) = Cardinality(R) /\ Cardinality(R) \in Nat
           /\ \A i \in 1..Len(q) : q[i] \in R
           /\ \A i, j \in 1..Len(q) : i # j => q[i] # q[j]
           /\ \A r \in R : \E i \in 1..Len(q) : q[i] = r
<1>1. PICK c : c = Cardinality(R)
  OBVIOUS
<1>2. c \in Nat
  BY <1>1, FS_CardinalityType
<1>3. /\ q \in Seq(R) /\ Len(q) = c /\ DOMAIN q = 1..c
      /\ \A i, j \in 1..c : i # j => q[i] # q[j]
  BY <1>1, RowSequences
<1>4. q \in [1..c -> R]
  BY <1>3, LenProperties
<1>5. q \in Injection(1..c, R)
  BY <1>3, <1>4 DEF Injection, IsInjective
<1>6. Cardinality(1..c) = Cardinality(R)
  <2>1. (IF 1 > c THEN 0 ELSE c - 1 + 1) = c
    BY <1>2
  <2> QED BY <1>1, <1>2, <2>1, FS_Interval
<1>7. q \in Surjection(1..c, R)
  BY <1>5, <1>6, FS_Injection
<1>8. \A r \in R : \E i \in 1..c : q[i] = r
  BY <1>7 DEF Surjection
<1> QED BY <1>1, <1>2, <1>3, <1>4, <1>8

LEMMA RowsInSequence ==
    ASSUME NEW R, IsFiniteSet(R), NEW q \in SortedRows(R)
    PROVE  /\ q \in Seq(R) /\ Len(q) = Cardinality(R) /\ Cardinality(R) \in Nat
           /\ \A i \in 1..Len(q) : q[i] \in R
           /\ \A r \in R : \E i \in 1..Len(q) : q[i] = r
           /\ \A i, j \in 1..Len(q) : i < j => ~ Earlier(q[j], q[i])
<1>1. q \in SetToSeqs(R) /\ \A i, j \in 1..Len(q) : i < j => ~ Earlier(q[j], q[i])
  BY DEF SortedRows
<1> QED BY <1>1, InSequence

\* The instants up to N that rows cover, and rows that could be reported.
Coverage(s, N) == {t \in 0..N : \E r \in s : r.start <= t /\ t < r.end}
AreRows(D, N) == /\ IsFiniteSet(D)
                 /\ \A r \in D : r.start \in Nat /\ r.end \in 0..N /\ r.start < r.end

LEMMA ElapsedOfRows ==
    ASSUME NEW N \in Nat, NEW R, AreRows(R, N), R # {}
    PROVE  Elapsed(R) = HalfEven(Cardinality(Coverage(R, N)), Ticks)
<1> USE DEF AreRows
<1> DEFINE q == CHOOSE s \in SetToSeqs(R) : \A i, j \in 1..Len(s) : i < j => ~ Earlier(s[j], s[i])
           base == [before |-> 0, start |-> Head(q).start, end |-> Head(q).end]
           last == FoldLeft(Merge, base, Tail(q))
<1>1. q \in SortedRows(R)
  <2>1. SortedRows(R) # {}
    <3>1. \A r \in R : r.start \in 0..N /\ r.end \in 0..N
      OBVIOUS
    <3> QED BY <3>1, RowsCanBeSorted
  <2>2. PICK x : x \in SetToSeqs(R) /\ \A i, j \in 1..Len(x) : i < j => ~ Earlier(x[j], x[i])
    BY <2>1 DEF SortedRows
  <2>3. q \in SetToSeqs(R) /\ \A i, j \in 1..Len(q) : i < j => ~ Earlier(q[j], q[i])
    BY <2>2
  <2> HIDE DEF q
  <2> QED BY <2>3 DEF SortedRows
<1>2. Elapsed(R) = HalfEven(last.before + (last.end - last.start), Ticks)
  BY DEF Elapsed
<1> HIDE DEF q
<1>3. /\ q \in Seq(R) /\ Len(q) = Cardinality(R) /\ Cardinality(R) \in Nat
      /\ \A i \in 1..Len(q) : q[i] \in R
      /\ \A r \in R : \E i \in 1..Len(q) : q[i] = r
      /\ \A i, j \in 1..Len(q) : i < j => ~ Earlier(q[j], q[i])
  BY <1>1, RowsInSequence
<1>4. PICK n \in Nat : Len(q) = n + 1
  <2>1. Cardinality(R) # 0
    BY FS_EmptySet
  <2>2. Cardinality(R) - 1 \in Nat /\ Len(q) = (Cardinality(R) - 1) + 1
    BY <1>3, <2>1
  <2> QED BY <2>2
<1>5. PICK t : t = Tail(q)
  OBVIOUS
<1>6. q # <<>>
  BY <1>3, <1>4
<1>7. Head(q) = q[1] /\ DOMAIN t = 1..n /\ \A i \in 1..n : t[i] = q[i + 1]
  <2>1. Head(q) = q[1]
    BY <1>3, <1>6, HeadTailProperties
  <2>2. t \in Seq(R) /\ Len(t) = n /\ \A i \in 1..Len(t) : t[i] = q[i + 1]
    BY <1>3, <1>4, <1>5, <1>6, HeadTailProperties
  <2>3. DOMAIN t = 1..Len(t)
    BY <2>2
  <2> QED BY <2>1, <2>2, <2>3
<1>8. \A i \in 1..(n + 1) : q[i].start \in Nat /\ q[i].end \in 0..N /\ q[i].start < q[i].end
  BY <1>3, <1>4
<1>9. \A i, j \in 1..(n + 1) : i < j => q[i].start <= q[j].start
  <2> SUFFICES ASSUME NEW i \in 1..(n + 1), NEW j \in 1..(n + 1), i < j PROVE q[i].start <= q[j].start
    OBVIOUS
  <2>1. ~ (q[j].start < q[i].start)
    BY <1>3, <1>4 DEF Earlier
  <2>2. q[i].start \in Nat /\ q[j].start \in Nat
    BY <1>8
  <2> QED BY <2>1, <2>2
<1>10. PICK b : b = base
  OBVIOUS
<1>11. b \in Spans /\ b = [before |-> 0, start |-> q[1].start, end |-> q[1].end]
  <2>1. 1 \in 1..(n + 1)
    OBVIOUS
  <2>2. q[1].start \in Int /\ q[1].end \in Int
    BY <1>8, <2>1
  <2> QED BY <1>7, <1>10, <2>2 DEF Spans
<1>12. PICK m \in [0..n -> Spans] : /\ m[0] = b /\ \A i \in 1..n : m[i] = Merge(m[i - 1], t[i])
                                    /\ FoldLeft(Merge, b, t) = m[n]
  <2>1. \A i \in 1..n : t[i].start \in Int /\ t[i].end \in Int
    <3>1. \A i \in 1..n : i + 1 \in 1..(n + 1)
      OBVIOUS
    <3>2. ASSUME NEW i \in 1..n PROVE t[i].start \in Int /\ t[i].end \in Int
      <4>1. i + 1 \in 1..(n + 1) /\ t[i] = q[i + 1]
        BY <1>7, <3>1
      <4>2. q[i + 1].start \in Nat /\ q[i + 1].end \in 0..N
        BY <1>8, <4>1
      <4> QED BY <4>1, <4>2
    <3> QED BY <3>2
  <2>2. DOMAIN t = 1..n
    BY <1>7
  <2>3. b \in Spans
    BY <1>11
  <2>4. PICK w \in [0..n -> Spans] : IsMergeRun(w, n, t, b)
    BY <2>1, <2>2, <2>3, MergeFold
  <2> QED BY <2>4 DEF IsMergeRun
<1>13. StandsFor(m[n], Instants(q, n + 1, N), N)
  <2>1. \A i \in 1..n : m[i] = Merge(m[i - 1], q[i + 1])
    BY <1>7, <1>12
  <2> QED BY <1>8, <1>9, <1>11, <1>12, <2>1, MergedRows
<1>14. Cardinality(Instants(q, n + 1, N)) = last.before + (last.end - last.start)
  <2>1. last = m[n]
    BY <1>5, <1>10, <1>12
  <2> QED BY <1>13, <2>1 DEF StandsFor
<1>15. Instants(q, n + 1, N) = Coverage(R, N)
  <2>1. \A x \in 0..N : (\E j \in 1..(n + 1) : q[j].start <= x /\ x < q[j].end)
                        <=> (\E r \in R : r.start <= x /\ x < r.end)
    BY <1>3, <1>4
  <2> QED BY <2>1 DEF Instants, Coverage
<1> QED BY <1>2, <1>14, <1>15

LEMMA ElapsedOfReport ==
    ASSUME Recorded, NEW p \in Periods
    PROVE  /\ AreRows(Rows(p), now)
           /\ Elapsed(Rows(p)) = HalfEven(Cardinality(Coverage(Rows(p), now)), Ticks)
<1>1. PICK R : R = Rows(p)
  OBVIOUS
<1>2. now \in Nat
  BY DEF Recorded
<1>3. AreRows(R, now)
  <2>1. IsFiniteSet(R) /\ \A r \in R : r.start \in Nat /\ r.end \in Nat /\ r.start < r.end /\ r.end <= now
    BY <1>1, RowTimes
  <2> QED BY <1>2, <2>1 DEF AreRows
<1>4. CASE R # {}
  BY <1>1, <1>2, <1>3, <1>4, ElapsedOfRows
<1>5. CASE R = {}
  <2>1. Coverage(R, now) = {}
    BY <1>5 DEF Coverage
  <2>2. Cardinality(Coverage(R, now)) = 0
    BY <2>1, FS_EmptySet
  <2>3. Elapsed(R) = 0
    BY <1>5 DEF Elapsed
  <2>4. PICK n : n = Ticks
    OBVIOUS
  <2>5. n \in Nat \ {0} /\ n * 0 = 0
    BY <2>4, TickAssumption
  <2>6. HalfEven(0, Ticks) = 0
    BY <2>4, <2>5, ExactRounding
  <2> QED BY <1>1, <1>3, <2>2, <2>3, <2>6
<1> QED BY <1>4, <1>5

LEMMA ElapsedCovers ==
    ASSUME Recorded, NEW p \in Periods
    PROVE  LET covered == {t \in PeriodStart(p)..(now - 1) : \E g \in segments : g.start <= t /\ t < EndNow(g)}
           IN  Elapsed(Rows(p)) = HalfEven(Cardinality(covered), Ticks)
<1>1. PICK R, first : R = Rows(p) /\ first = PeriodStart(p)
  OBVIOUS
<1>2. /\ IsFiniteSet(R) /\ first \in Nat /\ now \in Nat /\ first <= now
      /\ \A r \in R : r.start \in Nat /\ r.end \in 0..now /\ r.start < r.end /\ first <= r.start
  <2>1. now \in Nat
    BY DEF Recorded
  <2>2. first \in Nat /\ first <= now
    BY <1>1, PeriodBegins
  <2>3. IsFiniteSet(R) /\ \A r \in R : /\ r.start \in Nat /\ r.end \in Nat /\ r.start < r.end
                                       /\ r.end <= now /\ first <= r.start
    BY <1>1, RowTimes
  <2> QED BY <2>1, <2>2, <2>3
<1>3. PICK T : T = {t \in first..(now - 1) : \E g \in segments : g.start <= t /\ t < EndNow(g)}
  OBVIOUS
<1>4. R = {Cut(g, first) : g \in {h \in segments : h.start < EndNow(h) /\ EndNow(h) > first}}
  BY <1>1, RowsAreCuts
<1>5. T = {t \in 0..now : \E r \in R : r.start <= t /\ t < r.end}
  <2>1. ASSUME NEW t \in T PROVE t \in 0..now /\ \E r \in R : r.start <= t /\ t < r.end
    <3>1. t \in Int /\ first <= t /\ t <= now - 1
      BY <1>2, <1>3
    <3>2. PICK g \in segments : g.start <= t /\ t < EndNow(g)
      BY <1>3
    <3>3. g.start \in Nat /\ EndNow(g) \in Nat
      BY SegmentTimes
    <3>4. Cut(g, first) \in R
      BY <1>2, <1>4, <3>1, <3>2, <3>3
    <3>5. Cut(g, first).start <= t /\ t < Cut(g, first).end
      BY <3>1, <3>2 DEF Cut
    <3> QED BY <1>2, <3>1, <3>4, <3>5
  <2>2. ASSUME NEW t \in 0..now, NEW r \in R, r.start <= t, t < r.end PROVE t \in T
    <3>1. PICK g \in segments : r = Cut(g, first)
      BY <1>4
    <3>2. g.start \in Nat /\ EndNow(g) \in Nat /\ EndNow(g) <= now
      BY SegmentTimes
    <3>3. r.end = EndNow(g) /\ g.start <= r.start
      BY <1>2, <3>1, <3>2 DEF Cut
    <3>4. r.start \in Nat /\ first <= r.start
      BY <1>2
    <3>5. t \in first..(now - 1)
      BY <1>2, <2>2, <3>2, <3>3, <3>4
    <3>6. g.start <= t /\ t < EndNow(g)
      BY <2>2, <3>2, <3>3, <3>4
    <3> QED BY <1>3, <3>5, <3>6
  <2> QED BY <2>1, <2>2
<1>6. T = Coverage(R, now)
  BY <1>5 DEF Coverage
<1> QED BY <1>1, <1>3, <1>6, ElapsedOfReport

(* Merging the rows neither loses nor repeats time, for every number of    *)
(* segments and however they overlap, nest or touch: the elapsed seconds   *)
(* of a report are the time in its period during which something was       *)
(* running, rounded once.                                                  *)
THEOREM ElapsedTheorem == Spec => []ElapsedIsCoveredTime
<1>1. Recorded => ElapsedIsCoveredTime
  BY ElapsedCovers DEF ElapsedIsCoveredTime
<1> QED BY <1>1, RecordedTheorem, PTL

-----------------------------------------------------------------------------
(* Concurrency. *)

LEMMA CoverageOfOneMore ==
    ASSUME NEW N \in Nat, NEW D, AreRows(D, N), NEW s \in SUBSET D, NEW x \in s
    PROVE  LET rest == Coverage(s \ {x}, N)
               own == x.start..(x.end - 1)
           IN  /\ Cardinality(rest) \in Nat /\ Cardinality(rest \cap own) \in Nat
               /\ IsFiniteSet(rest \cap own)
               /\ Cardinality(Coverage(s, N)) = Cardinality(rest) + (x.end - x.start) - Cardinality(rest \cap own)
<1>1. PICK a, b : a = x.start /\ b = x.end
  OBVIOUS
<1>2. a \in Nat /\ b \in 0..N /\ a < b
  BY <1>1 DEF AreRows
<1>3. PICK A, B : A = Coverage(s \ {x}, N) /\ B = a..(b - 1)
  OBVIOUS
<1>4. IsFiniteSet(A)
  <2>1. IsFiniteSet(0..N) /\ A \in SUBSET (0..N)
    BY <1>3, FS_Interval DEF Coverage
  <2> QED BY <2>1, FS_Subset
<1>5. IsFiniteSet(B) /\ Cardinality(B) = b - a
  <2>1. b - 1 \in Int /\ (IF a > b - 1 THEN 0 ELSE (b - 1) - a + 1) = b - a
    BY <1>2
  <2> QED BY <1>2, <1>3, <2>1, FS_Interval
<1>6. Coverage(s, N) = A \cup B
  <2>1. \A t \in 0..N : t \in Coverage(s, N) <=> (t \in A \/ (a <= t /\ t < b))
    BY <1>1, <1>3 DEF Coverage
  <2>2. \A t \in 0..N : (a <= t /\ t < b) <=> t \in B
    BY <1>2, <1>3
  <2>3. B \in SUBSET (0..N)
    BY <1>2, <1>3
  <2>4. A \in SUBSET (0..N) /\ Coverage(s, N) \in SUBSET (0..N)
    BY <1>3 DEF Coverage
  <2> QED BY <2>1, <2>2, <2>3, <2>4
<1>7. Cardinality(A \cup B) = Cardinality(A) + Cardinality(B) - Cardinality(A \cap B)
  BY <1>4, <1>5, FS_Union
<1>8. Cardinality(A) \in Nat
  BY <1>4, FS_CardinalityType
<1>9. IsFiniteSet(A \cap B) /\ Cardinality(A \cap B) \in Nat
  BY <1>4, FS_Intersection, FS_CardinalityType
<1> QED BY <1>1, <1>3, <1>5, <1>6, <1>7, <1>8, <1>9

Apart(r, t) == r.end <= t.start \/ t.end <= r.start

LEMMA CoverageIsWithinSum ==
    ASSUME NEW N \in Nat, NEW D, AreRows(D, N),
           NEW f, \A r \in D : f[r] = r.end - r.start, NEW g, IsSum(g, D, f)
    PROVE  \A s \in SUBSET D :
              /\ Cardinality(Coverage(s, N)) <= g[s]
              /\ (\A r, t \in s : r # t => Apart(r, t)) => Cardinality(Coverage(s, N)) = g[s]
<1> DEFINE P(s) == (\A r, t \in s : r # t => Apart(r, t))
           c(s) == Cardinality(Coverage(s, N))
           G == {s \in SUBSET D : c(s) <= g[s] /\ (P(s) => c(s) = g[s])}
<1>1. ASSUME NEW s \in SUBSET D, \A x \in s : s \ {x} \in G PROVE s \in G
  <2>1. CASE s = {}
    <3>1. Coverage(s, N) = {}
      BY <2>1 DEF Coverage
    <3>2. c(s) = 0
      BY <3>1, FS_EmptySet
    <3>3. g[s] = 0
      BY <2>1 DEF IsSum
    <3> HIDE DEF c
    <3> QED BY <3>2, <3>3
  <2>2. CASE s # {}
    <3>1. PICK x : x \in s
      BY <2>2
    <3>2. PICK a, b, u : a = x.start /\ b = x.end /\ u = s \ {x}
      OBVIOUS
    <3>3. a \in Nat /\ b \in Nat /\ a < b
      BY <3>1, <3>2 DEF AreRows
    <3>4. PICK V : V = Coverage(u, N) \cap (a..(b - 1))
      OBVIOUS
    <3>5. /\ c(u) \in Nat /\ Cardinality(V) \in Nat
          /\ c(s) = c(u) + (b - a) - Cardinality(V)
      BY <3>1, <3>2, <3>4, CoverageOfOneMore
    <3>6. u \in SUBSET D /\ c(u) <= g[u] /\ (P(u) => c(u) = g[u])
      BY <1>1, <3>1, <3>2
    <3>7. g[u] \in Int /\ g[s] = (b - a) + g[u]
      BY <3>1, <3>2, <3>6 DEF IsSum
    <3>8. P(s) => P(u)
      BY <3>2
    <3>9. P(s) => V = {}
      <4> SUFFICES ASSUME P(s), NEW t \in V PROVE FALSE
        OBVIOUS
      <4>1. t \in Int /\ a <= t /\ t < b
        BY <3>3, <3>4
      <4>2. PICK r \in u : r.start <= t /\ t < r.end
        BY <3>4 DEF Coverage
      <4>3. r \in s /\ r # x /\ Apart(r, x)
        BY <3>1, <3>2, <4>2
      <4>4. r.start \in Nat /\ r.end \in Nat
        BY <4>3 DEF AreRows
      <4> QED BY <3>2, <3>3, <4>1, <4>2, <4>3, <4>4 DEF Apart
    <3>10. P(s) => Cardinality(V) = 0
      BY <3>9, FS_EmptySet
    <3> HIDE DEF c, P
    <3>11. c(s) <= g[s]
      BY <3>3, <3>5, <3>6, <3>7
    <3>12. P(s) => c(s) = g[s]
      BY <3>3, <3>5, <3>6, <3>7, <3>8, <3>10
    <3> QED BY <3>11, <3>12
  <2> QED BY <2>1, <2>2
<1>2. \A s \in SUBSET D : s \in G
  <2>1. IsFiniteSet(D)
    BY DEF AreRows
  <2> HIDE DEF G
  <2> QED BY <1>1, <2>1, SubsetInduction
<1> QED BY <1>2

LEMMA OverlapIsMissing ==
    ASSUME NEW N \in Nat, NEW D, AreRows(D, N),
           NEW f, \A r \in D : f[r] = r.end - r.start, NEW g, IsSum(g, D, f),
           NEW x \in D, NEW y \in D, x # y, NEW a \in Nat, NEW n \in Nat,
           x.start <= a, a + n <= x.end, y.start <= a, a + n <= y.end
    PROVE  g[D] \in Int /\ Cardinality(Coverage(D, N)) + n <= g[D]
<1>1. PICK u, A, B, V : u = D \ {x} /\ A = Coverage(u, N) /\ B = x.start..(x.end - 1) /\ V = A \cap B
  OBVIOUS
<1>2. /\ x.start \in Nat /\ x.end \in 0..N /\ y.start \in Nat /\ y.end \in 0..N
  BY DEF AreRows
<1>3. /\ Cardinality(Coverage(u, N)) \in Nat /\ Cardinality(V) \in Nat /\ IsFiniteSet(V)
      /\ Cardinality(Coverage(D, N)) = Cardinality(Coverage(u, N)) + (x.end - x.start) - Cardinality(V)
  <2>1. PICK s : s = D
    OBVIOUS
  <2>2. s \in SUBSET D /\ x \in s
    BY <2>1
  <2>3. A = Coverage(s \ {x}, N)
    BY <1>1, <2>1
  <2>4. /\ Cardinality(A) \in Nat /\ Cardinality(V) \in Nat /\ IsFiniteSet(V)
        /\ Cardinality(Coverage(s, N)) = Cardinality(A) + (x.end - x.start) - Cardinality(V)
    <3>1. PICK v : v = s \ {x}
      OBVIOUS
    <3>2. PICK b, e : b = x.start /\ e = x.end
      OBVIOUS
    <3>3. PICK C : C = Coverage(v, N) \cap (b..(e - 1))
      OBVIOUS
    <3>4. Cardinality(Coverage(v, N)) \in Nat
      BY <2>2, <3>1, <3>2, <3>3, CoverageOfOneMore
    <3>5. Cardinality(C) \in Nat /\ IsFiniteSet(C)
      BY <2>2, <3>1, <3>2, <3>3, CoverageOfOneMore
    <3>6. Cardinality(Coverage(s, N)) = Cardinality(Coverage(v, N)) + (e - b) - Cardinality(C)
      BY <2>2, <3>1, <3>2, <3>3, CoverageOfOneMore
    <3> QED BY <1>1, <2>3, <3>1, <3>2, <3>3, <3>4, <3>5, <3>6
  <2> QED BY <1>1, <2>1, <2>4
<1>4. Cardinality(Coverage(u, N)) <= g[u]
  <2>1. u \in SUBSET D
    BY <1>1
  <2> QED BY <2>1, CoverageIsWithinSum
<1>5. g[u] \in Int /\ g[D] \in Int /\ g[D] = (x.end - x.start) + g[u]
  <2>1. D \in SUBSET D /\ u \in SUBSET D
    BY <1>1
  <2>2. g[u] \in Int /\ g[D] \in Int
    BY <2>1 DEF IsSum
  <2>3. g[D] = f[x] + g[D \ {x}]
    BY <2>1 DEF IsSum
  <2>4. f[x] = x.end - x.start
    OBVIOUS
  <2> QED BY <1>1, <2>2, <2>3, <2>4
<1>6. Cardinality(V) >= n
  <2>1. PICK W : W = a..(a + n - 1)
    OBVIOUS
  <2>2. W \in SUBSET V
    <3> SUFFICES ASSUME NEW t \in W PROVE t \in V
      OBVIOUS
    <3>1. t \in Int /\ a <= t /\ t < a + n
      BY <2>1
    <3>2. t \in x.start..(x.end - 1) /\ t \in 0..N /\ y.start <= t /\ t < y.end
      BY <1>2, <3>1
    <3>3. y \in u
      BY <1>1
    <3> QED BY <1>1, <3>2, <3>3 DEF Coverage
  <2>3. Cardinality(W) = n
    <3>1. PICK e : e = a + n - 1
      OBVIOUS
    <3>2. e \in Int /\ a \in Int
      BY <3>1
    <3>3. Cardinality(a..e) = IF a > e THEN 0 ELSE e - a + 1
      BY <3>2, FS_Interval
    <3> QED BY <2>1, <3>1, <3>2, <3>3
  <2> QED BY <1>3, <2>2, <2>3, FS_Subset
<1> QED BY <1>2, <1>3, <1>4, <1>5, <1>6

LEMMA WholeSums ==
    ASSUME Recorded, WholeSeconds, NEW p \in Periods
    PROVE  \E f, g : /\ \A r \in Rows(p) : f[r] = r.end - r.start
                     /\ IsSum(g, Rows(p), f)
                     /\ g[Rows(p)] = Ticks * Attributed(Rows(p))
                     /\ Attributed(Rows(p)) \in Nat
<1>1. PICK R, n : R = Rows(p) /\ n = Ticks
  OBVIOUS
<1>2. PICK f, k : f = [r \in R |-> r.end - r.start] /\ k = [r \in R |-> Seconds(r)]
  OBVIOUS
<1>3. n \in Nat \ {0} /\ IsFiniteSet(R)
  BY <1>1, TickAssumption, RowTimes
<1>4. \A r \in R : k[r] \in Nat /\ f[r] \in Int /\ f[r] = n * k[r] /\ f[r] = r.end - r.start
  <2> SUFFICES ASSUME NEW r \in R PROVE k[r] \in Nat /\ f[r] \in Int /\ f[r] = n * k[r] /\ f[r] = r.end - r.start
    OBVIOUS
  <2>1. k[r] = Seconds(r) /\ f[r] = r.end - r.start
    BY <1>2
  <2>2. Seconds(r) \in Nat /\ r.end - r.start \in Nat
    BY <1>1, RowSeconds
  <2>3. r.end - r.start = Ticks * Seconds(r)
    BY <1>1, WholeRows
  <2> QED BY <1>1, <2>1, <2>2, <2>3
<1>5. PICK g : IsSum(g, R, f)
  <2>1. \A r \in R : f[r] \in Int
    BY <1>4
  <2> QED BY <1>3, <2>1, Sums
<1>6. PICK h : IsSum(h, R, k) /\ \A A \in SUBSET R : SumFunction([r \in A |-> k[r]]) = h[A]
  <2>1. \A r \in R : k[r] \in Int
    BY <1>4
  <2> QED BY <1>3, <2>1, Sums
<1>7. R \in SUBSET R
  OBVIOUS
<1>8. g[R] = n * h[R]
  <2>1. \A r \in R : k[r] \in Int /\ f[r] = n * k[r]
    BY <1>4
  <2> QED BY <1>3, <1>5, <1>6, <1>7, <2>1, SumOfMultiples
<1>9. h[R] \in Nat
  BY <1>3, <1>4, <1>6, <1>7, SumIsMonotone
<1>10. Attributed(R) = h[R]
  <2>1. [r \in R |-> Seconds(r)] = [r \in R |-> k[r]]
    BY <1>2
  <2> QED BY <1>6, <1>7, <2>1 DEF Attributed
<1> QED BY <1>1, <1>4, <1>5, <1>8, <1>9, <1>10

\* Rows of sessions of which none is marked as concurrent do not overlap.
LEMMA UnmarkedRowsAreApart ==
    ASSUME Recorded, NEW p \in Periods, \A s \in Started : ~ IsConcurrent(s),
           NEW r \in Rows(p), NEW t \in Rows(p), r # t
    PROVE  Apart(r, t)
<1>1. PICK first : first = PeriodStart(p)
  OBVIOUS
<1>2. Rows(p) = {Cut(g, first) : g \in {h \in segments : h.start < EndNow(h) /\ EndNow(h) > first}}
  BY <1>1, RowsAreCuts
<1>3. PICK g \in segments : g.start < EndNow(g) /\ r = Cut(g, first)
  BY <1>2
<1>4. PICK h \in segments : h.start < EndNow(h) /\ t = Cut(h, first)
  BY <1>2
<1>5. g # h
  BY <1>3, <1>4
<1>6. /\ g.start \in Nat /\ EndNow(g) \in Nat /\ h.start \in Nat /\ EndNow(h) \in Nat
      /\ g.session \in Started /\ h.session \in Started /\ first \in Nat
  BY <1>1, SegmentTimes, PeriodBegins
<1>7. EndNow(g) <= h.start \/ EndNow(h) <= g.start
  <2>1. CASE g.session = h.session
    <3>1. g.end <= h.start \/ h.end <= g.start
      BY <1>5, <2>1 DEF Recorded
    <3>2. g.start <= MaxTime /\ h.start <= MaxTime /\ Open > MaxTime /\ MaxTime \in Nat /\ Open \in Int
      BY OpenIsAfterAll DEF Recorded
    <3> QED BY <1>6, <3>1, <3>2 DEF EndNow
  <2>2. CASE g.session # h.session
    <3>1. g \in Of(g.session) /\ ~ Overlap(g, h)
      BY <1>6, <2>2 DEF IsConcurrent, Of
    <3> QED BY <1>3, <1>4, <1>6, <3>1 DEF Overlap
  <2> QED BY <2>1, <2>2
<1>8. r.end = EndNow(g) /\ g.start <= r.start /\ t.end = EndNow(h) /\ h.start <= t.start
      /\ r.start \in Nat /\ t.start \in Nat
  BY <1>3, <1>4, <1>6 DEF Cut
<1> QED BY <1>6, <1>7, <1>8 DEF Apart

LEMMA WholeTimes ==
    ASSUME Recorded, WholeSeconds, NEW g \in segments
    PROVE  \E a \in Int, b \in Int : g.start = Ticks * a /\ EndNow(g) = Ticks * b
<1>1. Ticks \in Nat \ {0}
  BY TickAssumption
<1>2. g.start \in Int /\ EndNow(g) \in Int /\ g.start % Ticks = 0 /\ EndNow(g) % Ticks = 0
  BY SegmentTimes DEF WholeSeconds
<1>3. (\E q \in Int : g.start = Ticks * q) /\ (\E q \in Int : EndNow(g) = Ticks * q)
  BY <1>1, <1>2, Multiples
<1> QED BY <1>3

\* Whole seconds that overlap do so for a second at least.
LEMMA MarkedRowsOverlap ==
    ASSUME Recorded, WholeSeconds, NEW p \in Periods, PeriodStart(p) = 0,
           NEW s \in Started, IsConcurrent(s)
    PROVE  \E x, y \in Rows(p) : \E a \in Nat :
              /\ x # y
              /\ x.start <= a /\ a + Ticks <= x.end
              /\ y.start <= a /\ a + Ticks <= y.end
<1>1. Rows(p) = {Cut(g, 0) : g \in {h \in segments : h.start < EndNow(h) /\ EndNow(h) > 0}}
  BY RowsAreCuts
<1>2. PICK g \in segments, h \in segments : g.session # h.session /\ Overlap(g, h)
  BY DEF IsConcurrent, Of
<1>3. PICK n : n = Ticks
  OBVIOUS
<1>4. n \in Nat \ {0}
  BY <1>3, TickAssumption
<1>5. PICK a, b, c, d : a = g.start /\ b = EndNow(g) /\ c = h.start /\ d = EndNow(h)
  OBVIOUS
<1>6. a \in Nat /\ b \in Nat /\ c \in Nat /\ d \in Nat /\ a < b /\ c < d /\ a < d /\ c < b
  BY <1>2, <1>5, SegmentTimes DEF Overlap
<1>7. \A x, y \in {a, b, c, d} : x < y => x + n <= y
  <2> SUFFICES ASSUME NEW x \in {a, b, c, d}, NEW y \in {a, b, c, d}, x < y PROVE x + n <= y
    OBVIOUS
  <2>1. (\E i \in Int : x = n * i) /\ (\E i \in Int : y = n * i)
    BY <1>3, <1>5, WholeTimes
  <2>2. PICK i \in Int, j \in Int : x = n * i /\ y = n * j
    BY <2>1
  <2>3. PICK k : k = j - i
    OBVIOUS
  <2>4. k \in Int /\ n * k \in Int /\ y - x = n * k
    BY <1>4, <2>2, <2>3
  <2>5. k >= 1
    <3> SUFFICES ASSUME k <= 0 PROVE FALSE
      BY <2>4
    <3>1. n * k <= 0
      BY <1>4, <2>4
    <3> QED BY <1>6, <2>4, <3>1
  <2>6. n * k >= n
    BY <1>4, <2>4, <2>5
  <2> QED BY <1>4, <1>6, <2>4, <2>6
<1>8. PICK x, y : x = Cut(g, 0) /\ y = Cut(h, 0)
  OBVIOUS
<1>9. x \in Rows(p) /\ y \in Rows(p) /\ x # y
  <2>1. x.session = g.session /\ y.session = h.session
    BY <1>8 DEF Cut
  <2>2. EndNow(g) > 0 /\ EndNow(h) > 0 /\ g.start < EndNow(g) /\ h.start < EndNow(h)
    BY <1>5, <1>6
  <2> QED BY <1>1, <1>2, <1>8, <2>1, <2>2
<1>10. x.start = a /\ x.end = b /\ y.start = c /\ y.end = d
  BY <1>5, <1>6, <1>8 DEF Cut
<1>11. PICK e \in Nat : e = IF a >= c THEN a ELSE c
  BY <1>6
<1>12. a <= e /\ c <= e /\ e + n <= b /\ e + n <= d
  <2>1. a + n <= b /\ a + n <= d /\ c + n <= b /\ c + n <= d
    BY <1>6, <1>7
  <2> QED BY <1>6, <1>11, <2>1
<1> QED BY <1>3, <1>9, <1>10, <1>11, <1>12

LEMMA RoundedBelow ==
    ASSUME NEW n \in Nat \ {0}, NEW c \in Int, NEW q \in Int, c + n <= n * q
    PROVE  HalfEven(c, n) < q
<1>1. PICK e : e = HalfEven(c, n)
  OBVIOUS
<1>2. e \in Int /\ 2 * (n * e - c) <= n /\ n * e \in Int /\ n * q \in Int
  BY <1>1, HalfEvenIsNear
<1>3. PICK k : k = q - e
  OBVIOUS
<1>4. k \in Int /\ n * k \in Int /\ n * q - n * e = n * k
  BY <1>2, <1>3
<1>5. n * k >= 1
  BY <1>2, <1>4
<1>6. k >= 1
  <2> SUFFICES ASSUME k <= 0 PROVE FALSE
    BY <1>4
  <2>1. n * k <= 0
    BY <1>4
  <2> QED BY <1>4, <1>5, <2>1
<1> QED BY <1>1, <1>2, <1>3, <1>6

LEMMA CoverageIsCounted ==
    ASSUME NEW N \in Nat, NEW R
    PROVE  Cardinality(Coverage(R, N)) \in Int
<1>1. PICK S : S = Coverage(R, N)
  OBVIOUS
<1>2. IsFiniteSet(0..N) /\ S \in SUBSET (0..N)
  BY <1>1, FS_Interval DEF Coverage
<1>3. IsFiniteSet(S)
  BY <1>2, FS_Subset
<1> QED BY <1>1, <1>3, FS_CardinalityType

LEMMA ReportTotals ==
    ASSUME Recorded, NEW p \in Periods
    PROVE  Attributed(Rows(p)) \in Int /\ Elapsed(Rows(p)) \in Int
<1>1. PICK R, k : R = Rows(p) /\ k = [r \in R |-> Seconds(r)]
  OBVIOUS
<1>2. IsFiniteSet(R) /\ \A r \in R : k[r] \in Int
  BY <1>1, RowTimes, RowSeconds
<1>3. PICK h : IsSum(h, R, k) /\ \A A \in SUBSET R : SumFunction([r \in A |-> k[r]]) = h[A]
  BY <1>2, Sums
<1>4. Attributed(R) \in Int
  <2>1. [r \in R |-> Seconds(r)] = [r \in R |-> k[r]] /\ R \in SUBSET R
    BY <1>1
  <2> QED BY <1>3, <2>1 DEF Attributed, IsSum
<1>5. PICK c : c = Cardinality(Coverage(R, now))
  OBVIOUS
<1>6. c \in Int
  BY <1>5, CoverageIsCounted DEF Recorded
<1>7. Elapsed(R) \in Int
  <2>1. Elapsed(R) = HalfEven(c, Ticks)
    BY <1>1, <1>5, ElapsedOfReport
  <2> QED BY <1>6, <2>1, HalfEvenIsNear, TickAssumption
<1> QED BY <1>1, <1>4, <1>7

LEMMA NoteIsShown ==
    ASSUME Recorded, NEW p \in Periods
    PROVE  LET R == Rows(p)
           IN  /\ NoteShown(R) <=> Attributed(R) > Elapsed(R)
               /\ NoteShown(R) => Concurrent(R) = Attributed(R) - Elapsed(R)
<1>1. PICK a, e : a = Attributed(Rows(p)) /\ e = Elapsed(Rows(p))
  OBVIOUS
<1>2. a \in Int /\ e \in Int
  BY <1>1, ReportTotals
<1>3. Max({0, a - e}) = IF 0 >= a - e THEN 0 ELSE a - e
  BY <1>2, MaxOfTwo
<1> QED BY <1>1, <1>2, <1>3 DEF NoteShown, Concurrent

LEMMA NoteInWholeSeconds ==
    ASSUME Recorded, WholeSeconds, NEW p \in Periods
    PROVE  LET marked == \E s \in Started : IsConcurrent(s)
           IN  /\ NoteShown(Rows(p)) => marked
               /\ PeriodStart(p) = 0 /\ marked => NoteShown(Rows(p))
<1>1. PICK R, n : R = Rows(p) /\ n = Ticks
  OBVIOUS
<1>2. PICK a, e, c : a = Attributed(R) /\ e = Elapsed(R) /\ c = Cardinality(Coverage(R, now))
  OBVIOUS
<1>3. PICK f, g : (\A r \in R : f[r] = r.end - r.start) /\ IsSum(g, R, f) /\ g[R] = n * a /\ a \in Nat
  BY <1>1, <1>2, WholeSums
<1>4. n \in Nat \ {0} /\ now \in Nat /\ e \in Int
  BY <1>1, <1>2, TickAssumption, ReportTotals DEF Recorded
<1>5. AreRows(R, now) /\ e = HalfEven(c, n)
  BY <1>1, <1>2, ElapsedOfReport
<1>6. ASSUME \A s \in Started : ~ IsConcurrent(s) PROVE ~ NoteShown(R)
  <2>1. \A r, t \in R : r # t => Apart(r, t)
    BY <1>1, <1>6, UnmarkedRowsAreApart
  <2>2. c = g[R]
    <3>1. PICK S : S = R
      OBVIOUS
    <3>2. S \in SUBSET R /\ \A r, t \in S : r # t => Apart(r, t)
      BY <2>1, <3>1
    <3>3. Cardinality(Coverage(S, now)) = g[S]
      BY <1>3, <1>4, <1>5, <3>2, CoverageIsWithinSum
    <3> QED BY <1>2, <3>1, <3>3
  <2>3. e = a
    BY <1>3, <1>4, <1>5, <2>2, ExactRounding
  <2>4. ~ (a > e)
    BY <1>3, <2>3
  <2> QED BY <1>1, <1>2, <2>4, NoteIsShown
<1>7. ASSUME PeriodStart(p) = 0, NEW s \in Started, IsConcurrent(s) PROVE NoteShown(R)
  <2>1. PICK x \in R, y \in R, i \in Nat : /\ x # y
                                           /\ x.start <= i /\ i + n <= x.end
                                           /\ y.start <= i /\ i + n <= y.end
    BY <1>1, <1>7, MarkedRowsOverlap
  <2>2. c + n <= g[R]
    <3>1. n \in Nat
      BY <1>4
    <3> QED BY <1>2, <1>3, <1>4, <1>5, <2>1, <3>1, OverlapIsMissing
  <2>3. c \in Int
    BY <1>2, <1>4, CoverageIsCounted
  <2>4. e < a
    <3>1. a \in Int /\ c + n <= n * a
      BY <1>3, <2>2
    <3> QED BY <1>4, <1>5, <2>3, <3>1, RoundedBelow
  <2>5. a > e
    BY <1>3, <1>4, <2>4
  <2> QED BY <1>1, <1>2, <2>5, NoteIsShown
<1> QED BY <1>1, <1>6, <1>7

LEMMA MinutesOfDifference ==
    ASSUME NEW n \in Nat \ {0}, NEW a \in Int, NEW e \in Int
    PROVE  (a \div n) - (e \div n) - ((a - e) \div n) \in {0, 1}
<1>1. a - e \in Int
  OBVIOUS
<1>2. PICK i \in Int, x \in Int : i = a \div n /\ 0 <= x /\ x < n /\ a = n * i + x
  BY Division
<1>3. PICK j \in Int, y \in Int : j = e \div n /\ 0 <= y /\ y < n /\ e = n * j + y
  BY Division
<1>4. PICK k \in Int, z \in Int : k = (a - e) \div n /\ 0 <= z /\ z < n /\ a - e = n * k + z
  BY <1>1, Division
<1>5. PICK d : d = i - j - k
  OBVIOUS
<1>6. d \in Int /\ n * d = n * i - n * j - n * k
  BY <1>5
<1>7. n * i \in Int /\ n * j \in Int /\ n * k \in Int /\ n * d \in Int
  BY <1>6
<1>8. - n < n * d /\ n * d < 2 * n
  BY <1>2, <1>3, <1>4, <1>6, <1>7
<1>9. d >= 0
  <2> SUFFICES ASSUME d <= -1 PROVE FALSE
    BY <1>6
  <2>1. n * d <= - n
    BY <1>6
  <2> QED BY <1>7, <1>8, <2>1
<1>10. d <= 1
  <2> SUFFICES ASSUME d >= 2 PROVE FALSE
    BY <1>6
  <2>1. n * d >= 2 * n
    BY <1>6
  <2> QED BY <1>7, <1>8, <2>1
<1> QED BY <1>2, <1>3, <1>4, <1>5, <1>6, <1>9, <1>10

\* What a report rounds, and by how much.
LEMMA RoundedReport ==
    ASSUME Recorded, NEW p \in Periods
    PROVE  LET R == Rows(p) IN
           \E f, g : /\ \A r \in R : f[r] = r.end - r.start
                     /\ IsSum(g, R, f) /\ g[R] \in Int
                     /\ - (Ticks * Cardinality(R)) <= 2 * (Ticks * Attributed(R) - g[R])
                     /\ 2 * (Ticks * Attributed(R) - g[R]) <= Ticks * Cardinality(R)
<1>1. PICK R, n : R = Rows(p) /\ n = Ticks
  OBVIOUS
<1>2. PICK f, k : f = [r \in R |-> r.end - r.start] /\ k = [r \in R |-> Seconds(r)]
  OBVIOUS
<1>3. n \in Nat /\ IsFiniteSet(R)
  BY <1>1, TickAssumption, RowTimes
<1>4. \A r \in R : /\ k[r] \in Int /\ f[r] \in Int /\ f[r] = r.end - r.start
                   /\ - n <= 2 * (n * k[r] - f[r]) /\ 2 * (n * k[r] - f[r]) <= n
  BY <1>1, <1>2, RowSeconds
<1>5. PICK g : IsSum(g, R, f)
  <2>1. \A r \in R : f[r] \in Int
    BY <1>4
  <2> QED BY <1>3, <2>1, Sums
<1>6. PICK h : IsSum(h, R, k) /\ \A A \in SUBSET R : SumFunction([r \in A |-> k[r]]) = h[A]
  <2>1. \A r \in R : k[r] \in Int
    BY <1>4
  <2> QED BY <1>3, <2>1, Sums
<1>7. R \in SUBSET R
  OBVIOUS
<1>8. - (n * Cardinality(R)) <= 2 * (n * h[R] - g[R]) /\ 2 * (n * h[R] - g[R]) <= n * Cardinality(R)
  BY <1>3, <1>4, <1>5, <1>6, <1>7, RoundingsAddUp
<1>9. Attributed(R) = h[R] /\ g[R] \in Int
  <2>1. [r \in R |-> Seconds(r)] = [r \in R |-> k[r]]
    BY <1>2
  <2>2. g[R] \in Int
    BY <1>5, <1>7 DEF IsSum
  <2> QED BY <1>6, <1>7, <2>1, <2>2 DEF Attributed
<1>10. \A r \in R : f[r] = r.end - r.start
  BY <1>4
<1> QED BY <1>1, <1>5, <1>8, <1>9, <1>10

\* With fractions the note is right but for the roundings.
LEMMA RoundedNote ==
    ASSUME Recorded, NEW p \in Periods
    PROVE  LET R == Rows(p)
               rounded == Ticks * (Cardinality(R) + 1)
           IN  /\ (\A s \in Started : ~ IsConcurrent(s)) => 2 * Ticks * Concurrent(R) <= rounded
               /\ \A r, t \in R : r.session # t.session =>
                    (2 * (Min({r.end, t.end}) - Max({r.start, t.start})) > rounded => NoteShown(R))
<1>1. PICK R, n, m : R = Rows(p) /\ n = Ticks /\ m = Cardinality(R)
  OBVIOUS
<1>2. PICK a, e, c : a = Attributed(R) /\ e = Elapsed(R) /\ c = Cardinality(Coverage(R, now))
  OBVIOUS
<1>3. n \in Nat \ {0} /\ now \in Nat /\ a \in Int /\ e \in Int /\ c \in Int /\ m \in Nat
  <2>1. IsFiniteSet(R)
    BY <1>1, RowTimes
  <2>2. now \in Nat
    BY DEF Recorded
  <2> QED BY <1>1, <1>2, <2>1, <2>2, TickAssumption, ReportTotals, CoverageIsCounted, FS_CardinalityType
<1>4. PICK f, g : /\ \A r \in R : f[r] = r.end - r.start
                  /\ IsSum(g, R, f) /\ g[R] \in Int
                  /\ - (n * m) <= 2 * (n * a - g[R]) /\ 2 * (n * a - g[R]) <= n * m
  BY <1>1, <1>2, RoundedReport
<1>5. AreRows(R, now) /\ e = HalfEven(c, n)
  BY <1>1, <1>2, ElapsedOfReport
<1>6. - n <= 2 * (n * e - c) /\ 2 * (n * e - c) <= n
  BY <1>3, <1>5, HalfEvenIsNear
<1>7. PICK d, F : d = a - e /\ F = g[R]
  OBVIOUS
<1>8. /\ d \in Int /\ F \in Int /\ n * d \in Int /\ n * m \in Int /\ n * a \in Int /\ n * e \in Int
      /\ n * d = n * a - n * e /\ n * (m + 1) = n * m + n
  BY <1>3, <1>4, <1>7
<1>9. Concurrent(R) = IF 0 >= d THEN 0 ELSE d
  BY <1>2, <1>7, <1>8, MaxOfTwo DEF Concurrent
<1>10. ASSUME \A s \in Started : ~ IsConcurrent(s) PROVE 2 * n * Concurrent(R) <= n * (m + 1)
  <2>1. \A r, t \in R : r # t => Apart(r, t)
    BY <1>1, <1>10, UnmarkedRowsAreApart
  <2>2. c = F
    <3>1. PICK S : S = R
      OBVIOUS
    <3>2. S \in SUBSET R /\ \A r, t \in S : r # t => Apart(r, t)
      BY <2>1, <3>1
    <3>3. (\A r \in R : f[r] = r.end - r.start) /\ IsSum(g, R, f) /\ now \in Nat /\ AreRows(R, now)
      BY <1>3, <1>4, <1>5
    <3>4. Cardinality(Coverage(S, now)) = g[S]
      BY <3>2, <3>3, CoverageIsWithinSum
    <3> QED BY <1>2, <1>7, <3>1, <3>4
  <2>3. 2 * (n * d) <= n * m + n
    BY <1>3, <1>4, <1>6, <1>7, <1>8, <2>2
  <2>4. 0 <= n * m + n
    BY <1>3, <1>8
  <2>5. 2 * n * d = 2 * (n * d) /\ 2 * n * 0 = 0
    BY <1>3, <1>8
  <2> QED BY <1>8, <1>9, <2>3, <2>4, <2>5
<1>11. ASSUME NEW r \in R, NEW t \in R, r.session # t.session,
              2 * (Min({r.end, t.end}) - Max({r.start, t.start})) > n * (m + 1)
       PROVE  NoteShown(R)
  <2>1. r.start \in Nat /\ r.end \in Nat /\ t.start \in Nat /\ t.end \in Nat
    BY <1>1, RowTimes
  <2>2. PICK i, j : i = Max({r.start, t.start}) /\ j = Min({r.end, t.end})
    OBVIOUS
  <2>3. i = (IF r.start >= t.start THEN r.start ELSE t.start) /\ j = (IF r.end <= t.end THEN r.end ELSE t.end)
    BY <2>1, <2>2, MaxOfTwo, MinOfTwo
  <2>4. i \in Nat /\ j \in Nat /\ r.start <= i /\ t.start <= i /\ j <= r.end /\ j <= t.end
    BY <2>1, <2>3
  <2>5. PICK o : o = j - i
    OBVIOUS
  <2>6. 2 * o > n * m + n /\ o \in Int /\ i + o = j
    BY <1>8, <1>11, <2>2, <2>4, <2>5
  <2>7. n * m >= 0
    BY <1>3
  <2>8. o \in Nat
    BY <1>3, <1>8, <2>6, <2>7
  <2>9. c + o <= F
    <3>1. r # t /\ i + o <= r.end /\ i + o <= t.end
      BY <1>11, <2>4, <2>6
    <3> QED BY <1>2, <1>3, <1>4, <1>5, <1>7, <2>4, <2>8, <3>1, OverlapIsMissing
  <2>10. n * d > 0
    BY <1>3, <1>4, <1>6, <1>7, <1>8, <2>6, <2>8, <2>9
  <2>11. d > 0
    <3> SUFFICES ASSUME d <= 0 PROVE FALSE
      BY <1>8
    <3>1. n * d <= 0
      BY <1>3, <1>8
    <3> QED BY <1>8, <2>10, <3>1
  <2> QED BY <1>8, <1>9, <2>11 DEF NoteShown
<1> QED BY <1>1, <1>10, <1>11

(* Insights and History agree on what is concurrent, for every number of   *)
(* sessions.  In whole seconds the note over the whole recorded time is    *)
(* there exactly if a session is marked, and over a period only then.  In  *)
(* whatever fractions, the note tells of no more than the roundings if no  *)
(* session is marked, and it is there if rows of two sessions overlap for  *)
(* longer than these.  Its three durations fit together but for a minute.  *)
THEOREM ConcurrencyTheorem == Spec => []ConcurrencyAgrees
<1>1. Recorded => ConcurrencyAgrees
  <2> SUFFICES ASSUME Recorded, NEW p \in Periods
               PROVE  LET R == Rows(p)
                          tiles == Tiles(R)
                          marked == \E s \in Started : IsConcurrent(s)
                          rounded == Ticks * (Cardinality(R) + 1)
                      IN  /\ WholeSeconds => /\ NoteShown(R) => marked
                                             /\ PeriodStart(p) = 0 /\ marked => NoteShown(R)
                          /\ ~ marked => 2 * Ticks * Concurrent(R) <= rounded
                          /\ \A r, t \in R : r.session # t.session =>
                               (2 * (Min({r.end, t.end}) - Max({r.start, t.start})) > rounded => NoteShown(R))
                          /\ NoteShown(R) => tiles.attributed - tiles.elapsed - tiles.concurrent \in {0, 1}
    BY DEF ConcurrencyAgrees
  <2>1. ASSUME NoteShown(Rows(p))
        PROVE  Tiles(Rows(p)).attributed - Tiles(Rows(p)).elapsed - Tiles(Rows(p)).concurrent \in {0, 1}
    <3>1. PICK a, e, c : a = Attributed(Rows(p)) /\ e = Elapsed(Rows(p)) /\ c = Concurrent(Rows(p))
      OBVIOUS
    <3>2. a \in Int /\ e \in Int /\ c = a - e
      BY <2>1, <3>1, ReportTotals, NoteIsShown
    <3>3. /\ Tiles(Rows(p)).attributed = a \div Minute /\ Tiles(Rows(p)).elapsed = e \div Minute
          /\ Tiles(Rows(p)).concurrent = c \div Minute
      BY <3>1 DEF Tiles, InMinutes
    <3>4. Minute \in Nat \ {0}
      BY ScaleAssumption
    <3> QED BY <3>2, <3>3, <3>4, MinutesOfDifference
  <2> QED BY <2>1, NoteInWholeSeconds, RoundedNote
<1> QED BY <1>1, RecordedTheorem, PTL

-----------------------------------------------------------------------------
(* The charts. *)

Class(D, c, e) == {x \in D : c[x] = e}

\* The sum over all classes of what each class comes to.
LEMMA SumOfClasses ==
    ASSUME NEW D, IsFiniteSet(D), NEW f, \A x \in D : f[x] \in Int, NEW g, IsSum(g, D, f),
           NEW E, IsFiniteSet(E), NEW k, NEW h, IsSum(h, E, k),
           NEW c, \A x \in D : c[x] \in E, \A e \in E : k[e] = g[Class(D, c, e)]
    PROVE  h[E] = g[D]
<1> DEFINE In(t) == {x \in D : c[x] \in t}
           G == {t \in SUBSET E : h[t] = g[In(t)]}
<1>1. ASSUME NEW t \in SUBSET E, \A e \in t : t \ {e} \in G PROVE t \in G
  <2>1. CASE t = {}
    <3>1. In(t) = {} /\ h[t] = 0 /\ g[{}] = 0
      BY <2>1 DEF IsSum
    <3> HIDE DEF In
    <3> QED BY <3>1
  <2>2. CASE t # {}
    <3>1. PICK e \in t : t \ {e} \in G
      BY <1>1, <2>2
    <3>2. PICK A, B : A = Class(D, c, e) /\ B = In(t \ {e})
      OBVIOUS
    <3>3. A \in SUBSET D /\ B \in SUBSET D /\ A \cap B = {} /\ In(t) = A \cup B
      BY <3>1, <3>2 DEF Class
    <3>4. g[A \cup B] = g[A] + g[B]
      <4>1. A \in SUBSET D /\ B \in SUBSET D /\ A \cap B = {}
        BY <3>3
      <4> HIDE DEF In
      <4> QED BY <4>1, SumOfUnion
    <3>5. h[t] = k[e] + h[t \ {e}]
      BY <3>1 DEF IsSum
    <3>6. k[e] = g[A] /\ h[t \ {e}] = g[B]
      BY <3>1, <3>2
    <3> HIDE DEF In
    <3> QED BY <3>3, <3>4, <3>5, <3>6
  <2> QED BY <2>1, <2>2
<1>2. E \in G
  <2>1. \A t \in SUBSET E : t \in G
    <3> HIDE DEF G
    <3> QED BY <1>1, SubsetInduction
  <2> QED BY <2>1
<1>3. In(E) = D
  OBVIOUS
<1> QED BY <1>2, <1>3

LEMMA SumOfConstant ==
    ASSUME NEW D, IsFiniteSet(D), NEW f, NEW g, IsSum(g, D, f),
           NEW s \in SUBSET D, NEW c \in Int, \A x \in s : f[x] = c
    PROVE  g[s] = c * Cardinality(s)
<1> DEFINE G == {t \in SUBSET s : g[t] = c * Cardinality(t)}
<1>1. IsFiniteSet(s)
  BY FS_Subset
<1>2. ASSUME NEW t \in SUBSET s, \A x \in t : t \ {x} \in G PROVE t \in G
  <2>1. IsFiniteSet(t)
    BY <1>1, FS_Subset
  <2>2. CASE t = {}
    <3>1. g[t] = 0 /\ Cardinality(t) = 0 /\ c * 0 = 0
      BY <2>2, FS_EmptySet DEF IsSum
    <3> QED BY <3>1
  <2>3. CASE t # {}
    <3>1. PICK x : x \in t
      BY <2>3
    <3>2. PICK u, m : u = t \ {x} /\ m = Cardinality(u)
      OBVIOUS
    <3>3. u \in SUBSET s /\ g[u] = c * m
      BY <1>2, <3>1, <3>2
    <3>4. IsFiniteSet(u) /\ m \in Nat /\ Cardinality(t) = m + 1
      <4>1. IsFiniteSet(u) /\ m = Cardinality(t) - 1
        BY <2>1, <3>1, <3>2, FS_RemoveElement
      <4>2. m \in Nat /\ Cardinality(t) \in Nat
        BY <2>1, <3>2, <4>1, FS_CardinalityType
      <4> QED BY <4>1, <4>2
    <3>5. g[t] = f[x] + g[t \ {x}]
      <4>1. t \in SUBSET D
        OBVIOUS
      <4> QED BY <3>1, <4>1 DEF IsSum
    <3>6. f[x] = c
      BY <3>1
    <3>7. g[t] = c + c * m
      BY <3>2, <3>3, <3>5, <3>6
    <3>8. c * (m + 1) = c + c * m
      BY <3>4
    <3> QED BY <3>4, <3>7, <3>8
  <2> QED BY <2>2, <2>3
<1>3. \A t \in SUBSET s : t \in G
  <2> HIDE DEF G
  <2> QED BY <1>1, <1>2, SubsetInduction
<1> QED BY <1>3

LEMMA SumOfPairs ==
    ASSUME NEW D, IsFiniteSet(D), NEW f, NEW g, IsSum(g, D, f), NEW k, NEW h, IsSum(h, D, k),
           NEW e, NEW u, IsSum(u, D, e), \A x \in D : f[x] \in Int /\ k[x] \in Int /\ e[x] = f[x] + k[x]
    PROVE  u[D] = g[D] + h[D]
<1> DEFINE G == {s \in SUBSET D : u[s] = g[s] + h[s]}
<1>1. ASSUME NEW s \in SUBSET D, \A x \in s : s \ {x} \in G PROVE s \in G
  <2>1. CASE s = {}
    BY <2>1 DEF IsSum
  <2>2. CASE s # {}
    <3>1. PICK x : x \in s
      BY <2>2
    <3>2. PICK v : v = s \ {x}
      OBVIOUS
    <3>3. v \in SUBSET D /\ u[v] = g[v] + h[v]
      BY <1>1, <3>1, <3>2
    <3>4. g[v] \in Int /\ h[v] \in Int
      BY <3>3 DEF IsSum
    <3>5. u[s] = e[x] + u[v] /\ g[s] = f[x] + g[v] /\ h[s] = k[x] + h[v]
      BY <3>1, <3>2 DEF IsSum
    <3>6. f[x] \in Int /\ k[x] \in Int /\ e[x] = f[x] + k[x]
      BY <3>1
    <3> QED BY <3>3, <3>4, <3>5, <3>6
  <2> QED BY <2>1, <2>2
<1>2. D \in G
  <2>1. \A s \in SUBSET D : s \in G
    <3> HIDE DEF G
    <3> QED BY <1>1, SubsetInduction
  <2> QED BY <2>1
<1> QED BY <1>2

\* A sum over a part of D, and over D of what is zero elsewhere.
LEMMA SumOfPart ==
    ASSUME NEW D, IsFiniteSet(D), NEW t \in SUBSET D, NEW f, NEW g, IsSum(g, D, f),
           NEW k, NEW h, IsSum(h, t, k),
           \A x \in D : f[x] = IF x \in t THEN k[x] ELSE 0
    PROVE  g[D] = h[t]
<1> DEFINE G == {s \in SUBSET D : g[s] = h[s \cap t]}
<1>1. ASSUME NEW s \in SUBSET D, \A x \in s : s \ {x} \in G PROVE s \in G
  <2>1. CASE s = {}
    <3>1. s \cap t = {}
      BY <2>1
    <3> QED BY <2>1, <3>1 DEF IsSum
  <2>2. CASE s # {}
    <3>1. PICK x : x \in s
      BY <2>2
    <3>2. PICK v, A, B : v = s \ {x} /\ A = s \cap t /\ B = v \cap t
      OBVIOUS
    <3>3. v \in SUBSET D /\ g[v] = h[B] /\ A \in SUBSET t /\ B \in SUBSET t
      BY <1>1, <3>1, <3>2
    <3>4. g[v] \in Int
      BY <3>3 DEF IsSum
    <3>5. g[s] = f[x] + g[v]
      BY <3>1, <3>2 DEF IsSum
    <3>6. CASE x \in t
      <4>1. x \in A /\ A \ {x} = B
        BY <3>1, <3>2, <3>6
      <4>2. h[A] = k[x] + h[A \ {x}]
        BY <3>3, <4>1 DEF IsSum
      <4>3. f[x] = k[x]
        BY <3>1, <3>6
      <4> QED BY <3>2, <3>3, <3>5, <4>1, <4>2, <4>3
    <3>7. CASE x \notin t
      <4>1. A = B /\ f[x] = 0
        <5>1. A = B
          BY <3>1, <3>2, <3>7
        <5>2. x \in D
          BY <3>1
        <5> QED BY <3>7, <5>1, <5>2
      <4>2. g[s] = g[v]
        BY <3>4, <3>5, <4>1
      <4> QED BY <3>2, <3>3, <4>1, <4>2
    <3> QED BY <3>6, <3>7
  <2> QED BY <2>1, <2>2
<1>2. D \in G
  <2>1. \A s \in SUBSET D : s \in G
    <3> HIDE DEF G
    <3> QED BY <1>1, SubsetInduction
  <2> QED BY <2>1
<1>3. D \cap t = t
  OBVIOUS
<1> QED BY <1>2, <1>3

\* A sum does not depend on the order in which a sequence has the elements.
LEMMA SumOfSequence ==
    ASSUME NEW D, IsFiniteSet(D), NEW f, \A x \in D : f[x] \in Int, NEW g, IsSum(g, D, f),
           NEW I, IsFiniteSet(I), NEW q, \A i \in I : q[i] \in D, \A i, j \in I : i # j => q[i] # q[j],
           \A x \in D : \E i \in I : q[i] = x, NEW k, NEW h, IsSum(h, I, k), \A i \in I : k[i] = f[q[i]]
    PROVE  h[I] = g[D]
<1> DEFINE Image(s) == {x \in D : \E i \in s : q[i] = x}
           G == {s \in SUBSET I : h[s] = g[Image(s)]}
<1>1. ASSUME NEW s \in SUBSET I, \A x \in s : s \ {x} \in G PROVE s \in G
  <2>1. CASE s = {}
    <3>1. Image(s) = {} /\ h[s] = 0 /\ g[{}] = 0
      BY <2>1 DEF IsSum
    <3> HIDE DEF Image
    <3> QED BY <3>1
  <2>2. CASE s # {}
    <3>1. PICK i : i \in s
      BY <2>2
    <3>2. PICK v, A, B : v = s \ {i} /\ A = Image(s) /\ B = Image(v)
      OBVIOUS
    <3>3. v \in SUBSET I /\ h[v] = g[B] /\ A \in SUBSET D /\ i \in I
      BY <1>1, <3>1, <3>2
    <3>4. q[i] \in A /\ A \ {q[i]} = B
      BY <3>1, <3>2, <3>3
    <3>5. h[s] = k[i] + h[v] /\ k[i] = f[q[i]]
      BY <3>1, <3>2, <3>3 DEF IsSum
    <3>6. g[A] = f[q[i]] + g[A \ {q[i]}]
      BY <3>3, <3>4 DEF IsSum
    <3> HIDE DEF Image
    <3> QED BY <3>2, <3>3, <3>4, <3>5, <3>6
  <2> QED BY <2>1, <2>2
<1>2. I \in G
  <2>1. \A s \in SUBSET I : s \in G
    <3> HIDE DEF G
    <3> QED BY <1>1, SubsetInduction
  <2> QED BY <2>1
<1>3. Image(I) = D
  OBVIOUS
<1> QED BY <1>2, <1>3

LEMMA AttributedParts ==
    ASSUME Recorded, NEW p \in Periods
    PROVE  \E h : /\ IsSum(h, Rows(p), [r \in Rows(p) |-> Seconds(r)])
                  /\ \A A \in SUBSET Rows(p) : Attributed(A) = h[A] /\ h[A] \in Nat
<1>1. PICK R : R = Rows(p)
  OBVIOUS
<1>2. PICK k : k = [r \in R |-> Seconds(r)]
  OBVIOUS
<1>3. IsFiniteSet(R) /\ \A r \in R : k[r] \in Nat
  BY <1>1, <1>2, RowTimes, RowSeconds
<1>4. PICK h : IsSum(h, R, k) /\ \A A \in SUBSET R : SumFunction([r \in A |-> k[r]]) = h[A]
  <2>1. \A r \in R : k[r] \in Int
    BY <1>3
  <2> QED BY <1>3, <2>1, Sums
<1>5. ASSUME NEW A \in SUBSET R PROVE Attributed(A) = h[A] /\ h[A] \in Nat
  <2>1. [r \in A |-> Seconds(r)] = [r \in A |-> k[r]]
    BY <1>2
  <2>2. h[A] \in Nat
    BY <1>3, <1>4, SumIsMonotone
  <2> QED BY <1>4, <2>1, <2>2 DEF Attributed
<1> QED BY <1>1, <1>2, <1>4, <1>5

LEMMA CardinalityIsSum ==
    ASSUME NEW D, IsFiniteSet(D)
    PROVE  IsSum([s \in SUBSET D |-> Cardinality(s)], D, [x \in D |-> 1])
<1>1. \A s \in SUBSET D : IsFiniteSet(s) /\ Cardinality(s) \in Nat
  BY FS_Subset, FS_CardinalityType
<1>2. ASSUME NEW s \in SUBSET D, NEW x \in s
      PROVE  s \ {x} \in SUBSET D /\ Cardinality(s) = 1 + Cardinality(s \ {x})
  <2>1. Cardinality(s \ {x}) = Cardinality(s) - 1
    BY <1>1, FS_RemoveElement
  <2> QED BY <1>1, <2>1
<1>3. Cardinality({}) = 0
  BY FS_EmptySet
<1> DEFINE g == [s \in SUBSET D |-> Cardinality(s)]
<1>4. g \in [SUBSET D -> Int] /\ g[{}] = 0
  BY <1>1, <1>3
<1>5. \A s \in SUBSET D : \A x \in s : g[s] = [y \in D |-> 1][x] + g[s \ {x}]
  BY <1>2
<1> QED BY <1>4, <1>5 DEF IsSum

\* Every length is counted in exactly one class.
LEMMA LengthsAccountForAll ==
    ASSUME Recorded, NEW p \in Periods
    PROVE  SumFunction(SessionLengthChart(Rows(p))) = Cardinality(SessionsIn(Rows(p)))
<1>1. PICK R : R = Rows(p)
  OBVIOUS
<1>2. PICK S : S = SessionsIn(R)
  OBVIOUS
<1>3. IsFiniteSet(S) /\ IsFiniteSet(Lengths) /\ Lengths \in SUBSET Nat /\ 0 \in Lengths
  <2>1. PICK f : f = [r \in R |-> r.session]
    OBVIOUS
  <2>2. S = {f[r] : r \in R}
    BY <1>2, <2>1 DEF SessionsIn
  <2>3. IsFiniteSet(R)
    BY <1>1, RowTimes
  <2>4. IsFiniteSet(S)
    BY <2>2, <2>3, ImageIsFinite
  <2> QED BY <2>4, LengthAssumption
<1>4. PICK len : len = [s \in S |-> SessionSeconds(R, s)]
  OBVIOUS
<1>5. \A s \in S : len[s] \in Nat
  <2>1. PICK h : \A A \in SUBSET R : Attributed(A) = h[A] /\ h[A] \in Nat
    BY <1>1, AttributedParts
  <2>2. \A s \in S : {r \in R : r.session = s} \in SUBSET R
    OBVIOUS
  <2> QED BY <1>4, <2>1, <2>2 DEF SessionSeconds
<1>6. PICK c : c = [s \in S |-> Max({m \in Lengths : m <= len[s]})]
  OBVIOUS
<1>7. ASSUME NEW s \in S
      PROVE  /\ c[s] \in Lengths
             /\ \A m \in Lengths : c[s] = m <=> (len[s] >= m /\ \A n \in Lengths : n > m => len[s] < n)
  <2>1. PICK l \in Nat : l = len[s]
    BY <1>5
  <2>2. PICK M : M = {m \in Lengths : m <= l}
    OBVIOUS
  <2>3. M \in SUBSET (0..l) /\ M # {}
    <3>1. 0 \in M
      BY <1>3, <2>2
    <3>2. \A m \in M : m \in Nat /\ m <= l
      BY <1>3, <2>2
    <3> QED BY <3>1, <3>2
  <2>4. PICK x : x = Max(M)
    OBVIOUS
  <2>5. x \in M /\ \A y \in M : x >= y
    BY <2>3, <2>4, MaxOf
  <2>6. c[s] = x
    BY <1>6, <2>1, <2>2, <2>4
  <2>7. \A m \in Lengths : m \in Nat
    BY <1>3
  <2>8. x \in Lengths /\ \A m \in Lengths : x = m <=> (l >= m /\ \A n \in Lengths : n > m => l < n)
    BY <2>2, <2>5, <2>7
  <2> QED BY <2>1, <2>6, <2>8
<1>8. PICK f, g : f = [s \in S |-> 1] /\ g = [A \in SUBSET S |-> Cardinality(A)]
  OBVIOUS
<1>9. IsSum(g, S, f) /\ \A s \in S : f[s] \in Int
  BY <1>3, <1>8, CardinalityIsSum
<1>10. PICK k : k = [m \in Lengths |-> CountOfLength(R, m)]
  OBVIOUS
<1>11. ASSUME NEW m \in Lengths PROVE k[m] = g[Class(S, c, m)] /\ k[m] \in Int
  <2>1. PICK A : A = Class(S, c, m)
    OBVIOUS
  <2>2. A = {s \in SessionsIn(R) : /\ SessionSeconds(R, s) >= m
                                   /\ \A n \in Lengths : n > m => SessionSeconds(R, s) < n}
    BY <1>2, <1>4, <1>7, <2>1 DEF Class
  <2>3. k[m] = Cardinality(A)
    BY <1>10, <2>2 DEF CountOfLength
  <2>4. A \in SUBSET S
    BY <2>1 DEF Class
  <2>5. g[A] = Cardinality(A) /\ g[A] \in Int
    BY <1>8, <1>9, <2>4 DEF IsSum
  <2> QED BY <2>1, <2>3, <2>5
<1>12. PICK L : L = Lengths
  OBVIOUS
<1>13. IsFiniteSet(L) /\ \A m \in L : k[m] \in Int /\ k[m] = g[Class(S, c, m)]
  BY <1>3, <1>11, <1>12
<1>14. PICK h : IsSum(h, L, k) /\ \A A \in SUBSET L : SumFunction([m \in A |-> k[m]]) = h[A]
  <2>1. IsFiniteSet(L) /\ \A m \in L : k[m] \in Int
    BY <1>13
  <2> QED BY <2>1, Sums
<1>15. h[L] = g[S]
  <2>1. \A m \in L : k[m] = g[Class(S, c, m)]
    BY <1>13
  <2>2. (\A s \in S : f[s] \in Int) /\ \A s \in S : c[s] \in L
    BY <1>7, <1>9, <1>12
  <2>3. IsFiniteSet(S) /\ IsFiniteSet(L)
    BY <1>3, <1>13
  <2> QED BY <1>9, <1>14, <2>1, <2>2, <2>3, SumOfClasses
<1>16. SumFunction(SessionLengthChart(R)) = h[L]
  <2>1. SessionLengthChart(R) = [m \in L |-> k[m]]
    BY <1>10, <1>12 DEF SessionLengthChart
  <2>2. L \in SUBSET L
    OBVIOUS
  <2> QED BY <1>14, <2>1, <2>2
<1>17. g[S] = Cardinality(S)
  BY <1>8
<1> QED BY <1>1, <1>2, <1>15, <1>16, <1>17

\* Every session that was started has one of the rates.
Rated == \A s \in Started : owner[s].rate \in Rates

LEMMA RatedTheorem == Spec => []Rated
<1>1. Init => Rated
  <2>1. ASSUME Init PROVE DOMAIN owner = {}
    BY <2>1 DEF Init
  <2> QED BY <2>1 DEF Rated, Started
<1>2. Rated /\ [Next]_vars => Rated'
  <2> SUFFICES ASSUME Rated, [Next]_vars PROVE Rated'
    OBVIOUS
  <2>1. CASE UNCHANGED owner
    BY <2>1 DEF Rated, Started
  <2>2. ASSUME NEW s \in Sessions, Start(s) PROVE Rated'
    <3>1. PICK p \in Projects, r \in Rates :
             owner' = [t \in Started \cup {s} |-> IF t = s THEN [project |-> p, rate |-> r] ELSE owner[t]]
      BY <2>2 DEF Start
    <3>2. DOMAIN owner' = Started \cup {s}
      BY <3>1
    <3>3. ASSUME NEW t \in Started \cup {s} PROVE owner'[t].rate \in Rates
      <4>1. CASE t = s
        BY <3>1, <4>1
      <4>2. CASE t # s
        <5>1. owner'[t] = owner[t] /\ t \in Started
          BY <3>1, <4>2
        <5> QED BY <5>1 DEF Rated
      <4> QED BY <4>1, <4>2
    <3> QED BY <3>2, <3>3 DEF Rated, Started
  <2>3. [Next]_vars => UNCHANGED owner \/ \E s \in Sessions : Start(s)
    BY DEF Next, vars, Passes, PauseSession, ResumeSession, StopSession
  <2> QED BY <2>1, <2>2, <2>3
<1> QED BY <1>1, <1>2, PTL DEF Spec

LEMMA ProjectsAreFinite ==
    ASSUME NEW R, IsFiniteSet(R)
    PROVE  /\ IsFiniteSet(ProjectsIn(R))
           /\ \A r \in R : owner[r.session].project \in ProjectsIn(R)
<1>1. PICK f : f = [r \in R |-> owner[r.session].project]
  OBVIOUS
<1>2. ProjectsIn(R) = {f[r] : r \in R}
  BY <1>1 DEF ProjectsIn
<1> QED BY <1>1, <1>2, ImageIsFinite

\* The distance of two roundings of one number by n, one of them of m parts.
LEMMA TwoRoundings ==
    ASSUME NEW n \in Nat \ {0}, NEW m \in Nat, NEW V \in Int, NEW W \in Int, NEW H \in Int,
           - (n * m) <= 2 * (n * W - V), 2 * (n * W - V) <= n * m,
           - n <= 2 * (n * H - V), 2 * (n * H - V) <= n
    PROVE  2 * Abs(W - H) <= m + 1
<1>1. PICK d : d = W - H
  OBVIOUS
<1>2. d \in Int /\ n * W - n * H = n * d /\ n * W \in Int /\ n * H \in Int /\ n * d \in Int /\ n * m \in Int
  BY <1>1
<1>3. 2 * (n * d) <= n * m + n /\ - (n * m + n) <= 2 * (n * d)
  BY <1>2
<1>4. n * (m + 1 - 2 * d) = n * m + n - 2 * (n * d) /\ n * (m + 1 + 2 * d) = n * m + n + 2 * (n * d)
  BY <1>2
<1>5. n * (m + 1 - 2 * d) >= 0 /\ n * (m + 1 + 2 * d) >= 0
  BY <1>2, <1>3, <1>4
<1>6. \A i \in Int : n * i >= 0 => i >= 0
  OBVIOUS
<1>7. m + 1 - 2 * d \in Int /\ m + 1 + 2 * d \in Int
  BY <1>2
<1>8. m + 1 - 2 * d >= 0 /\ m + 1 + 2 * d >= 0
  BY <1>5, <1>6, <1>7
<1> QED BY <1>1, <1>2, <1>8 DEF Abs

\* The values of the projects add up to the value of the report.
LEMMA ValuesAddUp ==
    ASSUME Recorded, Rated, NEW p \in Periods
    PROVE  LET R == Rows(p)
               values == [a \in ProjectsIn(R) |-> Value(RowsOf(R, a))]
           IN  2 * Abs(SumFunction(values) - Value(R)) <= Cardinality(ProjectsIn(R)) + 1
<1>1. PICK R, E, n : R = Rows(p) /\ E = ProjectsIn(R) /\ n = Penny
  OBVIOUS
<1>2. IsFiniteSet(R) /\ n \in Nat \ {0}
  BY <1>1, RowTimes, ScaleAssumption
<1>3. IsFiniteSet(E) /\ Cardinality(E) \in Nat
  BY <1>1, <1>2, ProjectsAreFinite, FS_CardinalityType
<1>4. PICK f : f = [r \in R |-> Seconds(r) * owner[r.session].rate]
  OBVIOUS
<1>5. \A r \in R : f[r] \in Int
  <2> SUFFICES ASSUME NEW r \in R PROVE f[r] \in Int
    OBVIOUS
  <2>1. Seconds(r) \in Int /\ r.session \in Started
    BY <1>1, RowSeconds, RowTimes
  <2>2. owner[r.session].rate \in Int
    <3>1. PICK x : x = owner[r.session].rate
      OBVIOUS
    <3>2. x \in Rates
      BY <2>1, <3>1 DEF Rated
    <3>3. x \in Int
      BY <3>2, RateAssumption
    <3> QED BY <3>1, <3>3
  <2> QED BY <1>4, <2>1, <2>2
<1>6. PICK g : IsSum(g, R, f) /\ \A A \in SUBSET R : SumFunction([r \in A |-> f[r]]) = g[A]
  BY <1>2, <1>5, Sums
<1>7. ASSUME NEW A \in SUBSET R PROVE g[A] \in Int /\ Value(A) = HalfEven(g[A], n)
  <2>1. [r \in A |-> Seconds(r) * owner[r.session].rate] = [r \in A |-> f[r]]
    BY <1>4
  <2> QED BY <1>1, <1>6, <2>1 DEF Value, IsSum
<1>8. PICK c : c = [r \in R |-> owner[r.session].project]
  OBVIOUS
<1>9. PICK v : v = [a \in E |-> g[Class(R, c, a)]]
  OBVIOUS
<1>10. PICK w : w = [a \in E |-> HalfEven(v[a], n)]
  OBVIOUS
<1>11. ASSUME NEW a \in E
       PROVE  /\ v[a] = g[Class(R, c, a)] /\ v[a] \in Int /\ w[a] \in Int
              /\ - n <= 2 * (n * w[a] - v[a]) /\ 2 * (n * w[a] - v[a]) <= n
              /\ w[a] = Value(RowsOf(R, a))
  <2>1. PICK A : A = Class(R, c, a)
    OBVIOUS
  <2>2. A \in SUBSET R /\ RowsOf(R, a) = A
    BY <1>8, <2>1 DEF RowsOf, Class
  <2>3. v[a] = g[A] /\ v[a] \in Int
    BY <1>7, <1>9, <2>1, <2>2
  <2>4. w[a] = HalfEven(v[a], n)
    BY <1>10
  <2>5. w[a] = Value(A)
    BY <1>7, <2>2, <2>3, <2>4
  <2> QED BY <1>2, <2>1, <2>2, <2>3, <2>4, <2>5, HalfEvenIsNear
<1>12. PICK hv : IsSum(hv, E, v)
  <2>1. \A a \in E : v[a] \in Int
    BY <1>11
  <2> QED BY <1>3, <2>1, Sums
<1>13. PICK hw : IsSum(hw, E, w) /\ \A A \in SUBSET E : SumFunction([a \in A |-> w[a]]) = hw[A]
  <2>1. \A a \in E : w[a] \in Int
    BY <1>11
  <2> QED BY <1>3, <2>1, Sums
<1>14. hv[E] = g[R]
  <2>1. \A a \in E : v[a] = g[Class(R, c, a)]
    BY <1>11
  <2>2. \A r \in R : c[r] \in E
    BY <1>1, <1>2, <1>8, ProjectsAreFinite
  <2>3. IsFiniteSet(R) /\ IsFiniteSet(E) /\ IsSum(g, R, f) /\ IsSum(hv, E, v)
    BY <1>2, <1>3, <1>6, <1>12
  <2> QED BY <1>5, <2>1, <2>2, <2>3, SumOfClasses
<1>15. PICK V, W, H, m : V = g[R] /\ W = hw[E] /\ H = Value(R) /\ m = Cardinality(E)
  OBVIOUS
<1>16. V \in Int /\ H \in Int /\ - n <= 2 * (n * H - V) /\ 2 * (n * H - V) <= n
  <2>1. PICK A : A = R
    OBVIOUS
  <2>2. A \in SUBSET R
    BY <2>1
  <2>3. g[A] \in Int /\ Value(A) = HalfEven(g[A], n)
    BY <1>7, <2>2
  <2> QED BY <1>2, <1>15, <2>1, <2>3, HalfEvenIsNear
<1>17. W \in Int /\ - (n * m) <= 2 * (n * W - V) /\ 2 * (n * W - V) <= n * m
  <2>1. PICK A : A = E
    OBVIOUS
  <2>2. A \in SUBSET E
    BY <2>1
  <2>3. \A a \in E : v[a] \in Int /\ w[a] \in Int
    BY <1>11
  <2>4. \A a \in E : - n <= 2 * (n * w[a] - v[a]) /\ 2 * (n * w[a] - v[a]) <= n
    BY <1>11
  <2>5. n \in Nat
    BY <1>2
  <2>6. - (n * Cardinality(A)) <= 2 * (n * hw[A] - hv[A]) /\ 2 * (n * hw[A] - hv[A]) <= n * Cardinality(A)
    BY <1>3, <1>12, <1>13, <2>2, <2>3, <2>4, <2>5, RoundingsAddUp
  <2>7. hw[A] \in Int
    BY <1>13, <2>2 DEF IsSum
  <2> QED BY <1>14, <1>15, <2>1, <2>6, <2>7
<1>18. 2 * Abs(W - H) <= m + 1
  BY <1>2, <1>3, <1>15, <1>16, <1>17, TwoRoundings
<1>19. SumFunction([a \in E |-> Value(RowsOf(R, a))]) = W
  <2>1. [a \in E |-> Value(RowsOf(R, a))] = [a \in E |-> w[a]]
    BY <1>11
  <2>2. E \in SUBSET E
    OBVIOUS
  <2> QED BY <1>13, <1>15, <2>1, <2>2
<1> QED BY <1>1, <1>15, <1>18, <1>19

LEMMA DivisionIsMonotone ==
    ASSUME NEW a \in Int, NEW b \in Int, a <= b, NEW m \in Nat \ {0}
    PROVE  a \div m <= b \div m
<1>1. PICK i \in Int, x \in Int : i = a \div m /\ 0 <= x /\ x < m /\ a = m * i + x
  BY Division
<1>2. PICK j \in Int, y \in Int : j = b \div m /\ 0 <= y /\ y < m /\ b = m * j + y
  BY Division
<1>3. PICK d : d = j - i
  OBVIOUS
<1>4. d \in Int /\ m * d = m * j - m * i /\ m * i \in Int /\ m * j \in Int /\ m * d \in Int
  BY <1>3
<1>5. d >= 0
  <2> SUFFICES ASSUME d <= -1 PROVE FALSE
    BY <1>4
  <2>1. m * d <= - m
    BY <1>4
  <2> QED BY <1>1, <1>2, <1>4, <2>1
<1> QED BY <1>1, <1>2, <1>3, <1>4, <1>5

\* The days that a row touches.
LEMMA DaysOfRow ==
    ASSUME Recorded, NEW p \in Periods, NEW r \in Rows(p)
    PROVE  /\ FirstDay(r) \in Nat /\ LastDay(r) \in Nat /\ FirstDay(r) <= LastDay(r) /\ LastDay(r) <= now
           /\ FirstDay(r) * DayTicks <= r.start /\ r.start < (FirstDay(r) + 1) * DayTicks
           /\ LastDay(r) * DayTicks < r.end /\ r.end <= (LastDay(r) + 1) * DayTicks
<1>1. PICK a, b, m : a = r.start /\ b = r.end - 1 /\ m = DayTicks
  OBVIOUS
<1>2. a \in Nat /\ b \in Nat /\ a <= b /\ b < now /\ now \in Nat /\ r.end = b + 1 /\ m \in Nat \ {0}
  <2>1. r.start \in Nat /\ r.end \in Nat /\ r.start < r.end /\ r.end <= now
    BY RowTimes
  <2>2. now \in Nat /\ m \in Nat \ {0}
    BY <1>1, TickAssumption DEF Recorded
  <2> QED BY <1>1, <2>1, <2>2
<1>3. PICK i \in Int, x \in Int : i = a \div m /\ 0 <= x /\ x < m /\ a = m * i + x
  BY <1>2, Division
<1>4. PICK j \in Int, y \in Int : j = b \div m /\ 0 <= y /\ y < m /\ b = m * j + y
  BY <1>2, Division
<1>5. i <= j
  BY <1>2, <1>3, <1>4, DivisionIsMonotone
<1>6. FirstDay(r) = i /\ LastDay(r) = j
  BY <1>1, <1>3, <1>4 DEF FirstDay, LastDay
<1>7. i >= 0 /\ j <= b
  <2>1. m * i \in Int /\ m * j \in Int
    BY <1>2
  <2>2. i >= 0
    <3> SUFFICES ASSUME i <= -1 PROVE FALSE
      OBVIOUS
    <3>1. m * i <= - m
      BY <1>2
    <3> QED BY <1>2, <1>3, <2>1, <3>1
  <2>3. j >= 0
    BY <1>5, <2>2
  <2>4. j <= m * j
    BY <1>2, <2>3
  <2> QED BY <1>2, <1>4, <2>1, <2>2, <2>4
<1>8. i * m = m * i /\ (i + 1) * m = m * i + m /\ j * m = m * j /\ (j + 1) * m = m * j + m
  BY <1>2
<1>9. m * i \in Int /\ m * j \in Int
  BY <1>2
<1>10. i * m <= a /\ a < (i + 1) * m /\ j * m < b + 1 /\ b + 1 <= (j + 1) * m
  BY <1>2, <1>3, <1>4, <1>8, <1>9
<1> QED BY <1>1, <1>2, <1>5, <1>6, <1>7, <1>10

\* A finite set of numbers can be listed by a key and, where that is equal, by size.
LEMMA ListedByKey ==
    ASSUME NEW N \in Nat, NEW D \in SUBSET (0..N), NEW k, \A d \in D : k[d] \in 0..N
    PROVE  \E s \in SetToSeqs(D) : \A i, j \in 1..Len(s) :
              i < j => k[s[i]] < k[s[j]] \/ (k[s[i]] = k[s[j]] /\ s[i] < s[j])
<1>1. PICK f : f = [d \in D |-> [start |-> k[d], end |-> d]]
  OBVIOUS
<1>2. PICK K : K = {f[d] : d \in D}
  OBVIOUS
<1>3. IsFiniteSet(D)
  <2>1. IsFiniteSet(0..N)
    BY FS_Interval
  <2> QED BY <2>1, FS_Subset
<1>4. IsFiniteSet(K)
  BY <1>2, <1>3, ImageIsFinite
<1>5. \A d \in D : f[d] \in K /\ f[d].start = k[d] /\ f[d].end = d
  BY <1>1, <1>2
<1>6. \A r \in K : r.end \in D /\ r.start = k[r.end] /\ r = f[r.end]
  BY <1>1, <1>2, <1>5
<1>7. Cardinality(K) = Cardinality(D)
  <2>1. f \in Bijection(D, K)
    <3>1. f \in [D -> K]
      BY <1>1, <1>5
    <3>2. \A d, e \in D : f[d] = f[e] => d = e
      BY <1>5
    <3>3. \A r \in K : \E d \in D : f[d] = r
      BY <1>6
    <3> QED BY <3>1, <3>2, <3>3 DEF Bijection, Injection, Surjection, IsInjective
  <2>2. ExistsBijection(D, K)
    BY <2>1 DEF ExistsBijection
  <2> QED BY <1>3, <2>2, FS_Bijection
<1>8. PICK w : w \in SortedRows(K)
  <2>1. \A r \in K : r.start \in 0..N /\ r.end \in 0..N
    <3>1. \A d \in D : d \in 0..N
      OBVIOUS
    <3> QED BY <1>6, <3>1
  <2>2. SortedRows(K) # {}
    BY <1>4, <2>1, RowsCanBeSorted
  <2> QED BY <2>2
<1>9. w \in SetToSeqs(K) /\ \A i, j \in 1..Len(w) : i < j => ~ Earlier(w[j], w[i])
  BY <1>8 DEF SortedRows
<1>10. PICK c : c = Cardinality(D)
  OBVIOUS
<1>11. /\ c \in Nat /\ Len(w) = c /\ \A i \in 1..c : w[i] \in K
       /\ \A i, j \in 1..c : i # j => w[i] # w[j]
  BY <1>4, <1>7, <1>9, <1>10, InSequence
<1>12. PICK s : s = [i \in 1..c |-> w[i].end]
  OBVIOUS
<1>13. \A i \in 1..c : s[i] \in D /\ w[i].end = s[i] /\ w[i].start = k[s[i]] /\ w[i] = f[s[i]]
  BY <1>6, <1>11, <1>12
<1>14. s \in Seq(D) /\ Len(s) = c /\ DOMAIN s = 1..c
  <2>1. s \in [1..c -> D]
    BY <1>12, <1>13
  <2> QED BY <1>11, <2>1
<1>15. \A i, j \in 1..c : i # j => s[i] # s[j]
  BY <1>11, <1>13
<1>16. s \in SetToSeqs(D)
  BY <1>3, <1>10, <1>14, <1>15, RowSequences
<1>17. ASSUME NEW i \in 1..c, NEW j \in 1..c, i < j
       PROVE  k[s[i]] < k[s[j]] \/ (k[s[i]] = k[s[j]] /\ s[i] < s[j])
  <2>1. ~ Earlier(w[j], w[i]) /\ s[i] # s[j]
    BY <1>9, <1>11, <1>15, <1>17
  <2>2. k[s[i]] \in Nat /\ k[s[j]] \in Nat /\ s[i] \in Nat /\ s[j] \in Nat
    <3>1. \A d \in D : k[d] \in Nat /\ d \in Nat
      OBVIOUS
    <3>2. s[i] \in D /\ s[j] \in D
      BY <1>13
    <3> QED BY <3>1, <3>2
  <2>3. w[i].end = s[i] /\ w[i].start = k[s[i]] /\ w[j].end = s[j] /\ w[j].start = k[s[j]]
    BY <1>13
  <2> QED BY <2>1, <2>2, <2>3 DEF Earlier
<1> QED BY <1>14, <1>16, <1>17

\* The days that rows touch.
DaysIn(R) == {d \in Nat : \E r \in R : d \in FirstDay(r)..LastDay(r)}

LEMMA RowsInOrder ==
    ASSUME Recorded, NEW p \in Periods, NEW q \in RowOrders(Rows(p))
    PROVE  /\ Len(q) \in Nat
           /\ \A i \in 1..Len(q) : q[i] \in Rows(p)
           /\ \A r \in Rows(p) : \E i \in 1..Len(q) : q[i] = r
           /\ \A i, j \in 1..Len(q) : i < j => q[i].start <= q[j].start
           /\ UNION {FirstDay(q[i])..LastDay(q[i]) : i \in 1..Len(q)} = DaysIn(Rows(p))
<1>1. PICK R : R = Rows(p)
  OBVIOUS
<1>2. q \in SetToSeqs(R) /\ \A i, j \in 1..Len(q) : i < j => q[i].start <= q[j].start
  BY <1>1 DEF RowOrders
<1>3. IsFiniteSet(R)
  BY <1>1, RowTimes
<1>4. /\ Len(q) = Cardinality(R) /\ Cardinality(R) \in Nat
      /\ \A i \in 1..Len(q) : q[i] \in R
      /\ \A r \in R : \E i \in 1..Len(q) : q[i] = r
  BY <1>2, <1>3, InSequence
<1>5. \A r \in R : FirstDay(r) \in Nat /\ LastDay(r) \in Nat
  BY <1>1, DaysOfRow
<1>6. UNION {FirstDay(q[i])..LastDay(q[i]) : i \in 1..Len(q)} = DaysIn(R)
  <2>1. ASSUME NEW i \in 1..Len(q), NEW d \in FirstDay(q[i])..LastDay(q[i]) PROVE d \in DaysIn(R)
    <3>1. q[i] \in R
      BY <1>4
    <3>2. d \in Nat
      BY <1>5, <3>1
    <3> QED BY <3>1, <3>2 DEF DaysIn
  <2>2. ASSUME NEW d \in DaysIn(R) PROVE \E i \in 1..Len(q) : d \in FirstDay(q[i])..LastDay(q[i])
    BY <1>4 DEF DaysIn
  <2> QED BY <2>1, <2>2
<1> QED BY <1>1, <1>2, <1>4, <1>6

LEMMA DaysAreListed ==
    ASSUME Recorded, NEW p \in Periods, NEW q \in RowOrders(Rows(p))
    PROVE  /\ Days(q) \in SetToSeqs(DaysIn(Rows(p)))
           /\ \A i, j \in 1..Len(Days(q)) : i < j => Enters(q, Days(q)[i], Days(q)[j])
           /\ \A d \in DaysIn(Rows(p)) : /\ Min(Touching(q, d)) \in Touching(q, d)
                                         /\ \A i \in Touching(q, d) : Min(Touching(q, d)) <= i
           /\ DaysIn(Rows(p)) \in SUBSET (0..now)
<1>1. PICK R, D : R = Rows(p) /\ D = DaysIn(R)
  OBVIOUS
<1>2. /\ Len(q) \in Nat
      /\ \A r \in R : \E i \in 1..Len(q) : q[i] = r
      /\ UNION {FirstDay(q[i])..LastDay(q[i]) : i \in 1..Len(q)} = D
  BY <1>1, RowsInOrder
<1>3. now \in Nat /\ D \in SUBSET (0..now)
  <2>1. now \in Nat
    BY DEF Recorded
  <2>2. ASSUME NEW d \in D PROVE d \in 0..now
    <3>1. PICK r \in R : d \in FirstDay(r)..LastDay(r) /\ d \in Nat
      BY <1>1 DEF DaysIn
    <3>2. FirstDay(r) \in Nat /\ LastDay(r) \in Nat /\ LastDay(r) <= now
      BY <1>1, DaysOfRow
    <3> QED BY <2>1, <3>1, <3>2
  <2> QED BY <2>1, <2>2
<1>4. ASSUME NEW d \in D
      PROVE  /\ Touching(q, d) \in SUBSET (1..Len(q)) /\ Min(Touching(q, d)) \in Touching(q, d)
             /\ \A i \in Touching(q, d) : Min(Touching(q, d)) <= i
  <2>1. PICK r \in R : d \in FirstDay(r)..LastDay(r)
    BY <1>1 DEF DaysIn
  <2>2. PICK T : T = Touching(q, d)
    OBVIOUS
  <2>3. T \in SUBSET (1..Len(q)) /\ T # {}
    BY <1>2, <2>1, <2>2 DEF Touching
  <2>4. T \in SUBSET Nat
    BY <1>2, <2>3
  <2> QED BY <2>2, <2>3, <2>4, MinOf
<1>5. PICK N \in Nat : N = Len(q) + now
  BY <1>2, <1>3
<1>6. PICK k : k = [d \in D |-> Min(Touching(q, d))]
  OBVIOUS
<1>7. D \in SUBSET (0..N) /\ \A d \in D : k[d] \in 0..N
  <2>1. \A d \in D : d \in 0..N
    BY <1>2, <1>3, <1>5
  <2>2. \A d \in D : k[d] \in 1..Len(q)
    BY <1>4, <1>6
  <2>3. \A i \in 1..Len(q) : i \in 0..N
    BY <1>2, <1>3, <1>5
  <2> QED BY <2>1, <2>2, <2>3
<1>8. PICK s : /\ s \in SetToSeqs(D)
               /\ \A i, j \in 1..Len(s) : i < j => k[s[i]] < k[s[j]] \/ (k[s[i]] = k[s[j]] /\ s[i] < s[j])
  BY <1>7, ListedByKey
<1>9. \A i, j \in 1..Len(s) : i < j => Enters(q, s[i], s[j])
  <2>1. IsFiniteSet(D)
    <3>1. IsFiniteSet(0..now)
      BY <1>3, FS_Interval
    <3> QED BY <1>3, <3>1, FS_Subset
  <2>2. \A i \in 1..Len(s) : s[i] \in D
    BY <1>8, <2>1, InSequence
  <2>3. \A i \in 1..Len(s) : k[s[i]] = Min(Touching(q, s[i]))
    BY <1>6, <2>2
  <2> QED BY <1>8, <2>3 DEF Enters
<1> DEFINE Listed(t) == t \in SetToSeqs(D) /\ \A i, j \in 1..Len(t) : i < j => Enters(q, t[i], t[j])
<1>10. Listed(s)
  BY <1>8, <1>9
<1>11. Days(q) = CHOOSE t \in SetToSeqs(D) : \A i, j \in 1..Len(t) : i < j => Enters(q, t[i], t[j])
  BY <1>2 DEF Days
<1>12. Listed(Days(q))
  <2>1. Days(q) = CHOOSE t : Listed(t)
    BY <1>11
  <2> HIDE DEF Listed
  <2> QED BY <1>10, <2>1
<1> QED BY <1>1, <1>3, <1>4, <1>12

\* With the rows in the order of their starts, the days come in theirs.
LEMMA DaysInOrder ==
    ASSUME Recorded, NEW p \in Periods, NEW q \in RowOrders(Rows(p)),
           NEW i \in 1..Len(Days(q)), NEW j \in 1..Len(Days(q)), i < j
    PROVE  Days(q)[i] < Days(q)[j]
<1>1. PICK R, D, s : R = Rows(p) /\ D = DaysIn(R) /\ s = Days(q)
  OBVIOUS
<1>2. /\ s \in SetToSeqs(D) /\ D \in SUBSET (0..now)
      /\ \A a, b \in 1..Len(s) : a < b => Enters(q, s[a], s[b])
      /\ \A d \in D : /\ Min(Touching(q, d)) \in Touching(q, d)
                      /\ \A a \in Touching(q, d) : Min(Touching(q, d)) <= a
  BY <1>1, DaysAreListed
<1>3. now \in Nat /\ IsFiniteSet(D)
  <2>1. now \in Nat
    BY DEF Recorded
  <2>2. IsFiniteSet(0..now)
    BY <2>1, FS_Interval
  <2> QED BY <1>2, <2>1, <2>2, FS_Subset
<1>4. PICK d, e : d = s[i] /\ e = s[j]
  OBVIOUS
<1>5. d \in D /\ e \in D /\ d # e /\ Enters(q, d, e)
  <2>1. (\A a \in 1..Len(s) : s[a] \in D) /\ \A a, b \in 1..Len(s) : a # b => s[a] # s[b]
    BY <1>2, <1>3, InSequence
  <2>2. i \in 1..Len(s) /\ j \in 1..Len(s) /\ i < j /\ i # j
    BY <1>1
  <2> QED BY <1>2, <1>4, <2>1, <2>2
<1>6. PICK k, l : k = Min(Touching(q, d)) /\ l = Min(Touching(q, e))
  OBVIOUS
<1>7. /\ k \in Touching(q, d) /\ l \in Touching(q, e)
      /\ \A a \in Touching(q, e) : l <= a
      /\ k < l \/ (k = l /\ d < e)
  BY <1>2, <1>5, <1>6 DEF Enters
<1>8. SUFFICES ASSUME ~ (d < e) PROVE FALSE
  BY <1>1, <1>4
<1>9. d \in Nat /\ e \in Nat /\ e < d
  BY <1>2, <1>3, <1>5, <1>8
<1>10. /\ k \in 1..Len(q) /\ l \in 1..Len(q) /\ Len(q) \in Nat
       /\ q[k] \in R /\ q[l] \in R /\ k < l /\ q[k].start <= q[l].start
       /\ d \in FirstDay(q[k])..LastDay(q[k]) /\ e \in FirstDay(q[l])..LastDay(q[l])
  <2>1. k \in 1..Len(q) /\ l \in 1..Len(q) /\ k < l
    BY <1>7, <1>8 DEF Touching
  <2>2. d \in FirstDay(q[k])..LastDay(q[k]) /\ e \in FirstDay(q[l])..LastDay(q[l])
    BY <1>7 DEF Touching
  <2> QED BY <1>1, <2>1, <2>2, RowsInOrder
<1>11. /\ FirstDay(q[k]) \in Nat /\ LastDay(q[k]) \in Nat
       /\ FirstDay(q[l]) \in Nat /\ LastDay(q[l]) \in Nat
  BY <1>1, <1>10, DaysOfRow
<1>12. FirstDay(q[k]) <= FirstDay(q[l])
  <2>1. q[k].start \in Int /\ q[l].start \in Int
    BY <1>1, <1>10, RowTimes
  <2> QED BY <1>10, <2>1, DivisionIsMonotone, TickAssumption DEF FirstDay
<1>13. k \in Touching(q, e)
  <2>1. e \in FirstDay(q[k])..LastDay(q[k])
    BY <1>9, <1>10, <1>11, <1>12
  <2> QED BY <1>10, <2>1 DEF Touching
<1>14. l <= k
  BY <1>7, <1>13
<1> QED BY <1>10, <1>14

LEMMA ProductIsMonotone ==
    ASSUME NEW a \in Int, NEW b \in Int, a <= b, NEW m \in Nat
    PROVE  a * m \in Int /\ b * m \in Int /\ a * m <= b * m
<1>1. PICK d : d = b - a
  OBVIOUS
<1>2. d \in Int /\ d >= 0 /\ d * m >= 0 /\ d * m = b * m - a * m
  BY <1>1
<1> QED BY <1>2

\* The instants of a row in a day.
Share(r, d) == (IF r.end <= (d + 1) * DayTicks THEN r.end ELSE (d + 1) * DayTicks)
               - (IF r.start >= d * DayTicks THEN r.start ELSE d * DayTicks)

LEMMA PartOfRow ==
    ASSUME NEW r, r.start \in Int, r.end \in Int, NEW d \in Int
    PROVE  /\ Share(r, d) \in Int /\ Part(r, d) \in Int
           /\ Part(r, d) = HalfEven(Share(r, d), Ticks)
<1>1. PICK x, y : x = (d + 1) * DayTicks /\ y = d * DayTicks
  OBVIOUS
<1>2. x \in Int /\ y \in Int /\ Ticks \in Nat \ {0}
  BY <1>1, TickAssumption
<1>3. Max({r.start, y}) = IF r.start >= y THEN r.start ELSE y
  BY <1>2, MaxOfTwo
<1>4. Min({r.end, x}) = IF r.end <= x THEN r.end ELSE x
  BY <1>2, MinOfTwo
<1>5. Share(r, d) \in Int
  BY <1>1, <1>2 DEF Share
<1>6. Part(r, d) = HalfEven(Share(r, d), Ticks)
  BY <1>1, <1>3, <1>4 DEF Part, Share
<1> QED BY <1>2, <1>5, <1>6, HalfEvenIsNear

\* Only the first and the last of the parts of a row are rounded.
LEMMA PartsOfRow ==
    ASSUME Recorded, NEW p \in Periods, NEW r \in Rows(p),
           NEW g, IsSum(g, FirstDay(r)..LastDay(r), [d \in FirstDay(r)..LastDay(r) |-> Part(r, d)])
    PROVE  LET sum == g[FirstDay(r)..LastDay(r)]
           IN  /\ sum \in Int
               /\ FirstDay(r) = LastDay(r) => sum = Seconds(r)
               /\ FirstDay(r) < LastDay(r) => sum - Seconds(r) <= 1 /\ Seconds(r) - sum <= 1
<1>1. PICK f, l, a, b, m, n : /\ f = FirstDay(r) /\ l = LastDay(r) /\ a = r.start /\ b = r.end
                              /\ m = DayTicks /\ n = Ticks
  OBVIOUS
<1>2. PICK D, k : D = f..l /\ k = [d \in D |-> Part(r, d)]
  OBVIOUS
<1>3. /\ f \in Nat /\ l \in Nat /\ f <= l /\ a \in Nat /\ b \in Nat /\ a < b
      /\ n \in Nat \ {0} /\ m \in Nat \ {0} /\ m % n = 0
      /\ f * m <= a /\ a < (f + 1) * m /\ l * m < b /\ b <= (l + 1) * m
  BY <1>1, DaysOfRow, RowTimes, TickAssumption
<1>4. IsSum(g, D, k) /\ IsFiniteSet(D)
  BY <1>1, <1>2, <1>3, FS_Interval
<1>5. ASSUME NEW d \in D
      PROVE  /\ k[d] \in Int /\ k[d] = HalfEven(Share(r, d), n) /\ Share(r, d) \in Int
             /\ Share(r, d) = (IF b <= (d + 1) * m THEN b ELSE (d + 1) * m)
                               - (IF a >= d * m THEN a ELSE d * m)
  <2>1. d \in Int /\ r.start \in Int /\ r.end \in Int
    BY <1>1, <1>2, <1>3
  <2>2. k[d] = Part(r, d)
    BY <1>2
  <2>3. Share(r, d) \in Int /\ Part(r, d) \in Int /\ Part(r, d) = HalfEven(Share(r, d), Ticks)
    BY <2>1, PartOfRow
  <2>4. Share(r, d) = (IF b <= (d + 1) * m THEN b ELSE (d + 1) * m) - (IF a >= d * m THEN a ELSE d * m)
    BY <1>1 DEF Share
  <2>5. n = Ticks
    BY <1>1
  <2> QED BY <2>2, <2>3, <2>4, <2>5
<1>6. Seconds(r) = HalfEven(b - a, n)
  BY <1>1 DEF Seconds
<1>7. D \in SUBSET D /\ f \in D /\ l \in D /\ g[D] \in Int
  <2>1. D \in SUBSET D /\ f \in D /\ l \in D
    BY <1>2, <1>3
  <2> QED BY <1>4, <2>1 DEF IsSum
<1>8. ASSUME f = l PROVE g[D] = Seconds(r)
  <2>1. D \ {f} = {}
    BY <1>2, <1>3, <1>8
  <2>2. g[D] = k[f] + g[{}] /\ g[{}] = 0
    <3>1. \A x \in D : g[D] = k[x] + g[D \ {x}]
      BY <1>4, <1>7 DEF IsSum
    <3>2. g[{}] = 0
      BY <1>4 DEF IsSum
    <3>3. g[D] = k[f] + g[D \ {f}]
      BY <1>7, <3>1
    <3> QED BY <2>1, <3>2, <3>3
  <2>3. Share(r, f) = b - a
    <3>1. Share(r, f) = (IF b <= (f + 1) * m THEN b ELSE (f + 1) * m)
                         - (IF a >= f * m THEN a ELSE f * m)
      BY <1>5, <1>7
    <3>2. b <= (f + 1) * m /\ a >= f * m
      BY <1>3, <1>8
    <3> QED BY <3>1, <3>2
  <2> QED BY <1>5, <1>6, <1>7, <2>2, <2>3
<1>9. ASSUME f < l PROVE g[D] - Seconds(r) <= 1 /\ Seconds(r) - g[D] <= 1
  <2>1. PICK M : M = (f + 1)..(l - 1)
    OBVIOUS
  <2>2. g[D] = k[f] + (k[l] + g[M])
    <3>1. (D \ {f}) \ {l} = M /\ l \in D \ {f} /\ D \ {f} \in SUBSET D
      <4>1. \A d \in D : (d # f /\ d # l) <=> d \in M
        BY <1>2, <1>3, <2>1
      <4>2. \A d \in M : d \in D
        BY <1>2, <1>3, <2>1
      <4>3. f # l
        BY <1>3, <1>9
      <4> QED BY <1>7, <4>1, <4>2, <4>3
    <3>2. g[D] = k[f] + g[D \ {f}]
      BY <1>4, <1>7 DEF IsSum
    <3>3. g[D \ {f}] = k[l] + g[(D \ {f}) \ {l}]
      BY <1>4, <3>1 DEF IsSum
    <3> QED BY <3>1, <3>2, <3>3
  <2>3. PICK w \in Int : m = n * w
    <3>1. m \in Int
      BY <1>3
    <3> QED BY <1>3, <3>1, Multiples
  <2>4. \A d \in M : k[d] = w
    <3> SUFFICES ASSUME NEW d \in M PROVE k[d] = w
      OBVIOUS
    <3>1. d \in D /\ d \in Int /\ f + 1 <= d /\ d + 1 <= l
      BY <1>2, <1>3, <2>1
    <3>2. (f + 1) * m <= d * m /\ (d + 1) * m <= l * m
      BY <1>3, <3>1, ProductIsMonotone
    <3>3. d * m \in Int /\ (d + 1) * m = d * m + m /\ (f + 1) * m \in Int /\ l * m \in Int
      BY <1>3, <3>1
    <3>4. Share(r, d) = m
      <4>1. ~ (b <= (d + 1) * m) /\ ~ (a >= d * m)
        BY <1>3, <3>2, <3>3
      <4> QED BY <1>3, <1>5, <3>1, <3>3, <4>1
    <3>5. HalfEven(m, n) = w
      BY <1>3, <2>3, ExactRounding
    <3> QED BY <1>5, <3>1, <3>4, <3>5
  <2>5. PICK c : c = l - f - 1
    OBVIOUS
  <2>6. c \in Nat /\ Cardinality(M) = c
    <3>1. f + 1 \in Int /\ l - 1 \in Int /\ c \in Nat
          /\ (IF f + 1 > l - 1 THEN 0 ELSE (l - 1) - (f + 1) + 1) = c
      BY <1>3, <1>9, <2>5
    <3> QED BY <2>1, <3>1, FS_Interval
  <2>7. g[M] = w * c
    <3>1. M \in SUBSET D
      BY <1>2, <1>3, <2>1
    <3>2. g[M] = w * Cardinality(M)
      BY <1>4, <2>4, <3>1, SumOfConstant
    <3> QED BY <2>6, <3>2
  <2>8. PICK x, y, A, B, C : /\ x = (f + 1) * m - a /\ y = b - l * m
                             /\ A = k[f] /\ B = k[l] /\ C = Seconds(r)
    OBVIOUS
  <2>9. (f + 1) * m = f * m + m /\ (l + 1) * m = l * m + m /\ f * m \in Int /\ l * m \in Int
    BY <1>3
  <2>10. (f + 1) * m <= l * m
    <3>1. f + 1 \in Int /\ l \in Int /\ f + 1 <= l
      BY <1>3, <1>9
    <3> QED BY <1>3, <3>1, ProductIsMonotone
  <2>11. Share(r, f) = x /\ Share(r, l) = y
    <3>1. ~ (b <= (f + 1) * m) /\ a >= f * m /\ b <= (l + 1) * m /\ ~ (a >= l * m)
      BY <1>3, <2>9, <2>10
    <3> QED BY <1>5, <1>7, <2>8, <3>1
  <2>12. /\ x \in Int /\ y \in Int /\ A \in Int /\ B \in Int /\ C \in Int
         /\ - n <= 2 * (n * A - x) /\ 2 * (n * A - x) <= n
         /\ - n <= 2 * (n * B - y) /\ 2 * (n * B - y) <= n
    <3>1. x \in Int /\ y \in Int /\ A = HalfEven(x, n) /\ B = HalfEven(y, n)
      BY <1>5, <1>7, <2>8, <2>11
    <3>2. C \in Int
      BY <2>8, RowSeconds
    <3> QED BY <1>3, <3>1, <3>2, HalfEvenIsNear
  <2>13. - n <= 2 * (n * C - (b - a)) /\ 2 * (n * C - (b - a)) <= n
    BY <1>1, <2>8, RowSeconds
  <2>14. b - a = x + y + m * c
    <3>1. m * c = l * m - f * m - m
      BY <1>3, <2>5
    <3> QED BY <1>3, <2>8, <2>9, <3>1
  <2>15. PICK d : d = A + (B + w * c) - C
    OBVIOUS
  <2>16. w * c \in Int /\ d \in Int /\ g[D] - C = d /\ C - g[D] = - d
    <3>1. w * c \in Int
      BY <2>3, <2>6
    <3>2. g[D] = A + (B + w * c)
      BY <2>2, <2>7, <2>8
    <3> QED BY <2>12, <2>15, <3>1, <3>2
  <2>17. n * d = n * A + n * B + m * c - n * C
    <3>1. n * (w * c) = m * c
      <4>1. (n * w) * c = n * (w * c)
        BY <1>3, <2>3, <2>6
      <4> QED BY <2>3, <4>1
    <3>2. n * d = n * A + n * B + n * (w * c) - n * C
      BY <1>3, <2>12, <2>15, <2>16
    <3> QED BY <3>1, <3>2
  <2>18. n * A \in Int /\ n * B \in Int /\ n * C \in Int /\ m * c \in Int /\ n * d \in Int
    BY <1>3, <2>6, <2>12, <2>16
  <2>19. 2 * (n * d) <= 3 * n /\ - (3 * n) <= 2 * (n * d)
    BY <1>3, <2>12, <2>13, <2>14, <2>17, <2>18
  <2>20. d <= 1
    <3> SUFFICES ASSUME d >= 2 PROVE FALSE
      BY <2>16
    <3>1. n * d >= 2 * n
      BY <1>3, <2>16
    <3> QED BY <1>3, <2>18, <2>19, <3>1
  <2>21. d >= -1
    <3> SUFFICES ASSUME d <= -2 PROVE FALSE
      BY <2>16
    <3>1. n * d <= - (2 * n)
      BY <1>3, <2>16
    <3> QED BY <1>3, <2>18, <2>19, <3>1
  <2> QED BY <2>8, <2>16, <2>20, <2>21
<1> QED BY <1>1, <1>2, <1>7, <1>8, <1>9

\* The rows that touch a day.
On(B, d) == {t \in B : d \in FirstDay(t)..LastDay(t)}

LEMMA DaySums ==
    ASSUME Recorded, NEW p \in Periods, NEW d \in Int
    PROVE  \E f, g : /\ IsSum(g, Rows(p), f) /\ \A r \in Rows(p) : f[r] = Part(r, d)
                     /\ \A B \in SUBSET Rows(p) : DaySeconds(B, d) = g[On(B, d)]
<1>1. PICK R, f : R = Rows(p) /\ f = [r \in Rows(p) |-> Part(r, d)]
  OBVIOUS
<1>2. IsFiniteSet(R) /\ \A r \in R : f[r] = Part(r, d)
  BY <1>1, RowTimes
<1>3. \A r \in R : f[r] \in Int
  <2> SUFFICES ASSUME NEW r \in R PROVE f[r] \in Int
    OBVIOUS
  <2>1. r.start \in Int /\ r.end \in Int
    BY <1>1, RowTimes
  <2> QED BY <1>2, <2>1, PartOfRow
<1>4. PICK g : IsSum(g, R, f) /\ \A A \in SUBSET R : SumFunction([r \in A |-> f[r]]) = g[A]
  BY <1>2, <1>3, Sums
<1>5. ASSUME NEW B \in SUBSET R PROVE DaySeconds(B, d) = g[On(B, d)]
  <2>1. PICK A : A = On(B, d)
    OBVIOUS
  <2>2. A \in SUBSET R
    BY <2>1 DEF On
  <2>3. DaySeconds(B, d) = SumFunction([r \in A |-> Part(r, d)])
    BY <2>1 DEF DaySeconds, On
  <2>4. [r \in A |-> Part(r, d)] = [r \in A |-> f[r]]
    BY <1>2, <2>2
  <2> QED BY <1>4, <2>1, <2>2, <2>3, <2>4
<1> QED BY <1>1, <1>2, <1>4, <1>5

LEMMA SecondsOfDay ==
    ASSUME Recorded, NEW p \in Periods, NEW d \in Int, NEW B \in SUBSET Rows(p)
    PROVE  /\ DaySeconds(B, d) \in Int
           /\ B = {} => DaySeconds(B, d) = 0
           /\ \A x \in B : DaySeconds(B, d) = DaySeconds(B \ {x}, d)
                 + (IF d \in FirstDay(x)..LastDay(x) THEN Part(x, d) ELSE 0)
<1>1. PICK R : R = Rows(p)
  OBVIOUS
<1>2. PICK f, g : /\ IsSum(g, R, f) /\ \A r \in R : f[r] = Part(r, d)
                  /\ \A A \in SUBSET R : DaySeconds(A, d) = g[On(A, d)]
  BY <1>1, DaySums
<1>3. \A A \in SUBSET R : On(A, d) \in SUBSET R
  BY DEF On
<1>4. DaySeconds(B, d) \in Int
  <2>1. On(B, d) \in SUBSET R /\ DaySeconds(B, d) = g[On(B, d)]
    BY <1>1, <1>2, <1>3
  <2> QED BY <1>2, <2>1 DEF IsSum
<1>5. B = {} => DaySeconds(B, d) = 0
  <2>1. B = {} => On(B, d) = {}
    BY DEF On
  <2>2. g[{}] = 0
    BY <1>2 DEF IsSum
  <2> QED BY <1>1, <1>2, <2>1, <2>2
<1>6. ASSUME NEW x \in B
      PROVE  DaySeconds(B, d) = DaySeconds(B \ {x}, d)
                 + (IF d \in FirstDay(x)..LastDay(x) THEN Part(x, d) ELSE 0)
  <2>1. PICK A, C, D : A = On(B, d) /\ C = B \ {x} /\ D = On(C, d)
    OBVIOUS
  <2>2. A \in SUBSET R /\ C \in SUBSET R /\ D \in SUBSET R
    BY <1>1, <2>1 DEF On
  <2>3. DaySeconds(B, d) = g[A] /\ DaySeconds(C, d) = g[D] /\ g[A] \in Int /\ g[D] \in Int
    <3>1. DaySeconds(B, d) = g[A] /\ DaySeconds(C, d) = g[D]
      BY <1>1, <1>2, <2>1, <2>2
    <3> QED BY <1>2, <2>2, <3>1 DEF IsSum
  <2>4. CASE d \in FirstDay(x)..LastDay(x)
    <3>1. x \in A /\ A \ {x} = D
      BY <2>1, <2>4 DEF On
    <3>2. g[A] = f[x] + g[A \ {x}]
      BY <1>2, <2>2, <3>1 DEF IsSum
    <3>3. f[x] = Part(x, d) /\ Part(x, d) \in Int
      <4>1. x \in R /\ f[x] = Part(x, d)
        BY <1>1, <1>2
      <4>2. x.start \in Int /\ x.end \in Int
        BY <1>1, <4>1, RowTimes
      <4> QED BY <4>1, <4>2, PartOfRow
    <3>4. PICK u : u = Part(x, d)
      OBVIOUS
    <3>5. g[A] = g[D] + u
      <4>1. g[A] = u + g[D] /\ u \in Int
        BY <3>1, <3>2, <3>3, <3>4
      <4>2. PICK v, w : v = g[A] /\ w = g[D]
        OBVIOUS
      <4>3. w \in Int /\ v = u + w
        BY <2>3, <4>1, <4>2
      <4>4. v = w + u
        BY <4>1, <4>3
      <4> QED BY <4>2, <4>4
    <3>6. DaySeconds(B, d) = DaySeconds(B \ {x}, d) + u
      BY <2>1, <2>3, <3>5
    <3> QED BY <2>4, <3>4, <3>6
  <2>5. CASE d \notin FirstDay(x)..LastDay(x)
    <3>1. A = D
      BY <2>1, <2>5 DEF On
    <3>2. DaySeconds(B, d) = DaySeconds(B \ {x}, d) + 0
      BY <2>1, <2>3, <3>1
    <3> QED BY <2>5, <3>2
  <2> QED BY <2>4, <2>5
<1> QED BY <1>4, <1>5, <1>6

\* The sums over the days and over the rows are the same, and so are the parts
\* of each row but for a second where it spans a midnight.
LEMMA LayersAddUp ==
    ASSUME Recorded, NEW p \in Periods, NEW A \in SUBSET Rows(p)
    PROVE  LET total == SumFunction([d \in DaysIn(Rows(p)) |-> DaySeconds(A, d)])
           IN  /\ total \in Int
               /\ Abs(total - Attributed(A)) <= Cardinality({r \in A : FirstDay(r) < LastDay(r)})
<1>1. PICK R, D : R = Rows(p) /\ D = DaysIn(R)
  OBVIOUS
<1>2. IsFiniteSet(R) /\ IsFiniteSet(D) /\ \A d \in D : d \in Int
  <2>1. IsFiniteSet(R)
    BY <1>1, RowTimes
  <2>2. now \in Nat
    BY DEF Recorded
  <2>3. D \in SUBSET (0..now)
    <3>1. ASSUME NEW d \in D PROVE d \in 0..now
      <4>1. PICK r \in R : d \in FirstDay(r)..LastDay(r) /\ d \in Nat
        BY <1>1 DEF DaysIn
      <4>2. FirstDay(r) \in Nat /\ LastDay(r) \in Nat /\ LastDay(r) <= now
        BY <1>1, DaysOfRow
      <4> QED BY <2>2, <4>1, <4>2
    <3> QED BY <3>1
  <2>4. IsFiniteSet(0..now)
    BY <2>2, FS_Interval
  <2>5. IsFiniteSet(D)
    BY <2>3, <2>4, FS_Subset
  <2> QED BY <2>1, <2>2, <2>3, <2>5
<1>3. PICK h : \A B \in SUBSET R : Attributed(B) = h[B] /\ h[B] \in Nat
  BY <1>1, AttributedParts
<1>4. PICK k : IsSum(k, R, [r \in R |-> Seconds(r)]) /\ \A B \in SUBSET R : Attributed(B) = k[B] /\ k[B] \in Nat
  BY <1>1, AttributedParts
<1> DEFINE total(B) == SumFunction([d \in D |-> DaySeconds(B, d)])
           across(B) == {r \in B : FirstDay(r) < LastDay(r)}
           Near(B) == /\ total(B) \in Int
                      /\ total(B) - k[B] <= Cardinality(across(B))
                      /\ k[B] - total(B) <= Cardinality(across(B))
           G == {B \in SUBSET R : Near(B)}
<1>5. ASSUME NEW B \in SUBSET R
      PROVE  \E y, Y : /\ IsSum(Y, D, y) /\ \A d \in D : y[d] = DaySeconds(B, d) /\ y[d] \in Int
                       /\ total(B) = Y[D] /\ Y[D] \in Int
  <2>1. PICK y : y = [d \in D |-> DaySeconds(B, d)]
    OBVIOUS
  <2>2. \A d \in D : y[d] = DaySeconds(B, d) /\ y[d] \in Int
    BY <1>1, <1>2, <2>1, SecondsOfDay
  <2>3. PICK Y : IsSum(Y, D, y) /\ \A s \in SUBSET D : SumFunction([d \in s |-> y[d]]) = Y[s]
    <3>1. \A d \in D : y[d] \in Int
      BY <2>2
    <3> QED BY <1>2, <3>1, Sums
  <2>4. [d \in D |-> DaySeconds(B, d)] = [d \in D |-> y[d]] /\ D \in SUBSET D
    BY <2>2
  <2>5. total(B) = Y[D] /\ Y[D] \in Int
    BY <2>3, <2>4 DEF IsSum
  <2> QED BY <2>2, <2>3, <2>5
<1>6. \A B \in SUBSET R : IsFiniteSet(across(B)) /\ Cardinality(across(B)) \in Nat
  <2> SUFFICES ASSUME NEW B \in SUBSET R
               PROVE  IsFiniteSet(across(B)) /\ Cardinality(across(B)) \in Nat
    OBVIOUS
  <2>1. across(B) \in SUBSET R
    OBVIOUS
  <2> HIDE DEF across
  <2>2. IsFiniteSet(across(B))
    BY <1>2, <2>1, FS_Subset
  <2> QED BY <2>2, FS_CardinalityType
<1>7. ASSUME NEW B \in SUBSET R, \A x \in B : B \ {x} \in G PROVE B \in G
  <2>1. PICK y, Y : /\ IsSum(Y, D, y) /\ \A d \in D : y[d] = DaySeconds(B, d) /\ y[d] \in Int
                    /\ total(B) = Y[D] /\ Y[D] \in Int
    BY <1>5
  <2>2. CASE B = {}
    <3>1. \A d \in D : y[d] = 0
      BY <1>1, <1>2, <2>1, <2>2, SecondsOfDay
    <3>2. Y[D] = 0
      <4>1. PICK s : s = D
        OBVIOUS
      <4>2. s \in SUBSET D /\ \A d \in s : y[d] = 0
        BY <3>1, <4>1
      <4>3. Y[s] = 0 * Cardinality(s)
        BY <1>2, <2>1, <4>2, SumOfConstant
      <4>4. Cardinality(s) \in Nat
        BY <1>2, <4>1, FS_CardinalityType
      <4> QED BY <4>1, <4>3, <4>4
    <3>3. k[B] = 0
      BY <1>4, <2>2 DEF IsSum
    <3>4. Cardinality(across(B)) \in Nat
      BY <1>6
    <3> HIDE DEF total, across
    <3> QED BY <2>1, <3>2, <3>3, <3>4
  <2>3. CASE B # {}
    <3>1. PICK x : x \in B
      BY <2>3
    <3>2. PICK C : C = B \ {x}
      OBVIOUS
    <3>3. C \in SUBSET R /\ Near(C) /\ x \in R
      BY <1>7, <3>1, <3>2
    <3>4. PICK z, Z : /\ IsSum(Z, D, z) /\ \A d \in D : z[d] = DaySeconds(C, d) /\ z[d] \in Int
                      /\ total(C) = Z[D] /\ Z[D] \in Int
      BY <1>5, <3>3
    <3>5. PICK own, e : own = FirstDay(x)..LastDay(x) /\ e = [d \in FirstDay(x)..LastDay(x) |-> Part(x, d)]
      OBVIOUS
    <3>6. own \in SUBSET D /\ IsFiniteSet(own)
      <4>1. FirstDay(x) \in Nat /\ LastDay(x) \in Nat
        BY <1>1, <3>3, DaysOfRow
      <4>2. \A d \in own : d \in D
        BY <1>1, <3>3, <3>5, <4>1 DEF DaysIn
      <4> QED BY <1>2, <4>2, FS_Subset
    <3>7. \A d \in own : e[d] \in Int /\ e[d] = Part(x, d)
      <4>1. x.start \in Int /\ x.end \in Int
        BY <1>1, <3>3, RowTimes
      <4>2. \A d \in own : d \in Int
        BY <1>2, <3>6
      <4> QED BY <3>5, <4>1, <4>2, PartOfRow
    <3>8. PICK E : IsSum(E, own, e)
      <4>1. \A d \in own : e[d] \in Int
        BY <3>7
      <4> QED BY <3>6, <4>1, Sums
    <3>9. PICK u : u = [d \in D |-> IF d \in own THEN e[d] ELSE 0]
      OBVIOUS
    <3>10. \A d \in D : u[d] \in Int /\ u[d] = IF d \in own THEN e[d] ELSE 0
      BY <3>7, <3>9
    <3>11. PICK U : IsSum(U, D, u)
      <4>1. \A d \in D : u[d] \in Int
        BY <3>10
      <4> QED BY <1>2, <4>1, Sums
    <3>12. U[D] = E[own]
      <4>1. \A d \in D : u[d] = IF d \in own THEN e[d] ELSE 0
        BY <3>10
      <4> QED BY <1>2, <3>6, <3>8, <3>11, <4>1, SumOfPart
    <3>13. \A d \in D : z[d] \in Int /\ u[d] \in Int /\ y[d] = z[d] + u[d]
      <4> SUFFICES ASSUME NEW d \in D PROVE z[d] \in Int /\ u[d] \in Int /\ y[d] = z[d] + u[d]
        OBVIOUS
      <4>1. d \in Int /\ y[d] = DaySeconds(B, d) /\ z[d] = DaySeconds(C, d) /\ z[d] \in Int /\ u[d] \in Int
        BY <1>2, <2>1, <3>4, <3>10
      <4>2. DaySeconds(B, d) = DaySeconds(B \ {x}, d) + (IF d \in FirstDay(x)..LastDay(x) THEN Part(x, d) ELSE 0)
        BY <1>1, <3>1, <4>1, SecondsOfDay
      <4>3. u[d] = IF d \in FirstDay(x)..LastDay(x) THEN Part(x, d) ELSE 0
        BY <3>5, <3>7, <3>10
      <4> QED BY <3>2, <4>1, <4>2, <4>3
    <3>14. Y[D] = Z[D] + U[D]
      BY <1>2, <2>1, <3>4, <3>11, <3>13, SumOfPairs
    <3>15. PICK part : part = E[own]
      OBVIOUS
    <3>16. /\ part \in Int
           /\ FirstDay(x) = LastDay(x) => part = Seconds(x)
           /\ FirstDay(x) < LastDay(x) => part - Seconds(x) <= 1 /\ Seconds(x) - part <= 1
      BY <1>1, <3>3, <3>5, <3>8, <3>15, PartsOfRow
    <3>17. Seconds(x) \in Nat /\ k[B] = Seconds(x) + k[C] /\ k[C] \in Nat
      <4>1. k[B] = [r \in R |-> Seconds(r)][x] + k[B \ {x}]
        BY <1>4, <3>1 DEF IsSum
      <4>2. Seconds(x) \in Nat
        BY <1>1, <3>3, RowSeconds
      <4> QED BY <1>4, <3>2, <3>3, <4>1, <4>2
    <3>18. PICK i, j : i = Cardinality(across(B)) /\ j = Cardinality(across(C))
      OBVIOUS
    <3>19. /\ i \in Nat /\ j \in Nat
           /\ FirstDay(x) < LastDay(x) => i = j + 1
           /\ ~ (FirstDay(x) < LastDay(x)) => i = j
      <4>1. i \in Nat /\ j \in Nat /\ IsFiniteSet(across(B))
        BY <1>6, <3>3, <3>18
      <4>2. CASE FirstDay(x) < LastDay(x)
        <5>1. x \in across(B) /\ across(C) = across(B) \ {x}
          BY <3>1, <3>2, <4>2
        <5> HIDE DEF across
        <5>2. j = i - 1
          BY <3>18, <4>1, <5>1, FS_RemoveElement
        <5> QED BY <4>1, <4>2, <5>2
      <4>3. CASE ~ (FirstDay(x) < LastDay(x))
        <5>1. across(C) = across(B)
          BY <3>1, <3>2, <4>3
        <5> HIDE DEF across
        <5> QED BY <3>18, <4>1, <4>3, <5>1
      <4> QED BY <4>2, <4>3
    <3>20. total(B) = total(C) + part /\ total(C) \in Int
      <4> HIDE DEF total
      <4> QED BY <2>1, <3>4, <3>12, <3>14, <3>15
    <3>21. FirstDay(x) = LastDay(x) \/ FirstDay(x) < LastDay(x)
      <4>1. FirstDay(x) \in Nat /\ LastDay(x) \in Nat /\ FirstDay(x) <= LastDay(x)
        BY <1>1, <3>3, DaysOfRow
      <4> QED BY <4>1
    <3>22. total(C) - k[C] <= j /\ k[C] - total(C) <= j
      BY <3>3, <3>18
    <3>23. /\ total(B) \in Int /\ total(B) - k[B] <= i /\ k[B] - total(B) <= i
      <4>1. PICK v, w, a : v = total(C) /\ w = k[C] /\ a = Seconds(x)
        OBVIOUS
      <4>2. total(B) = v + part /\ k[B] = a + w
        BY <3>17, <3>20, <4>1
      <4>3. v \in Int /\ w \in Int /\ a \in Int /\ v - w <= j /\ w - v <= j
        <5> HIDE DEF total
        <5> QED BY <3>17, <3>20, <3>22, <4>1
      <4>4. (v + part) - (a + w) <= i /\ (a + w) - (v + part) <= i
        BY <3>16, <3>19, <3>21, <4>1, <4>3
      <4> HIDE DEF total
      <4> QED BY <3>16, <4>2, <4>3, <4>4
    <3> HIDE DEF total, across
    <3> QED BY <3>18, <3>23
  <2> QED BY <2>2, <2>3
<1>8. A \in G
  <2>1. \A B \in SUBSET R : B \in G
    <3> HIDE DEF G
    <3> QED BY <1>2, <1>7, SubsetInduction
  <2> HIDE DEF G
  <2> QED BY <1>1, <2>1
<1>9. total(A) \in Int /\ Abs(total(A) - k[A]) <= Cardinality(across(A))
  <2>1. Near(A) /\ k[A] \in Nat /\ Cardinality(across(A)) \in Nat
    BY <1>1, <1>4, <1>6, <1>8
  <2> HIDE DEF total, across
  <2> QED BY <2>1 DEF Abs
<1>10. k[A] = Attributed(A)
  BY <1>1, <1>4
<1> QED BY <1>1, <1>9, <1>10

\* A project's layers of all the bars: its sum over the days.
LEMMA LayersOfBars ==
    ASSUME Recorded, NEW p \in Periods, NEW q \in RowOrders(Rows(p)), NEW A \in SUBSET Rows(p)
    PROVE  SumFunction([i \in 1..Len(Days(q)) |-> DaySeconds(A, Days(q)[i])])
             = SumFunction([d \in DaysIn(Rows(p)) |-> DaySeconds(A, d)])
<1>1. PICK R, D, s : R = Rows(p) /\ D = DaysIn(R) /\ s = Days(q)
  OBVIOUS
<1>2. s \in SetToSeqs(D) /\ D \in SUBSET (0..now) /\ now \in Nat
  <2>1. s \in SetToSeqs(D) /\ D \in SUBSET (0..now)
    BY <1>1, DaysAreListed
  <2> QED BY <2>1 DEF Recorded
<1>3. IsFiniteSet(D) /\ \A d \in D : d \in Int
  <2>1. IsFiniteSet(0..now)
    BY <1>2, FS_Interval
  <2>2. IsFiniteSet(D)
    BY <1>2, <2>1, FS_Subset
  <2> QED BY <1>2, <2>2
<1>4. PICK I : I = 1..Len(s)
  OBVIOUS
<1>5. /\ Len(s) \in Nat /\ IsFiniteSet(I)
      /\ \A i \in I : s[i] \in D
      /\ \A i, j \in I : i # j => s[i] # s[j]
      /\ \A d \in D : \E i \in I : s[i] = d
  <2>1. /\ Len(s) = Cardinality(D) /\ Cardinality(D) \in Nat
        /\ \A i \in 1..Len(s) : s[i] \in D
        /\ \A i, j \in 1..Len(s) : i # j => s[i] # s[j]
        /\ \A d \in D : \E i \in 1..Len(s) : s[i] = d
    BY <1>2, <1>3, InSequence
  <2>2. IsFiniteSet(1..Len(s))
    BY <2>1, FS_Interval
  <2> QED BY <1>4, <2>1, <2>2
<1>6. PICK f, k : /\ f = [d \in D |-> DaySeconds(A, d)]
                  /\ k = [i \in I |-> DaySeconds(A, s[i])]
  OBVIOUS
<1>7. \A d \in D : f[d] = DaySeconds(A, d) /\ f[d] \in Int
  BY <1>1, <1>3, <1>6, SecondsOfDay
<1>8. \A i \in I : k[i] = f[s[i]] /\ k[i] \in Int
  BY <1>5, <1>6, <1>7
<1>9. PICK g : IsSum(g, D, f) /\ \A t \in SUBSET D : SumFunction([d \in t |-> f[d]]) = g[t]
  <2>1. \A d \in D : f[d] \in Int
    BY <1>7
  <2> QED BY <1>3, <2>1, Sums
<1>10. PICK h : IsSum(h, I, k) /\ \A t \in SUBSET I : SumFunction([i \in t |-> k[i]]) = h[t]
  <2>1. \A i \in I : k[i] \in Int
    BY <1>8
  <2> QED BY <1>5, <2>1, Sums
<1>11. h[I] = g[D]
  <2>1. \A d \in D : f[d] \in Int
    BY <1>7
  <2>2. \A i \in I : k[i] = f[s[i]]
    BY <1>8
  <2>3. IsFiniteSet(D) /\ IsSum(g, D, f) /\ IsFiniteSet(I) /\ IsSum(h, I, k)
    BY <1>3, <1>5, <1>9, <1>10
  <2>4. (\A i \in I : s[i] \in D) /\ (\A i, j \in I : i # j => s[i] # s[j])
    BY <1>5
  <2>5. \A d \in D : \E i \in I : s[i] = d
    BY <1>5
  <2> QED BY <2>1, <2>2, <2>3, <2>4, <2>5, SumOfSequence
<1>12. SumFunction([d \in D |-> DaySeconds(A, d)]) = g[D]
  <2>1. [d \in D |-> DaySeconds(A, d)] = [d \in D |-> f[d]] /\ D \in SUBSET D
    BY <1>7
  <2> QED BY <1>9, <2>1
<1>13. SumFunction([i \in I |-> DaySeconds(A, s[i])]) = h[I]
  <2>1. [i \in I |-> DaySeconds(A, s[i])] = [i \in I |-> k[i]] /\ I \in SUBSET I
    BY <1>6
  <2> QED BY <1>10, <2>1
<1> QED BY <1>1, <1>4, <1>11, <1>12, <1>13

\* What the parts of InsightsView show, as the lemmas put it.
LEMMA OnScreen ==
    ASSUME NEW R, NEW q, NEW a \in ProjectsIn(R)
    PROVE  /\ InsightsView(R, q).projects[a].value = Value(RowsOf(R, a))
           /\ InsightsView(R, q).projects[a].seconds = Attributed(RowsOf(R, a))
<1> QED BY DEF InsightsView, LabourValueChart, ProjectSeconds

LEMMA LayerOnScreen ==
    ASSUME NEW R, NEW q, NEW a \in ProjectsIn(R), NEW i \in 1..Len(Days(q))
    PROVE  InsightsView(R, q).days[i].layers[a] = DaySeconds(RowsOf(R, a), Days(q)[i])
<1> QED BY DEF InsightsView, DailyActivityChart

LEMMA ChartsFit == Recorded /\ Rated => ChartsAccountForAll
<1> SUFFICES ASSUME Recorded, Rated, NEW p \in Periods, NEW q \in RowOrders(Rows(p))
             PROVE  LET R == Rows(p)
                        screen == InsightsView(R, q)
                        values == [a \in ProjectsIn(R) |-> screen.projects[a].value]
                        layers(a) == [i \in DOMAIN screen.days |-> screen.days[i].layers[a]]
                    IN  /\ SumFunction(screen.lengths) = screen.tiles.sessions
                        /\ 2 * Abs(SumFunction(values) - screen.tiles.value) <= Cardinality(ProjectsIn(R)) + 1
                        /\ \A i, j \in DOMAIN screen.days : i < j => screen.days[i].day < screen.days[j].day
                        /\ \A a \in ProjectsIn(R) :
                             Abs(SumFunction(layers(a)) - screen.projects[a].seconds)
                               <= Cardinality({r \in RowsOf(R, a) : FirstDay(r) < LastDay(r)})
  BY DEF ChartsAccountForAll
<1>1. PICK R, screen, n : R = Rows(p) /\ screen = InsightsView(R, q) /\ n = Len(Days(q))
  OBVIOUS
<1>2. /\ screen.lengths = SessionLengthChart(R)
      /\ screen.tiles.sessions = Cardinality(SessionsIn(R))
      /\ screen.tiles.value = Value(R)
      /\ DOMAIN screen.days = 1..n
      /\ \A i \in 1..n : screen.days[i].day = Days(q)[i]
  BY <1>1 DEF InsightsView, Tiles, DailyActivityChart
<1>3. SumFunction(screen.lengths) = screen.tiles.sessions
  BY <1>1, <1>2, LengthsAccountForAll
<1>4. 2 * Abs(SumFunction([a \in ProjectsIn(R) |-> screen.projects[a].value]) - screen.tiles.value)
        <= Cardinality(ProjectsIn(R)) + 1
  <2>1. [a \in ProjectsIn(R) |-> screen.projects[a].value] = [a \in ProjectsIn(R) |-> Value(RowsOf(R, a))]
    BY <1>1, OnScreen
  <2>2. 2 * Abs(SumFunction([a \in ProjectsIn(R) |-> Value(RowsOf(R, a))]) - Value(R))
          <= Cardinality(ProjectsIn(R)) + 1
    BY <1>1, ValuesAddUp
  <2> QED BY <1>2, <2>1, <2>2
<1>5. \A i, j \in DOMAIN screen.days : i < j => screen.days[i].day < screen.days[j].day
  BY <1>1, <1>2, DaysInOrder
<1>6. ASSUME NEW a \in ProjectsIn(R)
      PROVE  Abs(SumFunction([i \in DOMAIN screen.days |-> screen.days[i].layers[a]]) - screen.projects[a].seconds)
               <= Cardinality({r \in RowsOf(R, a) : FirstDay(r) < LastDay(r)})
  <2>1. PICK A : A = RowsOf(R, a)
    OBVIOUS
  <2>2. A \in SUBSET R
    BY <2>1 DEF RowsOf
  <2>3. [i \in DOMAIN screen.days |-> screen.days[i].layers[a]]
          = [i \in 1..Len(Days(q)) |-> DaySeconds(A, Days(q)[i])]
    <3>1. \A i \in 1..Len(Days(q)) : screen.days[i].layers[a] = DaySeconds(A, Days(q)[i])
      <4> SUFFICES ASSUME NEW i \in 1..Len(Days(q))
                   PROVE  screen.days[i].layers[a] = DaySeconds(A, Days(q)[i])
        OBVIOUS
      <4>1. InsightsView(R, q).days[i].layers[a] = DaySeconds(RowsOf(R, a), Days(q)[i])
        BY LayerOnScreen
      <4> QED BY <1>1, <2>1, <4>1
    <3>2. PICK I : I = 1..Len(Days(q))
      OBVIOUS
    <3>3. DOMAIN screen.days = I /\ \A i \in I : screen.days[i].layers[a] = DaySeconds(A, Days(q)[i])
      BY <1>1, <1>2, <3>1, <3>2
    <3>4. [i \in I |-> screen.days[i].layers[a]] = [i \in I |-> DaySeconds(A, Days(q)[i])]
      BY <3>3
    <3> QED BY <3>2, <3>3, <3>4
  <2>4. screen.projects[a].seconds = Attributed(A)
    BY <1>1, <2>1, OnScreen
  <2>5. SumFunction([i \in 1..Len(Days(q)) |-> DaySeconds(A, Days(q)[i])])
          = SumFunction([d \in DaysIn(R) |-> DaySeconds(A, d)])
    BY <1>1, <2>2, LayersOfBars
  <2>6. Abs(SumFunction([d \in DaysIn(R) |-> DaySeconds(A, d)]) - Attributed(A))
          <= Cardinality({r \in A : FirstDay(r) < LastDay(r)})
    BY <1>1, <2>2, LayersAddUp
  <2> QED BY <2>1, <2>3, <2>4, <2>5, <2>6
<1> QED BY <1>1, <1>3, <1>4, <1>5, <1>6

(* What InsightsView shows fits together: the lengths count every session once, *)
(* the values of the projects add up but for a unit for two roundings, the days *)
(* come in order, and a project's layers add up but for the midnights.          *)
THEOREM ChartsTheorem == Spec => []ChartsAccountForAll
<1>1. Recorded /\ Rated => ChartsAccountForAll
  BY ChartsFit
<1> QED BY <1>1, RecordedTheorem, RatedTheorem, PTL

-----------------------------------------------------------------------------
(* History and Insights. *)

\* What a period that begins at first leaves out of a segment.
Lost(g, first) == Max({0, Min({EndNow(g), first}) - g.start})
Kept(g, first) == IF EndNow(g) > first THEN Cut(g, first).end - Cut(g, first).start ELSE 0

LEMMA LostAndKept ==
    ASSUME Recorded, NEW first \in Nat, NEW g \in segments
    PROVE  /\ Lost(g, first) \in Nat /\ Kept(g, first) \in Nat
           /\ Lost(g, first) + Kept(g, first) = EndNow(g) - g.start
           /\ Lost(g, first) = IF g.start >= first THEN 0
                               ELSE (IF EndNow(g) <= first THEN EndNow(g) ELSE first) - g.start
<1>1. PICK a, b : a = g.start /\ b = EndNow(g)
  OBVIOUS
<1>2. a \in Nat /\ b \in Nat /\ a <= b
  BY <1>1, SegmentTimes
<1>3. PICK m : m = Min({b, first}) - a
  OBVIOUS
<1>4. m = (IF b <= first THEN b ELSE first) - a /\ m \in Int
  BY <1>2, <1>3, MinOfTwo
<1>5. Lost(g, first) = IF 0 >= m THEN 0 ELSE m
  <2>1. Lost(g, first) = Max({0, m})
    BY <1>1, <1>3 DEF Lost
  <2> QED BY <1>4, <2>1, MaxOfTwo
<1>6. Kept(g, first) = IF b > first THEN b - (IF a >= first THEN a ELSE first) ELSE 0
  BY <1>1 DEF Kept, Cut
<1> QED BY <1>1, <1>2, <1>4, <1>5, <1>6

LEMMA StoppedSegments ==
    ASSUME Recorded, NEW s \in stopped
    PROVE  /\ IsFiniteSet(Of(s)) /\ s \in Started
           /\ \A g \in Of(s) : /\ g \in segments /\ g.session = s
                               /\ g.start \in Nat /\ EndNow(g) \in Nat /\ g.start < EndNow(g)
           /\ \A g, h \in Of(s) : g # h => EndNow(g) <= h.start \/ EndNow(h) <= g.start
<1>1. IsFiniteSet(Of(s)) /\ s \in Started
  <2>1. Of(s) \subseteq segments
    BY DEF Of
  <2> QED BY <2>1, FS_Subset DEF Recorded
<1>2. ASSUME NEW g \in Of(s)
      PROVE  g \in segments /\ g.session = s /\ EndNow(g) = g.end /\ g.start < g.end
  BY DEF Of, Recorded, EndNow
<1>3. \A g \in Of(s) : g.start \in Nat /\ EndNow(g) \in Nat
  BY <1>2, SegmentTimes
<1>4. \A g, h \in Of(s) : g # h => g.end <= h.start \/ h.end <= g.start
  BY <1>2 DEF Recorded
<1> QED BY <1>1, <1>2, <1>3, <1>4

\* The segments of a session that reach into a period are its rows, one for one.
Reaching(s, first) == {g \in Of(s) : EndNow(g) > first}
RowsFor(R, s) == {r \in R : r.session = s}

LEMMA RowsOfSession ==
    ASSUME Recorded, NEW p \in Periods, NEW s \in stopped, NEW first, first = PeriodStart(p)
    PROVE  /\ \A g \in Reaching(s, first) : Cut(g, first) \in RowsFor(Rows(p), s)
           /\ \A r \in RowsFor(Rows(p), s) : \E g \in Reaching(s, first) : Cut(g, first) = r
           /\ \A g, h \in Reaching(s, first) : g # h => Cut(g, first) # Cut(h, first)
<1>1. Rows(p) = {Cut(g, first) : g \in {h \in segments : h.start < EndNow(h) /\ EndNow(h) > first}}
  BY RowsAreCuts
<1>2. ASSUME NEW g \in Reaching(s, first) PROVE Cut(g, first) \in RowsFor(Rows(p), s)
  <2>1. g \in segments /\ g.session = s /\ g.start < EndNow(g) /\ EndNow(g) > first
    BY StoppedSegments DEF Reaching
  <2>2. Cut(g, first) \in Rows(p) /\ Cut(g, first).session = s
    BY <1>1, <2>1 DEF Cut
  <2> QED BY <2>2 DEF RowsFor
<1>3. ASSUME NEW r \in RowsFor(Rows(p), s) PROVE \E g \in Reaching(s, first) : Cut(g, first) = r
  <2>1. r \in Rows(p) /\ r.session = s
    BY DEF RowsFor
  <2>2. PICK g \in segments : EndNow(g) > first /\ r = Cut(g, first)
    BY <1>1, <2>1
  <2>3. g.session = s
    BY <2>1, <2>2 DEF Cut
  <2> QED BY <2>2, <2>3 DEF Reaching, Of
<1>4. ASSUME NEW g \in Reaching(s, first), NEW h \in Reaching(s, first), g # h
      PROVE  Cut(g, first) # Cut(h, first)
  <2>1. g \in Of(s) /\ h \in Of(s)
    BY DEF Reaching
  <2>2. /\ g.start \in Nat /\ EndNow(g) \in Nat /\ g.start < EndNow(g)
        /\ h.start \in Nat /\ EndNow(h) \in Nat /\ h.start < EndNow(h)
        /\ EndNow(g) <= h.start \/ EndNow(h) <= g.start
    BY <1>4, <2>1, StoppedSegments
  <2>3. EndNow(g) # EndNow(h)
    BY <2>2
  <2>4. Cut(g, first).end = EndNow(g) /\ Cut(h, first).end = EndNow(h)
    BY DEF Cut
  <2> QED BY <2>3, <2>4
<1> QED BY <1>2, <1>3, <1>4

\* What the report counts of a session that has been stopped.
LEMMA CountedOfSession ==
    ASSUME Recorded, NEW p \in Periods, NEW s \in stopped, NEW first, first = PeriodStart(p), NEW D, D = Of(s)
    PROVE  \E f, k, g, h :
              /\ \A x \in D : f[x] = Kept(x, first) /\ f[x] \in Int /\ k[x] \in Int
              /\ \A x \in D : - Ticks <= 2 * (Ticks * k[x] - f[x]) /\ 2 * (Ticks * k[x] - f[x]) <= Ticks
              /\ IsSum(g, D, f) /\ IsSum(h, D, k) /\ h[D] = SessionSeconds(Rows(p), s)
<1>1. PICK A, B : A = Reaching(s, first) /\ B = RowsFor(Rows(p), s)
  OBVIOUS
<1>2. IsFiniteSet(D) /\ A \in SUBSET D /\ IsFiniteSet(A) /\ IsFiniteSet(B) /\ B \in SUBSET Rows(p)
  <2>1. IsFiniteSet(D)
    BY StoppedSegments
  <2>2. A \in SUBSET D
    BY <1>1 DEF Reaching
  <2>3. B \in SUBSET Rows(p) /\ IsFiniteSet(Rows(p))
    BY <1>1, RowTimes DEF RowsFor
  <2> QED BY <2>1, <2>2, <2>3, FS_Subset
<1>3. /\ \A x \in A : Cut(x, first) \in B
      /\ \A r \in B : \E x \in A : Cut(x, first) = r
      /\ \A x, y \in A : x # y => Cut(x, first) # Cut(y, first)
  BY <1>1, RowsOfSession
<1>4. PICK f, k : /\ f = [x \in D |-> Kept(x, first)]
                  /\ k = [x \in D |-> IF x \in A THEN Seconds(Cut(x, first)) ELSE 0]
  OBVIOUS
<1>5. ASSUME NEW x \in D
      PROVE  /\ f[x] = Kept(x, first) /\ f[x] \in Int /\ k[x] \in Int
             /\ - Ticks <= 2 * (Ticks * k[x] - f[x]) /\ 2 * (Ticks * k[x] - f[x]) <= Ticks
  <2>1. f[x] = Kept(x, first) /\ f[x] \in Int
    <3>1. x \in segments /\ first \in Nat
      BY StoppedSegments, PeriodBegins
    <3> QED BY <1>4, <3>1, LostAndKept
  <2>2. CASE x \in A
    <3>1. k[x] = Seconds(Cut(x, first)) /\ Cut(x, first) \in Rows(p)
      BY <1>2, <1>3, <1>4, <2>2
    <3>2. f[x] = Cut(x, first).end - Cut(x, first).start
      BY <1>1, <2>1, <2>2 DEF Kept, Reaching
    <3> QED BY <2>1, <3>1, <3>2, RowSeconds
  <2>3. CASE x \notin A
    <3>1. k[x] = 0
      BY <1>4, <2>3
    <3>2. ~ (EndNow(x) > first)
      BY <1>1, <2>3 DEF Reaching
    <3>3. f[x] = 0
      BY <2>1, <3>2 DEF Kept
    <3>4. Ticks \in Nat /\ Ticks * 0 = 0
      BY TickAssumption
    <3> QED BY <2>1, <3>1, <3>3, <3>4
  <2> QED BY <2>2, <2>3
<1>6. PICK g : IsSum(g, D, f)
  <2>1. \A x \in D : f[x] \in Int
    BY <1>5
  <2> QED BY <1>2, <2>1, Sums
<1>7. PICK h : IsSum(h, D, k)
  <2>1. \A x \in D : k[x] \in Int
    BY <1>5
  <2> QED BY <1>2, <2>1, Sums
<1>8. PICK q, j, v : /\ q = [x \in A |-> Cut(x, first)] /\ j = [x \in A |-> Seconds(Cut(x, first))]
                     /\ v = [r \in B |-> Seconds(r)]
  OBVIOUS
<1>9. PICK u : IsSum(u, A, j)
  <2>1. ASSUME NEW x \in A PROVE j[x] \in Int
    <3>1. Cut(x, first) \in Rows(p)
      BY <1>2, <1>3
    <3>2. Seconds(Cut(x, first)) \in Nat
      BY <3>1, RowSeconds
    <3> QED BY <1>8, <3>2
  <2> QED BY <1>2, <2>1, Sums
<1>10. PICK w : IsSum(w, B, v) /\ SumFunction([r \in B |-> v[r]]) = w[B]
  <2>1. \A r \in B : v[r] \in Int
    BY <1>2, <1>8, RowSeconds
  <2>2. B \in SUBSET B
    OBVIOUS
  <2> QED BY <1>2, <2>1, <2>2, Sums
<1>11. h[D] = u[A]
  <2>1. \A x \in D : k[x] = IF x \in A THEN j[x] ELSE 0
    BY <1>4, <1>8
  <2> QED BY <1>2, <1>7, <1>9, <2>1, SumOfPart
<1>12. u[A] = w[B]
  <2>1. \A r \in B : v[r] \in Int
    BY <1>2, <1>8, RowSeconds
  <2>2. (\A x \in A : q[x] \in B) /\ (\A x, y \in A : x # y => q[x] # q[y])
    BY <1>3, <1>8
  <2>3. \A r \in B : \E x \in A : q[x] = r
    BY <1>3, <1>8
  <2>4. \A x \in A : j[x] = v[q[x]]
    BY <1>3, <1>8
  <2> QED BY <1>2, <1>9, <1>10, <2>1, <2>2, <2>3, <2>4, SumOfSequence
<1>13. w[B] = SessionSeconds(Rows(p), s)
  <2>1. [r \in B |-> v[r]] = [r \in B |-> Seconds(r)]
    BY <1>8
  <2>2. B = {r \in Rows(p) : r.session = s}
    BY <1>1 DEF RowsFor
  <2> QED BY <1>10, <2>1, <2>2 DEF SessionSeconds, Attributed
<1> QED BY <1>5, <1>6, <1>7, <1>11, <1>12, <1>13

\* The sum of what a period leaves out of the segments of a session.
LEMMA CutOffIsSum ==
    ASSUME Recorded, NEW s \in stopped, NEW first \in Nat, NEW D, D = Of(s)
    PROVE  \E f, g : /\ \A x \in D : f[x] = Lost(x, first) /\ f[x] \in Nat
                     /\ IsSum(g, D, f) /\ CutOff(s, first) = g[D] /\ g[D] \in Nat
<1>1. PICK f : f = [x \in D |-> Lost(x, first)]
  OBVIOUS
<1>2. \A x \in D : f[x] = Lost(x, first) /\ f[x] \in Nat
  BY <1>1, StoppedSegments, LostAndKept
<1>3. IsFiniteSet(D) /\ D \in SUBSET D
  BY StoppedSegments
<1>4. PICK g : IsSum(g, D, f) /\ SumFunction([x \in D |-> f[x]]) = g[D]
  <2>1. \A x \in D : f[x] \in Int
    BY <1>2
  <2> QED BY <1>3, <2>1, Sums
<1>5. CutOff(s, first) = g[D]
  <2>1. [x \in D |-> f[x]] = [x \in D |-> Max({0, Min({EndNow(x), first}) - x.start})]
    BY <1>2 DEF Lost
  <2> QED BY <1>4, <2>1 DEF CutOff
<1>6. g[D] \in Nat
  <2>1. \A x \in D : f[x] \in Nat
    BY <1>2
  <2> QED BY <1>3, <1>4, <2>1, SumIsMonotone
<1> QED BY <1>2, <1>4, <1>5, <1>6

\* A session in History and in the report, but for the roundings and the cut.
LEMMA SessionIsCut ==
    ASSUME Recorded, NEW p \in Periods, NEW s \in stopped, NEW first, first = PeriodStart(p)
    PROVE  /\ TotalSeconds(s) \in Int /\ SessionSeconds(Rows(p), s) \in Int /\ CutOff(s, first) \in Nat
           /\ Cardinality(Of(s)) \in Nat
           /\ LET d == Ticks * (TotalSeconds(s) - SessionSeconds(Rows(p), s)) - CutOff(s, first)
              IN  /\ 2 * d <= Ticks * (Cardinality(Of(s)) + 1)
                  /\ 2 * Abs(d) <= Ticks * (Cardinality(Of(s)) + 1)
<1>1. PICK D : D = Of(s)
  OBVIOUS
<1>2. IsFiniteSet(D) /\ D \in SUBSET D /\ first \in Nat
  BY <1>1, StoppedSegments, PeriodBegins
<1>3. PICK f, k, g, h :
              /\ \A x \in D : f[x] = Kept(x, first) /\ f[x] \in Int /\ k[x] \in Int
              /\ \A x \in D : - Ticks <= 2 * (Ticks * k[x] - f[x]) /\ 2 * (Ticks * k[x] - f[x]) <= Ticks
              /\ IsSum(g, D, f) /\ IsSum(h, D, k) /\ h[D] = SessionSeconds(Rows(p), s)
  BY <1>1, CountedOfSession
<1>4. PICK l, v : /\ \A x \in D : l[x] = Lost(x, first) /\ l[x] \in Nat
                  /\ IsSum(v, D, l) /\ CutOff(s, first) = v[D] /\ v[D] \in Nat
  BY <1>1, <1>2, CutOffIsSum
<1>5. PICK e : e = [x \in D |-> EndNow(x) - x.start]
  OBVIOUS
<1>6. \A x \in D : e[x] \in Int /\ e[x] = f[x] + l[x]
  <2> SUFFICES ASSUME NEW x \in D PROVE e[x] \in Int /\ e[x] = f[x] + l[x]
    OBVIOUS
  <2>1. x \in segments /\ x.start \in Nat /\ EndNow(x) \in Nat
    BY <1>1, StoppedSegments
  <2>2. Lost(x, first) + Kept(x, first) = EndNow(x) - x.start
    BY <1>2, <2>1, LostAndKept
  <2>3. e[x] = EndNow(x) - x.start /\ f[x] = Kept(x, first) /\ l[x] = Lost(x, first)
    BY <1>3, <1>4, <1>5
  <2>4. f[x] \in Int /\ l[x] \in Int
    BY <1>3, <1>4
  <2> QED BY <2>1, <2>2, <2>3, <2>4
<1>7. PICK u : IsSum(u, D, e) /\ SumFunction([x \in D |-> e[x]]) = u[D]
  <2>1. \A x \in D : e[x] \in Int
    BY <1>6
  <2> QED BY <1>2, <2>1, Sums
<1>8. u[D] = g[D] + v[D]
  <2>1. \A x \in D : f[x] \in Int /\ l[x] \in Int /\ e[x] = f[x] + l[x]
    BY <1>3, <1>4, <1>6
  <2> QED BY <1>2, <1>3, <1>4, <1>7, <2>1, SumOfPairs
<1>9. PICK F, H, C, c, t, n : /\ F = g[D] /\ H = h[D] /\ C = v[D] /\ c = Cardinality(D)
                              /\ t = HalfUp(u[D], Ticks) /\ n = Ticks
  OBVIOUS
<1>10. F \in Int /\ H \in Int /\ C \in Nat /\ c \in Nat /\ n \in Nat \ {0}
  BY <1>2, <1>3, <1>4, <1>9, FS_CardinalityType, TickAssumption DEF IsSum
<1>11. - (n * c) <= 2 * (n * H - F) /\ 2 * (n * H - F) <= n * c
  <2>1. n \in Nat /\ \A x \in D : f[x] \in Int /\ k[x] \in Int
    BY <1>3, <1>10
  <2>2. \A x \in D : - n <= 2 * (n * k[x] - f[x]) /\ 2 * (n * k[x] - f[x]) <= n
    BY <1>3, <1>9
  <2>3. - (n * Cardinality(D)) <= 2 * (n * h[D] - g[D]) /\ 2 * (n * h[D] - g[D]) <= n * Cardinality(D)
    BY <1>2, <1>3, <2>1, <2>2, RoundingsAddUp
  <2> QED BY <1>9, <2>3
<1>12. t \in Int /\ - n <= 2 * (n * t - (F + C)) /\ 2 * (n * t - (F + C)) <= n
  <2>1. F + C \in Int /\ t = HalfUp(F + C, n)
    BY <1>8, <1>9, <1>10
  <2> QED BY <1>10, <2>1, HalfUpIsNear
<1>13. TotalSeconds(s) = t
  <2>1. [x \in D |-> e[x]] = [x \in D |-> EndNow(x) - x.start]
    BY <1>5
  <2> QED BY <1>1, <1>7, <1>9, <2>1 DEF TotalSeconds
<1>14. PICK d : d = n * (t - H) - C
  OBVIOUS
<1>15. n * (t - H) = n * t - n * H /\ n * (c + 1) = n * c + n
       /\ n * t \in Int /\ n * H \in Int /\ n * c \in Int
  BY <1>10, <1>12
<1>16. d \in Int /\ 2 * d <= n * (c + 1) /\ - (2 * d) <= n * (c + 1)
  BY <1>10, <1>11, <1>12, <1>14, <1>15
<1>17. 2 * Abs(d) <= n * (c + 1)
  BY <1>16 DEF Abs
<1> QED BY <1>1, <1>3, <1>4, <1>9, <1>10, <1>12, <1>13, <1>14, <1>16, <1>17

LEMMA LocalBegins ==
    ASSUME Recorded, NEW p \in Periods, NEW zone \in Zones
    PROVE  /\ LocalStart(p, zone) \in Nat
           /\ zone >= 0 => PeriodStart(p) - LocalStart(p, zone) <= zone
<1> DEFINE T == {0} \cup ({d * DayTicks - zone : d \in p} \cap 0..now)
           days == {d * DayTicks : d \in p} \cap 0..now
<1>1. now \in Nat /\ zone \in Int /\ DayTicks \in Int
  BY ZoneAssumption, TickAssumption DEF Recorded
<1>2. T \in SUBSET (0..now) /\ 0 \in T
  BY <1>1
<1>3. Max(T) \in T /\ \A y \in T : Max(T) >= y
  <2> HIDE DEF T
  <2> QED BY <1>1, <1>2, MaxOf
<1>4. PICK m : m = Max(T)
  OBVIOUS
<1>5. LocalStart(p, zone) = m
  BY <1>4 DEF LocalStart
<1>6. m \in Nat /\ m \in 0..now
  <2>1. m \in T /\ \A x \in T : x \in 0..now
    <3> HIDE DEF T
    <3> QED BY <1>2, <1>3, <1>4
  <2> QED BY <1>1, <2>1
<1>7. ASSUME zone >= 0 PROVE PeriodStart(p) - m <= zone
  <2>1. PICK a : a = PeriodStart(p)
    OBVIOUS
  <2>2. a \in Nat /\ a <= now
    BY <2>1, PeriodBegins
  <2>3. \E d \in p : a = d * DayTicks
    <3>1. 0 \in days
      <4>1. 0 * DayTicks = 0 /\ 0 \in p
        BY TickAssumption, PeriodAssumption
      <4> QED BY <1>1, <4>1
    <3>2. days \in SUBSET (0..now)
      OBVIOUS
    <3>3. Max(days) \in days
      <4> HIDE DEF days
      <4> QED BY <1>1, <3>1, <3>2, MaxOf
    <3> QED BY <2>1, <3>3 DEF PeriodStart
  <2>4. CASE a >= zone
    <3>1. a - zone \in T
      <4>1. a - zone \in 0..now
        BY <1>1, <1>7, <2>2, <2>4
      <4> QED BY <2>3, <4>1
    <3>2. m >= a - zone
      <4> HIDE DEF T
      <4> QED BY <1>3, <1>4, <3>1
    <3> QED BY <1>1, <1>6, <2>1, <2>2, <3>2
  <2>5. CASE a < zone
    BY <1>1, <1>6, <2>1, <2>2, <2>5
  <2> QED BY <1>1, <2>2, <2>4, <2>5
<1> QED BY <1>5, <1>6, <1>7

\* What of a segment is before first.
Before(g, first) == [start |-> g.start, end |-> IF EndNow(g) <= first THEN EndNow(g) ELSE first]

LEMMA CutIsEarly ==
    ASSUME Recorded, NEW s \in stopped, NEW first \in Nat, NEW from \in Nat, StartedAt(s) >= from
    PROVE  CutOff(s, first) <= Max({0, first - from})
<1>1. PICK D, A : D = Of(s) /\ A = {g \in Of(s) : g.start < first}
  OBVIOUS
<1>2. IsFiniteSet(D) /\ A \in SUBSET D /\ IsFiniteSet(A) /\ D \in SUBSET D
  <2>1. IsFiniteSet(D) /\ A \in SUBSET D
    BY <1>1, StoppedSegments
  <2> QED BY <2>1, FS_Subset
<1>3. PICK l, v : /\ \A x \in D : l[x] = Lost(x, first) /\ l[x] \in Nat
                  /\ IsSum(v, D, l) /\ CutOff(s, first) = v[D] /\ v[D] \in Nat
  BY <1>1, CutOffIsSum
<1>4. \A g \in D : /\ g \in segments /\ g.start \in Nat /\ EndNow(g) \in Nat /\ g.start < EndNow(g)
                   /\ from <= g.start
  <2>1. \A g \in D : g \in segments /\ g.start \in Nat /\ EndNow(g) \in Nat /\ g.start < EndNow(g)
    BY <1>1, StoppedSegments
  <2>2. PICK T : T = {g.start : g \in D}
    OBVIOUS
  <2>3. T \in SUBSET Nat /\ T # {}
    <3>1. \E g \in D : TRUE
      BY <1>1, StoppedSegments DEF Recorded, Of
    <3> QED BY <2>1, <2>2, <3>1
  <2>4. StartedAt(s) = Min(T)
    BY <1>1, <2>2 DEF StartedAt
  <2>5. Min(T) \in Nat /\ \A y \in T : Min(T) <= y
    BY <2>3, MinOf
  <2>6. ASSUME NEW g \in D PROVE from <= g.start
    <3>1. Min(T) <= g.start /\ g.start \in Nat
      BY <2>1, <2>2, <2>5
    <3> QED BY <2>4, <2>5, <3>1
  <2> QED BY <2>1, <2>6
<1>5. PICK q, B : q = [g \in A |-> Before(g, first)] /\ B = {Before(g, first) : g \in A}
  OBVIOUS
<1>6. \A g \in A : /\ q[g] = Before(g, first) /\ g \in D /\ g.start < first
                   /\ q[g].start = g.start /\ q[g].end = (IF EndNow(g) <= first THEN EndNow(g) ELSE first)
  BY <1>1, <1>5 DEF Before
<1>7. IsFiniteSet(B)
  <2>1. B = {q[g] : g \in A}
    BY <1>5
  <2> QED BY <1>2, <2>1, ImageIsFinite
<1>8. \A r \in B : \E g \in A : q[g] = r
  BY <1>5
<1>9. ASSUME NEW g \in A
      PROVE  /\ q[g].start \in Nat /\ q[g].end \in 0..first /\ q[g].start < q[g].end
             /\ from <= q[g].start /\ q[g].end - q[g].start = l[g]
  <2>1. PICK a, b : a = g.start /\ b = EndNow(g)
    OBVIOUS
  <2>2. a \in Nat /\ b \in Nat /\ a < b /\ from <= a /\ a < first /\ g \in segments
    BY <1>4, <1>6, <2>1
  <2>3. q[g].start = a /\ q[g].end = IF b <= first THEN b ELSE first
    BY <1>6, <2>1
  <2>4. l[g] = (IF b <= first THEN b ELSE first) - a
    <3>1. l[g] = Lost(g, first)
      BY <1>3, <1>6
    <3>2. Lost(g, first) = IF a >= first THEN 0 ELSE (IF b <= first THEN b ELSE first) - a
      BY <2>1, <2>2, LostAndKept
    <3> QED BY <2>2, <3>1, <3>2
  <2> QED BY <2>2, <2>3, <2>4
<1>10. AreRows(B, first)
  BY <1>7, <1>8, <1>9 DEF AreRows
<1>11. ASSUME NEW g \in A, NEW h \in A, g # h PROVE Apart(q[g], q[h]) /\ q[g] # q[h]
  <2>1. PICK a, b, c, d : a = g.start /\ b = EndNow(g) /\ c = h.start /\ d = EndNow(h)
    OBVIOUS
  <2>2. a \in Nat /\ b \in Nat /\ c \in Nat /\ d \in Nat /\ a < b /\ c < d
    BY <1>4, <1>6, <2>1
  <2>3. b <= c \/ d <= a
    BY <1>1, <1>11, <2>1, StoppedSegments
  <2>4. /\ q[g].start = a /\ q[g].end = (IF b <= first THEN b ELSE first)
        /\ q[h].start = c /\ q[h].end = (IF d <= first THEN d ELSE first)
    BY <1>6, <2>1
  <2>5. a # c
    BY <2>2, <2>3
  <2> QED BY <2>2, <2>3, <2>4, <2>5 DEF Apart
<1>12. PICK f : f = [r \in B |-> r.end - r.start]
  OBVIOUS
<1>13. \A r \in B : f[r] = r.end - r.start /\ f[r] \in Int
  BY <1>8, <1>9, <1>12
<1>14. PICK g : IsSum(g, B, f)
  <2>1. \A r \in B : f[r] \in Int
    BY <1>13
  <2> QED BY <1>7, <2>1, Sums
<1>15. g[B] = Cardinality(Coverage(B, first))
  <2>1. \A r, t \in B : r # t => Apart(r, t)
    BY <1>8, <1>11
  <2>2. \A r \in B : f[r] = r.end - r.start
    BY <1>13
  <2>3. PICK S : S = B
    OBVIOUS
  <2>4. S \in SUBSET B /\ \A r, t \in S : r # t => Apart(r, t)
    BY <2>1, <2>3
  <2>5. Cardinality(Coverage(S, first)) = g[S]
    BY <1>10, <1>14, <2>2, <2>4, CoverageIsWithinSum
  <2> QED BY <2>3, <2>5
<1>16. PICK k : k = [x \in A |-> l[x]]
  OBVIOUS
<1>17. PICK h : IsSum(h, A, k)
  <2>1. \A x \in A : k[x] \in Int
    BY <1>2, <1>3, <1>16
  <2> QED BY <1>2, <2>1, Sums
<1>18. h[A] = g[B]
  <2>1. \A r \in B : f[r] \in Int
    BY <1>13
  <2>2. (\A x \in A : q[x] \in B) /\ (\A x, y \in A : x # y => q[x] # q[y])
    BY <1>5, <1>11
  <2>3. \A x \in A : k[x] = f[q[x]]
    BY <1>9, <1>13, <1>16, <2>2
  <2> QED BY <1>2, <1>7, <1>8, <1>14, <1>17, <2>1, <2>2, <2>3, SumOfSequence
<1>19. v[D] = h[A]
  <2>1. ASSUME NEW x \in D PROVE l[x] = IF x \in A THEN k[x] ELSE 0
    <3>1. CASE x \in A
      BY <1>16, <3>1
    <3>2. CASE x \notin A
      <4>1. x.start >= first /\ x \in segments
        BY <1>1, <1>4, <3>2
      <4>2. Lost(x, first) = 0
        BY <4>1, LostAndKept
      <4> QED BY <1>3, <3>2, <4>2
    <3> QED BY <3>1, <3>2
  <2>2. \A x \in D : l[x] = IF x \in A THEN k[x] ELSE 0
    BY <2>1
  <2> QED BY <1>2, <1>3, <1>17, <2>2, SumOfPart
<1>20. PICK C, z : C = Coverage(B, first) /\ z = first - from
  OBVIOUS
<1>21. C \in SUBSET (from..(first - 1))
  <2> SUFFICES ASSUME NEW t \in C PROVE t \in from..(first - 1)
    OBVIOUS
  <2>1. t \in 0..first
    BY <1>20 DEF Coverage
  <2>2. PICK r \in B : r.start <= t /\ t < r.end
    BY <1>20 DEF Coverage
  <2>3. r.start \in Nat /\ r.end \in 0..first /\ from <= r.start
    BY <1>8, <1>9
  <2> QED BY <2>1, <2>2, <2>3
<1>22. IsFiniteSet(from..(first - 1)) /\ Cardinality(from..(first - 1)) = IF from > first - 1 THEN 0 ELSE z
  <2>1. PICK e : e = first - 1
    OBVIOUS
  <2>2. e \in Int /\ from \in Int /\ e - from + 1 = z
    BY <1>20, <2>1
  <2>3. IsFiniteSet(from..e) /\ Cardinality(from..e) = IF from > e THEN 0 ELSE e - from + 1
    BY <2>2, FS_Interval
  <2> QED BY <2>1, <2>2, <2>3
<1>23. Cardinality(C) <= Cardinality(from..(first - 1))
  BY <1>21, <1>22, FS_Subset
<1>24. Max({0, z}) = IF 0 >= z THEN 0 ELSE z
  BY <1>20, MaxOfTwo
<1>25. CutOff(s, first) = Cardinality(C) /\ CutOff(s, first) \in Nat
  BY <1>3, <1>15, <1>18, <1>19, <1>20
<1> QED BY <1>20, <1>22, <1>23, <1>24, <1>25

LEMMA AttributedOfBoth ==
    ASSUME Recorded, NEW p \in Periods, NEW A \in SUBSET Rows(p), NEW B \in SUBSET Rows(p), A \cap B = {}
    PROVE  Attributed(A \cup B) = Attributed(A) + Attributed(B)
<1>1. PICK R, f : R = Rows(p) /\ f = [r \in R |-> Seconds(r)]
  OBVIOUS
<1>2. PICK h : IsSum(h, R, f) /\ \A S \in SUBSET R : Attributed(S) = h[S] /\ h[S] \in Nat
  BY <1>1, AttributedParts
<1>3. IsFiniteSet(R) /\ \A r \in R : f[r] \in Int
  BY <1>1, RowTimes, RowSeconds
<1>4. A \in SUBSET R /\ B \in SUBSET R /\ A \cup B \in SUBSET R
  BY <1>1
<1>5. h[A \cup B] = h[A] + h[B]
  BY <1>2, <1>3, <1>4, SumOfUnion
<1> QED BY <1>2, <1>4, <1>5

\* What remains for the totals: sessions add up one by one.
LEMMA TotalsAddUp ==
    ASSUME Recorded, NEW p \in Periods, NEW E \in SUBSET stopped, NEW n \in Nat, NEW z \in Int,
           NEW k, \A s \in E : k[s] \in Int,
           \A s \in E : SessionSeconds(Rows(p), s) \in Int /\ Cardinality(Of(s)) \in Nat,
           \A s \in E : 2 * (n * (k[s] - SessionSeconds(Rows(p), s))) <= 2 * z + n * (Cardinality(Of(s)) + 1),
           NEW g, IsSum(g, E, k)
    PROVE  /\ IsFiniteSet(E)
           /\ 2 * (n * (g[E] - Attributed(Rows(p)))) <=
                2 * (z * Cardinality(E)) + n * (Cardinality(segments) + Cardinality(E))
<1>1. PICK R : R = Rows(p)
  OBVIOUS
<1>2. PICK h : /\ IsSum(h, R, [r \in R |-> Seconds(r)])
               /\ \A A \in SUBSET R : Attributed(A) = h[A] /\ h[A] \in Nat
  BY <1>1, AttributedParts
<1>3. IsFiniteSet(R) /\ IsFiniteSet(segments)
  BY <1>1, RowTimes DEF Recorded
<1>4. IsFiniteSet(E)
  <2>1. PICK f0 : f0 = [x \in segments |-> x.session]
    OBVIOUS
  <2>2. \A s \in E : \E x \in segments : x.session = s
    BY DEF Recorded
  <2>3. E \subseteq {f0[x] : x \in segments}
    BY <2>1, <2>2
  <2>4. IsFiniteSet({f0[x] : x \in segments})
    BY <1>3, ImageIsFinite
  <2> QED BY <2>3, <2>4, FS_Subset
<1> DEFINE InRows(t) == {r \in R : r.session \in t}
           InSegments(t) == {x \in segments : x.session \in t}
           Bounded(t) == 2 * (n * (g[t] - h[InRows(t)])) <=
                           2 * (z * Cardinality(t)) + n * (Cardinality(InSegments(t)) + Cardinality(t))
           G == {t \in SUBSET E : Bounded(t)}
<1>5. \A t \in SUBSET E : /\ InRows(t) \in SUBSET R /\ IsFiniteSet(InSegments(t)) /\ IsFiniteSet(t)
                          /\ Cardinality(InSegments(t)) \in Nat /\ Cardinality(t) \in Nat
                          /\ h[InRows(t)] \in Nat /\ g[t] \in Int
  <2> SUFFICES ASSUME NEW t \in SUBSET E
               PROVE  /\ InRows(t) \in SUBSET R /\ IsFiniteSet(InSegments(t)) /\ IsFiniteSet(t)
                      /\ Cardinality(InSegments(t)) \in Nat /\ Cardinality(t) \in Nat
                      /\ h[InRows(t)] \in Nat /\ g[t] \in Int
    OBVIOUS
  <2>1. InRows(t) \in SUBSET R /\ InSegments(t) \in SUBSET segments
    OBVIOUS
  <2>2. g[t] \in Int
    BY DEF IsSum
  <2> HIDE DEF InRows, InSegments
  <2>3. IsFiniteSet(InSegments(t)) /\ IsFiniteSet(t)
    BY <1>3, <1>4, <2>1, FS_Subset
  <2>4. h[InRows(t)] \in Nat
    BY <1>2, <2>1
  <2> QED BY <2>1, <2>2, <2>3, <2>4, FS_CardinalityType
<1>6. ASSUME NEW t \in SUBSET E, \A s \in t : t \ {s} \in G PROVE t \in G
  <2>1. CASE t = {}
    <3>1. InRows(t) = {} /\ InSegments(t) = {}
      BY <2>1
    <3>2. g[t] = 0 /\ h[{}] = 0 /\ Cardinality({}) = 0
      BY <1>2, <2>1, FS_EmptySet DEF IsSum
    <3>3. g[t] = 0 /\ h[InRows(t)] = 0 /\ Cardinality(InSegments(t)) = 0 /\ Cardinality(t) = 0
      <4> HIDE DEF InRows, InSegments
      <4> QED BY <2>1, <3>1, <3>2
    <3>4. Bounded(t)
      <4>1. 2 * (n * (0 - 0)) <= 2 * (z * 0) + n * (0 + 0)
        OBVIOUS
      <4> HIDE DEF InRows, InSegments
      <4> QED BY <3>3, <4>1
    <3> QED BY <3>4
  <2>2. CASE t # {}
    <3>1. PICK s \in t : TRUE
      BY <2>2
    <3>2. PICK u, A, B, C, D : /\ u = t \ {s} /\ A = RowsFor(R, s) /\ B = InRows(u)
                               /\ C = Of(s) /\ D = InSegments(u)
      OBVIOUS
    <3>3. /\ A \in SUBSET R /\ B \in SUBSET R /\ A \cap B = {} /\ InRows(t) = A \cup B
          /\ C \in SUBSET segments /\ D \in SUBSET segments /\ C \cap D = {} /\ InSegments(t) = C \cup D
          /\ u \in SUBSET E
      BY <3>1, <3>2 DEF RowsFor, Of
    <3>4. h[A \cup B] = h[A] + h[B]
      <4>1. Attributed(A \cup B) = Attributed(A) + Attributed(B)
        BY <1>1, <3>3, AttributedOfBoth
      <4>2. A \cup B \in SUBSET R
        BY <3>3
      <4> QED BY <1>2, <3>3, <4>1, <4>2
    <3>5. h[A] = SessionSeconds(R, s)
      BY <1>2, <3>2, <3>3 DEF SessionSeconds, RowsFor
    <3>6. g[t] = k[s] + g[u]
      BY <3>1, <3>2 DEF IsSum
    <3>7. Cardinality(C \cup D) = Cardinality(C) + Cardinality(D)
      <4>1. IsFiniteSet(C) /\ IsFiniteSet(D)
        BY <1>3, <3>3, FS_Subset
      <4>2. Cardinality(C \cup D) = Cardinality(C) + Cardinality(D) - Cardinality(C \cap D)
        BY <4>1, FS_Union
      <4>3. Cardinality(C \cap D) = 0
        BY <3>3, FS_EmptySet
      <4>4. Cardinality(C) \in Nat /\ Cardinality(D) \in Nat
        BY <4>1, FS_CardinalityType
      <4> QED BY <4>2, <4>3, <4>4
    <3>8. Cardinality(u) = Cardinality(t) - 1
      BY <1>5, <3>1, <3>2, FS_RemoveElement
    <3>9. PICK a, b, c, e, i, j, m : /\ a = k[s] /\ b = SessionSeconds(R, s) /\ c = Cardinality(C)
                                     /\ e = g[u] /\ i = h[B] /\ j = Cardinality(D) /\ m = Cardinality(u)
      OBVIOUS
    <3>10. a \in Int /\ b \in Int /\ c \in Nat /\ e \in Int /\ i \in Nat /\ j \in Nat /\ m \in Nat
      <4>1. a \in Int /\ b \in Int /\ c \in Nat
        BY <1>1, <3>1, <3>2, <3>9
      <4>2. e \in Int /\ i \in Nat /\ j \in Nat /\ m \in Nat
        BY <1>5, <3>2, <3>3, <3>9
      <4> QED BY <4>1, <4>2
    <3>11. 2 * (n * (e - i)) <= 2 * (z * m) + n * (j + m)
      <4>1. u \in G
        BY <1>6, <3>1, <3>2
      <4>2. Bounded(u)
        BY <4>1
      <4> QED BY <3>2, <3>9, <4>2
    <3>12. 2 * (n * (a - b)) <= 2 * z + n * (c + 1)
      BY <1>1, <3>1, <3>2, <3>9
    <3>13. /\ n * ((a + e) - (b + i)) = n * (a - b) + n * (e - i)
           /\ z * (m + 1) = z * m + z
           /\ n * ((c + j) + (m + 1)) = n * (c + 1) + n * (j + m)
           /\ n * (a - b) \in Int /\ n * (e - i) \in Int /\ z * m \in Int
           /\ n * (c + 1) \in Int /\ n * (j + m) \in Int
      <4>1. (a + e) - (b + i) = (a - b) + (e - i) /\ (c + j) + (m + 1) = (c + 1) + (j + m)
        BY <3>10
      <4>2. \A x, y \in Int : n * (x + y) = n * x + n * y /\ n * x \in Int
        OBVIOUS
      <4>3. a - b \in Int /\ e - i \in Int /\ c + 1 \in Int /\ j + m \in Int
        BY <3>10
      <4>4. z * (m + 1) = z * m + z /\ z * m \in Int
        BY <3>10
      <4> QED BY <4>1, <4>2, <4>3, <4>4
    <3>14. 2 * (n * ((a + e) - (b + i))) <= 2 * (z * (m + 1)) + n * ((c + j) + (m + 1))
      BY <3>11, <3>12, <3>13
    <3>15. g[t] = a + e /\ h[InRows(t)] = b + i /\ Cardinality(t) = m + 1 /\ Cardinality(InSegments(t)) = c + j
      <4>1. g[t] = a + e /\ h[InRows(t)] = b + i
        BY <3>3, <3>4, <3>5, <3>6, <3>9
      <4>2. Cardinality(InSegments(t)) = c + j
        BY <3>3, <3>7, <3>9
      <4>3. Cardinality(t) = m + 1
        <5>1. Cardinality(t) \in Nat
          BY <1>5
        <5> QED BY <3>8, <3>9, <5>1
      <4> QED BY <4>1, <4>2, <4>3
    <3>16. Bounded(t)
      <4> HIDE DEF InRows, InSegments
      <4> QED BY <3>14, <3>15
    <3> QED BY <3>16
  <2> QED BY <2>1, <2>2
<1>7. Bounded(E)
  <2>1. \A t \in SUBSET E : t \in G
    <3> HIDE DEF G
    <3> QED BY <1>4, <1>6, SubsetInduction
  <2> QED BY <2>1
<1>8. h[InRows(E)] <= h[R] /\ Cardinality(InSegments(E)) <= Cardinality(segments)
  <2>1. R \in SUBSET R /\ InRows(E) \in SUBSET R /\ InSegments(E) \in SUBSET segments
    OBVIOUS
  <2>2. PICK f : f = [r \in R |-> Seconds(r)]
    OBVIOUS
  <2>3. IsSum(h, R, f) /\ \A r \in R : f[r] \in Nat
    BY <1>1, <1>2, <2>2, RowSeconds
  <2> HIDE DEF InRows, InSegments
  <2>4. h[InRows(E)] <= h[R]
    BY <1>3, <2>1, <2>3, SumIsMonotone
  <2> QED BY <1>3, <2>1, <2>4, FS_Subset
<1>9. PICK e, i, j, m, x, w : /\ e = g[E] /\ i = h[InRows(E)] /\ j = Cardinality(InSegments(E))
                              /\ m = Cardinality(E) /\ x = h[R] /\ w = Cardinality(segments)
  OBVIOUS
<1>10. e \in Int /\ i \in Nat /\ j \in Nat /\ m \in Nat /\ x \in Nat /\ w \in Nat /\ i <= x /\ j <= w
  <2>1. E \in SUBSET E /\ R \in SUBSET R
    OBVIOUS
  <2> HIDE DEF InRows, InSegments
  <2>2. e \in Int /\ i \in Nat /\ j \in Nat /\ m \in Nat
    BY <1>5, <1>9, <2>1
  <2>3. x \in Nat /\ w \in Nat
    BY <1>2, <1>3, <1>9, <2>1, FS_CardinalityType
  <2> QED BY <1>8, <1>9, <2>2, <2>3
<1>11. 2 * (n * (e - i)) <= 2 * (z * m) + n * (j + m)
  <2> HIDE DEF InRows, InSegments
  <2> QED BY <1>7, <1>9
<1>12. n * (e - x) <= n * (e - i) /\ n * (j + m) <= n * (w + m) /\ z * m \in Int
       /\ n * (e - x) \in Int /\ n * (e - i) \in Int /\ n * (j + m) \in Int /\ n * (w + m) \in Int
  <2>1. \A y, v \in Int : y <= v => n * y <= n * v /\ n * y \in Int /\ n * v \in Int
    <3> SUFFICES ASSUME NEW y \in Int, NEW v \in Int, y <= v PROVE n * y <= n * v /\ n * y \in Int /\ n * v \in Int
      OBVIOUS
    <3>1. y * n = n * y /\ v * n = n * v
      OBVIOUS
    <3> QED BY <3>1, ProductIsMonotone
  <2>2. e - x \in Int /\ e - i \in Int /\ e - x <= e - i /\ j + m \in Int /\ w + m \in Int /\ j + m <= w + m
    BY <1>10
  <2>3. z * m \in Int
    BY <1>10
  <2> QED BY <2>1, <2>2, <2>3
<1>13. 2 * (n * (e - x)) <= 2 * (z * m) + n * (w + m)
  BY <1>11, <1>12
<1>14. Attributed(Rows(p)) = x
  BY <1>1, <1>2, <1>9
<1> QED BY <1>4, <1>9, <1>13, <1>14

(* History and Insights agree for every number of sessions and segments, in*)
(* whatever order they were worked on and whatever midnight the browser    *)
(* goes by: a session that History lists has the same time in the report   *)
(* but for the roundings and for what the period cuts off of it, which is  *)
(* at most the time by which the browser begins the period earlier, and    *)
(* the totals differ by no more than all of these.                         *)
THEOREM HistoryTheorem == Spec => []HistoryMatchesInsights
<1>1. ASSUME Recorded, NEW p \in Periods, NEW zone \in Zones
      PROVE  LET R == Rows(p)
                 screen == HistoryView(p, zone)
                 first == PeriodStart(p)
                 early == Max({0, first - LocalStart(p, zone)})
                 rows == DOMAIN screen.rows
             IN  /\ \A s \in rows :
                      /\ 2 * Abs(Ticks * (screen.rows[s].seconds - SessionSeconds(R, s)) - CutOff(s, first))
                           <= Ticks * (Cardinality(Of(s)) + 1)
                      /\ CutOff(s, first) <= early
                 /\ 2 * Ticks * (screen.total - Attributed(R))
                      <= 2 * early * Cardinality(rows) + Ticks * (Cardinality(segments) + Cardinality(rows))
                 /\ zone >= 0 => early <= zone
  <2>1. PICK R, E, first, from, z, n :
              /\ R = Rows(p) /\ E = Entries(p, zone) /\ first = PeriodStart(p)
              /\ from = LocalStart(p, zone) /\ z = Max({0, first - from}) /\ n = Ticks
    OBVIOUS
  <2>2. first \in Nat /\ from \in Nat /\ (zone >= 0 => first - from <= zone) /\ n \in Nat /\ zone \in Int
    BY <1>1, <2>1, PeriodBegins, LocalBegins, TickAssumption, ZoneAssumption
  <2>3. z = (IF 0 >= first - from THEN 0 ELSE first - from) /\ z \in Nat
    <3>1. first - from \in Int
      BY <2>2
    <3> QED BY <2>1, <2>2, <3>1, MaxOfTwo
  <2>4. zone >= 0 => z <= zone
    BY <2>2, <2>3
  <2>5. E \in SUBSET stopped /\ \A s \in E : StartedAt(s) >= from
    BY <2>1 DEF Entries
  <2>6. ASSUME NEW s \in E
        PROVE  /\ TotalSeconds(s) \in Int /\ SessionSeconds(R, s) \in Int
               /\ CutOff(s, first) \in Nat /\ CutOff(s, first) <= z /\ Cardinality(Of(s)) \in Nat
               /\ 2 * (n * (TotalSeconds(s) - SessionSeconds(R, s)) - CutOff(s, first))
                    <= n * (Cardinality(Of(s)) + 1)
               /\ 2 * Abs(n * (TotalSeconds(s) - SessionSeconds(R, s)) - CutOff(s, first))
                    <= n * (Cardinality(Of(s)) + 1)
    <3>1. s \in stopped /\ StartedAt(s) >= from
      BY <2>5
    <3>2. CutOff(s, first) <= z
      BY <1>1, <2>1, <2>2, <3>1, CutIsEarly
    <3> QED BY <1>1, <2>1, <3>1, <3>2, SessionIsCut
  <2>7. PICK k : k = [s \in E |-> TotalSeconds(s)]
    OBVIOUS
  <2>8. \A s \in E : k[s] = TotalSeconds(s) /\ k[s] \in Int
    BY <2>6, <2>7
  <2>9. ASSUME NEW s \in E
        PROVE  2 * (n * (k[s] - SessionSeconds(R, s))) <= 2 * z + n * (Cardinality(Of(s)) + 1)
    <3>1. PICK x, y, c : /\ x = n * (TotalSeconds(s) - SessionSeconds(R, s)) /\ y = CutOff(s, first)
                         /\ c = n * (Cardinality(Of(s)) + 1)
      OBVIOUS
    <3>2. x \in Int /\ y \in Nat /\ y <= z /\ c \in Int /\ 2 * (x - y) <= c
      BY <2>2, <2>6, <3>1
    <3> QED BY <2>3, <2>8, <3>1, <3>2
  <2>10. IsFiniteSet(E)
    <3>1. PICK f0 : f0 = [x \in segments |-> x.session]
      OBVIOUS
    <3>2. \A s \in E : \E x \in segments : x.session = s
      BY <1>1, <2>5 DEF Recorded
    <3>3. E \subseteq {f0[x] : x \in segments}
      BY <3>1, <3>2
    <3>4. IsFiniteSet({f0[x] : x \in segments})
      BY <1>1, ImageIsFinite DEF Recorded
    <3> QED BY <3>3, <3>4, FS_Subset
  <2>11. PICK g : IsSum(g, E, k) /\ SumFunction([s \in E |-> k[s]]) = g[E]
    <3>1. (\A s \in E : k[s] \in Int) /\ E \in SUBSET E
      BY <2>8
    <3> QED BY <2>10, <3>1, Sums
  <2>12. 2 * (n * (g[E] - Attributed(R))) <=
           2 * (z * Cardinality(E)) + n * (Cardinality(segments) + Cardinality(E))
    <3>1. z \in Int /\ \A s \in E : k[s] \in Int
      BY <2>3, <2>8
    <3>2. \A s \in E : SessionSeconds(Rows(p), s) \in Int /\ Cardinality(Of(s)) \in Nat
      BY <2>1, <2>6
    <3>3. \A s \in E : 2 * (n * (k[s] - SessionSeconds(Rows(p), s))) <= 2 * z + n * (Cardinality(Of(s)) + 1)
      BY <2>1, <2>9
    <3>4. IsSum(g, E, k)
      BY <2>11
    <3> QED BY <1>1, <2>1, <2>2, <2>5, <3>1, <3>2, <3>3, <3>4, TotalsAddUp
  <2>13. /\ DOMAIN HistoryView(p, zone).rows = E
         /\ \A s \in E : HistoryView(p, zone).rows[s].seconds = TotalSeconds(s)
         /\ HistoryView(p, zone).total = g[E]
    <3>1. [s \in E |-> k[s]] = [s \in E |-> TotalSeconds(s)]
      BY <2>7
    <3> QED BY <2>1, <2>11, <3>1 DEF HistoryView
  <2>14. 2 * n * (g[E] - Attributed(R)) <= 2 * z * Cardinality(E) + n * (Cardinality(segments) + Cardinality(E))
    <3>1. PICK e, x, m : e = g[E] /\ x = Attributed(R) /\ m = Cardinality(E)
      OBVIOUS
    <3>2. e \in Int /\ x \in Int /\ m \in Nat
      <4>1. E \in SUBSET E
        OBVIOUS
      <4>2. e \in Int
        BY <2>11, <3>1, <4>1 DEF IsSum
      <4> QED BY <1>1, <2>1, <2>10, <3>1, <4>2, ReportTotals, FS_CardinalityType
    <3>3. 2 * n * (e - x) = 2 * (n * (e - x)) /\ 2 * z * m = 2 * (z * m)
      BY <2>2, <2>3, <3>2
    <3> QED BY <2>12, <3>1, <3>3
  <2> QED BY <2>1, <2>4, <2>6, <2>13, <2>14
<1>2. Recorded => HistoryMatchesInsights
  BY <1>1 DEF HistoryMatchesInsights
<1> QED BY <1>2, RecordedTheorem, PTL

=============================================================================
