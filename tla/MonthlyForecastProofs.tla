------------------------- MODULE MonthlyForecastProofs -------------------------
(* Theorems about MonthlyForecast, for every company, horizon, length of the *)
(* income year and number of delayed receipts: the types, that the forecast  *)
(* articulates, what becomes of sales and of stock, that a delay moves cash  *)
(* and nothing else, that a tax loss shelters income once, and that the      *)
(* answer does not matter where the deductibility of losses is unknown.  The *)
(* lemmas before are inductions over months and over the sets the model sums *)
(* over.                                                                     *)
EXTENDS MonthlyForecast, WellFoundedInduction, FiniteSetTheorems, TLAPS

(* Induction. *)

LEMMA SmallestNat ==
  ASSUME NEW T, T \subseteq Nat, T # {}
  PROVE  \E x \in T : \A y \in T : x <= y
<1> DEFINE R == {ss \in Nat \X Nat : ss[1] < ss[2]}
<1>1. IsWellFoundedOn(R, Nat)
  BY NatLessThanWellFounded DEF OpToRel
<1>2. \E x \in T : \A y \in T : ~(<<y, x>> \in R)
  <2> HIDE DEF R
  <2> QED  BY <1>1, WFMin
<1>3. ASSUME NEW x \in T, NEW y \in T, ~(<<y, x>> \in R)
      PROVE  x <= y
  <2>1. x \in Nat /\ y \in Nat
    OBVIOUS
  <2>2. ~(y < x)
    BY <1>3, <2>1
  <2> QED  BY <2>1, <2>2
<1> QED  BY <1>2, <1>3

LEMMA EveryNat ==
  ASSUME NEW T, 0 \in T, \A n \in Nat : n \in T => n + 1 \in T
  PROVE  \A n \in Nat : n \in T
<1> DEFINE U == Nat \ T
<1> SUFFICES ASSUME U # {} PROVE FALSE
  OBVIOUS
<1>1. PICK n \in U : \A m \in U : n <= m
  <2>1. U \subseteq Nat
    OBVIOUS
  <2> HIDE DEF U
  <2> QED  BY <2>1, SmallestNat
<1>2. n \in Nat /\ n # 0
  OBVIOUS
<1>3. n - 1 \in Nat /\ n - 1 \in T
  BY <1>1, <1>2
<1> QED  BY <1>2, <1>3

\* A set of subsets of a finite set that holds every subset all of whose subsets
\* one element smaller it holds, holds them all.
LEMMA EverySubset ==
  ASSUME NEW S, IsFiniteSet(S), NEW T,
         \A R \in SUBSET S : (\A x \in R : R \ {x} \in T) => R \in T
  PROVE  \A R \in SUBSET S : R \in T
<1> DEFINE N == {n \in Nat : \A R \in SUBSET S : Cardinality(R) = n => R \in T}
<1>1. \A R \in SUBSET S : IsFiniteSet(R) /\ Cardinality(R) \in Nat
                          /\ (Cardinality(R) = 0 <=> R = {})
  BY FS_Subset, FS_CardinalityType, FS_EmptySet
<1>2. 0 \in N
  BY <1>1
<1>3. ASSUME NEW n \in Nat, n \in N
      PROVE  n + 1 \in N
  <2>1. ASSUME NEW R \in SUBSET S, Cardinality(R) = n + 1
        PROVE  R \in T
    <3>1. \A x \in R : Cardinality(R \ {x}) = Cardinality(R) - 1
      BY <1>1, FS_RemoveElement
    <3>2. \A x \in R : R \ {x} \in SUBSET S /\ Cardinality(R \ {x}) = n
      BY <2>1, <3>1
    <3> QED  BY <1>3, <3>2
  <2> QED  BY <2>1
<1>4. \A n \in Nat : n \in N
  <2> HIDE DEF N
  <2> QED  BY <1>2, <1>3, EveryNat
<1> QED  BY <1>1, <1>4

(* Sums. *)

Pick(s) == CHOOSE x \in s : TRUE

\* it adds g up over every subset of S, as the fold of the community modules does.
Adds(it, g, S) ==
  it = [s \in SUBSET S |-> IF s = {} THEN 0 ELSE g[Pick(s)] + it[s \ {Pick(s)}]]

LEMMA Picked ==
  ASSUME NEW S, IsFiniteSet(S), S # {}
  PROVE  /\ Pick(S) \in S
         /\ IsFiniteSet(S \ {Pick(S)}) /\ Cardinality(S) \in Nat /\ Cardinality(S \ {Pick(S)}) \in Nat
         /\ Cardinality(S) = Cardinality(S \ {Pick(S)}) + 1
<1>1. Pick(S) \in S
  BY DEF Pick
<1> QED  BY <1>1, FS_RemoveElement, FS_CardinalityType

LEMMA SomethingAdds ==
  ASSUME NEW S, IsFiniteSet(S), NEW g, \A x \in S : g[x] \in Int
  PROVE  \E it : Adds(it, g, S) /\ it \in [SUBSET S -> Int]
<1> DEFINE Small(n) == {s \in SUBSET S : Cardinality(s) <= n}
           Fits(it, n) == /\ it \in [Small(n) -> Int]
                          /\ \A s \in Small(n) :
                                it[s] = IF s = {} THEN 0 ELSE g[Pick(s)] + it[s \ {Pick(s)}]
           T == {n \in Nat : \E it : Fits(it, n)}
<1>0. \A s \in SUBSET S : IsFiniteSet(s) /\ Cardinality(s) \in Nat
  BY FS_Subset, FS_CardinalityType
<1>1. 0 \in T
  <2>1. Small(0) = {{}}
    BY <1>0, FS_EmptySet
  <2>2. Fits([s \in {{}} |-> 0], 0)
    BY <2>1
  <2> HIDE DEF Fits
  <2> QED  BY <2>2
<1>2. ASSUME NEW n \in Nat, n \in T
      PROVE  n + 1 \in T
  <2>1. PICK it : Fits(it, n)
    BY <1>2
  <2> DEFINE more == [s \in Small(n + 1) |->
                        IF s \in Small(n) THEN it[s] ELSE g[Pick(s)] + it[s \ {Pick(s)}]]
  <2>2. ASSUME NEW s \in SUBSET S, s # {}, Cardinality(s) <= n + 1
        PROVE  s \ {Pick(s)} \in Small(n) /\ g[Pick(s)] \in Int
    <3>1. Pick(s) \in s /\ Cardinality(s) \in Nat /\ Cardinality(s \ {Pick(s)}) \in Nat
          /\ Cardinality(s) = Cardinality(s \ {Pick(s)}) + 1
      BY <1>0, <2>2, Picked
    <3> QED  BY <2>2, <3>1
  <2>3. {} \in Small(n) /\ Small(n) \subseteq Small(n + 1)
    BY <1>0, FS_EmptySet
  <2>4. more \in [Small(n + 1) -> Int]
    <3>1. ASSUME NEW s \in Small(n + 1), s \notin Small(n)
          PROVE  g[Pick(s)] + it[s \ {Pick(s)}] \in Int
      <4>1. s \in SUBSET S /\ s # {} /\ Cardinality(s) <= n + 1
        BY <2>3, <3>1
      <4>2. s \ {Pick(s)} \in Small(n) /\ g[Pick(s)] \in Int
        BY <2>2, <4>1
      <4>3. it[s \ {Pick(s)}] \in Int
        BY <2>1, <4>2
      <4> QED  BY <4>2, <4>3
    <3>2. \A s \in Small(n) : it[s] \in Int
      BY <2>1
    <3> HIDE DEF Small
    <3> QED  BY <3>1, <3>2
  <2>5. \A s \in Small(n) : more[s] = it[s]
    BY <2>3
  <2>6. ASSUME NEW s \in Small(n + 1)
        PROVE  more[s] = IF s = {} THEN 0 ELSE g[Pick(s)] + more[s \ {Pick(s)}]
    <3>1. CASE s = {}
      BY <2>1, <2>3, <2>5, <3>1
    <3>2. CASE s # {}
      <4>1. s \ {Pick(s)} \in Small(n)
        BY <2>2, <3>2
      <4>2. more[s \ {Pick(s)}] = it[s \ {Pick(s)}]
        BY <2>5, <4>1
      <4>3. more[s] = g[Pick(s)] + it[s \ {Pick(s)}]
        BY <2>1, <3>2
      <4> QED  BY <3>2, <4>2, <4>3
    <3> QED  BY <3>1, <3>2
  <2>7. Fits(more, n + 1)
    <3> HIDE DEF more, Small
    <3> QED  BY <2>4, <2>6
  <2> HIDE DEF Fits
  <2> QED  BY <2>7
<1>3. \A n \in Nat : n \in T
  <2> HIDE DEF T
  <2> QED  BY <1>1, <1>2, EveryNat
<1>4. Cardinality(S) \in T
  BY <1>0, <1>3
<1>5. Small(Cardinality(S)) = SUBSET S
  BY <1>0, FS_Subset
<1>6. PICK it : Fits(it, Cardinality(S))
  BY <1>4
<1>7. Adds(it, g, S)
  BY <1>5, <1>6 DEF Adds
<1> QED  BY <1>5, <1>6, <1>7

LEMMA SumIsAdded ==
  ASSUME NEW S, IsFiniteSet(S), NEW g, \A x \in S : g[x] \in Int
  PROVE  \E it : Adds(it, g, S) /\ SumFunctionOnSet(g, S) = it[S]
<1> DEFINE it == CHOOSE it : Adds(it, g, S)
<1>1. Adds(it, g, S)
  BY SomethingAdds
<1>2. SumFunctionOnSet(g, S) = it[S]
  BY DEF SumFunctionOnSet, FoldFunctionOnSet, MapThenFoldSet, Adds, Pick
<1> QED  BY <1>1, <1>2

\* What adds up agrees wherever the summands do.
LEMMA AddsAgree ==
  ASSUME NEW S, NEW U, IsFiniteSet(S), IsFiniteSet(U), NEW g, NEW h,
         \A x \in S \cap U : g[x] = h[x],
         NEW it, NEW that, Adds(it, g, S), Adds(that, h, U),
         NEW s \in SUBSET (S \cap U)
  PROVE  it[s] = that[s]
<1> DEFINE T == {r \in SUBSET (S \cap U) : it[r] = that[r]}
<1>1. ASSUME NEW r \in SUBSET (S \cap U), \A x \in r : r \ {x} \in T
      PROVE  r \in T
  <2>1. CASE r = {}
    BY <2>1 DEF Adds
  <2>2. CASE r # {}
    <3>1. Pick(r) \in r
      BY <2>2 DEF Pick
    <3>2. it[r \ {Pick(r)}] = that[r \ {Pick(r)}] /\ g[Pick(r)] = h[Pick(r)]
      BY <1>1, <3>1
    <3>3. it[r] = g[Pick(r)] + it[r \ {Pick(r)}] /\ that[r] = h[Pick(r)] + that[r \ {Pick(r)}]
      BY <2>2 DEF Adds
    <3> QED  BY <3>2, <3>3
  <2> QED  BY <2>1, <2>2
<1>2. IsFiniteSet(S \cap U)
  BY FS_Subset
<1>3. \A r \in SUBSET (S \cap U) : r \in T
  <2> HIDE DEF T
  <2> QED  BY <1>1, <1>2, EverySubset
<1> QED  BY <1>3

\* Sums of the same summands are the same.
LEMMA SumSame ==
  ASSUME NEW S, IsFiniteSet(S), NEW g, NEW h, \A x \in S : g[x] \in Int /\ h[x] = g[x]
  PROVE  SumFunctionOnSet(h, S) = SumFunctionOnSet(g, S)
<1>1. PICK it : Adds(it, g, S) /\ SumFunctionOnSet(g, S) = it[S]
  BY SumIsAdded
<1>2. PICK that : Adds(that, h, S) /\ SumFunctionOnSet(h, S) = that[S]
  BY SumIsAdded
<1>3. it[S] = that[S]
  BY <1>1, <1>2, AddsAgree
<1> QED  BY <1>1, <1>2, <1>3

LEMMA SumOfNone ==
  ASSUME NEW g
  PROVE  SumFunctionOnSet(g, {}) = 0
<1>1. PICK it : Adds(it, g, {}) /\ SumFunctionOnSet(g, {}) = it[{}]
  BY SumIsAdded, FS_EmptySet
<1> QED  BY <1>1 DEF Adds

LEMMA SumPicked ==
  ASSUME NEW S, IsFiniteSet(S), S # {}, NEW g, \A x \in S : g[x] \in Int
  PROVE  SumFunctionOnSet(g, S) = g[Pick(S)] + SumFunctionOnSet(g, S \ {Pick(S)})
<1> DEFINE R == S \ {Pick(S)}
<1>1. IsFiniteSet(R) /\ \A x \in R : g[x] \in Int
  BY Picked
<1>2. PICK it : Adds(it, g, S) /\ SumFunctionOnSet(g, S) = it[S]
  BY SumIsAdded
<1>3. PICK that : Adds(that, g, R) /\ SumFunctionOnSet(g, R) = that[R]
  BY <1>1, SumIsAdded
<1>4. it[R] = that[R]
  <2>1. R \in SUBSET (S \cap R)
    OBVIOUS
  <2> HIDE DEF R
  <2> QED  BY <1>1, <1>2, <1>3, <2>1, AddsAgree
<1>5. it[S] = g[Pick(S)] + it[R]
  BY <1>2 DEF Adds
<1> QED  BY <1>2, <1>3, <1>4, <1>5

LEMMA SumInt ==
  ASSUME NEW S, IsFiniteSet(S), NEW g, \A x \in S : g[x] \in Int
  PROVE  SumFunctionOnSet(g, S) \in Int
<1>1. PICK it : Adds(it, g, S) /\ SumFunctionOnSet(g, S) = it[S]
  BY SumIsAdded
<1>2. PICK that : Adds(that, g, S) /\ that \in [SUBSET S -> Int]
  BY SomethingAdds
<1>3. it[S] = that[S]
  BY <1>1, <1>2, AddsAgree
<1> QED  BY <1>1, <1>2, <1>3

\* Any summand can be taken out of a sum.
LEMMA SumTaken ==
  ASSUME NEW U, IsFiniteSet(U), NEW g, \A x \in U : g[x] \in Int
  PROVE  \A x \in U : SumFunctionOnSet(g, U) = g[x] + SumFunctionOnSet(g, U \ {x})
<1> DEFINE Sum(S) == SumFunctionOnSet(g, S)
           T == {S \in SUBSET U : \A x \in S : Sum(S) = g[x] + Sum(S \ {x})}
<1>1. ASSUME NEW S \in SUBSET U, \A x \in S : S \ {x} \in T, NEW x \in S
      PROVE  Sum(S) = g[x] + Sum(S \ {x})
  <2>1. S # {} /\ IsFiniteSet(S) /\ \A y \in S : g[y] \in Int
    BY FS_Subset
  <2>2. PICK p \in S : Sum(S) = g[p] + Sum(S \ {p})
    BY <2>1, SumPicked, Picked
  <2>3. CASE x # p
    <3> DEFINE R == (S \ {p}) \ {x}
    <3>1. x \in S \ {p} /\ p \in S \ {x} /\ (S \ {x}) \ {p} = R
      BY <2>3
    <3>2. Sum(S \ {p}) = g[x] + Sum(R)
      BY <1>1, <3>1
    <3>3. Sum(S \ {x}) = g[p] + Sum(R)
      <4>1. Sum(S \ {x}) = g[p] + Sum((S \ {x}) \ {p})
        BY <1>1, <3>1
      <4> QED  BY <3>1, <4>1
    <3>4. Sum(R) \in Int /\ g[p] \in Int /\ g[x] \in Int
      <4>1. IsFiniteSet(R) /\ \A y \in R : g[y] \in Int
        BY <2>1, FS_RemoveElement
      <4> QED  BY <2>1, <4>1, SumInt
    <3> QED  BY <2>2, <3>2, <3>3, <3>4
  <2> QED  BY <2>2, <2>3
<1>2. \A S \in SUBSET U : S \in T
  <2>1. \A S \in SUBSET U : (\A x \in S : S \ {x} \in T) => S \in T
    BY <1>1
  <2> HIDE DEF T
  <2> QED  BY <2>1, EverySubset
<1> QED  BY <1>2

LEMMA SumOfOne ==
  ASSUME NEW a, NEW g, g[a] \in Int
  PROVE  SumFunctionOnSet(g, {a}) = g[a]
<1>1. IsFiniteSet({a}) /\ {a} \ {a} = {}
  BY FS_Singleton
<1>2. SumFunctionOnSet(g, {a}) = g[a] + SumFunctionOnSet(g, {a} \ {a})
  BY <1>1, SumTaken
<1> QED  BY <1>1, <1>2, SumOfNone

LEMMA SumFirst ==
  ASSUME NEW a \in Int, NEW b \in Int, a <= b, NEW g, \A x \in a..b : g[x] \in Int
  PROVE  SumFunctionOnSet(g, a..b) = g[a] + SumFunctionOnSet(g, (a + 1)..b)
<1>1. a \in a..b /\ (a..b) \ {a} = (a + 1)..b
  OBVIOUS
<1>2. IsFiniteSet(a..b)
  BY FS_Interval
<1>3. SumFunctionOnSet(g, a..b) = g[a] + SumFunctionOnSet(g, (a..b) \ {a})
  BY <1>1, <1>2, SumTaken
<1> QED  BY <1>1, <1>3

LEMMA SumLast ==
  ASSUME NEW a \in Int, NEW b \in Int, a <= b + 1, NEW g, \A x \in a..(b + 1) : g[x] \in Int
  PROVE  SumFunctionOnSet(g, a..(b + 1)) = SumFunctionOnSet(g, a..b) + g[b + 1]
<1> DEFINE c == b + 1
<1>1. c \in a..c /\ (a..c) \ {c} = a..b
  OBVIOUS
<1>2. IsFiniteSet(a..c) /\ IsFiniteSet(a..b)
  BY FS_Interval
<1>3. SumFunctionOnSet(g, a..c) = g[c] + SumFunctionOnSet(g, (a..c) \ {c})
  BY <1>1, <1>2, SumTaken
<1>4. g[c] \in Int /\ SumFunctionOnSet(g, a..b) \in Int
  <2>1. \A x \in a..b : g[x] \in Int
    OBVIOUS
  <2> QED  BY <1>1, <1>2, <2>1, SumInt
<1>5. SumFunctionOnSet(g, a..c) = g[c] + SumFunctionOnSet(g, a..b)
  BY <1>1, <1>3
<1> HIDE DEF c
<1>6. SumFunctionOnSet(g, a..c) = SumFunctionOnSet(g, a..b) + g[c]
  BY <1>4, <1>5
<1> QED  BY <1>6 DEF c

LEMMA SumOfZeros ==
  ASSUME NEW S, IsFiniteSet(S), NEW g, \A x \in S : g[x] = 0
  PROVE  SumFunctionOnSet(g, S) = 0
<1> DEFINE T == {R \in SUBSET S : SumFunctionOnSet(g, R) = 0}
<1>1. ASSUME NEW R \in SUBSET S, \A x \in R : R \ {x} \in T
      PROVE  SumFunctionOnSet(g, R) = 0
  <2>1. CASE R # {}
    <3>1. IsFiniteSet(R) /\ \A x \in R : g[x] \in Int
      BY FS_Subset
    <3>2. Pick(R) \in R
      BY <2>1 DEF Pick
    <3>3. SumFunctionOnSet(g, R) = g[Pick(R)] + SumFunctionOnSet(g, R \ {Pick(R)})
      BY <2>1, <3>1, SumPicked
    <3>4. g[Pick(R)] = 0 /\ SumFunctionOnSet(g, R \ {Pick(R)}) = 0
      BY <1>1, <3>2
    <3> QED  BY <3>3, <3>4
  <2> QED  BY <2>1, SumOfNone
<1>2. \A R \in SUBSET S : R \in T
  <2>1. \A R \in SUBSET S : (\A x \in R : R \ {x} \in T) => R \in T
    BY <1>1
  <2> HIDE DEF T
  <2> QED  BY <2>1, EverySubset
<1> QED  BY <1>2

\* Sums add up term by term.
LEMMA SumPlus ==
  ASSUME NEW S, IsFiniteSet(S), NEW f, NEW d, NEW g,
         \A x \in S : f[x] \in Int /\ d[x] \in Int /\ g[x] = f[x] + d[x]
  PROVE  SumFunctionOnSet(g, S) = SumFunctionOnSet(f, S) + SumFunctionOnSet(d, S)
<1> DEFINE Both(R) == SumFunctionOnSet(f, R) + SumFunctionOnSet(d, R)
           T == {R \in SUBSET S : SumFunctionOnSet(g, R) = Both(R)}
<1>1. ASSUME NEW R \in SUBSET S, \A x \in R : R \ {x} \in T
      PROVE  SumFunctionOnSet(g, R) = Both(R)
  <2>1. CASE R = {}
    <3>1. /\ SumFunctionOnSet(f, R) = 0 /\ SumFunctionOnSet(d, R) = 0
          /\ SumFunctionOnSet(g, R) = 0
      BY <2>1, SumOfNone
    <3> QED  BY <3>1
  <2>2. CASE R # {}
    <3>1. PICK p \in R : p = Pick(R)
      BY <2>2 DEF Pick
    <3>2. IsFiniteSet(R) /\ \A x \in R : f[x] \in Int /\ d[x] \in Int /\ g[x] \in Int
      BY FS_Subset
    <3>3. /\ SumFunctionOnSet(f, R) = f[p] + SumFunctionOnSet(f, R \ {p})
          /\ SumFunctionOnSet(d, R) = d[p] + SumFunctionOnSet(d, R \ {p})
          /\ SumFunctionOnSet(g, R) = g[p] + SumFunctionOnSet(g, R \ {p})
      BY <2>2, <3>1, <3>2, SumPicked
    <3>4. SumFunctionOnSet(g, R \ {p}) = Both(R \ {p})
      BY <1>1
    <3>5. /\ SumFunctionOnSet(f, R \ {p}) \in Int /\ SumFunctionOnSet(d, R \ {p}) \in Int
          /\ f[p] \in Int /\ d[p] \in Int /\ g[p] = f[p] + d[p]
      <4>1. IsFiniteSet(R \ {p})
        BY <3>2, FS_RemoveElement
      <4> QED  BY <3>2, <4>1, SumInt
    <3> QED  BY <3>3, <3>4, <3>5
  <2> QED  BY <2>1, <2>2
<1>2. \A R \in SUBSET S : R \in T
  <2>1. \A R \in SUBSET S : (\A x \in R : R \ {x} \in T) => R \in T
    BY <1>1
  <2> HIDE DEF T
  <2> QED  BY <2>1, EverySubset
<1> QED  BY <1>2

-----------------------------------------------------------------------------
(* The arithmetic. *)

LEMMA ShareNat ==
  ASSUME NEW x \in Nat, NEW p \in Nat
  PROVE  Share(x, p) \in Nat
<1>1. x * p \in Nat
  OBVIOUS
<1> QED  BY <1>1 DEF Share

LEMMA ShareInt ==
  ASSUME NEW x \in Int, NEW p \in Nat
  PROVE  Share(x, p) \in Int
<1>1. x * p \in Int
  OBVIOUS
<1> QED  BY <1>1 DEF Share

LEMMA DaysNat ==
  ASSUME NEW x \in Nat, NEW d \in Nat
  PROVE  Days(x, d) \in Nat
<1>1. x * d \in Nat
  OBVIOUS
<1> QED  BY <1>1 DEF Days

LEMMA PosNat ==
  ASSUME NEW x \in Int
  PROVE  Pos(x) \in Nat
BY DEF Pos

LEMMA NextMultiple ==
  ASSUME NEW m \in Nat, NEW k \in Int
  PROVE  (m + 1) * k = m * k + k
OBVIOUS

LEMMA ConfigTypes ==
  ASSUME cfg \in Configs
  PROVE  /\ cfg \in ConfigSet
         /\ cfg.dso_days \in Nat /\ cfg.dpo_days \in Nat /\ cfg.dio_days \in Nat
         /\ cfg.collection_profile \in [0..MaxLag -> Nat]
         /\ cfg.opening_profile \in [0..MaxLag -> Nat]
         /\ cfg.bad_debt_share \in Nat /\ cfg.write_off_after \in 0..MaxLag
         /\ cfg.deductible \in Deductibility
         /\ cfg.tax_rate \in Nat /\ cfg.payments \in [Months -> Int]
         /\ cfg.opex \in Nat /\ cfg.pct_of_revenue \in Nat
         /\ cfg.da \in Nat /\ cfg.capex \in Nat
         /\ cfg.annual_rate \in Nat /\ cfg.monthly_principal \in Nat
         /\ cfg.loan \in Nat /\ cfg.line \in Nat /\ cfg.cash \in Int
         /\ cfg.ar \in Int /\ cfg.ap \in Int /\ cfg.inventory \in Int /\ cfg.nol \in Nat
BY ForecastAssumption DEF ConfigSet

LEMMA InterestNat ==
  ASSUME cfg \in Configs, NEW b \in Nat
  PROVE  Interest(b) \in Nat
<1>1. cfg.annual_rate \in Nat
  BY ConfigTypes
<1>2. b * cfg.annual_rate \in Nat
  BY <1>1
<1> QED  BY <1>2 DEF Interest

LEMMA BadDebtNat ==
  ASSUME cfg \in Configs, NEW r \in Nat
  PROVE  BadDebt(r) \in Nat
BY ConfigTypes, ShareNat DEF BadDebt

(* The tax book. *)

LEMMA BookFields ==
  ASSUME NEW b \in Books
  PROVE  /\ b.available \in Nat /\ b.unknown \in Nat /\ b.to_date \in Int
         /\ b.provided \in Int /\ b.charged \in Int
BY DEF Books

LEMMA OpenedIsBook ==
  ASSUME NEW b \in Books, NEW d \in Deductibility
  PROVE  Opened(b, d) \in Books
<1>1. /\ Pos(-b.to_date) \in Nat /\ Pos(b.to_date) \in Nat
      /\ Pos(b.available - Pos(b.to_date)) \in Nat
  BY BookFields DEF Pos
<1>2. YearEnd(b, d) \in Books
  BY <1>1, BookFields DEF YearEnd, Books
<1> QED  BY <1>2 DEF Opened

LEMMA ProvidedIsBook ==
  ASSUME cfg \in Configs, NEW o \in Books, NEW x \in Int
  PROVE  Provided(o, x) \in Books
<1>1. Pos(o.to_date + x - o.available) \in Nat
  BY BookFields, PosNat
<1>2. Share(Pos(o.to_date + x - o.available), cfg.tax_rate) \in Nat
  BY <1>1, ShareNat, ConfigTypes
<1> QED  BY <1>2, BookFields DEF Provided, Books

LEMMA MonthTaxIsBook ==
  ASSUME cfg \in Configs, NEW b \in Books, NEW x \in Int
  PROVE  MonthTax(b, x) \in Books
<1>1. Pos(x) \in Nat
  BY PosNat
<1>2. /\ b.available - Least(b.available, Pos(x)) \in Nat
      /\ Pos(x) - Least(b.available, Pos(x)) \in Nat
  BY <1>1, BookFields DEF Least
<1>3. Share(Pos(x) - Least(b.available, Pos(x)), cfg.tax_rate) \in Nat
  BY <1>2, ShareNat, ConfigTypes
<1> QED  BY <1>2, <1>3, BookFields DEF MonthTax, Books

LEMMA TaxedIsBook ==
  ASSUME cfg \in Configs, NEW b \in Books, NEW x \in Int, NEW d \in Deductibility
  PROVE  Taxed(b, x, d) \in Books
<1>1. YearTax(b, x, d) \in Books
  BY OpenedIsBook, ProvidedIsBook DEF YearTax
<1> QED  BY <1>1, MonthTaxIsBook DEF Taxed

-----------------------------------------------------------------------------
(* What a forecast may hold. *)

Spreads == [1..(Horizon + MaxLag) -> Int]

BalancesOK ==
  /\ gross \in Int /\ allowance \in Int
  /\ inventory \in Int /\ ap \in Int /\ loan \in Nat /\ line \in Nat

BooksOK == book \in Books /\ ifSo \in Books /\ ifNot \in Books

Typed ==
  /\ cfg \in Configs
  /\ month \in 0..Horizon
  /\ refused \in BOOLEAN
  /\ receipts \in Spreads /\ write_offs \in [1..(Horizon + MaxLag) -> Nat]
  /\ BalancesOK
  /\ BooksOK
  /\ slips \in 0..MaxSlips /\ (slips = 0 \/ month = Horizon)
  /\ rows \in [Months -> Row]
  /\ earned \in Int /\ paid \in Int

LEMMA OpeningBookTyped ==
  ASSUME cfg \in Configs
  PROVE  OpeningBook \in Books
BY ConfigTypes DEF OpeningBook, Books

LEMMA InitTyped == Init => Typed
<1> SUFFICES ASSUME Init PROVE Typed
  OBVIOUS
<1>1. cfg \in Configs
  BY DEF Init
<1>2. month \in 0..Horizon
  <2>1. month = 0
    BY DEF Init
  <2> QED  BY <2>1, ForecastAssumption
<1>8. refused \in BOOLEAN
  BY DEF Init
<1>3. receipts \in Spreads
  <2>1. ASSUME NEW u \in 1..(Horizon + MaxLag), u - 1 <= MaxLag
        PROVE  Share(cfg.ar, cfg.opening_profile[u - 1]) \in Int
    <3>1. u - 1 \in 0..MaxLag
      BY <2>1, ForecastAssumption
    <3> QED  BY <3>1, <1>1, ConfigTypes, ShareInt
  <2> QED  BY <2>1 DEF Init, Spreads
<1>4. write_offs \in [1..(Horizon + MaxLag) -> Nat]
  BY DEF Init
<1>5. BalancesOK
  BY <1>1, ConfigTypes DEF Init, BalancesOK
<1>6. BooksOK
  BY <1>1, OpeningBookTyped DEF Init, BooksOK
<1>7. rows \in [Months -> Row]
  BY DEF Init, NoRow, Row
<1>9. slips \in 0..MaxSlips /\ slips = 0 /\ earned \in Int /\ paid \in Int
  BY ForecastAssumption DEF Init
<1> QED  BY <1>1, <1>2, <1>3, <1>4, <1>5, <1>6, <1>7, <1>8, <1>9 DEF Typed

\* The working capital a month leaves is well typed.
LEMMA WorkingCapitalTyped ==
  ASSUME Typed, month < Horizon,
         NEW revenue \in Nat, NEW used \in Nat,
         WorkingCapital(month + 1, revenue, used)
  PROVE  /\ receipts' \in Spreads /\ write_offs' \in [1..(Horizon + MaxLag) -> Nat]
         /\ gross' \in Int /\ allowance' \in Int
         /\ inventory' \in Int /\ ap' \in Int
<1> DEFINE t == month + 1
<1>1. t \in 1..(Horizon + MaxLag) /\ t \in 1..Horizon
  BY ForecastAssumption DEF Typed
<1>2. receipts' \in Spreads
  <2>1. CASE cfg.basis = "profile"
    <3>1. ASSUME NEW u \in 1..(Horizon + MaxLag), u >= t, u - t <= MaxLag
          PROVE  Share(revenue, cfg.collection_profile[u - t]) \in Nat
      <4>1. u - t \in 0..MaxLag
        BY <1>1, <3>1, ForecastAssumption
      <4>2. cfg.collection_profile[u - t] \in Nat
        BY <4>1, ConfigTypes DEF Typed
      <4> QED  BY <4>2, ShareNat
    <3>2. Spread(t, cfg.collection_profile, revenue) \in Spreads
      <4> HIDE DEF t
      <4>1. DOMAIN receipts = 1..(Horizon + MaxLag)
            /\ \A u \in 1..(Horizon + MaxLag) : receipts[u] \in Int
        BY DEF Typed, Spreads
      <4> QED  BY <3>1, <4>1 DEF Spread, Spreads
    <3> QED  BY <2>1, <3>2 DEF WorkingCapital
  <2>2. CASE cfg.basis # "profile"
    BY <2>2 DEF WorkingCapital, Typed
  <2> QED  BY <2>1, <2>2
<1>3. write_offs' \in [1..(Horizon + MaxLag) -> Nat]
  <2>1. t + cfg.write_off_after \in 1..(Horizon + MaxLag)
    <3>1. cfg.write_off_after \in 0..MaxLag
      BY ConfigTypes DEF Typed
    <3> QED  BY <1>1, <3>1, ForecastAssumption
  <2>2. BadDebt(revenue) \in Nat
    BY BadDebtNat DEF Typed
  <2> QED  BY <2>1, <2>2 DEF WorkingCapital, Typed, Spreads
<1>4. receipts'[t] \in Int /\ write_offs'[t] \in Int
  BY <1>1, <1>2, <1>3 DEF Spreads
<1>5. gross' \in Int
  <2>1. Days(revenue, cfg.dso_days) \in Nat
    BY DaysNat, ConfigTypes DEF Typed
  <2> QED  BY <1>4, <2>1 DEF WorkingCapital, Typed, BalancesOK
<1>6. allowance' \in Int
  <2>1. BadDebt(revenue) \in Nat /\ allowance \in Int
    BY BadDebtNat DEF Typed, BalancesOK
  <2> QED  BY <1>4, <2>1 DEF WorkingCapital
<1>7. inventory' \in Int
  <2>1. Days(used, cfg.dio_days) \in Nat
    BY DaysNat, ConfigTypes DEF Typed
  <2>2. inventory + Bought(used, Days(used, cfg.dio_days)) - used \in Int
    BY <2>1 DEF Bought, Pos, Typed, BalancesOK
  <2> QED  BY <2>1, <2>2 DEF WorkingCapital, Stock
<1>8. ap' \in Int
  <2>1. Days(used, cfg.dpo_days) \in Nat
    BY DaysNat, ConfigTypes DEF Typed
  <2> QED  BY <2>1 DEF WorkingCapital
<1> QED  BY <1>2, <1>3, <1>5, <1>6, <1>7, <1>8

\* Income before tax is an integer, and a principal payment never more than is owed.
LEMMA MonthFlows ==
  ASSUME Typed, NEW revenue \in Nat, NEW used \in Nat
  PROVE  /\ Pretax(revenue, used) \in Int
         /\ Principal \in Nat /\ loan - Principal \in Nat
<1>1. cfg \in Configs /\ loan \in Nat /\ line \in Nat
  BY DEF Typed, BalancesOK
<1>2. /\ cfg.opex \in Nat /\ cfg.pct_of_revenue \in Nat
      /\ cfg.da \in Nat /\ cfg.monthly_principal \in Nat
  BY <1>1, ConfigTypes
<1>3. Opex(revenue) \in Nat
  <2>1. Share(revenue, cfg.pct_of_revenue) \in Nat
    BY <1>2, ShareNat
  <2> QED  BY <1>2, <2>1 DEF Opex
<1>4. /\ BadDebt(revenue) \in Nat
      /\ Interest(loan) \in Nat /\ Interest(line) \in Nat
  BY <1>1, BadDebtNat, InterestNat
<1>5. Pretax(revenue, used) \in Int
  BY <1>2, <1>3, <1>4 DEF Pretax
<1> QED  BY <1>1, <1>2, <1>5 DEF Principal, Least

\* A month's row, from well-typed balances and books.
LEMMA RowTyped ==
  ASSUME Typed, NEW t \in Months, NEW revenue \in Nat, NEW used \in Nat,
         slips = 0,
         gross' \in Int, allowance' \in Int, inventory' \in Int, ap' \in Int,
         book' \in Books
  PROVE  /\ RowOf(t, revenue, used) \in Row
         /\ EndingCash \in Int /\ WcCashImpact \in Int
<1>1. /\ cfg \in Configs /\ rows \in [Months -> Row] /\ month \in 0..Horizon
      /\ gross \in Int /\ allowance \in Int /\ inventory \in Int /\ ap \in Int
      /\ book.charged \in Int /\ book'.charged \in Int
  BY BookFields DEF Typed, BalancesOK, BooksOK
<1>2. EndingCash \in Int
  <2>1. CASE month = 0
    BY <1>1, <2>1, ConfigTypes DEF EndingCash
  <2>2. CASE month # 0
    <3>1. month \in Months
      BY <1>1, <2>2, ForecastAssumption DEF Months
    <3> QED  BY <1>1, <2>2, <3>1 DEF EndingCash, Row
  <2> QED  BY <2>1, <2>2
<1>3. WcCashImpact \in Int
  BY <1>1 DEF WcCashImpact
<1>4. Pretax(revenue, used) \in Int /\ Principal \in Nat
  BY MonthFlows
<1>5. cfg.da \in Nat /\ cfg.capex \in Nat /\ cfg.payments[t] \in Int
  BY <1>1, ConfigTypes
<1>6. ASSUME NEW income \in Int, NEW tax \in Int, NEW taxPaid \in Int
      PROVE  Operating(income, WcCashImpact, tax, taxPaid) \in Int
  BY <1>3, <1>5 DEF Operating
<1> DEFINE tax == book'.charged - book.charged
           income == Pretax(revenue, used) - tax
           taxPaid == IF cfg.treatment = "year" THEN cfg.payments[t] ELSE 0
           operating == Operating(income, WcCashImpact, tax, taxPaid)
           change == operating - cfg.capex - Principal
<1>7. tax \in Int /\ income \in Int /\ taxPaid \in Int
  BY <1>1, <1>4, <1>5
<1>8. operating \in Int
  BY <1>6, <1>7
<1>9. operating - cfg.capex \in Int /\ change \in Int
  BY <1>4, <1>5, <1>8
<1>10. RowOf(t, revenue, used) =
         [net_income |-> income, wc_cash_impact |-> WcCashImpact, tax |-> tax, tax_paid |-> taxPaid,
          operating_cash_flow |-> operating, free_cash_flow |-> operating - cfg.capex,
          principal |-> Principal, change_in_cash |-> change, ending_cash |-> EndingCash + change,
          used |-> used]
  BY DEF RowOf
<1> HIDE DEF tax, income, taxPaid, operating, change
<1> QED  BY <1>2, <1>3, <1>4, <1>7, <1>8, <1>9, <1>10 DEF Row

-----------------------------------------------------------------------------
(* The rows rebuilt after a delay. *)

LEMMA OperatingAgainInt ==
  ASSUME cfg \in Configs, NEW row \in Row
  PROVE  OperatingAgain(row) \in Int
<1>1. cfg.da \in Nat
  BY ConfigTypes
<1>2. /\ row.net_income \in Int /\ row.wc_cash_impact \in Int
      /\ row.tax \in Int /\ row.tax_paid \in Int
  BY DEF Row
<1> QED  BY <1>1, <1>2 DEF OperatingAgain

LEMMA OperatingShifts ==
  ASSUME cfg \in Configs, NEW row \in Row, NEW was \in Row, NEW d \in Int,
         row.net_income = was.net_income, row.tax = was.tax, row.tax_paid = was.tax_paid,
         row.wc_cash_impact = was.wc_cash_impact + d
  PROVE  OperatingAgain(row) - OperatingAgain(was) = d
<1>1. cfg.da \in Nat
  BY ConfigTypes
<1>2. /\ was.net_income \in Int /\ was.wc_cash_impact \in Int
      /\ was.tax \in Int /\ was.tax_paid \in Int
  BY DEF Row
<1> QED  BY <1>1, <1>2 DEF OperatingAgain

\* f is the closing cash of the rows in new, month on month.
Accrues(f, new, opening) ==
  f = [u \in Months |-> (IF u = 1 THEN opening ELSE f[u - 1])
                           + (OperatingAgain(new[u]) - cfg.capex) - new[u].principal]

LEMMA SomethingAccrues ==
  ASSUME cfg \in Configs, NEW new \in [Months -> Row], NEW opening \in Int
  PROVE  \E f : Accrues(f, new, opening)
<1> DEFINE Next1(f, u) == (IF u = 1 THEN opening ELSE f[u - 1])
                             + (OperatingAgain(new[u]) - cfg.capex) - new[u].principal
           Fits(f, n) == f \in [1..n -> Int] /\ \A u \in 1..n : f[u] = Next1(f, u)
           T == {n \in Nat : n <= Horizon => \E f : Fits(f, n)}
<1>1. 0 \in T
  <2>1. Fits([u \in 1..0 |-> 0], 0)
    OBVIOUS
  <2> HIDE DEF Fits
  <2> QED  BY <2>1
<1>2. ASSUME NEW n \in Nat, n \in T
      PROVE  n + 1 \in T
  <2>1. ASSUME n + 1 <= Horizon
        PROVE  \E f : Fits(f, n + 1)
    <3>1. PICK f : Fits(f, n)
      <4>1. n <= Horizon
        BY <2>1, ForecastAssumption
      <4> HIDE DEF Fits
      <4> QED  BY <1>2, <4>1
    <3> DEFINE more == [u \in 1..(n + 1) |-> IF u = n + 1 THEN Next1(f, u) ELSE f[u]]
    <3>2. Next1(f, n + 1) \in Int
      <4>1. n + 1 \in Months
        BY <2>1, ForecastAssumption DEF Months
      <4>2. new[n + 1] \in Row
        BY <4>1
      <4>3. OperatingAgain(new[n + 1]) \in Int /\ new[n + 1].principal \in Int
        BY <4>2, OperatingAgainInt DEF Row
      <4>4. n + 1 # 1 => f[(n + 1) - 1] \in Int
        BY <3>1
      <4>5. cfg.capex \in Nat
        BY ConfigTypes
      <4> QED  BY <4>3, <4>4, <4>5
    <3>3. \A u \in 1..n : u \in 1..(n + 1) /\ u # n + 1 /\ f[u] \in Int
      BY <3>1
    <3>4. more \in [1..(n + 1) -> Int]
      <4>1. \A u \in 1..(n + 1) : u # n + 1 => u \in 1..n
        OBVIOUS
      <4> HIDE DEF Next1
      <4> QED  BY <3>2, <3>3, <4>1
    <3>5. ASSUME NEW u \in 1..(n + 1)
          PROVE  more[u] = Next1(more, u)
      <4>1. u # 1 => more[u - 1] = f[u - 1]
        BY <3>1
      <4>2. Next1(more, u) = Next1(f, u)
        <5> HIDE DEF more
        <5> QED  BY <4>1
      <4>3. more[u] = Next1(f, u)
        <5>1. u # n + 1 => u \in 1..n
          OBVIOUS
        <5> HIDE DEF Next1
        <5> QED  BY <3>1, <5>1
      <4> QED  BY <4>2, <4>3
    <3>6. Fits(more, n + 1)
      <4> HIDE DEF more, Next1
      <4> QED  BY <3>4, <3>5
    <3> HIDE DEF Fits
    <3> QED  BY <3>6
  <2> HIDE DEF Fits
  <2> QED  BY <2>1
<1>3. \A n \in Nat : n \in T
  <2> HIDE DEF T
  <2> QED  BY <1>1, <1>2, EveryNat
<1>4. PICK f : Fits(f, Horizon)
  <2>1. Horizon \in Nat
    BY ForecastAssumption
  <2> HIDE DEF Fits
  <2> QED  BY <1>3, <2>1
<1>5. Accrues(f, new, opening)
  BY <1>4 DEF Accrues, Months
<1> QED  BY <1>5

LEMMA AccruesInts ==
  ASSUME cfg \in Configs, NEW new \in [Months -> Row], NEW opening \in Int,
         NEW f, Accrues(f, new, opening)
  PROVE  \A u \in Months : f[u] \in Int
<1> DEFINE T == {n \in Nat : \A u \in Months : u = n + 1 => f[u] \in Int}
<1>1. ASSUME NEW u \in Months, u = 1 \/ f[u - 1] \in Int
      PROVE  f[u] \in Int
  <2>1. OperatingAgain(new[u]) \in Int /\ new[u].principal \in Int /\ cfg.capex \in Int
    BY OperatingAgainInt, ConfigTypes DEF Row
  <2>2. f[u] = (IF u = 1 THEN opening ELSE f[u - 1])
                  + (OperatingAgain(new[u]) - cfg.capex) - new[u].principal
    BY DEF Accrues
  <2> QED  BY <1>1, <2>1, <2>2
<1>2. 0 \in T
  BY <1>1
<1>3. ASSUME NEW n \in Nat, n \in T
      PROVE  n + 1 \in T
  <2>1. ASSUME NEW u \in Months, u = (n + 1) + 1
        PROVE  f[u] \in Int
    <3>1. n + 1 \in Months /\ u - 1 = n + 1
      BY <2>1, ForecastAssumption DEF Months
    <3>2. f[u - 1] \in Int
      BY <1>3, <3>1
    <3> QED  BY <1>1, <3>2
  <2> QED  BY <2>1
<1>4. \A n \in Nat : n \in T
  <2> HIDE DEF T
  <2> QED  BY <1>2, <1>3, EveryNat
<1>5. \A u \in Months : u - 1 \in Nat /\ (u - 1) + 1 = u
  BY DEF Months
<1> QED  BY <1>4, <1>5

\* A rebuilt row keeps what the delay does not touch; its cash follows from it and
\* from the month before.
LEMMA RebuiltRows ==
  ASSUME cfg \in Configs, NEW new \in [Months -> Row], NEW opening \in Int
  PROVE  /\ Rebuilt(new, opening) \in [Months -> Row]
         /\ \A u \in Months :
              LET was == new[u]
                  row == Rebuilt(new, opening)[u]
              IN /\ row.net_income = was.net_income /\ row.wc_cash_impact = was.wc_cash_impact
                 /\ row.tax = was.tax /\ row.tax_paid = was.tax_paid
                 /\ row.principal = was.principal /\ row.used = was.used
                 /\ row.operating_cash_flow = OperatingAgain(was)
                 /\ row.free_cash_flow = OperatingAgain(was) - cfg.capex
                 /\ row.change_in_cash = OperatingAgain(was) - cfg.capex - was.principal
                 /\ row.ending_cash = (IF u = 1 THEN opening ELSE Rebuilt(new, opening)[u - 1].ending_cash)
                                        + row.change_in_cash
<1> DEFINE ending == CHOOSE f : Accrues(f, new, opening)
           Row1(u) == [new[u] EXCEPT !.operating_cash_flow = OperatingAgain(new[u]),
                                     !.free_cash_flow = OperatingAgain(new[u]) - cfg.capex,
                                     !.change_in_cash = OperatingAgain(new[u]) - cfg.capex - new[u].principal,
                                     !.ending_cash = ending[u]]
<1>1. Accrues(ending, new, opening)
  BY SomethingAccrues
<1>2. Rebuilt(new, opening) = [u \in Months |-> Row1(u)]
  BY DEF Rebuilt, Accrues
<1>3. ASSUME NEW u \in Months
      PROVE  /\ new[u] \in Row /\ OperatingAgain(new[u]) \in Int /\ ending[u] \in Int
             /\ cfg.capex \in Int /\ new[u].principal \in Int
  <2> HIDE DEF ending
  <2>1. new[u] \in Row /\ cfg.capex \in Int
    BY ConfigTypes
  <2>2. OperatingAgain(new[u]) \in Int /\ new[u].principal \in Int
    BY <2>1, OperatingAgainInt DEF Row
  <2>3. ending[u] \in Int
    BY <1>1, AccruesInts
  <2> QED  BY <2>1, <2>2, <2>3
<1>4. ASSUME NEW u \in Months
      PROVE  /\ Row1(u) \in Row
             /\ Row1(u).net_income = new[u].net_income /\ Row1(u).wc_cash_impact = new[u].wc_cash_impact
             /\ Row1(u).tax = new[u].tax /\ Row1(u).tax_paid = new[u].tax_paid
             /\ Row1(u).principal = new[u].principal /\ Row1(u).used = new[u].used
             /\ Row1(u).operating_cash_flow = OperatingAgain(new[u])
             /\ Row1(u).free_cash_flow = OperatingAgain(new[u]) - cfg.capex
             /\ Row1(u).change_in_cash = OperatingAgain(new[u]) - cfg.capex - new[u].principal
             /\ Row1(u).ending_cash = ending[u]
  <2>1. OperatingAgain(new[u]) - cfg.capex \in Int
        /\ OperatingAgain(new[u]) - cfg.capex - new[u].principal \in Int
    BY <1>3
  <2> HIDE DEF ending
  <2> QED  BY <1>3, <2>1 DEF Row
<1>5. ASSUME NEW u \in Months
      PROVE  ending[u] = (IF u = 1 THEN opening ELSE ending[u - 1])
                            + (OperatingAgain(new[u]) - cfg.capex - new[u].principal)
  <2>1. ending[u] = (IF u = 1 THEN opening ELSE ending[u - 1])
                       + (OperatingAgain(new[u]) - cfg.capex) - new[u].principal
    <3> HIDE DEF ending
    <3> QED  BY <1>1 DEF Accrues
  <2>2. u # 1 => u - 1 \in Months
    BY ForecastAssumption DEF Months
  <2>3. u # 1 => ending[u - 1] \in Int
    BY <1>3, <2>2
  <2> HIDE DEF ending
  <2> QED  BY <1>3, <2>1, <2>3
<1>6. ASSUME NEW u \in Months, u # 1
      PROVE  u - 1 \in Months
  BY <1>6, ForecastAssumption DEF Months
<1> HIDE DEF ending, Row1
<1>7. \A u \in Months : u # 1 => Rebuilt(new, opening)[u - 1].ending_cash = ending[u - 1]
  BY <1>2, <1>4, <1>6
<1> QED  BY <1>2, <1>4, <1>5, <1>7

-----------------------------------------------------------------------------
(* The steps keep the types. *)

LEMMA ForecastMonthTyped ==
  ASSUME Typed, NEW revenue \in Nat, NEW used \in Nat, ForecastMonth(revenue, used)
  PROVE  Typed'
<1>1. /\ month \in Nat /\ month < Horizon /\ month' = month + 1
      /\ month' \in Months /\ month' \in 0..Horizon
  <2>1. month \in 0..Horizon /\ month < Horizon /\ month' = month + 1
    BY DEF Typed, ForecastMonth
  <2> QED  BY <2>1, ForecastAssumption DEF Months
<1>2. WorkingCapital(month + 1, revenue, used)
  BY <1>1 DEF ForecastMonth
<1>3. /\ receipts' \in Spreads /\ write_offs' \in [1..(Horizon + MaxLag) -> Nat]
      /\ gross' \in Int /\ allowance' \in Int
      /\ inventory' \in Int /\ ap' \in Int
  BY <1>1, <1>2, WorkingCapitalTyped
<1>4. loan' \in Nat /\ line' \in Nat
  BY MonthFlows DEF ForecastMonth, Typed, BalancesOK
<1>5. BooksOK'
  <2>1. Pretax(revenue, used) \in Int
    BY MonthFlows
  <2>2. cfg \in Configs /\ cfg.deductible \in Deductibility
    BY ConfigTypes DEF Typed
  <2>3. "yes" \in Deductibility /\ "no" \in Deductibility
    BY DEF Deductibility
  <2>4. /\ book' = Taxed(book, Pretax(revenue, used), cfg.deductible)
        /\ ifSo' = Taxed(ifSo, Pretax(revenue, used), "yes")
        /\ ifNot' = Taxed(ifNot, Pretax(revenue, used), "no")
    BY DEF ForecastMonth
  <2> QED  BY <2>1, <2>2, <2>3, <2>4, TaxedIsBook DEF BooksOK, Typed
<1>6. cfg' \in Configs /\ refused' \in BOOLEAN
  BY DEF ForecastMonth, Typed, Impossible, TaxUnknown
<1>7. slips = 0 /\ slips' = 0
  <2>1. month # Horizon
    BY <1>1, ForecastAssumption
  <2> QED  BY <2>1 DEF ForecastMonth, Typed
<1>8. rows' \in [Months -> Row]
  <2>1. RowOf(month', revenue, used) \in Row
    BY <1>1, <1>3, <1>5, <1>7, RowTyped DEF BooksOK
  <2> QED  BY <1>1, <1>7, <2>1 DEF ForecastMonth, Typed
<1>9. earned' \in Int /\ paid' \in Int
  <2>1. rows'[month'].net_income \in Int /\ rows'[month'].tax_paid \in Int
    BY <1>1, <1>8 DEF Row
  <2> QED  BY <2>1 DEF ForecastMonth, Typed
<1> QED  BY <1>1, <1>3, <1>4, <1>5, <1>6, <1>7, <1>8, <1>9 DEF Typed, BalancesOK

\* What a delay rebuilds the rows from.
Delayed(from, to, amount) ==
  [rows EXCEPT ![from].wc_cash_impact = @ - amount, ![to].wc_cash_impact = @ + amount]

LEMMA DelayedRows ==
  ASSUME rows \in [Months -> Row],
         NEW from \in Months, NEW to \in Months, from # to, NEW amount \in Int
  PROVE  /\ Delayed(from, to, amount) \in [Months -> Row]
         /\ \A u \in Months :
              LET row == Delayed(from, to, amount)[u]
              IN /\ row.net_income = rows[u].net_income /\ row.tax = rows[u].tax
                 /\ row.tax_paid = rows[u].tax_paid /\ row.principal = rows[u].principal
                 /\ row.used = rows[u].used
                 /\ row.wc_cash_impact = rows[u].wc_cash_impact
                      + (IF u = to THEN amount ELSE 0) - (IF u = from THEN amount ELSE 0)
<1>1. ASSUME NEW u \in Months
      PROVE  rows[u] \in Row /\ rows[u].wc_cash_impact \in Int
  BY DEF Row
<1>2. ASSUME NEW row \in Row, NEW x \in Int
      PROVE  /\ [row EXCEPT !.wc_cash_impact = x] \in Row
             /\ [row EXCEPT !.wc_cash_impact = x].wc_cash_impact = x
             /\ [row EXCEPT !.wc_cash_impact = x].net_income = row.net_income
             /\ [row EXCEPT !.wc_cash_impact = x].tax = row.tax
             /\ [row EXCEPT !.wc_cash_impact = x].tax_paid = row.tax_paid
             /\ [row EXCEPT !.wc_cash_impact = x].principal = row.principal
             /\ [row EXCEPT !.wc_cash_impact = x].used = row.used
  BY DEF Row
<1> DEFINE moved(u) ==
      CASE u = from -> [rows[u] EXCEPT !.wc_cash_impact = @ - amount]
        [] u = to -> [rows[u] EXCEPT !.wc_cash_impact = @ + amount]
        [] OTHER -> rows[u]
<1>3. Delayed(from, to, amount) = [u \in Months |-> moved(u)]
  BY DEF Delayed
<1>4. ASSUME NEW u \in Months
      PROVE  /\ moved(u) \in Row
             /\ moved(u).net_income = rows[u].net_income /\ moved(u).tax = rows[u].tax
             /\ moved(u).tax_paid = rows[u].tax_paid /\ moved(u).principal = rows[u].principal
             /\ moved(u).used = rows[u].used
             /\ moved(u).wc_cash_impact = rows[u].wc_cash_impact
                  + (IF u = to THEN amount ELSE 0) - (IF u = from THEN amount ELSE 0)
  <2>1. CASE u = from
    <3>1. moved(u) = [rows[u] EXCEPT !.wc_cash_impact = rows[u].wc_cash_impact - amount]
      BY <2>1
    <3> HIDE DEF moved
    <3> QED  BY <1>1, <1>2, <2>1, <3>1
  <2>2. CASE u = to
    <3>1. moved(u) = [rows[u] EXCEPT !.wc_cash_impact = rows[u].wc_cash_impact + amount]
      BY <2>2
    <3> HIDE DEF moved
    <3> QED  BY <1>1, <1>2, <2>2, <3>1
  <2>3. CASE u # from /\ u # to
    BY <1>1, <2>3
  <2> QED  BY <2>1, <2>2, <2>3
<1> HIDE DEF moved
<1> QED  BY <1>3, <1>4

LEMMA DelayTyped ==
  ASSUME Typed, NEW from \in Months, NEW to \in Months, NEW amount \in Slips,
         ApplyReceiptDelay(from, to, amount)
  PROVE  Typed' /\ slips' # 0
<1>1. month' = Horizon /\ slips' = slips + 1 /\ slips \in Nat /\ slips < MaxSlips
  BY ForecastAssumption DEF ApplyReceiptDelay, Typed
<1>2. slips' \in 0..MaxSlips /\ slips' # 0
  BY <1>1, ForecastAssumption
<1>3. BalancesOK' /\ BooksOK'
  BY DEF ApplyReceiptDelay, Typed, BalancesOK, BooksOK, balances, history
<1>4. rows' \in [Months -> Row]
  <2> DEFINE opening == rows[1].ending_cash - rows[1].change_in_cash
  <2>1. Delayed(from, to, amount) \in [Months -> Row]
    BY ForecastAssumption, DelayedRows DEF ApplyReceiptDelay, Typed
  <2>2. opening \in Int
    <3>1. 1 \in Months
      BY ForecastAssumption DEF Months
    <3>2. rows[1] \in Row
      BY <3>1 DEF Typed
    <3> QED  BY <3>2 DEF Row
  <2>3. rows' = Rebuilt(Delayed(from, to, amount), opening)
    BY DEF ApplyReceiptDelay, Delayed
  <2>4. cfg \in Configs
    BY DEF Typed
  <2> HIDE DEF opening
  <2> QED  BY <2>1, <2>2, <2>3, <2>4, RebuiltRows
<1> QED  BY <1>1, <1>2, <1>3, <1>4 DEF ApplyReceiptDelay, Typed, history

LEMMA StutterTyped ==
  ASSUME Typed, UNCHANGED vars
  PROVE  Typed'
<1>1. BalancesOK' /\ BooksOK'
  BY DEF vars, Typed, BalancesOK, BooksOK, balances, history
<1> QED  BY <1>1 DEF Typed, vars, balances, history

-----------------------------------------------------------------------------
(* The chain of closing cash. *)

\* Every row's cash follows from the row and from the month before.
Chained ==
  \A u \in 1..month :
    /\ rows[u].change_in_cash = OperatingAgain(rows[u]) - cfg.capex - rows[u].principal
    /\ rows[u].ending_cash = (IF u = 1 THEN cfg.cash ELSE rows[u - 1].ending_cash)
                                + rows[u].change_in_cash

LEMMA MonthChains ==
  ASSUME Typed, Chained, NEW revenue \in Nat, NEW used \in Nat, ForecastMonth(revenue, used)
  PROVE  Chained'
<1>1. /\ month \in Nat /\ month < Horizon /\ month' = month + 1 /\ month' \in Months
      /\ cfg' = cfg /\ rows' = [rows EXCEPT ![month'] = RowOf(month', revenue, used)]
      /\ rows \in [Months -> Row]
  <2>1. month \in 0..Horizon /\ month < Horizon /\ month' = month + 1
    BY DEF Typed, ForecastMonth
  <2> QED  BY <2>1, ForecastAssumption DEF Months, ForecastMonth, Typed
<1> DEFINE row == RowOf(month', revenue, used)
<1>2. row.change_in_cash = OperatingAgain(row) - cfg.capex - row.principal
      /\ row.ending_cash = EndingCash + row.change_in_cash
  BY DEF RowOf, Operating, OperatingAgain
<1>3. EndingCash = IF month' = 1 THEN cfg.cash ELSE rows[month' - 1].ending_cash
  BY <1>1 DEF EndingCash
<1> HIDE DEF row
<1>4. ASSUME NEW u \in 1..month'
      PROVE  /\ rows'[u] = IF u = month' THEN row ELSE rows[u]
             /\ u # 1 => rows'[u - 1] = rows[u - 1]
             /\ u # month' => u \in 1..month
  <2>1. month' = month + 1 /\ month \in Nat /\ month < Horizon
    BY <1>1
  <2>2. u \in Months /\ (u # 1 => u - 1 \in Months) /\ u - 1 # month' /\ (u # month' => u \in 1..month)
    BY <2>1, ForecastAssumption DEF Months
  <2> QED  BY <1>1, <2>2 DEF row
<1>5. ASSUME NEW u \in 1..month'
      PROVE  /\ rows'[u].change_in_cash = OperatingAgain(rows'[u]) - cfg.capex - rows'[u].principal
             /\ rows'[u].ending_cash = (IF u = 1 THEN cfg.cash ELSE rows'[u - 1].ending_cash)
                                          + rows'[u].change_in_cash
  <2>1. CASE u = month'
    BY <1>2, <1>3, <1>4, <2>1
  <2>2. CASE u # month'
    <3>1. u \in 1..month /\ rows'[u] = rows[u] /\ (u # 1 => rows'[u - 1] = rows[u - 1])
      BY <1>4, <2>2
    <3> QED  BY <3>1 DEF Chained
  <2> QED  BY <2>1, <2>2
<1>6. \A r : OperatingAgain(r)' = OperatingAgain(r)
  BY <1>1 DEF OperatingAgain
<1> QED  BY <1>1, <1>5 DEF Chained, OperatingAgain

LEMMA DelayChains ==
  ASSUME Typed, Chained, NEW from \in Months, NEW to \in Months, NEW amount \in Slips,
         ApplyReceiptDelay(from, to, amount)
  PROVE  /\ Chained'
         /\ \A u \in Months :
              LET was == Delayed(from, to, amount)[u]
              IN /\ rows'[u].net_income = was.net_income /\ rows'[u].tax = was.tax
                 /\ rows'[u].used = was.used
                 /\ rows'[u].change_in_cash = OperatingAgain(was) - cfg.capex - was.principal
                 /\ rows'[u].ending_cash = (IF u = 1 THEN cfg.cash ELSE rows'[u - 1].ending_cash)
                                              + rows'[u].change_in_cash
<1>1. /\ cfg \in Configs /\ rows \in [Months -> Row] /\ month = Horizon /\ month' = month
      /\ cfg' = cfg /\ from # to /\ amount \in Int /\ 1 \in Months
  BY ForecastAssumption DEF ApplyReceiptDelay, Typed, Months
<1>2. PICK new \in [Months -> Row] : new = Delayed(from, to, amount)
  BY <1>1, DelayedRows
<1>3. rows[1].ending_cash - rows[1].change_in_cash = cfg.cash
  <2>1. rows[1].ending_cash = cfg.cash + rows[1].change_in_cash
    BY <1>1 DEF Chained, Months
  <2>2. rows[1].change_in_cash \in Int /\ cfg.cash \in Int
    <3>1. rows[1] \in Row
      BY <1>1
    <3> QED  BY <1>1, <3>1, ConfigTypes DEF Row
  <2> QED  BY <2>1, <2>2
<1>4. rows' = Rebuilt(new, cfg.cash)
  BY <1>2, <1>3 DEF ApplyReceiptDelay, Delayed
<1>5. cfg.cash \in Int
  BY <1>1, ConfigTypes
<1>6. ASSUME NEW u \in Months
      PROVE  LET row == Rebuilt(new, cfg.cash)[u]
             IN /\ row.net_income = new[u].net_income /\ row.wc_cash_impact = new[u].wc_cash_impact
                /\ row.tax = new[u].tax /\ row.tax_paid = new[u].tax_paid
                /\ row.principal = new[u].principal /\ row.used = new[u].used
                /\ row.change_in_cash = OperatingAgain(new[u]) - cfg.capex - new[u].principal
                /\ row.ending_cash = (IF u = 1 THEN cfg.cash ELSE Rebuilt(new, cfg.cash)[u - 1].ending_cash)
                                       + row.change_in_cash
  BY <1>1, <1>5, RebuiltRows
<1>7. ASSUME NEW u \in Months
      PROVE  /\ rows'[u].net_income = new[u].net_income /\ rows'[u].tax = new[u].tax
             /\ OperatingAgain(rows'[u]) = OperatingAgain(new[u])
             /\ rows'[u].principal = new[u].principal /\ rows'[u].used = new[u].used
             /\ rows'[u].change_in_cash = OperatingAgain(new[u]) - cfg.capex - new[u].principal
             /\ rows'[u].ending_cash = (IF u = 1 THEN cfg.cash ELSE rows'[u - 1].ending_cash)
                                          + rows'[u].change_in_cash
  BY <1>4, <1>6 DEF OperatingAgain
<1>8. Chained'
  BY <1>1, <1>7 DEF Chained, OperatingAgain, Months
<1> QED  BY <1>2, <1>7, <1>8

\* The cash a delay moves is down, or up, between the two months.
Moved(from, to, amount, u) ==
  (IF u >= to THEN amount ELSE 0) - (IF u >= from THEN amount ELSE 0)

LEMMA DelayMoves ==
  ASSUME Typed, Chained, NEW from \in Months, NEW to \in Months, NEW amount \in Slips,
         ApplyReceiptDelay(from, to, amount)
  PROVE  \A u \in Months :
           /\ rows'[u].ending_cash - rows[u].ending_cash = Moved(from, to, amount, u)
           /\ rows'[u].net_income = rows[u].net_income /\ rows'[u].tax = rows[u].tax
<1>1. /\ cfg \in Configs /\ rows \in [Months -> Row] /\ month = Horizon
      /\ from # to /\ amount \in Int /\ rows' \in [Months -> Row]
  BY ForecastAssumption, DelayTyped DEF ApplyReceiptDelay, Typed
<1>2. PICK new \in [Months -> Row] : new = Delayed(from, to, amount)
  BY <1>1, DelayedRows
<1>3. ASSUME NEW u \in Months
      PROVE  /\ new[u].net_income = rows[u].net_income /\ new[u].tax = rows[u].tax
             /\ new[u].tax_paid = rows[u].tax_paid /\ new[u].principal = rows[u].principal
             /\ new[u].wc_cash_impact = rows[u].wc_cash_impact
                      + (IF u = to THEN amount ELSE 0) - (IF u = from THEN amount ELSE 0)
             /\ rows'[u].change_in_cash = OperatingAgain(new[u]) - cfg.capex - new[u].principal
  <2>1. LET row == Delayed(from, to, amount)[u]
        IN /\ row.net_income = rows[u].net_income /\ row.tax = rows[u].tax
           /\ row.tax_paid = rows[u].tax_paid /\ row.principal = rows[u].principal
           /\ row.wc_cash_impact = rows[u].wc_cash_impact
                + (IF u = to THEN amount ELSE 0) - (IF u = from THEN amount ELSE 0)
    BY <1>1, DelayedRows
  <2>2. LET was == Delayed(from, to, amount)[u]
        IN rows'[u].change_in_cash = OperatingAgain(was) - cfg.capex - was.principal
    BY DelayChains
  <2> QED  BY <1>2, <2>1, <2>2
<1>4. ASSUME NEW u \in Months
      PROVE  rows'[u].change_in_cash - rows[u].change_in_cash
               = (IF u = to THEN amount ELSE 0) - (IF u = from THEN amount ELSE 0)
  <2>1. /\ rows'[u].change_in_cash = OperatingAgain(new[u]) - cfg.capex - new[u].principal
        /\ rows[u].change_in_cash = OperatingAgain(rows[u]) - cfg.capex - rows[u].principal
    BY <1>1, <1>3 DEF Chained, Months
  <2>2. /\ rows[u].net_income \in Int /\ rows[u].wc_cash_impact \in Int
        /\ rows[u].tax \in Int /\ rows[u].tax_paid \in Int /\ rows[u].principal \in Int
    <3>1. rows[u] \in Row
      BY <1>1
    <3> QED  BY <3>1 DEF Row
  <2>3. cfg.da \in Int /\ cfg.capex \in Int
    BY <1>1, ConfigTypes
  <2>4. OperatingAgain(new[u]) - OperatingAgain(rows[u])
          = (IF u = to THEN amount ELSE 0) - (IF u = from THEN amount ELSE 0)
    <3>0. (IF u = to THEN amount ELSE 0) - (IF u = from THEN amount ELSE 0) \in Int
      BY <1>1
    <3>1. PICK d \in Int : d = (IF u = to THEN amount ELSE 0) - (IF u = from THEN amount ELSE 0)
      BY <3>0
    <3>2. new[u].wc_cash_impact = rows[u].wc_cash_impact + d
      BY <1>1, <1>3, <2>2, <3>1
    <3>3. new[u] \in Row /\ rows[u] \in Row
      BY <1>1
    <3> QED  BY <1>1, <1>3, <3>1, <3>2, <3>3, OperatingShifts
  <2>5. OperatingAgain(new[u]) \in Int /\ OperatingAgain(rows[u]) \in Int
    <3>1. new[u] \in Row /\ rows[u] \in Row
      BY <1>1
    <3> QED  BY <1>1, <3>1, OperatingAgainInt
  <2> QED  BY <1>1, <1>3, <2>1, <2>2, <2>3, <2>4, <2>5
<1>5. ASSUME NEW u \in Months
      PROVE  /\ rows[u].ending_cash \in Int /\ rows'[u].ending_cash \in Int
             /\ rows[u].change_in_cash \in Int /\ rows'[u].change_in_cash \in Int
             /\ rows[u].ending_cash = (IF u = 1 THEN cfg.cash ELSE rows[u - 1].ending_cash)
                                          + rows[u].change_in_cash
             /\ rows'[u].ending_cash = (IF u = 1 THEN cfg.cash ELSE rows'[u - 1].ending_cash)
                                          + rows'[u].change_in_cash
  <2>1. rows[u] \in Row /\ rows'[u] \in Row
    BY <1>1
  <2>2. /\ rows[u].ending_cash \in Int /\ rows'[u].ending_cash \in Int
        /\ rows[u].change_in_cash \in Int /\ rows'[u].change_in_cash \in Int
    BY <2>1 DEF Row
  <2> QED  BY <1>1, <2>2, DelayChains DEF Chained, Months
<1> DEFINE Shifted(u) == rows'[u].ending_cash - rows[u].ending_cash = Moved(from, to, amount, u)
           T == {n \in Nat : \A u \in Months : u = n + 1 => Shifted(u)}
<1>6. ASSUME NEW u \in Months, u = 1 \/ Shifted(u - 1)
      PROVE  Shifted(u)
  <2>1. u \in Int /\ from \in Int /\ to \in Int /\ u >= 1 /\ from >= 1 /\ to >= 1
    BY DEF Months
  <2>2. CASE u = 1
    <3>1. cfg.cash \in Int
      BY <1>1, ConfigTypes
    <3>2. rows'[u].ending_cash - rows[u].ending_cash = rows'[u].change_in_cash - rows[u].change_in_cash
      BY <1>5, <2>2, <3>1
    <3>3. (u >= to <=> u = to) /\ (u >= from <=> u = from)
      BY <2>1, <2>2
    <3> QED  BY <1>1, <1>4, <3>2, <3>3 DEF Moved
  <2>3. CASE u # 1
    <3>1. u - 1 \in Months
      BY <2>1, <2>3, ForecastAssumption DEF Months
    <3>2. rows[u - 1].ending_cash \in Int /\ rows'[u - 1].ending_cash \in Int
      BY <1>5, <3>1
    <3>3. rows'[u - 1].ending_cash - rows[u - 1].ending_cash = Moved(from, to, amount, u - 1)
      BY <1>6, <2>3
    <3> QED  BY <1>1, <1>4, <1>5, <2>1, <2>3, <3>2, <3>3 DEF Moved
  <2> QED  BY <2>2, <2>3
<1>7. 0 \in T
  <2>1. ASSUME NEW u \in Months, u = 1
        PROVE  Shifted(u)
    BY <1>6, <2>1
  <2> HIDE DEF Shifted
  <2> QED  BY <2>1
<1>8. ASSUME NEW n \in Nat, n \in T
      PROVE  n + 1 \in T
  <2>1. ASSUME NEW u \in Months, u = (n + 1) + 1
        PROVE  Shifted(u)
    <3> HIDE DEF Shifted
    <3>1. n + 1 \in Months /\ u - 1 = n + 1
      BY <2>1, ForecastAssumption DEF Months
    <3>2. Shifted(u - 1)
      BY <1>8, <3>1
    <3> QED  BY <1>6, <3>2
  <2> HIDE DEF Shifted
  <2> QED  BY <2>1
<1>9. \A n \in Nat : n \in T
  <2> HIDE DEF T
  <2> QED  BY <1>7, <1>8, EveryNat
<1>10. \A u \in Months : Shifted(u)
  <2>1. \A u \in Months : u - 1 \in Nat /\ u = (u - 1) + 1
    BY DEF Months
  <2> HIDE DEF Shifted
  <2> QED  BY <1>9, <2>1
<1>11. \A u \in Months : rows'[u].net_income = rows[u].net_income /\ rows'[u].tax = rows[u].tax
  BY <1>2, <1>3, DelayChains
<1> QED  BY <1>10, <1>11

-----------------------------------------------------------------------------
(* Sales, collected or written off. *)

LEMMA ExactShare ==
  ASSUME NEW x \in Int, NEW p \in Nat, (x * p) % 100 = 0
  PROVE  100 * Share(x, p) = x * p
<1>1. PICK y \in Int : y = x * p
  OBVIOUS
<1>2. 100 * (y \div 100) = y
  BY <1>1
<1> QED  BY <1>1, <1>2 DEF Share

\* What a sale of month t adds to the receipts of each month.
SpreadOver(t, shares, x) ==
  [u \in 1..(Horizon + MaxLag) |-> IF u >= t /\ u - t <= MaxLag THEN Share(x, shares[u - t]) ELSE 0]

LEMMA SpreadInts ==
  ASSUME NEW t \in Months, NEW shares \in [0..MaxLag -> Nat], NEW x \in Int
  PROVE  \A u \in 1..(Horizon + MaxLag) : SpreadOver(t, shares, x)[u] \in Int
<1>1. ASSUME NEW u \in 1..(Horizon + MaxLag), u >= t, u - t <= MaxLag
      PROVE  Share(x, shares[u - t]) \in Int
  <2>1. u - t \in 0..MaxLag
    BY <1>1, ForecastAssumption DEF Months
  <2> QED  BY <2>1, ShareInt
<1> QED  BY <1>1 DEF SpreadOver

LEMMA TimesSum ==
  ASSUME NEW x \in Int, NEW a \in Int, NEW b \in Int
  PROVE  x * (a + b) = x * a + x * b
OBVIOUS

\* All of a sale that the profile collects is collected by the last month.
LEMMA SpreadTotal ==
  ASSUME NEW t \in Months, NEW shares \in [0..MaxLag -> Nat], NEW x \in Int,
         \A u \in 0..MaxLag : (x * shares[u]) % 100 = 0
  PROVE  100 * SumFunctionOnSet(SpreadOver(t, shares, x), t..(Horizon + MaxLag))
           = x * SumFunction(shares)
<1> DEFINE d == SpreadOver(t, shares, x)
           end == Horizon + MaxLag
           Reached(n) == 100 * SumFunctionOnSet(d, t..(t + n))
                           = x * SumFunctionOnSet(shares, 0..Least(n, MaxLag))
           T == {n \in Nat : t + n <= end => Reached(n)}
<1>1. /\ t \in Nat /\ t >= 1 /\ t <= Horizon /\ Horizon \in Nat /\ MaxLag \in Nat
      /\ end \in Nat
  BY ForecastAssumption DEF Months
<1>2. \A u \in 1..end : d[u] \in Int
  BY SpreadInts
<1>3. ASSUME NEW n \in Nat, t + n <= end
      PROVE  /\ d[t + n] = IF n <= MaxLag THEN Share(x, shares[n]) ELSE 0
             /\ d[t + n] \in Int
  <2>1. t + n \in 1..end /\ t + n >= t /\ (t + n) - t = n
    BY <1>1, <1>3
  <2>2. d[t + n] = IF t + n >= t /\ (t + n) - t <= MaxLag THEN Share(x, shares[(t + n) - t]) ELSE 0
    BY <2>1 DEF SpreadOver
  <2> QED  BY <1>2, <2>1, <2>2
<1>4. ASSUME NEW n \in Nat, n <= MaxLag
      PROVE  shares[n] \in Nat /\ 100 * Share(x, shares[n]) = x * shares[n] /\ Share(x, shares[n]) \in Int
  <2>1. n \in 0..MaxLag
    BY <1>1, <1>4
  <2> QED  BY <2>1, ExactShare, ShareInt
<1>5. ASSUME NEW n \in Nat, n <= MaxLag
      PROVE  /\ SumFunctionOnSet(shares, 0..n) \in Int
             /\ \A i \in 0..n : shares[i] \in Int
  <2>1. \A i \in 0..n : shares[i] \in Int
    BY <1>1, <1>5
  <2>2. IsFiniteSet(0..n)
    BY FS_Interval
  <2> QED  BY <2>1, <2>2, SumInt
<1> HIDE DEF d, end
<1>6. ASSUME NEW n \in Nat, t + n <= end
      PROVE  /\ SumFunctionOnSet(d, t..(t + n)) \in Int
             /\ \A u \in t..(t + n) : d[u] \in Int
  <2>1. \A u \in t..(t + n) : u \in 1..end
    BY <1>1, <1>6
  <2>2. IsFiniteSet(t..(t + n))
    BY <1>1, FS_Interval
  <2> QED  BY <1>2, <2>1, <2>2, SumInt
<1>7. 0 \in T
  <2>1. t + 0 <= end /\ 0 <= MaxLag /\ t + 0 = t /\ t..(t + 0) = {t} /\ Least(0, MaxLag) = 0 /\ 0..0 = {0}
    BY <1>1 DEF Least, end
  <2>2. d[t] = Share(x, shares[0]) /\ d[t] \in Int
    BY <1>1, <1>3, <2>1
  <2>3. shares[0] \in Nat /\ 100 * Share(x, shares[0]) = x * shares[0]
    BY <1>1, <1>4
  <2>4. SumFunctionOnSet(d, {t}) = d[t] /\ SumFunctionOnSet(shares, {0}) = shares[0]
    <3>1. shares[0] \in Int
      BY <2>3
    <3>2. SumFunctionOnSet(shares, {0}) = shares[0]
      BY <3>1, SumOfOne
    <3>3. d[t] \in Int
      BY <2>2
    <3>4. SumFunctionOnSet(d, {t}) = d[t]
      BY <3>3, SumOfOne
    <3> QED  BY <3>2, <3>4
  <2> QED  BY <2>1, <2>2, <2>3, <2>4
<1>8. ASSUME NEW n \in Nat, n \in T
      PROVE  n + 1 \in T
  <2> SUFFICES ASSUME t + (n + 1) <= end
               PROVE  Reached(n + 1)
    OBVIOUS
  <2>1. t + n <= end /\ t + n \in Int /\ t + (n + 1) = (t + n) + 1 /\ n + 1 \in Nat
    BY <1>1
  <2>2. Reached(n)
    BY <1>8, <2>1
  <2>3. SumFunctionOnSet(d, t..(t + (n + 1))) = SumFunctionOnSet(d, t..(t + n)) + d[t + (n + 1)]
    <3>1. \A u \in t..((t + n) + 1) : d[u] \in Int
      BY <1>6, <2>1
    <3>2. t <= (t + n) + 1
      BY <1>1
    <3> QED  BY <1>1, <2>1, <3>1, <3>2, SumLast
  <2>4. SumFunctionOnSet(d, t..(t + n)) \in Int
    BY <1>6, <2>1
  <2>5. CASE n + 1 <= MaxLag
    <3>1. Least(n, MaxLag) = n /\ Least(n + 1, MaxLag) = n + 1 /\ n <= MaxLag
      BY <1>1, <2>5 DEF Least
    <3>2. SumFunctionOnSet(shares, 0..(n + 1)) = SumFunctionOnSet(shares, 0..n) + shares[n + 1]
      <4>1. \A i \in 0..(n + 1) : shares[i] \in Int
        BY <1>5, <2>1, <2>5
      <4>2. 0 <= n + 1 /\ n \in Int /\ 0 \in Int
        OBVIOUS
      <4> HIDE DEF Reached
      <4> QED  BY <4>1, <4>2, SumLast
    <3>3. SumFunctionOnSet(shares, 0..n) \in Int
      BY <1>5, <3>1
    <3>4. /\ d[t + (n + 1)] = Share(x, shares[n + 1])
          /\ shares[n + 1] \in Int /\ Share(x, shares[n + 1]) \in Int
          /\ 100 * Share(x, shares[n + 1]) = x * shares[n + 1]
      BY <1>3, <1>4, <2>1, <2>5
    <3>5. x * SumFunctionOnSet(shares, 0..(n + 1))
            = x * SumFunctionOnSet(shares, 0..n) + x * shares[n + 1]
      BY <3>2, <3>3, <3>4, TimesSum
    <3> QED  BY <2>2, <2>3, <2>4, <3>1, <3>4, <3>5
  <2>6. CASE ~(n + 1 <= MaxLag)
    <3>1. Least(n + 1, MaxLag) = Least(n, MaxLag)
      BY <1>1, <2>6 DEF Least
    <3>2. d[t + (n + 1)] = 0
      BY <1>3, <2>1, <2>6
    <3> QED  BY <2>2, <2>3, <2>4, <3>1, <3>2
  <2> QED  BY <2>5, <2>6
<1>9. \A n \in Nat : n \in T
  <2> HIDE DEF T
  <2> QED  BY <1>7, <1>8, EveryNat
<1>10. Reached(end - t)
  <2>1. end - t \in Nat /\ t + (end - t) <= end
    BY <1>1 DEF end
  <2> QED  BY <1>9, <2>1
<1>11. t + (end - t) = end /\ Least(end - t, MaxLag) = MaxLag
  BY <1>1 DEF Least, end
<1>12. SumFunction(shares) = SumFunctionOnSet(shares, 0..MaxLag)
  BY DEF SumFunction
<1> QED  BY <1>10, <1>11, <1>12 DEF d, end

LEMMA Netted ==
  ASSUME NEW owed \in Int, NEW provided \in Int, NEW sale \in Int, NEW bad \in Int,
         NEW a \in Int, NEW b \in Int, NEW a2 \in Int, NEW b2 \in Int,
         NEW in \in Int, NEW off \in Int,
         in + a2 = a + (sale - bad), off + b2 = b + bad, owed - provided = a, provided = b
  PROVE  /\ (owed + sale - in - off) - (provided + bad - off) = a2
         /\ provided + bad - off = b2
OBVIOUS

LEMMA MonthSettles ==
  ASSUME Typed, SalesSettledOnce, NEW sale \in Sales, ForecastMonth(sale.revenue, sale.cost)
  PROVE  SalesSettledOnce'
<1> SUFFICES ASSUME cfg.basis = "profile"
             PROVE  SalesSettledOnce'
  BY DEF ForecastMonth, SalesSettledOnce
<1> DEFINE end == Horizon + MaxLag
           bad == BadDebt(sale.revenue)
<1>0. \A i \in 0..MaxLag : cfg.collection_profile[i] \in Int
  <2> SUFFICES ASSUME NEW i \in 0..MaxLag
               PROVE  cfg.collection_profile[i] \in Nat
    OBVIOUS
  <2> QED  BY ConfigTypes DEF Typed
<1>1. PICK t \in Months : t = month + 1 /\ month' = t
  <2>1. month \in 0..Horizon /\ month < Horizon /\ month' = month + 1
    BY DEF Typed, ForecastMonth
  <2> QED  BY <2>1, ForecastAssumption DEF Months
<1>2. /\ cfg \in Configs /\ cfg' = cfg /\ sale.revenue \in Nat /\ sale.cost \in Nat
      /\ cfg.collection_profile \in [0..MaxLag -> Nat] /\ cfg.bad_debt_share \in Nat
      /\ cfg.write_off_after \in 0..MaxLag
  BY ForecastAssumption, ConfigTypes DEF Typed, ForecastMonth
<1>3. /\ t \in Int /\ t >= 1 /\ t <= Horizon /\ Horizon \in Nat /\ MaxLag \in Nat /\ end \in Int /\ t <= end
      /\ IsFiniteSet(t..end) /\ t..end \subseteq 1..end
  <2>1. /\ t \in Int /\ t >= 1 /\ t <= Horizon /\ Horizon \in Nat /\ MaxLag \in Nat
        /\ end \in Int /\ t <= end
    BY ForecastAssumption DEF Months
  <2>2. IsFiniteSet(t..end)
    BY <2>1, FS_Interval
  <2> QED  BY <2>1, <2>2
<1>4. WorkingCapital(t, sale.revenue, sale.cost)
  BY <1>1 DEF ForecastMonth
<1>5. /\ gross \in Int /\ allowance \in Int /\ bad \in Nat
  BY <1>2, BadDebtNat DEF Typed, BalancesOK
<1>6. PICK rec \in Spreads, rec2 \in Spreads : rec = receipts /\ rec2 = receipts'
  <2>1. month < Horizon /\ month' = month + 1
    BY DEF ForecastMonth
  <2> QED  BY <1>1, <1>2, <1>4, <2>1, WorkingCapitalTyped DEF Typed
<1>7. PICK off \in [1..end -> Nat], off2 \in [1..end -> Nat] : off = write_offs /\ off2 = write_offs'
  <2>1. month < Horizon /\ month' = month + 1
    BY DEF ForecastMonth
  <2> QED  BY <1>1, <1>2, <1>4, <2>1, WorkingCapitalTyped DEF Typed
<1>8. \A u \in 1..end : rec[u] \in Int /\ rec2[u] \in Int /\ off[u] \in Int /\ off2[u] \in Int
  BY DEF Spreads
<1> HIDE DEF end, bad
<1>9. PICK d : d = SpreadOver(t, cfg.collection_profile, sale.revenue)
  OBVIOUS
<1>10. SumFunctionOnSet(rec2, t..end) = SumFunctionOnSet(rec, t..end) + (sale.revenue - bad)
  <2>1. 100 * SumFunctionOnSet(d, t..end) = sale.revenue * SumFunction(cfg.collection_profile)
    BY <1>2, <1>9, SpreadTotal, UnitAssumption DEF end
  <2>2. 100 * bad = sale.revenue * cfg.bad_debt_share
    <3>1. (sale.revenue * cfg.bad_debt_share) % 100 = 0 /\ sale.revenue \in Int
      BY <1>2, UnitAssumption
    <3> QED  BY <1>2, <3>1, ExactShare DEF bad, BadDebt
  <2>3. SumFunction(cfg.collection_profile) + cfg.bad_debt_share = 100
    BY <1>2, ProfileAssumption
  <2>4. \A u \in 1..end : d[u] \in Int
    BY <1>2, <1>9, SpreadInts DEF end
  <2>5. SumFunctionOnSet(d, t..end) \in Int
    BY <1>3, <2>4, SumInt
  <2>6. SumFunction(cfg.collection_profile) \in Int
    <3>1. IsFiniteSet(0..MaxLag)
      BY <1>3, FS_Interval
    <3>2. DOMAIN cfg.collection_profile = 0..MaxLag
      BY <1>2
    <3> QED  BY <1>0, <3>1, <3>2, SumInt DEF SumFunction
  <2>7. sale.revenue * SumFunction(cfg.collection_profile) + sale.revenue * cfg.bad_debt_share
          = sale.revenue * 100
    <3>1. sale.revenue \in Int /\ cfg.bad_debt_share \in Int
      BY <1>2
    <3> QED  BY <2>3, <2>6, <3>1, TimesSum
  <2>8. SumFunctionOnSet(d, t..end) = sale.revenue - bad
    <3>1. sale.revenue \in Int /\ bad \in Int
      BY <1>2, <1>5
    <3>2. 100 * SumFunctionOnSet(d, t..end) + 100 * bad = sale.revenue * 100
      BY <2>1, <2>2, <2>7
    <3> QED  BY <2>5, <3>1, <3>2
  <2>9. \A u \in 1..end : rec2[u] = rec[u] + d[u]
    <3>1. rec2 = Spread(t, cfg.collection_profile, sale.revenue)
      BY <1>4, <1>6 DEF WorkingCapital
    <3>2. DOMAIN rec = 1..end
      BY DEF Spreads, end
    <3>3. rec2 = [u \in 1..end |-> rec[u] + IF u >= t /\ u - t <= MaxLag
                                             THEN Share(sale.revenue, cfg.collection_profile[u - t]) ELSE 0]
      BY <1>6, <3>1, <3>2 DEF Spread
    <3> QED  BY <1>9, <3>3 DEF SpreadOver, end
  <2>10. SumFunctionOnSet(rec2, t..end) = SumFunctionOnSet(rec, t..end) + SumFunctionOnSet(d, t..end)
    <3>1. \A u \in t..end : rec[u] \in Int /\ d[u] \in Int /\ rec2[u] = rec[u] + d[u]
      BY <1>3, <1>8, <2>4, <2>9
    <3> QED  BY <1>3, <3>1, SumPlus
  <2> QED  BY <2>8, <2>10
<1>11. SumFunctionOnSet(off2, t..end) = SumFunctionOnSet(off, t..end) + bad
  <2> DEFINE k == t + cfg.write_off_after
             d2 == [u \in 1..end |-> IF u = k THEN bad ELSE 0]
  <2>1. k \in t..end /\ k \in 1..end
    BY <1>2, <1>3 DEF end
  <2>2. \A u \in t..end : off[u] \in Int /\ d2[u] \in Int /\ off2[u] = off[u] + d2[u]
    <3>1. off2 = [off EXCEPT ![k] = @ + bad]
      BY <1>4, <1>7 DEF WorkingCapital, bad
    <3> HIDE DEF k
    <3> QED  BY <1>3, <1>5, <1>8, <2>1, <3>1
  <2>3. d2[k] = bad /\ \A u \in (t..end) \ {k} : d2[u] = 0
    BY <1>3, <2>1
  <2> HIDE DEF d2, k
  <2>4. SumFunctionOnSet(d2, t..end) = d2[k] + SumFunctionOnSet(d2, (t..end) \ {k})
    BY <1>3, <2>1, <2>2, SumTaken
  <2>5. SumFunctionOnSet(d2, (t..end) \ {k}) = 0
    <3>1. IsFiniteSet((t..end) \ {k})
      BY <1>3, FS_RemoveElement
    <3> QED  BY <2>3, <3>1, SumOfZeros
  <2>6. SumFunctionOnSet(off2, t..end) = SumFunctionOnSet(off, t..end) + SumFunctionOnSet(d2, t..end)
    BY <1>3, <2>2, SumPlus
  <2> QED  BY <1>5, <2>3, <2>4, <2>5, <2>6
<1>12. /\ SumFunctionOnSet(rec2, t..end) = rec2[t] + SumFunctionOnSet(rec2, (t + 1)..end)
       /\ SumFunctionOnSet(off2, t..end) = off2[t] + SumFunctionOnSet(off2, (t + 1)..end)
  <2>1. \A u \in t..end : rec2[u] \in Int /\ off2[u] \in Int
    BY <1>3, <1>8
  <2> QED  BY <1>3, <2>1, SumFirst
<1>13. /\ SumFunctionOnSet(rec, t..end) \in Int /\ SumFunctionOnSet(off, t..end) \in Int
       /\ SumFunctionOnSet(rec2, (t + 1)..end) \in Int /\ SumFunctionOnSet(off2, (t + 1)..end) \in Int
       /\ rec2[t] \in Int /\ off2[t] \in Int
  <2>1. t \in 1..end /\ (t + 1)..end \subseteq 1..end
    BY <1>3
  <2>2. IsFiniteSet((t + 1)..end) /\ IsFiniteSet(t..end)
    BY <1>3, FS_Interval
  <2>3. /\ \A u \in t..end : rec[u] \in Int /\ off[u] \in Int
        /\ \A u \in (t + 1)..end : rec2[u] \in Int /\ off2[u] \in Int
    BY <1>3, <1>8, <2>1
  <2>4. SumFunctionOnSet(rec, t..end) \in Int /\ SumFunctionOnSet(off, t..end) \in Int
    BY <2>2, <2>3, SumInt
  <2>5. SumFunctionOnSet(rec2, (t + 1)..end) \in Int /\ SumFunctionOnSet(off2, (t + 1)..end) \in Int
    BY <2>2, <2>3, SumInt
  <2> QED  BY <1>8, <2>1, <2>4, <2>5
<1>14. /\ gross' = gross + sale.revenue - rec2[t] - off2[t]
       /\ allowance' = allowance + bad - off2[t]
  BY <1>4, <1>6, <1>7 DEF WorkingCapital, bad
<1>15. /\ gross - allowance = SumFunctionOnSet(rec, t..end)
       /\ allowance = SumFunctionOnSet(off, t..end)
  BY <1>1, <1>6, <1>7 DEF SalesSettledOnce, Later, end
<1>16. /\ gross' - allowance' = SumFunctionOnSet(rec2, (t + 1)..end)
       /\ allowance' = SumFunctionOnSet(off2, (t + 1)..end)
  <2> DEFINE A == SumFunctionOnSet(rec, t..end)
             B == SumFunctionOnSet(off, t..end)
             A2 == SumFunctionOnSet(rec2, (t + 1)..end)
             B2 == SumFunctionOnSet(off2, (t + 1)..end)
  <2>1. sale.revenue \in Int /\ A \in Int /\ B \in Int /\ A2 \in Int /\ B2 \in Int
    BY <1>2, <1>13
  <2>2. rec2[t] + A2 = A + (sale.revenue - bad) /\ off2[t] + B2 = B + bad
    BY <1>10, <1>11, <1>12
  <2>3. gross - allowance = A /\ allowance = B
    BY <1>15
  <2> HIDE DEF A, B, A2, B2
  <2>4. rec2[t] \in Int /\ off2[t] \in Int /\ bad \in Int
    BY <1>5, <1>13
  <2>5. /\ (gross + sale.revenue - rec2[t] - off2[t]) - (allowance + bad - off2[t]) = A2
        /\ allowance + bad - off2[t] = B2
    <3> DEFINE in == rec2[t]
               off1 == off2[t]
               x == sale.revenue
    <3>1. /\ gross \in Int /\ allowance \in Int /\ x \in Int /\ bad \in Int
          /\ A \in Int /\ B \in Int /\ A2 \in Int /\ B2 \in Int /\ in \in Int /\ off1 \in Int
          /\ in + A2 = A + (x - bad) /\ off1 + B2 = B + bad /\ gross - allowance = A /\ allowance = B
      BY <1>5, <2>1, <2>2, <2>3, <2>4
    <3> HIDE DEF in, off1, x
    <3>2. (gross + x - in - off1) - (allowance + bad - off1) = A2 /\ allowance + bad - off1 = B2
      BY <3>1, Netted
    <3> QED  BY <3>2 DEF in, off1, x
  <2> QED  BY <1>14, <2>5 DEF A2, B2
<1> QED  BY <1>1, <1>6, <1>7, <1>16 DEF SalesSettledOnce, Later, end

LEMMA InitSettles ==
  ASSUME Init
  PROVE  SalesSettledOnce
<1> SUFFICES ASSUME cfg.basis = "profile"
             PROVE  SalesSettledOnce
  BY DEF SalesSettledOnce
<1> DEFINE end == Horizon + MaxLag
<1>1. /\ cfg \in Configs /\ cfg.opening_profile \in [0..MaxLag -> Nat] /\ cfg.ar \in Int
  BY ConfigTypes DEF Init
<1>2. 1 \in Months /\ Later = 1..end /\ IsFiniteSet(1..end)
  BY ForecastAssumption, FS_Interval DEF Init, Months, Later
<1>3. receipts = SpreadOver(1, cfg.opening_profile, cfg.ar)
  BY DEF Init, SpreadOver
<1>4. 100 * SumFunctionOnSet(receipts, Later) = cfg.ar * SumFunction(cfg.opening_profile)
  BY <1>1, <1>2, <1>3, SpreadTotal, UnitAssumption
<1>5. SumFunction(cfg.opening_profile) = 100
  BY <1>1, ProfileAssumption
<1>6. SumFunctionOnSet(receipts, Later) \in Int
  <2>1. \A u \in 1..end : receipts[u] \in Int
    BY <1>1, <1>2, <1>3, SpreadInts
  <2> QED  BY <1>2, <2>1, SumInt
<1>7. SumFunctionOnSet(receipts, Later) = cfg.ar
  BY <1>1, <1>4, <1>5, <1>6
<1>8. SumFunctionOnSet(write_offs, Later) = 0
  <2>1. \A u \in 1..end : write_offs[u] = 0
    BY DEF Init
  <2> QED  BY <1>2, <2>1, SumOfZeros
<1> QED  BY <1>1, <1>7, <1>8 DEF Init, SalesSettledOnce

-----------------------------------------------------------------------------
(* Replenished stock. *)

\* What stock month k set out with: the opening stock, or the month's target.
Level(k) == IF k = 0 THEN cfg.inventory ELSE Days(rows[k].used, cfg.dio_days)

\* Stock is the highest of these that is left, whatever month it was set.
StockInv ==
  cfg.stock = "replenishment" =>
     /\ \E k \in 0..month : inventory = Level(k) - UsedAfter(k)
     /\ \A k \in 0..month : Level(k) - UsedAfter(k) <= inventory

LEMMA LevelInt ==
  ASSUME Typed, NEW k \in 0..month
  PROVE  Level(k) \in Int /\ UsedAfter(k) \in Int
<1>1. cfg.inventory \in Int /\ cfg.dio_days \in Nat /\ month \in Nat /\ month <= Horizon
  BY ConfigTypes, ForecastAssumption DEF Typed
<1>2. \A u \in Months : rows[u].used \in Int
  BY DEF Typed, Row
<1>3. Level(k) \in Int
  <2>1. CASE k = 0
    BY <1>1, <2>1 DEF Level
  <2>2. CASE k # 0
    <3>1. k \in Months
      BY <1>1, <2>2, ForecastAssumption DEF Months
    <3>2. rows[k].used * cfg.dio_days \in Int
      BY <1>1, <1>2, <3>1
    <3> QED  BY <2>2, <3>2 DEF Level, Days
  <2> QED  BY <2>1, <2>2
<1>4. UsedAfter(k) \in Int
  <2> DEFINE g == [u \in Months |-> rows[u].used]
  <2>1. \A u \in (k + 1)..month : u \in Months
    BY <1>1, ForecastAssumption DEF Months
  <2>2. \A u \in (k + 1)..month : g[u] \in Int
    BY <1>2, <2>1
  <2>3. IsFiniteSet((k + 1)..month)
    BY <1>1, FS_Interval
  <2> HIDE DEF g
  <2>4. SumFunctionOnSet(g, (k + 1)..month) \in Int
    BY <2>2, <2>3, SumInt
  <2> QED  BY <2>4 DEF UsedAfter, g
<1> QED  BY <1>3, <1>4

\* A month uses what it sells, and nothing it sold before changes.
LEMMA MonthUses ==
  ASSUME Typed, NEW revenue \in Nat, NEW used \in Nat, ForecastMonth(revenue, used),
         NEW t, t = month + 1
  PROVE  /\ \A k \in 0..month : Level(k)' = Level(k) /\ UsedAfter(k)' = UsedAfter(k) + used
         /\ Level(t)' = Days(used, cfg.dio_days) /\ UsedAfter(t)' = 0
<1>1. t \in Months /\ month' = t
  <2>1. month \in 0..Horizon /\ month < Horizon /\ month' = month + 1
    BY DEF Typed, ForecastMonth
  <2> QED  BY <2>1, ForecastAssumption DEF Months
<1>2. /\ month \in Nat /\ t \in Int /\ t >= 1 /\ t <= Horizon /\ Horizon \in Nat
      /\ cfg' = cfg /\ rows \in [Months -> Row] /\ rows' \in [Months -> Row]
  <2>1. Typed'
    BY ForecastMonthTyped
  <2>2. month \in Nat /\ t \in Int /\ t >= 1 /\ t <= Horizon /\ Horizon \in Nat
    BY <1>1, ForecastAssumption DEF Typed, Months
  <2> QED  BY <2>1, <2>2 DEF Typed, ForecastMonth
<1>3. PICK g \in [Months -> Int], g2 \in [Months -> Int] :
         g = [u \in Months |-> rows[u].used] /\ g2 = [u \in Months |-> rows'[u].used]
  <2>1. \A u \in Months : rows[u].used \in Int /\ rows'[u].used \in Int
    BY <1>2 DEF Row
  <2> QED  BY <2>1
<1>4. g2[t] = used /\ rows'[t].used = used
  <2>1. rows' = [rows EXCEPT ![t] = RowOf(t, revenue, used)]
    BY <1>1 DEF ForecastMonth
  <2>2. RowOf(t, revenue, used).used = used
    BY DEF RowOf
  <2> HIDE DEF RowOf
  <2>3. rows'[t] = RowOf(t, revenue, used)
    BY <1>1, <1>2, <2>1
  <2>4. g2[t] = rows'[t].used
    BY <1>1, <1>3
  <2> QED  BY <2>2, <2>3, <2>4
<1>5. \A u \in Months : u # t => rows'[u] = rows[u] /\ g2[u] = g[u]
  <2>1. rows' = [rows EXCEPT ![t] = RowOf(t, revenue, used)]
    BY <1>1 DEF ForecastMonth
  <2>2. \A u \in Months : u # t => rows'[u] = rows[u]
    BY <1>2, <2>1
  <2> QED  BY <1>3, <2>2
<1>6. \A k : UsedAfter(k) = SumFunctionOnSet(g, (k + 1)..month)
             /\ UsedAfter(k)' = SumFunctionOnSet(g2, (k + 1)..t)
  BY <1>1, <1>3 DEF UsedAfter
<1>7. ASSUME NEW k \in 0..month
      PROVE  Level(k)' = Level(k) /\ UsedAfter(k)' = UsedAfter(k) + used
  <2>1. k \in Int /\ k + 1 <= month + 1 /\ k + 1 >= 1
    BY <1>2
  <2>2. Level(k)' = Level(k)
    <3>1. k # 0 => k \in Months /\ k # t
      BY <1>1, <1>2 DEF Months
    <3> QED  BY <1>2, <1>5, <3>1 DEF Level
  <2>3. SumFunctionOnSet(g2, (k + 1)..(month + 1)) = SumFunctionOnSet(g2, (k + 1)..month) + g2[month + 1]
    <3>1. \A u \in (k + 1)..(month + 1) : u \in Months
      BY <1>1, <1>2, <2>1 DEF Months
    <3>2. \A u \in (k + 1)..(month + 1) : g2[u] \in Int
      BY <3>1
    <3>3. k + 1 \in Int /\ month \in Int
      BY <1>2, <2>1
    <3> QED  BY <2>1, <3>2, <3>3, SumLast
  <2>4. SumFunctionOnSet(g2, (k + 1)..month) = SumFunctionOnSet(g, (k + 1)..month)
    <3>1. \A u \in (k + 1)..month : u \in Months /\ u # t
      BY <1>1, <1>2, <2>1 DEF Months
    <3>2. \A u \in (k + 1)..month : g[u] \in Int /\ g2[u] = g[u]
      BY <1>5, <3>1
    <3>3. IsFiniteSet((k + 1)..month)
      BY <1>2, <2>1, FS_Interval
    <3> QED  BY <3>2, <3>3, SumSame
  <2> QED  BY <1>1, <1>4, <1>6, <2>2, <2>3, <2>4
<1>8. Level(t)' = Days(used, cfg.dio_days)
  BY <1>2, <1>4 DEF Level
<1>9. UsedAfter(t)' = 0
  <2>1. (t + 1)..t = {}
    BY <1>2
  <2> QED  BY <1>6, <2>1, SumOfNone
<1> QED  BY <1>1, <1>7, <1>8, <1>9

LEMMA MonthKeepsStock ==
  ASSUME Typed, StockInv, NEW revenue \in Nat, NEW used \in Nat, ForecastMonth(revenue, used)
  PROVE  StockInv'
<1> SUFFICES ASSUME cfg.stock = "replenishment"
             PROVE  /\ \E k \in 0..month' : inventory' = Level(k)' - UsedAfter(k)'
                    /\ \A k \in 0..month' : Level(k)' - UsedAfter(k)' <= inventory'
  BY DEF ForecastMonth, StockInv
<1> DEFINE target == Days(used, cfg.dio_days)
<1>1. month \in Nat /\ month' = month + 1 /\ inventory \in Int
  BY ForecastAssumption DEF Typed, BalancesOK, ForecastMonth
<1> PICK t \in Nat : t = month + 1
  BY <1>1
<1>2. target \in Int
  <2>1. cfg.dio_days \in Nat
    BY ConfigTypes DEF Typed
  <2>2. target \in Nat
    BY <2>1, DaysNat
  <2> HIDE DEF target
  <2> QED  BY <2>2
<1>3. inventory' = inventory + Pos(target - inventory + used) - used
  BY DEF ForecastMonth, WorkingCapital, Stock, Bought
<1> HIDE DEF target
<1>4. /\ inventory' = inventory - used \/ inventory' = target
      /\ inventory' >= inventory - used /\ inventory' >= target /\ inventory' \in Int
  BY <1>1, <1>2, <1>3 DEF Pos
<1>5. /\ \A k \in 0..month : /\ Level(k)' - UsedAfter(k)' = (Level(k) - UsedAfter(k)) - used
                             /\ Level(k) - UsedAfter(k) \in Int
      /\ Level(t)' - UsedAfter(t)' = target
  <2>1. ASSUME NEW k \in 0..month
        PROVE  /\ Level(k)' - UsedAfter(k)' = (Level(k) - UsedAfter(k)) - used
               /\ Level(k) - UsedAfter(k) \in Int
    <3>1. Level(k)' = Level(k) /\ UsedAfter(k)' = UsedAfter(k) + used
      BY MonthUses
    <3>2. Level(k) \in Int /\ UsedAfter(k) \in Int
      BY LevelInt
    <3> QED  BY <3>1, <3>2
  <2>2. Level(t)' = target /\ UsedAfter(t)' = 0
    BY MonthUses DEF target
  <2> QED  BY <1>2, <2>1, <2>2
<1>6. 0..month' = (0..month) \cup {t}
  BY <1>1
<1>7. \A k \in 0..month' : Level(k)' - UsedAfter(k)' <= inventory'
  <2>1. ASSUME NEW k \in 0..month
        PROVE  Level(k)' - UsedAfter(k)' <= inventory'
    <3>1. Level(k) - UsedAfter(k) <= inventory
      BY DEF StockInv
    <3>2. PICK left \in Int : left = Level(k) - UsedAfter(k)
      BY <1>5
    <3>3. Level(k)' - UsedAfter(k)' = left - used
      BY <1>5, <3>2
    <3> QED  BY <1>1, <1>4, <3>1, <3>2, <3>3
  <2>2. Level(t)' - UsedAfter(t)' <= inventory'
    BY <1>2, <1>4, <1>5
  <2> QED  BY <1>6, <2>1, <2>2
<1>8. \E k \in 0..month' : inventory' = Level(k)' - UsedAfter(k)'
  <2>1. CASE inventory' = target
    BY <1>5, <1>6, <2>1
  <2>2. CASE inventory' = inventory - used
    <3>1. PICK k \in 0..month : inventory = Level(k) - UsedAfter(k)
      BY DEF StockInv
    <3> QED  BY <1>5, <1>6, <2>2, <3>1
  <2> QED  BY <1>4, <2>1, <2>2
<1> QED  BY <1>7, <1>8

LEMMA DelayKeepsStock ==
  ASSUME Typed, Chained, StockInv, NEW from \in Months, NEW to \in Months, NEW amount \in Slips,
         ApplyReceiptDelay(from, to, amount)
  PROVE  StockInv'
<1>1. \A u \in Months : rows'[u].used = rows[u].used
  <2>1. /\ rows \in [Months -> Row] /\ from # to /\ amount \in Int
    BY ForecastAssumption DEF ApplyReceiptDelay, Typed
  <2>2. \A u \in Months : Delayed(from, to, amount)[u].used = rows[u].used
    BY <2>1, DelayedRows
  <2> QED  BY <2>2, DelayChains
<1>2. [u \in Months |-> rows'[u].used] = [u \in Months |-> rows[u].used]
  BY <1>1
<1>3. cfg' = cfg /\ month' = month /\ inventory' = inventory
  BY DEF ApplyReceiptDelay, balances
<1>4. \A k : UsedAfter(k)' = UsedAfter(k)
  BY <1>2, <1>3 DEF UsedAfter
<1>5. \A k \in 0..month : Level(k)' = Level(k)
  <2>1. \A k \in 0..month : k # 0 => k \in Months
    BY ForecastAssumption DEF Typed, Months
  <2> QED  BY <1>1, <1>3, <2>1 DEF Level
<1> QED  BY <1>3, <1>4, <1>5 DEF StockInv

LEMMA InitStock == Init => StockInv
<1> SUFFICES ASSUME Init PROVE StockInv
  OBVIOUS
<1>1. month = 0 /\ inventory = cfg.inventory /\ inventory \in Int
  BY ConfigTypes DEF Init
<1>2. UsedAfter(0) = 0
  <2>1. (0 + 1)..month = {}
    BY <1>1
  <2> QED  BY <2>1, SumOfNone DEF UsedAfter
<1>3. 0..month = {0} /\ Level(0) = cfg.inventory
  BY <1>1 DEF Level
<1> QED  BY <1>1, <1>2, <1>3 DEF StockInv

LEMMA LargestIsMax ==
  ASSUME NEW S, S \subseteq Int, NEW m \in S, \A x \in S : x <= m
  PROVE  Max(S) = m
<1>1. m \in S /\ \A x \in S : m >= x
  OBVIOUS
<1>2. Max(S) \in S /\ \A x \in S : Max(S) >= x
  BY <1>1 DEF Max
<1>3. Max(S) \in Int /\ m \in Int /\ Max(S) >= m /\ m >= Max(S)
  BY <1>1, <1>2
<1> QED  BY <1>3

LEMMA StockIsMax ==
  ASSUME Typed, StockInv
  PROVE  StockIsLeast
<1> SUFFICES ASSUME cfg.stock = "replenishment"
             PROVE  inventory = Max(Floors)
  BY DEF StockIsLeast
<1>1. month \in Nat
  BY ForecastAssumption DEF Typed
<1>2. Floors = {Level(k) - UsedAfter(k) : k \in 0..month}
  <2>1. 0..month = {0} \cup (1..month) /\ 0 \notin 1..month
    BY <1>1
  <2>2. Level(0) = cfg.inventory /\ \A k \in 1..month : Level(k) = Days(rows[k].used, cfg.dio_days)
    BY <2>1 DEF Level
  <2> QED  BY <2>1, <2>2 DEF Floors
<1>3. Floors \subseteq Int
  BY <1>2, LevelInt
<1>4. inventory \in Floors /\ \A x \in Floors : x <= inventory
  BY <1>2 DEF StockInv
<1> QED  BY <1>3, <1>4, LargestIsMax

-----------------------------------------------------------------------------
(* The balance sheet. *)

\* One month moves cash by exactly what the other balances do not explain.
LEMMA MonthArticulates ==
  ASSUME Typed, BalanceSheetBalances, NEW revenue \in Nat, NEW used \in Nat,
         ForecastMonth(revenue, used)
  PROVE  BalanceSheetBalances'
<1>1. Typed'
  BY ForecastMonthTyped
<1>2. /\ cfg \in Configs /\ month \in Nat /\ month < Horizon /\ month' = month + 1
      /\ cfg' = cfg /\ slips' = slips
  BY DEF Typed, ForecastMonth
<1>3. month' \in Months /\ month' # 0 /\ month # Horizon
  BY <1>2, ForecastAssumption DEF Months
<1>4. slips = 0 /\ rows \in [Months -> Row]
  BY <1>3 DEF Typed
<1>5. /\ gross \in Int /\ allowance \in Int /\ inventory \in Int /\ ap \in Int
      /\ loan \in Nat /\ line \in Nat /\ earned \in Int /\ paid \in Int
      /\ gross' \in Int /\ allowance' \in Int /\ inventory' \in Int /\ ap' \in Int
      /\ loan' \in Nat /\ line' \in Nat /\ book' \in Books
      /\ book.charged \in Int /\ book'.charged \in Int
  BY <1>1, BookFields DEF Typed, BalancesOK, BooksOK
<1> DEFINE row == RowOf(month', revenue, used)
<1>6. row \in Row /\ EndingCash \in Int /\ WcCashImpact \in Int
  BY <1>3, <1>4, <1>5, RowTyped
<1>7. rows'[month'] = row
  BY <1>3, <1>4 DEF ForecastMonth
<1>8. EndingCash' = row.ending_cash
  BY <1>3, <1>7 DEF EndingCash
<1>9. /\ row.net_income \in Int /\ row.tax \in Int /\ row.tax_paid \in Int
      /\ row.tax = book'.charged - book.charged
      /\ row.ending_cash = EndingCash + row.net_income + cfg.da + WcCashImpact
           + (IF cfg.treatment = "year" THEN row.tax - row.tax_paid ELSE 0)
           - cfg.capex - Principal
  <2>1. /\ cfg.da \in Nat /\ cfg.capex \in Nat /\ Principal \in Nat
    BY <1>2, ConfigTypes, MonthFlows
  <2>2. row.net_income \in Int /\ row.tax \in Int /\ row.tax_paid \in Int
    BY <1>6 DEF Row
  <2>3. /\ row.tax = book'.charged - book.charged
        /\ row.ending_cash = EndingCash + (Operating(row.net_income, WcCashImpact, row.tax, row.tax_paid)
                                             - cfg.capex - Principal)
    BY DEF RowOf
  <2> HIDE DEF row
  <2> QED  BY <1>6, <2>1, <2>2, <2>3 DEF Operating
<1> HIDE DEF row
<1>10. Owed' - Owed = IF cfg.treatment = "year" THEN row.tax - row.tax_paid ELSE 0
  <2>1. paid' = paid + row.tax_paid
    BY <1>7 DEF ForecastMonth
  <2> QED  BY <1>2, <1>5, <1>9, <2>1 DEF Owed
<1>11. /\ loan' = loan - Principal /\ line' = line /\ earned' = earned + row.net_income
       /\ Principal \in Nat
  BY <1>7, MonthFlows DEF ForecastMonth
<1>12. /\ cfg.da \in Nat /\ cfg.capex \in Nat /\ cfg.loan \in Nat /\ cfg.line \in Nat
       /\ cfg.cash \in Int /\ cfg.ar \in Int /\ cfg.ap \in Int /\ cfg.inventory \in Int
  BY <1>2, ConfigTypes
<1>13. month' * (cfg.capex - cfg.da) = month * (cfg.capex - cfg.da) + (cfg.capex - cfg.da)
  <2>1. cfg.capex - cfg.da \in Int
    BY <1>12
  <2> QED  BY <1>2, <2>1, NextMultiple
<1>14. month * (cfg.capex - cfg.da) \in Int
  BY <1>2, <1>12
<1>15. Owed \in Int /\ Owed' \in Int
  <2>1. paid' \in Int
    BY <1>1 DEF Typed
  <2> QED  BY <1>5, <2>1 DEF Owed
<1>16. WcCashImpact = -((gross' - allowance') - (gross - allowance)) + (ap' - ap) - (inventory' - inventory)
  BY DEF WcCashImpact
<1>17. EndingCash + (gross - allowance) + inventory + month * (cfg.capex - cfg.da)
           - ap - loan - line - Owed
         = cfg.cash + cfg.ar + cfg.inventory - cfg.ap - cfg.loan - cfg.line + earned
  BY <1>4 DEF BalanceSheetBalances
<1>18. EndingCash' + (gross' - allowance') + inventory' + month' * (cfg.capex - cfg.da)
           - ap' - loan' - line' - Owed'
         = cfg.cash + cfg.ar + cfg.inventory - cfg.ap - cfg.loan - cfg.line + earned'
  <2> DEFINE spent == month * (cfg.capex - cfg.da)
             timing == IF cfg.treatment = "year" THEN row.tax - row.tax_paid ELSE 0
  <2>1. timing \in Int
    BY <1>9
  <2>2. EndingCash' = EndingCash + row.net_income + cfg.da + WcCashImpact + timing - cfg.capex - Principal
    BY <1>8, <1>9
  <2>3. Owed' = Owed + timing
    BY <1>10, <1>15, <2>1
  <2>4. month' * (cfg.capex - cfg.da) = spent + cfg.capex - cfg.da
    BY <1>12, <1>13, <1>14
  <2>5. spent \in Int
    BY <1>14
  <2>6. EndingCash + (gross - allowance) + inventory + spent - ap - loan - line - Owed
          = cfg.cash + cfg.ar + cfg.inventory - cfg.ap - cfg.loan - cfg.line + earned
    BY <1>17
  <2> DEFINE ar == gross - allowance
             newAr == gross' - allowance'
             start == cfg.cash + cfg.ar + cfg.inventory - cfg.ap - cfg.loan - cfg.line
  <2>7. ar \in Int /\ newAr \in Int /\ start \in Int
    BY <1>5, <1>12
  <2>8. WcCashImpact = -(newAr - ar) + (ap' - ap) - (inventory' - inventory)
    BY <1>16
  <2>9. EndingCash + ar + inventory + spent - ap - loan - line - Owed = start + earned
    BY <2>6
  <2> HIDE DEF spent, timing, ar, newAr, start
  <2>10. EndingCash' = EndingCash + row.net_income + cfg.da - (newAr - ar) + (ap' - ap)
                         - (inventory' - inventory) + timing - cfg.capex - Principal
    BY <1>5, <1>6, <1>9, <1>11, <1>12, <2>1, <2>2, <2>7, <2>8
  <2>11. EndingCash' + newAr + inventory' + (spent + cfg.capex - cfg.da) - ap'
            - (loan - Principal) - line - (Owed + timing) = start + (earned + row.net_income)
    BY <1>5, <1>6, <1>9, <1>11, <1>12, <1>15, <2>1, <2>5, <2>7, <2>9, <2>10
  <2> QED  BY <1>11, <2>3, <2>4, <2>11 DEF newAr, start
<1> QED  BY <1>2, <1>18 DEF BalanceSheetBalances

LEMMA InitArticulates ==
  ASSUME Init
  PROVE  BalanceSheetBalances
<1>1. /\ month = 0 /\ EndingCash = cfg.cash /\ gross = cfg.ar /\ allowance = 0
      /\ inventory = cfg.inventory /\ ap = cfg.ap /\ loan = cfg.loan /\ line = cfg.line
      /\ earned = 0
  BY DEF Init, EndingCash
<1>2. /\ cfg.da \in Nat /\ cfg.capex \in Nat /\ cfg.loan \in Nat /\ cfg.line \in Nat
      /\ cfg.cash \in Int /\ cfg.ar \in Int /\ cfg.ap \in Int /\ cfg.inventory \in Int
  BY ConfigTypes DEF Init
<1>3. Owed = 0
  BY DEF Init, OpeningBook, Owed
<1>4. month * (cfg.capex - cfg.da) = 0
  BY <1>1, <1>2
<1> QED  BY <1>1, <1>2, <1>3, <1>4 DEF BalanceSheetBalances

-----------------------------------------------------------------------------
(* Losses of unknown deductibility. *)

\* The book that leaves the question open, and those of the two answers, agree on
\* the income, the provision and the tax to date.
Alike(b, yes, no) ==
  /\ yes.charged = b.charged /\ no.charged = b.charged
  /\ yes.to_date = b.to_date /\ no.to_date = b.to_date
  /\ yes.provided = b.provided /\ no.provided = b.provided

\* A loss of unknown deductibility is all that "yes" has more, and it is not needed.
Ahead(b, yes, no) ==
  /\ yes.available = b.available + b.unknown /\ no.available = b.available
  /\ b.unknown = 0 \/ b.to_date <= b.available

Moot ==
  cfg.treatment = "year" /\ cfg.deductible = "unknown" /\ ~refused =>
      /\ Alike(book, ifSo, ifNot)
      /\ cfg.tax_rate = 0 \/ Ahead(book, ifSo, ifNot)

LEMMA OpenedAlike ==
  ASSUME NEW b \in Books, NEW yes \in Books, NEW no \in Books, Alike(b, yes, no)
  PROVE  Alike(Opened(b, "unknown"), Opened(yes, "yes"), Opened(no, "no"))
BY DEF Alike, Opened, YearEnd

LEMMA OpenedAhead ==
  ASSUME NEW b \in Books, NEW yes \in Books, NEW no \in Books,
         Alike(b, yes, no), Ahead(b, yes, no)
  PROVE  Ahead(Opened(b, "unknown"), Opened(yes, "yes"), Opened(no, "no"))
<1>1. CASE month > 0 /\ month % YearMonths = 0
  <2>1. /\ b.available \in Nat /\ b.unknown \in Nat /\ b.to_date \in Int
        /\ yes.available \in Nat /\ no.available \in Nat
    BY BookFields
  <2>2. /\ Pos(yes.available - Pos(yes.to_date)) + Pos(-yes.to_date)
             = Pos(b.available - Pos(b.to_date)) + (b.unknown + Pos(-b.to_date))
        /\ Pos(no.available - Pos(no.to_date)) = Pos(b.available - Pos(b.to_date))
        /\ Pos(b.available - Pos(b.to_date)) >= 0
    BY <2>1 DEF Pos, Alike, Ahead
  <2>3. /\ Opened(b, "unknown").available = Pos(b.available - Pos(b.to_date)) + 0
        /\ Opened(b, "unknown").unknown = b.unknown + Pos(-b.to_date)
        /\ Opened(b, "unknown").to_date = 0
        /\ Opened(yes, "yes").available = Pos(yes.available - Pos(yes.to_date)) + Pos(-yes.to_date)
        /\ Opened(no, "no").available = Pos(no.available - Pos(no.to_date)) + 0
    BY <1>1 DEF Opened, YearEnd
  <2>4. Pos(b.available - Pos(b.to_date)) \in Nat /\ Pos(no.available - Pos(no.to_date)) \in Nat
    BY <2>1, BookFields DEF Pos
  <2> QED  BY <2>2, <2>3, <2>4 DEF Ahead
<1>2. CASE ~(month > 0 /\ month % YearMonths = 0)
  BY <1>2 DEF Opened
<1> QED  BY <1>1, <1>2

LEMMA ShareOfNothing ==
  ASSUME NEW x \in Nat
  PROVE  Share(x, 0) = 0
<1>1. x * 0 = 0
  OBVIOUS
<1> QED  BY <1>1 DEF Share

\* The provision is the same as long as no undecided loss would reduce it.
LEMMA SameProvision ==
  ASSUME cfg \in Configs, NEW o \in Books, NEW p \in Books, NEW q \in Books, NEW x \in Int,
         Alike(o, p, q),
         cfg.tax_rate = 0 \/ (Ahead(o, p, q) /\ (o.unknown = 0 \/ o.to_date + x <= o.available))
  PROVE  /\ Alike(Provided(o, x), Provided(p, x), Provided(q, x))
         /\ cfg.tax_rate = 0 \/ Ahead(Provided(o, x), Provided(p, x), Provided(q, x))
<1>1. /\ o.available \in Nat /\ o.unknown \in Nat /\ o.to_date \in Int
      /\ p.available \in Nat /\ q.available \in Nat
      /\ p.to_date = o.to_date /\ q.to_date = o.to_date
  BY BookFields DEF Alike
<1>2. /\ Share(Pos(p.to_date + x - p.available), cfg.tax_rate)
           = Share(Pos(o.to_date + x - o.available), cfg.tax_rate)
      /\ Share(Pos(q.to_date + x - q.available), cfg.tax_rate)
           = Share(Pos(o.to_date + x - o.available), cfg.tax_rate)
  <2>1. CASE cfg.tax_rate = 0
    <3>1. /\ Pos(o.to_date + x - o.available) \in Nat /\ Pos(p.to_date + x - p.available) \in Nat
          /\ Pos(q.to_date + x - q.available) \in Nat
      BY <1>1, PosNat
    <3> QED  BY <2>1, <3>1, ShareOfNothing
  <2>2. CASE Ahead(o, p, q) /\ (o.unknown = 0 \/ o.to_date + x <= o.available)
    <3>1. /\ Pos(p.to_date + x - p.available) = Pos(o.to_date + x - o.available)
          /\ Pos(q.to_date + x - q.available) = Pos(o.to_date + x - o.available)
      BY <1>1, <2>2 DEF Ahead, Pos
    <3> QED  BY <3>1
  <2> QED  BY <2>1, <2>2
<1>3. Alike(Provided(o, x), Provided(p, x), Provided(q, x))
  BY <1>2 DEF Alike, Provided
<1>4. cfg.tax_rate = 0 \/ Ahead(Provided(o, x), Provided(p, x), Provided(q, x))
  BY DEF Ahead, Provided
<1> QED  BY <1>3, <1>4

LEMMA MonthKeepsMoot ==
  ASSUME Typed, Moot, NEW revenue \in Nat, NEW used \in Nat, ForecastMonth(revenue, used)
  PROVE  Moot'
<1> SUFFICES ASSUME cfg.treatment = "year", cfg.deductible = "unknown", ~refused'
             PROVE  /\ Alike(book', ifSo', ifNot')
                    /\ cfg.tax_rate = 0 \/ Ahead(book', ifSo', ifNot')
  BY DEF ForecastMonth, Moot, Alike, Ahead
<1> DEFINE x == Pretax(revenue, used)
           o == Opened(book, "unknown")
           p == Opened(ifSo, "yes")
           q == Opened(ifNot, "no")
<1>1. /\ cfg \in Configs /\ x \in Int
      /\ book \in Books /\ ifSo \in Books /\ ifNot \in Books
  BY MonthFlows DEF Typed, BooksOK
<1>2. o \in Books /\ p \in Books /\ q \in Books
  BY <1>1, OpenedIsBook DEF Deductibility
<1>3. ~refused
  BY DEF ForecastMonth
<1>4. Alike(o, p, q)
  BY <1>1, <1>3, OpenedAlike DEF Moot
<1>5. cfg.tax_rate = 0 \/ Ahead(o, p, q)
  BY <1>1, <1>3, OpenedAhead DEF Moot
<1>6. ~TaxUnknown(x)
  BY DEF ForecastMonth
<1>7. cfg.tax_rate = 0 \/ o.unknown = 0 \/ o.to_date + x <= o.available
  <2>1. cfg.tax_rate \in Nat /\ o.unknown \in Nat /\ o.to_date + x \in Int /\ o.available \in Nat
    <3>1. cfg.tax_rate \in Nat
      BY <1>1, ConfigTypes
    <3> HIDE DEF o, x
    <3>2. o.unknown \in Nat /\ o.available \in Nat /\ o.to_date \in Int
      BY <1>2, BookFields
    <3> QED  BY <1>1, <3>1, <3>2
  <2>2. ~(o.unknown > 0 /\ cfg.tax_rate > 0 /\ o.to_date + x > o.available)
    BY <1>6 DEF TaxUnknown
  <2> HIDE DEF o, x
  <2> QED  BY <2>1, <2>2
<1>8. book' = Provided(o, x) /\ ifSo' = Provided(p, x) /\ ifNot' = Provided(q, x)
  BY DEF ForecastMonth, Taxed, YearTax
<1> HIDE DEF o, p, q, x
<1> QED  BY <1>1, <1>2, <1>4, <1>5, <1>7, <1>8, SameProvision

-----------------------------------------------------------------------------
(* Losses, and the income they shelter. *)

\* The amounts the tax on which is a whole number.
Evens == TaxedWhole(cfg)

LEMMA EvenAdds ==
  ASSUME cfg \in Configs
  PROVE  /\ 0 \in Evens
         /\ \A x, y \in Evens : x + y \in Evens /\ x - y \in Evens
         /\ \A x \in Evens : Pos(x) \in Evens /\ -x \in Evens
<1>1. PICK r \in Nat : r = cfg.tax_rate
  BY ConfigTypes
<1>2. 0 \in Evens
  <2>1. r * 0 = 0
    OBVIOUS
  <2> QED  BY <1>1, <2>1 DEF Evens, TaxedWhole
<1>3. ASSUME NEW x \in Evens, NEW y \in Evens
      PROVE  x + y \in Evens /\ x - y \in Evens
  <2>1. x \in Int /\ y \in Int
    BY DEF Evens, TaxedWhole
  <2>2. PICK a \in Int, b \in Int : a = r * x /\ b = r * y
    BY <2>1
  <2>3. r * (x + y) = a + b /\ r * (x - y) = a - b
    BY <2>1, <2>2
  <2>4. a % 100 = 0 /\ b % 100 = 0
    BY <1>1, <2>2 DEF Evens, TaxedWhole
  <2>5. (a + b) % 100 = 0 /\ (a - b) % 100 = 0
    BY <2>4
  <2>6. x + y \in Int /\ x - y \in Int
    BY <2>1
  <2> QED  BY <1>1, <2>3, <2>5, <2>6 DEF Evens, TaxedWhole
<1>4. ASSUME NEW x \in Evens
      PROVE  Pos(x) \in Evens /\ -x \in Evens
  <2>1. x \in Int
    BY DEF Evens, TaxedWhole
  <2>2. 0 - x = -x
    BY <2>1
  <2> QED  BY <1>2, <1>3, <2>2 DEF Pos
<1> QED  BY <1>2, <1>3, <1>4

LEMMA EvenShare ==
  ASSUME cfg \in Configs, NEW x \in Evens
  PROVE  100 * Share(x, cfg.tax_rate) = cfg.tax_rate * x
<1>1. cfg.tax_rate \in Nat /\ x \in Int
  BY ConfigTypes DEF Evens, TaxedWhole
<1>2. x * cfg.tax_rate = cfg.tax_rate * x
  BY <1>1
<1> QED  BY <1>1, <1>2, ExactShare DEF Evens, TaxedWhole

LEMMA TimesDifference ==
  ASSUME NEW r \in Int, NEW a \in Int, NEW b \in Int, NEW c \in Int
  PROVE  r * (a + b - c) = r * a + r * b - r * c
OBVIOUS

\* The tax of a book to date is that on the gains, less the losses used up of
\* those given.
Left(b) == Pos(b.available - Pos(b.to_date))
Sheltered(b, gains, given) == 100 * b.charged = cfg.tax_rate * (gains - given + Left(b))
OnYear(b) == 100 * b.provided = cfg.tax_rate * Pos(b.to_date - b.available)
EvenBook(b) == b.available \in Evens /\ b.to_date \in Evens

LEMMA ProvisionShelters ==
  ASSUME cfg \in Configs, NEW o \in Books, NEW x \in Int, NEW gains \in Int, NEW given \in Int,
         EvenBook(o), x \in Evens, Sheltered(o, gains, given), OnYear(o)
  PROVE  /\ Sheltered(Provided(o, x), gains - Pos(o.to_date) + Pos(o.to_date + x), given)
         /\ OnYear(Provided(o, x)) /\ EvenBook(Provided(o, x))
<1> DEFINE p == Provided(o, x)
<1>1. PICK r \in Nat : r = cfg.tax_rate
  BY ConfigTypes
<1>2. PICK A \in Nat, T \in Int, U \in Int : A = o.available /\ T = o.to_date /\ U = T + x
  BY BookFields
<1>3. U \in Evens /\ U - A \in Evens /\ Pos(U - A) \in Evens
  <2>1. U \in Evens
    BY <1>2, EvenAdds DEF EvenBook
  <2>2. U - A \in Evens
    BY <1>2, <2>1, EvenAdds DEF EvenBook
  <2> QED  BY <1>2, <2>1, <2>2, EvenAdds
<1>4. Pos(U - A) \in Int /\ Pos(T - A) \in Int /\ Pos(U) \in Int /\ Pos(T) \in Int
  BY <1>2 DEF Pos
<1>5. /\ p.available = A /\ p.to_date = U
      /\ p.provided = Share(Pos(U - A), r) /\ p.charged = o.charged + p.provided - o.provided
  BY <1>1, <1>2 DEF Provided
<1>6. p \in Books
  BY ProvidedIsBook
<1>7. p.provided \in Int /\ o.provided \in Int /\ o.charged \in Int /\ p.charged \in Int
  BY <1>6, BookFields
<1>8. 100 * p.provided = r * Pos(U - A)
  BY <1>1, <1>3, <1>4, <1>5, EvenShare
<1>9. 100 * o.provided = r * Pos(T - A)
  BY <1>1, <1>2 DEF OnYear
<1> DEFINE L == Pos(A - Pos(T))
           M == Pos(A - Pos(U))
<1>10. Left(o) = L /\ Left(p) = M /\ L \in Int /\ M \in Int
  BY <1>2, <1>4, <1>5 DEF Left, Pos
<1>11. Pos(T - A) = Pos(T) - A + L /\ Pos(U - A) = Pos(U) - A + M
  BY <1>2 DEF Pos
<1>12. 100 * o.charged = r * (gains - given + L)
  BY <1>1, <1>10 DEF Sheltered
<1> HIDE DEF p, L, M
<1>13. 100 * p.charged = r * ((gains - given + L) + Pos(U - A) - Pos(T - A))
  <2>1. gains - given + L \in Int
    BY <1>10
  <2>2. r * ((gains - given + L) + Pos(U - A) - Pos(T - A))
          = r * (gains - given + L) + r * Pos(U - A) - r * Pos(T - A)
    BY <1>4, <2>1, TimesDifference
  <2> QED  BY <1>5, <1>7, <1>8, <1>9, <1>12, <2>2
<1>14. (gains - given + L) + Pos(U - A) - Pos(T - A) = gains - Pos(T) + Pos(U) - given + M
  BY <1>2, <1>4, <1>10, <1>11
<1>15. Sheltered(p, gains - Pos(T) + Pos(U), given)
  <2>1. PICK z \in Int : z = (gains - given + L) + Pos(U - A) - Pos(T - A)
    BY <1>4, <1>10
  <2>2. 100 * p.charged = r * z
    BY <1>13, <2>1
  <2> DEFINE now == gains - Pos(T) + Pos(U)
  <2>3. now - given + Left(p) = z
    BY <1>4, <1>10, <1>14, <2>1
  <2> HIDE DEF now
  <2>4. Sheltered(p, now, given)
    BY <1>1, <2>2, <2>3 DEF Sheltered
  <2> QED  BY <2>4 DEF now
<1>16. OnYear(p) /\ EvenBook(p)
  BY <1>1, <1>2, <1>3, <1>5, <1>8 DEF OnYear, EvenBook
<1> QED  BY <1>2, <1>15, <1>16 DEF p

LEMMA YearEndShelters ==
  ASSUME cfg \in Configs, NEW b \in Books, NEW d, NEW gains \in Int, NEW given \in Int,
         EvenBook(b), Sheltered(b, gains, given)
  PROVE  LET o == YearEnd(b, d)
         IN /\ Sheltered(o, gains, given + IF d = "yes" THEN Pos(-b.to_date) ELSE 0)
            /\ OnYear(o) /\ EvenBook(o) /\ o.to_date = 0
<1> DEFINE o == YearEnd(b, d)
           e == IF d = "yes" THEN Pos(-b.to_date) ELSE 0
<1>1. b.available \in Nat /\ b.to_date \in Int /\ b.charged \in Int /\ cfg.tax_rate \in Nat
  BY BookFields, ConfigTypes
<1>2. Left(b) \in Nat /\ e \in Nat
  BY <1>1 DEF Left, Pos
<1>3. o.available = Left(b) + e /\ o.to_date = 0 /\ o.provided = 0 /\ o.charged = b.charged
  BY DEF YearEnd, Left
<1>4. Left(b) \in Evens /\ e \in Evens /\ 0 \in Evens
  <2>1. Pos(b.to_date) \in Int /\ b.available - Pos(b.to_date) \in Int /\ -b.to_date \in Int
        /\ 0 \in Int
    BY <1>1 DEF Pos
  <2>2. 0 \in Evens /\ Pos(b.to_date) \in Evens
    BY <1>1, EvenAdds DEF EvenBook
  <2>3. b.available - Pos(b.to_date) \in Evens /\ 0 - b.to_date \in Evens
    BY <1>1, <2>1, <2>2, EvenAdds DEF EvenBook
  <2>4. 0 - b.to_date = -b.to_date
    BY <1>1
  <2>5. Pos(b.available - Pos(b.to_date)) \in Evens /\ Pos(-b.to_date) \in Evens
    BY <2>1, <2>2, <2>3, <2>4, EvenAdds
  <2> QED  BY <2>2, <2>5 DEF Left
<1>5. Left(o) = Left(b) + e
  BY <1>2, <1>3 DEF Left, Pos
<1> HIDE DEF o, e
<1>6. EvenBook(o)
  <2>1. Left(b) + e \in Evens
    BY <1>2, <1>4, EvenAdds
  <2> QED  BY <1>3, <1>4, <2>1 DEF EvenBook
<1>7. OnYear(o)
  <2>1. Pos(0 - (Left(b) + e)) = 0
    BY <1>2 DEF Pos
  <2> QED  BY <1>1, <1>3, <2>1 DEF OnYear
<1>8. Sheltered(o, gains, given + e)
  <2>1. gains - (given + e) + (Left(b) + e) = gains - given + Left(b)
    BY <1>2
  <2> QED  BY <1>3, <1>5, <2>1 DEF Sheltered
<1> QED  BY <1>3, <1>6, <1>7, <1>8 DEF o, e

LEMMA MonthTaxShelters ==
  ASSUME cfg \in Configs, NEW b \in Books, NEW x \in Int, NEW gains \in Int, NEW given \in Int,
         EvenBook(b), x \in Evens, b.to_date = 0, Sheltered(b, gains, given)
  PROVE  /\ Sheltered(MonthTax(b, x), gains + Pos(x), given)
         /\ EvenBook(MonthTax(b, x)) /\ MonthTax(b, x).to_date = 0
<1> DEFINE p == MonthTax(b, x)
           used == Least(b.available, Pos(x))
<1>1. b.available \in Nat /\ b.charged \in Int /\ Pos(x) \in Nat /\ used \in Nat
  BY BookFields DEF Pos, Least
<1>2. PICK r \in Nat : r = cfg.tax_rate
  BY ConfigTypes
<1>3. used \in Evens /\ b.available - used \in Evens /\ Pos(x) - used \in Evens
  <2>1. Pos(x) \in Evens
    BY EvenAdds
  <2>2. used \in Evens
    BY <2>1 DEF EvenBook, Least
  <2> HIDE DEF used
  <2> QED  BY <1>1, <2>1, <2>2, EvenAdds DEF EvenBook
<1>4. /\ p.available = b.available - used /\ p.to_date = 0
      /\ p.charged = b.charged + Share(Pos(x) - used, r)
  BY <1>2 DEF MonthTax
<1>5. Left(b) = b.available /\ Left(p) = b.available - used
  BY <1>1, <1>4 DEF Left, Pos, Least
<1> HIDE DEF p, used
<1>6. 100 * Share(Pos(x) - used, r) = r * (Pos(x) - used)
  BY <1>1, <1>2, <1>3, EvenShare
<1>7. Share(Pos(x) - used, r) \in Int
  BY <1>1, ShareInt
<1>8. r * (gains + Pos(x) - given + (b.available - used))
        = r * (gains - given + b.available) + r * (Pos(x) - used)
  <2>1. gains - given + b.available \in Int /\ Pos(x) - used \in Int
    BY <1>1
  <2>2. r * ((gains - given + b.available) + (Pos(x) - used))
          = r * (gains - given + b.available) + r * (Pos(x) - used)
    BY <2>1, TimesSum
  <2>3. (gains - given + b.available) + (Pos(x) - used) = gains + Pos(x) - given + (b.available - used)
    BY <1>1
  <2> QED  BY <2>2, <2>3
<1>9. 100 * b.charged = r * (gains - given + b.available)
  BY <1>2, <1>5 DEF Sheltered
<1>10. Sheltered(p, gains + Pos(x), given)
  BY <1>1, <1>2, <1>4, <1>5, <1>6, <1>7, <1>8, <1>9 DEF Sheltered
<1>11. EvenBook(p)
  BY <1>3, <1>4 DEF EvenBook
<1> QED  BY <1>4, <1>10, <1>11 DEF p

-----------------------------------------------------------------------------
(* Periods. *)

LEMMA TimesKeepsOrder ==
  ASSUME NEW a \in Nat, NEW b \in Nat, NEW P \in Nat \ {0}
  PROVE  /\ a <= b => a * P <= b * P
         /\ a * P < b * P => a < b
         /\ a <= a * P
         /\ (a + 1) * P = a * P + P /\ a * P \in Nat
<1>1. ASSUME NEW y \in Nat, NEW z \in Nat, y <= z
      PROVE  y * P <= z * P
  <2>1. PICK d \in Nat : z = y + d
    BY <1>1
  <2>2. (y + d) * P = y * P + d * P /\ d * P \in Nat /\ y * P \in Nat
    OBVIOUS
  <2> QED  BY <2>1, <2>2
<1>2. a * P < b * P => a < b
  <2>1. b <= a => b * P <= a * P
    BY <1>1
  <2>2. a * P \in Nat /\ b * P \in Nat
    OBVIOUS
  <2> QED  BY <2>1, <2>2
<1>3. a <= a * P
  <2>1. PICK d \in Nat : P = 1 + d
    OBVIOUS
  <2>2. a * (1 + d) = a + a * d /\ a * d \in Nat
    OBVIOUS
  <2> QED  BY <2>1, <2>2
<1> QED  BY <1>1, <1>2, <1>3

LEMMA PeriodOf ==
  ASSUME NEW n \in Nat \ {0}, NEW P \in Nat \ {0}
  PROVE  \E c \in Nat : c * P < n /\ n <= (c + 1) * P
<1> DEFINE T == {c \in Nat : n <= (c + 1) * P}
<1>1. n \in T
  <2>1. n + 1 <= (n + 1) * P /\ (n + 1) * P \in Nat
    BY TimesKeepsOrder
  <2> QED  BY <2>1
<1>2. PICK c \in T : \A y \in T : c <= y
  <2>1. T \subseteq Nat /\ T # {}
    BY <1>1
  <2> HIDE DEF T
  <2> QED  BY <2>1, SmallestNat
<1>3. c * P < n
  <2>1. CASE c = 0
    <3>1. c * P = 0
      BY <2>1
    <3> QED  BY <3>1
  <2>2. CASE c # 0
    <3>1. PICK d \in Nat : c = d + 1
      BY <2>2
    <3>2. d \notin T
      BY <1>2, <3>1
    <3>3. (d + 1) * P \in Int
      OBVIOUS
    <3> QED  BY <3>1, <3>2, <3>3
  <2> QED  BY <2>1, <2>2
<1> QED  BY <1>2, <1>3

\* The periods that n months reach are those up to the one of the last month.
LEMMA PeriodsAre ==
  ASSUME NEW n \in Nat, NEW P \in Nat \ {0}, NEW c \in Nat, c * P < n, n <= (c + 1) * P
  PROVE  {p \in 0..n : p * P < n} = 0..c
<1>1. ASSUME NEW p \in 0..n, p * P < n
      PROVE  p \in 0..c
  <2>1. p \in Nat /\ c + 1 \in Nat /\ p * P \in Nat /\ (c + 1) * P \in Nat
    BY TimesKeepsOrder
  <2>2. p * P < (c + 1) * P
    BY <1>1, <2>1
  <2>3. p < c + 1
    BY <2>1, <2>2, TimesKeepsOrder
  <2> QED  BY <2>1, <2>3
<1>2. ASSUME NEW p \in 0..c
      PROVE  p \in 0..n /\ p * P < n
  <2>1. p \in Nat /\ p <= c /\ p * P \in Nat /\ c * P \in Nat
    BY TimesKeepsOrder
  <2>2. p * P <= c * P /\ p <= p * P
    BY <2>1, TimesKeepsOrder
  <2> QED  BY <2>1, <2>2
<1> QED  BY <1>1, <1>2

LEMMA PeriodEnds ==
  ASSUME NEW m \in Nat, NEW P \in Nat \ {0}, NEW k \in Nat, k * P < m, m <= (k + 1) * P
  PROVE  m % P = 0 <=> m = (k + 1) * P
<1>1. PICK q \in Nat, r \in Nat : q = m \div P /\ r = m % P /\ m = P * q + r /\ r < P
  OBVIOUS
<1>2. P * q = q * P /\ q * P \in Nat /\ k * P \in Nat /\ (k + 1) * P = k * P + P
  BY TimesKeepsOrder
<1>3. ASSUME r = 0
      PROVE  m = (k + 1) * P
  <2>1. k * P < q * P
    BY <1>1, <1>2, <1>3
  <2>2. k + 1 <= q
    BY <2>1, TimesKeepsOrder
  <2>3. (k + 1) * P <= q * P
    BY <2>2, TimesKeepsOrder
  <2> QED  BY <1>1, <1>2, <1>3, <2>3
<1>4. ASSUME m = (k + 1) * P
      PROVE  r = 0
  <2>1. q * P <= (k + 1) * P /\ (q + 1) * P = q * P + P
    BY <1>1, <1>2, <1>4, TimesKeepsOrder
  <2>2. CASE q < k + 1
    <3>1. (q + 1) * P <= (k + 1) * P
      BY <2>2, TimesKeepsOrder
    <3> QED  BY <1>1, <1>2, <1>4, <2>1, <3>1
  <2>3. CASE q >= k + 1
    <3>1. (k + 1) * P <= q * P
      BY <2>3, TimesKeepsOrder
    <3> QED  BY <1>1, <1>2, <1>4, <3>1
  <2> QED  BY <2>2, <2>3
<1> QED  BY <1>1, <1>3, <1>4

\* Where a month falls: in the period of the month before, or in the next one if
\* that period is over; n is -1 before the first.
LEMMA PeriodMoves ==
  ASSUME NEW m \in Nat, NEW P \in Nat \ {0}
  PROVE  \E c \in Nat : \E n \in {c - 1, c} :
           /\ c * P < m + 1 /\ m + 1 <= (c + 1) * P
           /\ {p \in 0..(m + 1) : p * P < m + 1} = 0..c
           /\ {p \in 0..m : p * P < m} = 0..n
           /\ m = 0 => c = 0
           /\ n = c - 1 <=> m = 0 \/ m % P = 0
           /\ n = c - 1 => m <= c * P
           /\ m # 0 => n \in Nat
<1>1. CASE m = 0
  <2>1. 0 * P = 0 /\ (0 + 1) * P = P
    BY TimesKeepsOrder
  <2>2. 0 * P < m + 1 /\ m + 1 <= (0 + 1) * P
    BY <1>1, <2>1
  <2>3. {p \in 0..(m + 1) : p * P < m + 1} = 0..0
    BY <2>2, PeriodsAre
  <2>4. {p \in 0..m : p * P < m} = 0..(0 - 1)
    BY <1>1, <2>1
  <2> QED  BY <1>1, <2>1, <2>2, <2>3, <2>4
<1>2. CASE m # 0
  <2>1. PICK k \in Nat : k * P < m /\ m <= (k + 1) * P
    BY <1>2, PeriodOf
  <2>2. {p \in 0..m : p * P < m} = 0..k
    BY <2>1, PeriodsAre
  <2>3. /\ (k + 1) * P = k * P + P /\ ((k + 1) + 1) * P = (k + 1) * P + P
        /\ k * P \in Nat /\ (k + 1) * P \in Nat
    BY TimesKeepsOrder
  <2>4. CASE m % P = 0
    <3>1. m = (k + 1) * P
      BY <2>1, <2>4, PeriodEnds
    <3> DEFINE c == k + 1
    <3>2. /\ c \in Nat /\ c * P < m + 1 /\ m + 1 <= (c + 1) * P /\ m <= c * P
          /\ k \in {c - 1, c} /\ k = c - 1
      BY <2>3, <3>1
    <3> HIDE DEF c
    <3>3. {p \in 0..(m + 1) : p * P < m + 1} = 0..c
      BY <3>2, PeriodsAre
    <3> QED  BY <1>2, <2>2, <2>4, <3>2, <3>3
  <2>5. CASE m % P # 0
    <3>1. m # (k + 1) * P
      BY <2>1, <2>5, PeriodEnds
    <3>2. k * P < m + 1 /\ m + 1 <= (k + 1) * P
      BY <2>1, <2>3, <3>1
    <3>3. {p \in 0..(m + 1) : p * P < m + 1} = 0..k
      BY <3>2, PeriodsAre
    <3> QED  BY <1>2, <2>2, <2>5, <3>2, <3>3
  <2> QED  BY <2>4, <2>5
<1> QED  BY <1>1, <1>2

(* The result of a period. *)

Within(p, u) == p * PeriodMonths < u /\ u <= (p + 1) * PeriodMonths

LEMMA PeriodMonthsTyped == PeriodMonths \in Nat \ {0}
BY ForecastAssumption DEF PeriodMonths

\* A month adds its income to the period it falls in.
LEMMA ResultsMove ==
  ASSUME Typed, NEW revenue \in Nat, NEW used \in Nat, ForecastMonth(revenue, used),
         NEW t, t = month + 1, NEW p
  PROVE  /\ Result(p) \in Int
         /\ Result(p)' = Result(p) + IF Within(p, t) THEN Pretax(revenue, used) ELSE 0
<1>1. t \in Months /\ month' = t
  <2>1. month \in 0..Horizon /\ month < Horizon /\ month' = month + 1
    BY DEF Typed, ForecastMonth
  <2> QED  BY <2>1, ForecastAssumption DEF Months
<1>2. /\ month \in Nat /\ t \in Int /\ t >= 1 /\ t <= Horizon /\ Horizon \in Nat
      /\ cfg' = cfg /\ rows \in [Months -> Row] /\ rows' \in [Months -> Row]
      /\ book \in Books /\ book' \in Books
  <2>1. Typed'
    BY ForecastMonthTyped
  <2>2. month \in Nat /\ t \in Int /\ t >= 1 /\ t <= Horizon /\ Horizon \in Nat
    BY <1>1, ForecastAssumption DEF Typed, Months
  <2> QED  BY <2>1, <2>2 DEF Typed, ForecastMonth, BooksOK
<1>3. PICK g \in [Months -> Int], g2 \in [Months -> Int] :
         /\ g = [u \in Months |-> rows[u].net_income + rows[u].tax]
         /\ g2 = [u \in Months |-> rows'[u].net_income + rows'[u].tax]
  <2>1. \A u \in Months : /\ rows[u].net_income + rows[u].tax \in Int
                          /\ rows'[u].net_income + rows'[u].tax \in Int
    BY <1>2 DEF Row
  <2> QED  BY <2>1
<1>4. PICK x \in Int : x = Pretax(revenue, used)
  BY MonthFlows
<1>5. rows' = [rows EXCEPT ![t] = RowOf(t, revenue, used)]
  BY <1>1 DEF ForecastMonth
<1>6. g2[t] = x
  <2>1. /\ RowOf(t, revenue, used).tax = book'.charged - book.charged
        /\ RowOf(t, revenue, used).net_income = Pretax(revenue, used) - (book'.charged - book.charged)
    BY DEF RowOf
  <2> HIDE DEF RowOf
  <2>2. rows'[t] = RowOf(t, revenue, used)
    BY <1>1, <1>2, <1>5
  <2>3. g2[t] = rows'[t].net_income + rows'[t].tax
    BY <1>1, <1>3
  <2>4. book'.charged - book.charged \in Int
    BY <1>2, BookFields
  <2> QED  BY <1>4, <2>1, <2>2, <2>3, <2>4
<1>7. \A u \in Months : u # t => g2[u] = g[u]
  <2>1. \A u \in Months : u # t => rows'[u] = rows[u]
    BY <1>2, <1>5
  <2> QED  BY <1>3, <2>1
<1> DEFINE S == {u \in 1..month : Within(p, u)}
           S2 == {u \in 1..t : Within(p, u)}
<1>8. PeriodMonths' = PeriodMonths
  BY <1>2 DEF PeriodMonths
<1>9. Result(p) = SumFunctionOnSet(g, S) /\ Result(p)' = SumFunctionOnSet(g2, S2)
  BY <1>1, <1>3, <1>8 DEF Result, Within
<1>10. S2 = IF Within(p, t) THEN S \cup {t} ELSE S
  BY <1>2
<1>11. IsFiniteSet(S) /\ IsFiniteSet(S2) /\ S \subseteq Months \ {t} /\ S2 \subseteq Months
  <2>1. 1..month \subseteq Months \ {t} /\ 1..t \subseteq Months
    BY <1>2 DEF Months
  <2>2. IsFiniteSet(1..month) /\ IsFiniteSet(1..t)
    BY <1>2, FS_Interval
  <2> QED  BY <2>1, <2>2, FS_Subset
<1> HIDE DEF S, S2
<1>12. SumFunctionOnSet(g, S) \in Int /\ SumFunctionOnSet(g2, S) = SumFunctionOnSet(g, S)
  <2>1. \A u \in S : g[u] \in Int /\ g2[u] = g[u]
    BY <1>7, <1>11
  <2> QED  BY <1>11, <2>1, SumInt, SumSame
<1>13. CASE Within(p, t)
  <2>1. S2 = S \cup {t} /\ t \in S2 /\ S2 \ {t} = S
    BY <1>10, <1>11, <1>13
  <2>2. \A u \in S2 : g2[u] \in Int
    BY <1>11
  <2>3. \A u \in S2 : SumFunctionOnSet(g2, S2) = g2[u] + SumFunctionOnSet(g2, S2 \ {u})
    BY <1>11, <2>2, SumTaken
  <2>4. SumFunctionOnSet(g2, S2) = x + SumFunctionOnSet(g2, S)
    BY <1>6, <2>1, <2>3
  <2>5. SumFunctionOnSet(g2, S2) = SumFunctionOnSet(g, S) + x
    BY <1>12, <2>4
  <2> QED  BY <1>4, <1>9, <1>12, <1>13, <2>5
<1>14. CASE ~Within(p, t)
  BY <1>9, <1>10, <1>12, <1>14
<1> QED  BY <1>13, <1>14

\* A period no month has reached has no result.
LEMMA NoResultYet ==
  ASSUME month \in Nat, NEW p \in Nat, month <= p * PeriodMonths
  PROVE  Result(p) = 0
<1>1. p * PeriodMonths \in Nat
  BY PeriodMonthsTyped
<1>2. {u \in 1..month : p * PeriodMonths < u /\ u <= (p + 1) * PeriodMonths} = {}
  BY <1>1
<1> QED  BY <1>2, SumOfNone DEF Result

(* Gains and losses. *)

Brought == IF cfg.treatment = "year" /\ cfg.deductible = "yes"
             THEN SumFunctionOnSet([p \in Periods |-> Pos(-Result(p))], Closed) ELSE 0
Gains == SumFunction([p \in Periods |-> Pos(Result(p))])

\* Sums over the results of the periods up to c.
LEMMA GainsMove ==
  ASSUME NEW R \in [Nat -> Int], NEW R2 \in [Nat -> Int], NEW c \in Nat, NEW x \in Int,
         \A p \in Nat : R2[p] = R[p] + IF p = c THEN x ELSE 0,
         NEW n \in {c - 1, c}, n = c - 1 => R[c] = 0
  PROVE  /\ SumFunctionOnSet([p \in 0..n |-> Pos(R[p])], 0..n) \in Int
         /\ SumFunctionOnSet([p \in 0..c |-> Pos(R2[p])], 0..c)
              = SumFunctionOnSet([p \in 0..n |-> Pos(R[p])], 0..n) - Pos(R[c]) + Pos(R[c] + x)
<1> DEFINE f == [p \in Nat |-> Pos(R[p])]
           f2 == [p \in Nat |-> Pos(R2[p])]
<1>1. f \in [Nat -> Int] /\ f2 \in [Nat -> Int]
  BY DEF Pos
<1>2. f[c] = Pos(R[c]) /\ f2[c] = Pos(R[c] + x) /\ \A p \in 0..(c - 1) : f2[p] = f[p]
  OBVIOUS
<1>3. n = c - 1 => f[c] = 0
  BY DEF Pos
<1>4. /\ SumFunctionOnSet([p \in 0..n |-> Pos(R[p])], 0..n) = SumFunctionOnSet(f, 0..n)
      /\ SumFunctionOnSet([p \in 0..c |-> Pos(R2[p])], 0..c) = SumFunctionOnSet(f2, 0..c)
  <2>1. IsFiniteSet(0..n) /\ IsFiniteSet(0..c)
    BY FS_Interval
  <2>2. /\ \A p \in 0..n : f[p] \in Int /\ [q \in 0..n |-> Pos(R[q])][p] = f[p]
        /\ \A p \in 0..c : f2[p] \in Int /\ [q \in 0..c |-> Pos(R2[q])][p] = f2[p]
    BY <1>1
  <2> HIDE DEF f, f2
  <2> QED  BY <2>1, <2>2, SumSame
<1> HIDE DEF f, f2
<1> DEFINE before == SumFunctionOnSet(f, 0..(c - 1))
<1>5. before \in Int /\ SumFunctionOnSet(f2, 0..(c - 1)) = before
  <2>1. PICK d \in Int : d = c - 1
    OBVIOUS
  <2>2. IsFiniteSet(0..d)
    BY FS_Interval
  <2>3. \A p \in 0..d : f[p] \in Int /\ f2[p] = f[p]
    BY <1>1, <1>2, <2>1
  <2> QED  BY <2>1, <2>2, <2>3, SumInt, SumSame
<1>6. /\ SumFunctionOnSet(f, 0..c) = before + f[c]
      /\ SumFunctionOnSet(f2, 0..c) = SumFunctionOnSet(f2, 0..(c - 1)) + f2[c]
  <2>1. PICK d \in Int : d = c - 1
    OBVIOUS
  <2>2. d + 1 = c /\ 0 <= d + 1 /\ \A p \in 0..(d + 1) : f[p] \in Int /\ f2[p] \in Int
    BY <1>1, <2>1
  <2>3. /\ SumFunctionOnSet(f, 0..(d + 1)) = SumFunctionOnSet(f, 0..d) + f[d + 1]
        /\ SumFunctionOnSet(f2, 0..(d + 1)) = SumFunctionOnSet(f2, 0..d) + f2[d + 1]
    BY <2>2, SumLast
  <2> QED  BY <2>1, <2>2, <2>3
<1>7. f[c] \in Int /\ f2[c] \in Int
  BY <1>1
<1>8. SumFunctionOnSet(f, 0..n) = before + f[c]
  BY <1>3, <1>5, <1>6, <1>7
<1> HIDE DEF before
<1> QED  BY <1>2, <1>4, <1>5, <1>6, <1>7, <1>8

\* And over what was lost in those over and done with.
LEMMA LossesMove ==
  ASSUME NEW R \in [Nat -> Int], NEW R2 \in [Nat -> Int], NEW c \in Nat,
         \A p \in Nat : p # c => R2[p] = R[p],
         NEW n \in {c - 1, c}
  PROVE  /\ SumFunctionOnSet([p \in 0..n |-> Pos(-R[p])], 0..(n - 1)) \in Int
         /\ SumFunctionOnSet([p \in 0..c |-> Pos(-R2[p])], 0..(c - 1))
              = SumFunctionOnSet([p \in 0..n |-> Pos(-R[p])], 0..(n - 1))
                  + IF n \in Nat /\ n = c - 1 THEN Pos(-R[n]) ELSE 0
<1> DEFINE f == [p \in Nat |-> Pos(-R[p])]
           g == [p \in 0..n |-> Pos(-R[p])]
           g2 == [p \in 0..c |-> Pos(-R2[p])]
<1>1. f \in [Nat -> Int]
  <2>1. \A p \in Nat : Pos(-R[p]) \in Int
    BY DEF Pos
  <2> QED  BY <2>1
<1>2. PICK d \in Int, e \in Int : d = c - 1 /\ e = n - 1
  OBVIOUS
<1>3. /\ \A p \in 0..e : g[p] = f[p] /\ f[p] \in Int
      /\ \A p \in 0..d : g2[p] = f[p] /\ f[p] \in Int
  <2>1. \A p \in 0..e : p \in 0..n /\ p \in Nat
    BY <1>2
  <2>2. \A p \in 0..d : p \in 0..c /\ p \in Nat /\ p # c
    BY <1>2
  <2>3. \A p \in Nat : f[p] \in Int /\ f[p] = Pos(-R[p])
    BY <1>1
  <2>4. /\ \A p \in 0..n : g[p] = Pos(-R[p])
        /\ \A p \in 0..c : g2[p] = Pos(-R2[p])
    OBVIOUS
  <2> HIDE DEF f, g, g2
  <2> QED  BY <2>1, <2>2, <2>3, <2>4
<1>4. f[n] = Pos(-R[n]) \/ n \notin Nat
  OBVIOUS
<1> HIDE DEF f, g, g2
<1>5. IsFiniteSet(0..d) /\ IsFiniteSet(0..e)
  BY FS_Interval
<1>6. /\ SumFunctionOnSet(g, 0..e) = SumFunctionOnSet(f, 0..e)
      /\ SumFunctionOnSet(g2, 0..d) = SumFunctionOnSet(f, 0..d)
      /\ SumFunctionOnSet(f, 0..e) \in Int
  BY <1>3, <1>5, SumSame, SumInt
<1>7. SumFunctionOnSet(f, 0..d)
        = SumFunctionOnSet(f, 0..e) + IF n \in Nat /\ n = c - 1 THEN f[n] ELSE 0
  <2>1. CASE n = c
    BY <1>2, <1>6, <2>1
  <2>2. CASE n = c - 1 /\ n \notin Nat
    <3>1. 0..d = {} /\ 0..e = {}
      BY <1>2, <2>2
    <3> QED  BY <2>2, <3>1, SumOfNone
  <2>3. CASE n = c - 1 /\ n \in Nat
    <3>1. d = e + 1 /\ n = e + 1 /\ 0 <= e + 1 /\ \A p \in 0..(e + 1) : f[p] \in Int
      BY <1>1, <1>2, <2>3
    <3>2. SumFunctionOnSet(f, 0..(e + 1)) = SumFunctionOnSet(f, 0..e) + f[e + 1]
      BY <3>1, SumLast
    <3> QED  BY <2>3, <3>1, <3>2
  <2> QED  BY <2>1, <2>2, <2>3
<1>8. /\ SumFunctionOnSet(g, 0..(n - 1)) \in Int
      /\ SumFunctionOnSet(g2, 0..(c - 1))
           = SumFunctionOnSet(g, 0..(n - 1)) + IF n \in Nat /\ n = c - 1 THEN f[n] ELSE 0
  BY <1>2, <1>6, <1>7
<1> QED  BY <1>4, <1>8 DEF g, g2

LEMMA EvenIncome ==
  ASSUME Typed, loan = Pos(cfg.loan - month * cfg.monthly_principal), line = cfg.line,
         NEW sale \in Sales
  PROVE  Pretax(sale.revenue, sale.cost) \in Evens
<1>1. /\ cfg \in Configs /\ month \in 0..Horizon /\ loan \in Nat /\ line \in Nat
      /\ sale.revenue \in Nat /\ sale.cost \in Nat
  BY ForecastAssumption DEF Typed, BalancesOK
<1>2. /\ cfg.loan \in Nat /\ cfg.monthly_principal \in Nat /\ cfg.annual_rate \in Nat
  BY <1>1, ConfigTypes
<1>3. /\ {cfg.nol, cfg.opex, cfg.da, Interest(cfg.line)} \subseteq Evens
      /\ \A n \in 0..Horizon : cfg.loan > n * cfg.monthly_principal =>
           Interest(cfg.loan - n * cfg.monthly_principal) \in Evens
      /\ {sale.revenue, sale.cost, Share(sale.revenue, cfg.pct_of_revenue),
          Share(sale.revenue, cfg.bad_debt_share)} \subseteq Evens
  <2>1. cfg \in Configs
    BY <1>1
  <2>2. {cfg.nol, cfg.opex, cfg.da, Interest(cfg.line)} \subseteq Evens
    BY <2>1, TaxUnitAssumption DEF Interest, Evens
  <2>3. ASSUME NEW n \in 0..Horizon, cfg.loan > n * cfg.monthly_principal
        PROVE  Interest(cfg.loan - n * cfg.monthly_principal) \in Evens
    <3>1. \A m \in 0..Horizon :
             cfg.loan > m * cfg.monthly_principal =>
               ((cfg.loan - m * cfg.monthly_principal) * cfg.annual_rate) \div 1200 \in TaxedWhole(cfg)
      BY <2>1, TaxUnitAssumption
    <3> QED  BY <2>3, <3>1 DEF Interest, Evens
  <2>4. {sale.revenue, sale.cost, Share(sale.revenue, cfg.pct_of_revenue),
         Share(sale.revenue, cfg.bad_debt_share)} \subseteq Evens
    BY <2>1, TaxUnitAssumption DEF Share, Evens
  <2> QED  BY <2>2, <2>3, <2>4
<1>4. Interest(loan) \in Evens
  <2>1. PICK left \in Int : left = cfg.loan - month * cfg.monthly_principal
    BY <1>1, <1>2
  <2>2. CASE left > 0
    <3>1. loan = cfg.loan - month * cfg.monthly_principal
      BY <2>1, <2>2 DEF Pos
    <3>2. month * cfg.monthly_principal \in Int
      BY <1>1, <1>2
    <3>3. cfg.loan > month * cfg.monthly_principal
      BY <1>2, <2>1, <2>2, <3>2
    <3> QED  BY <1>1, <1>3, <3>1, <3>3
  <2>3. CASE ~(left > 0)
    <3>1. loan = 0
      BY <2>1, <2>3 DEF Pos
    <3>2. 0 * cfg.annual_rate = 0
      BY <1>2
    <3>3. Interest(loan) = 0
      BY <3>1, <3>2 DEF Interest
    <3> QED  BY <1>1, <3>3, EvenAdds
  <2> QED  BY <2>2, <2>3
<1>5. /\ cfg.opex \in Evens /\ cfg.da \in Evens /\ Interest(line) \in Evens
      /\ sale.revenue \in Evens /\ sale.cost \in Evens
      /\ Share(sale.revenue, cfg.pct_of_revenue) \in Evens
      /\ BadDebt(sale.revenue) \in Evens
  BY <1>1, <1>3, EvenAdds DEF BadDebt
<1>6. \A y, z \in Evens : y + z \in Evens /\ y - z \in Evens
  BY <1>1, EvenAdds
<1>7. Opex(sale.revenue) \in Evens
  BY <1>5, <1>6 DEF Opex
<1> QED  BY <1>4, <1>5, <1>6, <1>7 DEF Pretax

-----------------------------------------------------------------------------
(* The months shelter. *)

Sheltering ==
  slips = 0 =>
      /\ loan = Pos(cfg.loan - month * cfg.monthly_principal) /\ line = cfg.line
      /\ Gains \in Int /\ Brought \in Int
      /\ EvenBook(book) /\ Sheltered(book, Gains, cfg.nol + Brought)
      /\ cfg.treatment # "year" => book.to_date = 0
      /\ cfg.treatment = "year" =>
           /\ OnYear(book)
           /\ month = 0 => book.to_date = 0
           /\ \A p \in Periods : p + 1 \notin Periods => book.to_date = Result(p)

LEMMA LoanFalls ==
  ASSUME NEW l \in Nat, NEW m \in Nat, NEW k \in Nat
  PROVE  LET b == Pos(l - m * k)
         IN b - Least(k, b) = Pos(l - (m + 1) * k)
<1>1. PICK y \in Nat : y = m * k
  OBVIOUS
<1>2. (m + 1) * k = y + k
  BY <1>1, NextMultiple
<1> QED  BY <1>1, <1>2 DEF Pos, Least

LEMMA MonthShelters ==
  ASSUME Typed, Sheltering, NEW sale \in Sales, ForecastMonth(sale.revenue, sale.cost)
  PROVE  Sheltering'
<1> DEFINE revenue == sale.revenue
           used == sale.cost
           P == PeriodMonths
<1>1. /\ revenue \in Nat /\ used \in Nat /\ cfg \in Configs /\ cfg' = cfg
      /\ month \in Nat /\ month < Horizon /\ month' = month + 1 /\ book \in Books
  BY ForecastAssumption DEF Typed, BooksOK, ForecastMonth
<1>2. slips = 0 /\ slips' = 0
  <2>1. month # Horizon
    BY <1>1, ForecastAssumption
  <2> QED  BY <2>1 DEF ForecastMonth, Typed
<1>3. /\ loan = Pos(cfg.loan - month * cfg.monthly_principal) /\ line = cfg.line
      /\ EvenBook(book) /\ Sheltered(book, Gains, cfg.nol + Brought)
      /\ cfg.treatment # "year" => book.to_date = 0
      /\ cfg.treatment = "year" =>
           /\ OnYear(book)
           /\ month = 0 => book.to_date = 0
           /\ \A p \in Periods : p + 1 \notin Periods => book.to_date = Result(p)
  BY <1>2 DEF Sheltering
<1>4. PICK x \in Int : x = Pretax(revenue, used) /\ x \in Evens
  BY <1>1, <1>3, MonthFlows, EvenIncome
<1>5. P \in Nat \ {0} /\ PeriodMonths' = P
  BY <1>1, PeriodMonthsTyped DEF PeriodMonths
<1> DEFINE At(c, n) ==
           /\ c * P < month + 1 /\ month + 1 <= (c + 1) * P
           /\ {p \in 0..(month + 1) : p * P < month + 1} = 0..c
           /\ {p \in 0..month : p * P < month} = 0..n
           /\ month = 0 => c = 0
           /\ n = c - 1 <=> month = 0 \/ month % P = 0
           /\ n = c - 1 => month <= c * P
           /\ month # 0 => n \in Nat
<1>20. PICK c \in Nat : \E n \in {c - 1, c} : At(c, n)
  <2> HIDE DEF P
  <2> QED  BY <1>1, <1>5, PeriodMoves
<1>6. PICK n \in {c - 1, c} : At(c, n)
  BY <1>20
<1>7. Periods = 0..n /\ Periods' = 0..c /\ Closed = 0..(n - 1) /\ Closed' = 0..(c - 1)
  <2>1. Periods = 0..n /\ Periods' = 0..c
    BY <1>1, <1>5, <1>6 DEF Periods
  <2>2. n \in Int
    BY <1>6
  <2> QED  BY <2>1, <2>2 DEF Closed
<1>8. \A p \in Nat : Within(p, month + 1) <=> p = c
  <2>1. ASSUME NEW p \in Nat, Within(p, month + 1)
        PROVE  p = c
    <3>1. /\ p * P \in Nat /\ (p + 1) * P \in Nat /\ c * P \in Nat /\ (c + 1) * P \in Nat
          /\ p + 1 \in Nat /\ c + 1 \in Nat
      BY <1>5, TimesKeepsOrder
    <3>2. p * P < month + 1 /\ month + 1 <= (p + 1) * P
      BY <2>1 DEF Within
    <3>3. p * P < (c + 1) * P /\ c * P < (p + 1) * P
      BY <1>1, <1>6, <3>1, <3>2
    <3>4. p < c + 1 /\ c < p + 1
      BY <1>5, <3>1, <3>3, TimesKeepsOrder
    <3> QED  BY <3>4
  <2> QED  BY <1>6, <2>1 DEF Within
<1>9. PICK R \in [Nat -> Int], R2 \in [Nat -> Int] :
         /\ \A p \in Nat : R[p] = Result(p) /\ R2[p] = Result(p)'
         /\ \A p \in Nat : R2[p] = R[p] + IF p = c THEN x ELSE 0
  <2>1. \A p \in Nat : /\ Result(p) \in Int
                       /\ Result(p)' = Result(p) + IF p = c THEN x ELSE 0
    BY <1>1, <1>4, <1>8, ResultsMove
  <2> DEFINE f == [p \in Nat |-> Result(p)]
             f2 == [p \in Nat |-> Result(p) + IF p = c THEN x ELSE 0]
  <2>2. f \in [Nat -> Int] /\ f2 \in [Nat -> Int]
    BY <2>1
  <2>3. \A p \in Nat : f[p] = Result(p) /\ f2[p] = Result(p) + IF p = c THEN x ELSE 0
    OBVIOUS
  <2> HIDE DEF f, f2
  <2> QED  BY <2>1, <2>2, <2>3
<1>10. n = c - 1 => R[c] = 0
  BY <1>1, <1>6, <1>9, NoResultYet
<1> HIDE DEF P, revenue, used
<1>11. Gains \in Int /\ Gains' = Gains - Pos(R[c]) + Pos(R[c] + x)
  <2> DEFINE g == [p \in 0..n |-> Pos(R[p])]
             g2 == [p \in 0..c |-> Pos(R2[p])]
  <2>1. 0..n \subseteq Nat /\ 0..c \subseteq Nat
    OBVIOUS
  <2>2. [p \in Periods |-> Pos(Result(p))] = g
    BY <1>7, <1>9, <2>1
  <2>3. [p \in Periods |-> Pos(Result(p))]' = g2
    BY <1>7, <1>9, <2>1
  <2>4. DOMAIN g = 0..n /\ DOMAIN g2 = 0..c
    OBVIOUS
  <2>5. SumFunctionOnSet(g, 0..n) \in Int
        /\ SumFunctionOnSet(g2, 0..c) = SumFunctionOnSet(g, 0..n) - Pos(R[c]) + Pos(R[c] + x)
    BY <1>9, <1>10, GainsMove
  <2> HIDE DEF g, g2
  <2>6. Gains = SumFunctionOnSet(g, 0..n) /\ Gains' = SumFunctionOnSet(g2, 0..c)
    BY <2>2, <2>3, <2>4 DEF Gains, SumFunction
  <2> QED  BY <2>5, <2>6
<1> DEFINE deducted == cfg.treatment = "year" /\ cfg.deductible = "yes"
           closing == n \in Nat /\ n = c - 1
<1>12. Brought \in Int /\ Brought' = Brought + IF deducted /\ closing THEN Pos(-R[n]) ELSE 0
  <2> DEFINE g == [p \in 0..n |-> Pos(-R[p])]
             g2 == [p \in 0..c |-> Pos(-R2[p])]
  <2>1. 0..n \subseteq Nat /\ 0..c \subseteq Nat
    OBVIOUS
  <2>2. [p \in Periods |-> Pos(-Result(p))] = g
    BY <1>7, <1>9, <2>1
  <2>3. [p \in Periods |-> Pos(-Result(p))]' = g2
    BY <1>7, <1>9, <2>1
  <2>4. SumFunctionOnSet(g, 0..(n - 1)) \in Int
        /\ SumFunctionOnSet(g2, 0..(c - 1))
             = SumFunctionOnSet(g, 0..(n - 1)) + IF closing THEN Pos(-R[n]) ELSE 0
    <3>1. \A p \in Nat : p # c => R2[p] = R[p]
      BY <1>9
    <3> QED  BY <1>6, <1>9, <3>1, LossesMove
  <2> HIDE DEF g, g2, closing
  <2>5. /\ Brought = IF deducted THEN SumFunctionOnSet(g, 0..(n - 1)) ELSE 0
        /\ Brought' = IF deducted THEN SumFunctionOnSet(g2, 0..(c - 1)) ELSE 0
    BY <1>1, <1>7, <2>2, <2>3 DEF Brought
  <2> HIDE DEF deducted
  <2> QED  BY <2>4, <2>5
<1>13. cfg.nol \in Nat /\ cfg.nol + Brought \in Int /\ cfg.nol + Brought' \in Int
  <2>1. cfg.nol \in Nat
    BY <1>1, ConfigTypes
  <2>2. n \in Nat => Pos(-R[n]) \in Int
    BY <1>9 DEF Pos
  <2> QED  BY <1>12, <2>1, <2>2
<1>14. R[c] \in Int /\ R2[c] = R[c] + x /\ (n \in Nat => R[n] \in Int)
  BY <1>9
<1>15. ASSUME cfg.treatment = "year"
       PROVE  /\ EvenBook(book') /\ Sheltered(book', Gains', cfg.nol + Brought') /\ OnYear(book')
              /\ \A p \in Periods' : p + 1 \notin Periods' => book'.to_date = Result(p)'
  <2> DEFINE o == Opened(book, cfg.deductible)
  <2>1. book' = Provided(o, x)
    BY <1>4, <1>15 DEF ForecastMonth, Taxed, YearTax, revenue, used
  <2>2. n \in Nat => book.to_date = R[n]
    BY <1>3, <1>7, <1>9, <1>15
  <2>3. P = YearMonths
    BY <1>15 DEF P, PeriodMonths
  <2>4. /\ o \in Books /\ EvenBook(o) /\ OnYear(o) /\ o.to_date = R[c]
        /\ Sheltered(o, Gains, cfg.nol + Brought')
    <3>1. CASE closing
      <4>1. month > 0 /\ month % YearMonths = 0
        BY <1>1, <1>6, <2>3, <3>1
      <4>2. o = YearEnd(book, cfg.deductible)
        BY <4>1 DEF Opened
      <4>3. o \in Books
        BY <1>1, ConfigTypes, OpenedIsBook
      <4>4. R[c] = 0
        BY <1>10, <3>1
      <4> DEFINE e == IF cfg.deductible = "yes" THEN Pos(-book.to_date) ELSE 0
      <4>5. cfg.nol + Brought' = cfg.nol + Brought + e
        <5>1. Brought' = Brought + e
          BY <1>12, <1>15, <2>2, <3>1
        <5>2. e \in Int
          BY <1>1, BookFields DEF Pos
        <5> HIDE DEF e
        <5> QED  BY <1>12, <1>13, <5>1, <5>2
      <4>6. LET y == YearEnd(book, cfg.deductible)
            IN /\ Sheltered(y, Gains, cfg.nol + Brought + e)
               /\ OnYear(y) /\ EvenBook(y) /\ y.to_date = 0
        BY <1>1, <1>3, <1>11, <1>13, YearEndShelters
      <4> HIDE DEF e, o
      <4> QED  BY <4>2, <4>3, <4>4, <4>5, <4>6
    <3>2. CASE ~closing
      <4>1. ~(month > 0 /\ month % YearMonths = 0)
        BY <1>1, <1>6, <2>3, <3>2
      <4>2. o = book
        BY <4>1 DEF Opened
      <4>3. book.to_date = R[c]
        BY <1>1, <1>3, <1>6, <1>10, <1>15, <2>2, <3>2
      <4>4. Brought' = Brought
        BY <1>12, <3>2
      <4> HIDE DEF o
      <4> QED  BY <1>1, <1>3, <1>15, <4>2, <4>3, <4>4
    <3> QED  BY <3>1, <3>2
  <2> HIDE DEF o
  <2>5. /\ Sheltered(book', Gains - Pos(R[c]) + Pos(R[c] + x), cfg.nol + Brought')
        /\ OnYear(book') /\ EvenBook(book')
    BY <1>1, <1>4, <1>11, <1>13, <2>1, <2>4, ProvisionShelters
  <2>6. book'.to_date = R2[c]
    BY <1>14, <2>1, <2>4 DEF Provided
  <2>7. \A p \in Periods' : p + 1 \notin Periods' => book'.to_date = Result(p)'
    <3>1. \A p \in 0..c : p + 1 \notin 0..c => p = c
      OBVIOUS
    <3> QED  BY <1>7, <1>9, <2>6, <3>1
  <2> QED  BY <1>11, <1>15, <2>5, <2>6, <2>7
<1>16. ASSUME cfg.treatment # "year"
       PROVE  /\ EvenBook(book') /\ Sheltered(book', Gains', cfg.nol + Brought')
              /\ book'.to_date = 0
  <2>1. PeriodMonths = 1
    BY <1>16 DEF PeriodMonths
  <2>2. n = c - 1
    <3>1. month % 1 = 0
      BY <1>1
    <3> QED  BY <1>6, <2>1, <3>1 DEF P
  <2>3. R[c] = 0 /\ Pos(R[c]) = 0 /\ R[c] + x = x
    BY <1>4, <1>10, <2>2 DEF Pos
  <2>4. Gains' = Gains + Pos(x)
    BY <1>11, <2>3
  <2>5. Brought' = Brought
    BY <1>12, <1>16
  <2>6. book' = MonthTax(book, x)
    BY <1>4, <1>16 DEF ForecastMonth, Taxed, revenue, used
  <2>7. /\ Sheltered(book', Gains + Pos(x), cfg.nol + Brought)
        /\ EvenBook(book') /\ book'.to_date = 0
    BY <1>1, <1>3, <1>4, <1>11, <1>13, <1>16, <2>6, MonthTaxShelters
  <2> QED  BY <1>16, <2>4, <2>5, <2>7
<1>17. /\ loan' = Pos(cfg.loan - month' * cfg.monthly_principal) /\ line' = cfg.line
  <2>1. cfg.loan \in Nat /\ cfg.monthly_principal \in Nat
    BY <1>1, ConfigTypes
  <2>2. loan' = loan - Least(cfg.monthly_principal, loan) /\ line' = line
    BY DEF ForecastMonth, Principal
  <2> QED  BY <1>1, <1>3, <2>1, <2>2, LoanFalls
<1>18. EvenBook(book') /\ Sheltered(book', Gains', cfg.nol + Brought')
  BY <1>15, <1>16
<1>19. EvenBook(book)' /\ Sheltered(book, Gains, cfg.nol + Brought)' /\ (OnYear(book') => OnYear(book)')
  BY <1>1, <1>18 DEF EvenBook, Evens, Sheltered, OnYear
<1>21. Gains' \in Int /\ Brought' \in Int
  <2>1. Pos(R[c]) \in Int /\ Pos(R[c] + x) \in Int /\ (n \in Nat => Pos(-R[n]) \in Int)
    BY <1>14 DEF Pos
  <2> QED  BY <1>11, <1>12, <2>1
<1> QED  BY <1>1, <1>15, <1>16, <1>17, <1>19, <1>21 DEF Sheltering

LEMMA InitShelters ==
  ASSUME Init
  PROVE  Sheltering
<1>1. /\ cfg \in Configs /\ month = 0 /\ loan = cfg.loan /\ line = cfg.line
      /\ book.available = cfg.nol /\ book.to_date = 0 /\ book.provided = 0 /\ book.charged = 0
  BY DEF Init, OpeningBook
<1>2. cfg.nol \in Nat /\ cfg.loan \in Nat /\ cfg.tax_rate \in Nat /\ cfg.monthly_principal \in Nat
  BY <1>1, ConfigTypes
<1>3. loan = Pos(cfg.loan - month * cfg.monthly_principal)
  <2>1. 0 * cfg.monthly_principal = 0
    BY <1>2
  <2> QED  BY <1>1, <1>2, <2>1 DEF Pos
<1>4. Periods = {} /\ Closed = {}
  <2>1. 0 * PeriodMonths = 0 /\ 0..month = {0}
    BY <1>1, PeriodMonthsTyped
  <2>2. Periods = {}
    BY <1>1, <2>1 DEF Periods
  <2> QED  BY <2>2 DEF Closed
<1>5. Gains = 0 /\ Brought = 0
  <2>1. DOMAIN [p \in Periods |-> Pos(Result(p))] = {}
    BY <1>4
  <2> QED  BY <1>4, <2>1, SumOfNone DEF Gains, Brought, SumFunction
<1>6. EvenBook(book)
  BY <1>1, TaxUnitAssumption, EvenAdds DEF EvenBook, Evens
<1>7. Sheltered(book, Gains, cfg.nol + Brought)
  <2>1. Left(book) = cfg.nol
    BY <1>1, <1>2 DEF Left, Pos
  <2>2. 0 - (cfg.nol + 0) + cfg.nol = 0 /\ cfg.tax_rate * 0 = 0
    BY <1>2
  <2> QED  BY <1>1, <1>5, <2>1, <2>2 DEF Sheltered
<1>8. OnYear(book)
  <2>1. Pos(0 - cfg.nol) = 0 /\ cfg.tax_rate * 0 = 0
    BY <1>2 DEF Pos
  <2> QED  BY <1>1, <2>1 DEF OnYear
<1> QED  BY <1>1, <1>3, <1>4, <1>5, <1>6, <1>7, <1>8 DEF Sheltering

LEMMA ShelteringShelters ==
  ASSUME Typed, Sheltering
  PROVE  LossesShelterOnce
<1> SUFFICES ASSUME slips = 0
             PROVE  100 * book.charged = cfg.tax_rate * (Gains - (cfg.nol + Brought - Left(book)))
  BY Zenon DEF LossesShelterOnce, Gains, Brought, Left
<1>1. /\ book.charged \in Int /\ book.available \in Nat /\ book.to_date \in Int
  BY BookFields DEF Typed, BooksOK
<1>2. 100 * book.charged = cfg.tax_rate * (Gains - (cfg.nol + Brought) + Left(book))
  BY DEF Sheltering, Sheltered
<1>3. Gains \in Int /\ cfg.nol \in Int /\ Brought \in Int /\ Left(book) \in Int
  <2>1. cfg.nol \in Nat
    BY ConfigTypes DEF Typed
  <2> QED  BY <1>1, <2>1 DEF Sheltering, Left, Pos
<1>4. Gains - (cfg.nol + Brought) + Left(book) = Gains - (cfg.nol + Brought - Left(book))
  BY <1>3
<1> QED  BY <1>2, <1>4, Zenon

LEMMA StutterShelters ==
  ASSUME Sheltering, UNCHANGED vars
  PROVE  Sheltering'
<1>1. /\ cfg' = cfg /\ month' = month /\ slips' = slips /\ book' = book /\ rows' = rows
      /\ loan' = loan /\ line' = line
  BY DEF vars, balances
<1>2. PeriodMonths' = PeriodMonths
  BY <1>1 DEF PeriodMonths
<1>3. Periods' = Periods /\ \A p : Result(p)' = Result(p)
  BY <1>1, <1>2 DEF Periods, Result
<1>4. Closed' = Closed
  BY <1>3 DEF Closed
<1>5. Gains' = Gains /\ Brought' = Brought
  BY <1>1, <1>3, <1>4 DEF Gains, Brought
<1> QED  BY <1>1, <1>3, <1>5 DEF Sheltering, EvenBook, Evens, Sheltered, OnYear

-----------------------------------------------------------------------------
(* The theorems. *)

IInv ==
  /\ Typed /\ BalanceSheetBalances /\ Moot /\ Chained /\ SalesSettledOnce /\ StockInv
  /\ Sheltering

LEMMA Inductive ==
  ASSUME IInv, [Next]_vars
  PROVE  IInv'
<1>1. ASSUME NEW sale \in Sales, ForecastMonth(sale.revenue, sale.cost)
      PROVE  IInv'
  <2>1. sale.revenue \in Nat /\ sale.cost \in Nat
    BY ForecastAssumption
  <2>2. Typed' /\ BalanceSheetBalances' /\ Moot'
    BY <1>1, <2>1, ForecastMonthTyped, MonthArticulates, MonthKeepsMoot DEF IInv
  <2>3. Chained' /\ StockInv'
    BY <1>1, <2>1, MonthChains, MonthKeepsStock DEF IInv
  <2>4. SalesSettledOnce'
    BY <1>1, MonthSettles DEF IInv
  <2>5. Sheltering'
    BY <1>1, MonthShelters DEF IInv
  <2> QED  BY <2>2, <2>3, <2>4, <2>5 DEF IInv
<1>2. ASSUME NEW from \in Months, NEW to \in Months, NEW amount \in Slips,
             ApplyReceiptDelay(from, to, amount)
      PROVE  IInv'
  <2>1. Typed' /\ slips' # 0
    BY <1>2, DelayTyped DEF IInv
  <2>2. BalanceSheetBalances'
    BY <2>1 DEF BalanceSheetBalances
  <2>3. Moot'
    BY <1>2 DEF IInv, Moot, ApplyReceiptDelay, history
  <2>4. Chained' /\ StockInv'
    BY <1>2, DelayChains, DelayKeepsStock DEF IInv
  <2>5. SalesSettledOnce'
    BY <1>2 DEF IInv, SalesSettledOnce, Later, ApplyReceiptDelay, balances
  <2>6. Sheltering'
    BY <2>1 DEF Sheltering
  <2> QED  BY <2>1, <2>2, <2>3, <2>4, <2>5, <2>6 DEF IInv
<1>3. CASE UNCHANGED vars
  <2>1. Typed'
    BY <1>3, StutterTyped DEF IInv
  <2>2. BalanceSheetBalances'
    BY <1>3 DEF IInv, vars, balances, history, BalanceSheetBalances, EndingCash, Owed
  <2>3. Moot'
    BY <1>3 DEF IInv, vars, history, Moot
  <2>4. Chained'
    BY <1>3 DEF IInv, vars, Chained, OperatingAgain
  <2>5. SalesSettledOnce'
    BY <1>3 DEF IInv, vars, balances, SalesSettledOnce, Later
  <2>6. StockInv'
    BY <1>3 DEF IInv, vars, balances, StockInv, Level, UsedAfter
  <2>7. Sheltering'
    BY <1>3, StutterShelters DEF IInv
  <2> QED  BY <2>1, <2>2, <2>3, <2>4, <2>5, <2>6, <2>7 DEF IInv
<1> QED  BY <1>1, <1>2, <1>3 DEF Next

LEMMA Initially == Init => IInv
<1> SUFFICES ASSUME Init PROVE IInv
  OBVIOUS
<1>1. Moot
  <2>1. cfg.nol \in Nat
    BY ConfigTypes DEF Init
  <2>2. book = OpeningBook /\ ifSo = OpeningBook /\ ifNot = OpeningBook
    BY DEF Init
  <2> QED  BY <2>1, <2>2 DEF Moot, Alike, Ahead, OpeningBook
<1>2. Chained
  <2>1. 1..month = {}
    BY DEF Init
  <2> QED  BY <2>1 DEF Chained
<1> QED  BY <1>1, <1>2, InitTyped, InitArticulates, InitSettles, InitStock, InitShelters DEF IInv

\* Nothing the forecast keeps leaves its type, whatever is delayed afterwards.
THEOREM ForecastTypes == Spec => []TypeOK
<1>1. IInv => TypeOK
  BY DEF IInv, Typed, Spreads, BalancesOK, BooksOK, TypeOK
<1> QED  BY <1>1, Initially, Inductive, PTL DEF Spec

\* The forecast articulates for every company, horizon and sales: cash and the
\* other balances move by the income earned and by nothing else.
THEOREM ForecastBalances == Spec => []BalanceSheetBalances
<1>1. IInv => BalanceSheetBalances
  BY DEF IInv
<1> QED  BY <1>1, Initially, Inductive, PTL DEF Spec

\* Whoever leaves the deductibility of forecast losses open gets the tax that
\* either answer gives, or no forecast.
THEOREM UnknownIsMoot == Spec => []UnknownLossIsMoot
<1>1. IInv => UnknownLossIsMoot
  BY DEF IInv, Moot, Alike, UnknownLossIsMoot
<1> QED  BY <1>1, Initially, Inductive, PTL DEF Spec

\* Every recognised dollar is collected once or written off once, for every profile
\* whose shares add up to the whole.
THEOREM SalesSettle == Spec => []SalesSettledOnce
<1>1. IInv => SalesSettledOnce
  BY DEF IInv
<1> QED  BY <1>1, Initially, Inductive, PTL DEF Spec

\* Replenished stock is the least that purchases, never negative, can keep at or
\* above every month's target.
THEOREM StockIsLean == Spec => []StockIsLeast
<1>1. IInv => StockIsLeast
  BY StockIsMax DEF IInv
<1> QED  BY <1>1, Initially, Inductive, PTL DEF Spec

\* A tax loss shelters income once, whatever the length of the income year and
\* whichever month a loss falls in: the tax to date is that on all profitable
\* periods less the losses used up, and those were brought forward or earned.
THEOREM LossesShelter == Spec => []LossesShelterOnce
<1>1. IInv => LossesShelterOnce
  BY ShelteringShelters DEF IInv
<1> QED  BY <1>1, Initially, Inductive, PTL DEF Spec

\* A delayed receipt moves cash between two month ends and changes nothing else,
\* in a forecast of any length and however often a receipt is delayed.
THEOREM DelaysMoveTiming == Spec => DelayMovesTiming
<1> DEFINE Step ==
      slips' # slips =>
         \E from, to \in Months, amount \in Slips :
            \A u \in Months :
                /\ rows'[u].ending_cash - rows[u].ending_cash
                     = (IF u >= to THEN amount ELSE 0) - (IF u >= from THEN amount ELSE 0)
                /\ rows'[u].net_income = rows[u].net_income /\ rows'[u].tax = rows[u].tax
<1>1. ASSUME IInv, [Next]_vars
      PROVE  [Step]_vars
  <2>1. ASSUME NEW from \in Months, NEW to \in Months, NEW amount \in Slips,
               ApplyReceiptDelay(from, to, amount)
        PROVE  Step
    <3>1. \A u \in Months :
             /\ rows'[u].ending_cash - rows[u].ending_cash
                  = (IF u >= to THEN amount ELSE 0) - (IF u >= from THEN amount ELSE 0)
             /\ rows'[u].net_income = rows[u].net_income /\ rows'[u].tax = rows[u].tax
      BY <1>1, <2>1, DelayMoves DEF IInv, Moved
    <3> QED  BY <3>1
  <2>2. ASSUME NEW sale \in Sales, ForecastMonth(sale.revenue, sale.cost)
        PROVE  Step
    BY <2>2 DEF ForecastMonth
  <2> HIDE DEF Step
  <2> QED  BY <1>1, <2>1, <2>2 DEF Next
<1>2. Spec => [][Step]_vars
  <2> HIDE DEF Step
  <2> QED  BY <1>1, Initially, Inductive, PTL DEF Spec
<1> QED  BY <1>2 DEF DelayMovesTiming
=============================================================================
