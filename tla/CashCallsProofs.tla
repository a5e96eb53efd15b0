---------------------------- MODULE CashCallsProofs ----------------------------
(***************************************************************************)
(* Theorems about a session of CashCalls, for every statutory table, every *)
(* argument and every rounding unit that fits the assumptions: a payment   *)
(* plan's schedule reconciles to the cent; a payroll is owed and paid      *)
(* once; cash flows, charges and observations are put where they belong.   *)
(* The first lemmas are inductions and the sums the model is built from;   *)
(* then the calendar, the plan, the payroll, and cash, assets and series.  *)
(***************************************************************************)
EXTENDS CashCalls, WellFoundedInduction, FiniteSetTheorems, TLAPS

(* Induction. *)

LEMMA SmallestNat ==
  ASSUME NEW T, T \subseteq Nat, T # {}
  PROVE  \E x \in T : \A y \in T : x <= y
<1> DEFINE R == {ss \in Nat \X Nat : ss[1] < ss[2]}
<1>1. IsWellFoundedOn(R, Nat)
  BY NatLessThanWellFounded DEF OpToRel
<1>2. \E x \in T : \A y \in T : ~(<<y, x>> \in R)
  <2> HIDE DEF R
  <2> QED  BY <1>1, WFMin
<1>3. ASSUME NEW x \in T, NEW y \in T, ~(<<y, x>> \in R)
      PROVE  x <= y
  <2>1. x \in Nat /\ y \in Nat
    OBVIOUS
  <2>2. ~(y < x)
    BY <1>3, <2>1
  <2> QED  BY <2>1, <2>2
<1> QED  BY <1>2, <1>3

LEMMA EveryNat ==
  ASSUME NEW T, 0 \in T, \A n \in Nat : n \in T => n + 1 \in T
  PROVE  \A n \in Nat : n \in T
<1> DEFINE U == Nat \ T
<1> SUFFICES ASSUME U # {} PROVE FALSE
  OBVIOUS
<1>1. PICK n \in U : \A m \in U : n <= m
  <2>1. U \subseteq Nat
    OBVIOUS
  <2> HIDE DEF U
  <2> QED  BY <2>1, SmallestNat
<1>2. n \in Nat /\ n # 0
  OBVIOUS
<1>3. n - 1 \in Nat /\ n - 1 \in T
  BY <1>1, <1>2
<1> QED  BY <1>2, <1>3

\* A set of subsets of a finite set that holds every subset all of whose subsets
\* one element smaller it holds, holds them all.
LEMMA EverySubset ==
  ASSUME NEW S, IsFiniteSet(S), NEW T,
         \A R \in SUBSET S : (\A x \in R : R \ {x} \in T) => R \in T
  PROVE  \A R \in SUBSET S : R \in T
<1> DEFINE N == {n \in Nat : \A R \in SUBSET S : Cardinality(R) = n => R \in T}
<1>1. \A R \in SUBSET S : IsFiniteSet(R) /\ Cardinality(R) \in Nat
                          /\ (Cardinality(R) = 0 <=> R = {})
  BY FS_Subset, FS_CardinalityType, FS_EmptySet
<1>2. 0 \in N
  BY <1>1
<1>3. ASSUME NEW n \in Nat, n \in N
      PROVE  n + 1 \in N
  <2>1. ASSUME NEW R \in SUBSET S, Cardinality(R) = n + 1
        PROVE  R \in T
    <3>1. \A x \in R : Cardinality(R \ {x}) = Cardinality(R) - 1
      BY <1>1, FS_RemoveElement
    <3>2. \A x \in R : R \ {x} \in SUBSET S /\ Cardinality(R \ {x}) = n
      BY <2>1, <3>1
    <3> QED  BY <1>3, <3>2
  <2> QED  BY <2>1
<1>4. \A n \in Nat : n \in N
  <2> HIDE DEF N
  <2> QED  BY <1>2, <1>3, EveryNat
<1> QED  BY <1>1, <1>4

(* Sums. *)

Pick(s) == CHOOSE x \in s : TRUE

\* it adds g up over every subset of S, as the fold of the community modules does.
Adds(it, g, S) ==
  it = [s \in SUBSET S |-> IF s = {} THEN 0 ELSE g[Pick(s)] + it[s \ {Pick(s)}]]

LEMMA Picked ==
  ASSUME NEW S, IsFiniteSet(S), S # {}
  PROVE  /\ Pick(S) \in S
         /\ IsFiniteSet(S \ {Pick(S)}) /\ Cardinality(S) \in Nat /\ Cardinality(S \ {Pick(S)}) \in Nat
         /\ Cardinality(S) = Cardinality(S \ {Pick(S)}) + 1
<1>1. Pick(S) \in S
  BY DEF Pick
<1> QED  BY <1>1, FS_RemoveElement, FS_CardinalityType

LEMMA SomethingAdds ==
  ASSUME NEW S, IsFiniteSet(S), NEW g, \A x \in S : g[x] \in Int
  PROVE  \E it : Adds(it, g, S) /\ it \in [SUBSET S -> Int]
<1> DEFINE Small(n) == {s \in SUBSET S : Cardinality(s) <= n}
           Fits(it, n) == /\ it \in [Small(n) -> Int]
                          /\ \A s \in Small(n) :
                                it[s] = IF s = {} THEN 0 ELSE g[Pick(s)] + it[s \ {Pick(s)}]
           T == {n \in Nat : \E it : Fits(it, n)}
<1>0. \A s \in SUBSET S : IsFiniteSet(s) /\ Cardinality(s) \in Nat
  BY FS_Subset, FS_CardinalityType
<1>1. 0 \in T
  <2>1. Small(0) = {{}}
    BY <1>0, FS_EmptySet
  <2>2. Fits([s \in {{}} |-> 0], 0)
    BY <2>1
  <2> HIDE DEF Fits
  <2> QED  BY <2>2
<1>2. ASSUME NEW n \in Nat, n \in T
      PROVE  n + 1 \in T
  <2>1. PICK it : Fits(it, n)
    BY <1>2
  <2> DEFINE more == [s \in Small(n + 1) |->
                        IF s \in Small(n) THEN it[s] ELSE g[Pick(s)] + it[s \ {Pick(s)}]]
  <2>2. ASSUME NEW s \in SUBSET S, s # {}, Cardinality(s) <= n + 1
        PROVE  s \ {Pick(s)} \in Small(n) /\ g[Pick(s)] \in Int
    <3>1. Pick(s) \in s /\ Cardinality(s) \in Nat /\ Cardinality(s \ {Pick(s)}) \in Nat
          /\ Cardinality(s) = Cardinality(s \ {Pick(s)}) + 1
      BY <1>0, <2>2, Picked
    <3> QED  BY <2>2, <3>1
  <2>3. {} \in Small(n) /\ Small(n) \subseteq Small(n + 1)
    BY <1>0, FS_EmptySet
  <2>4. more \in [Small(n + 1) -> Int]
    <3>1. ASSUME NEW s \in Small(n + 1), s \notin Small(n)
          PROVE  g[Pick(s)] + it[s \ {Pick(s)}] \in Int
      <4>1. s \in SUBSET S /\ s # {} /\ Cardinality(s) <= n + 1
        BY <2>3, <3>1
      <4>2. s \ {Pick(s)} \in Small(n) /\ g[Pick(s)] \in Int
        BY <2>2, <4>1
      <4>3. it[s \ {Pick(s)}] \in Int
        BY <2>1, <4>2
      <4> QED  BY <4>2, <4>3
    <3>2. \A s \in Small(n) : it[s] \in Int
      BY <2>1
    <3> HIDE DEF Small
    <3> QED  BY <3>1, <3>2
  <2>5. \A s \in Small(n) : more[s] = it[s]
    BY <2>3
  <2>6. ASSUME NEW s \in Small(n + 1)
        PROVE  more[s] = IF s = {} THEN 0 ELSE g[Pick(s)] + more[s \ {Pick(s)}]
    <3>1. CASE s = {}
      BY <2>1, <2>3, <2>5, <3>1
    <3>2. CASE s # {}
      <4>1. s \ {Pick(s)} \in Small(n)
        BY <2>2, <3>2
      <4>2. more[s \ {Pick(s)}] = it[s \ {Pick(s)}]
        BY <2>5, <4>1
      <4>3. more[s] = g[Pick(s)] + it[s \ {Pick(s)}]
        BY <2>1, <3>2
      <4> QED  BY <3>2, <4>2, <4>3
    <3> QED  BY <3>1, <3>2
  <2>7. Fits(more, n + 1)
    <3> HIDE DEF more, Small
    <3> QED  BY <2>4, <2>6
  <2> HIDE DEF Fits
  <2> QED  BY <2>7
<1>3. \A n \in Nat : n \in T
  <2> HIDE DEF T
  <2> QED  BY <1>1, <1>2, EveryNat
<1>4. Cardinality(S) \in T
  BY <1>0, <1>3
<1>5. Small(Cardinality(S)) = SUBSET S
  BY <1>0, FS_Subset
<1>6. PICK it : Fits(it, Cardinality(S))
  BY <1>4
<1>7. Adds(it, g, S)
  BY <1>5, <1>6 DEF Adds
<1> QED  BY <1>5, <1>6, <1>7

LEMMA SumIsAdded ==
  ASSUME NEW S, IsFiniteSet(S), NEW g, \A x \in S : g[x] \in Int
  PROVE  \E it : Adds(it, g, S) /\ SumFunctionOnSet(g, S) = it[S]
<1> DEFINE it == CHOOSE it : Adds(it, g, S)
<1>1. Adds(it, g, S)
  BY SomethingAdds
<1>2. SumFunctionOnSet(g, S) = it[S]
  BY DEF SumFunctionOnSet, FoldFunctionOnSet, MapThenFoldSet, Adds, Pick
<1> QED  BY <1>1, <1>2

\* What adds up agrees wherever the summands do.
LEMMA AddsAgree ==
  ASSUME NEW S, NEW U, IsFiniteSet(S), IsFiniteSet(U), NEW g, NEW h,
         \A x \in S \cap U : g[x] = h[x],
         NEW it, NEW that, Adds(it, g, S), Adds(that, h, U),
         NEW s \in SUBSET (S \cap U)
  PROVE  it[s] = that[s]
<1> DEFINE T == {r \in SUBSET (S \cap U) : it[r] = that[r]}
<1>1. ASSUME NEW r \in SUBSET (S \cap U), \A x \in r : r \ {x} \in T
      PROVE  r \in T
  <2>1. CASE r = {}
    BY <2>1 DEF Adds
  <2>2. CASE r # {}
    <3>1. Pick(r) \in r
      BY <2>2 DEF Pick
    <3>2. it[r \ {Pick(r)}] = that[r \ {Pick(r)}] /\ g[Pick(r)] = h[Pick(r)]
      BY <1>1, <3>1
    <3>3. it[r] = g[Pick(r)] + it[r \ {Pick(r)}] /\ that[r] = h[Pick(r)] + that[r \ {Pick(r)}]
      BY <2>2 DEF Adds
    <3> QED  BY <3>2, <3>3
  <2> QED  BY <2>1, <2>2
<1>2. IsFiniteSet(S \cap U)
  BY FS_Subset
<1>3. \A r \in SUBSET (S \cap U) : r \in T
  <2> HIDE DEF T
  <2> QED  BY <1>1, <1>2, EverySubset
<1> QED  BY <1>3

\* Sums of the same summands are the same.
LEMMA SumSame ==
  ASSUME NEW S, IsFiniteSet(S), NEW g, NEW h, \A x \in S : g[x] \in Int /\ h[x] = g[x]
  PROVE  SumFunctionOnSet(h, S) = SumFunctionOnSet(g, S)
<1>1. PICK it : Adds(it, g, S) /\ SumFunctionOnSet(g, S) = it[S]
  BY SumIsAdded
<1>2. PICK that : Adds(that, h, S) /\ SumFunctionOnSet(h, S) = that[S]
  BY SumIsAdded
<1>3. it[S] = that[S]
  BY <1>1, <1>2, AddsAgree
<1> QED  BY <1>1, <1>2, <1>3

LEMMA SumOfNone ==
  ASSUME NEW g
  PROVE  SumFunctionOnSet(g, {}) = 0
<1>1. PICK it : Adds(it, g, {}) /\ SumFunctionOnSet(g, {}) = it[{}]
  BY SumIsAdded, FS_EmptySet
<1> QED  BY <1>1 DEF Adds

LEMMA SumPicked ==
  ASSUME NEW S, IsFiniteSet(S), S # {}, NEW g, \A x \in S : g[x] \in Int
  PROVE  SumFunctionOnSet(g, S) = g[Pick(S)] + SumFunctionOnSet(g, S \ {Pick(S)})
<1> DEFINE R == S \ {Pick(S)}
<1>1. IsFiniteSet(R) /\ \A x \in R : g[x] \in Int
  BY Picked
<1>2. PICK it : Adds(it, g, S) /\ SumFunctionOnSet(g, S) = it[S]
  BY SumIsAdded
<1>3. PICK that : Adds(that, g, R) /\ SumFunctionOnSet(g, R) = that[R]
  BY <1>1, SumIsAdded
<1>4. it[R] = that[R]
  <2>1. R \in SUBSET (S \cap R)
    OBVIOUS
  <2> HIDE DEF R
  <2> QED  BY <1>1, <1>2, <1>3, <2>1, AddsAgree
<1>5. it[S] = g[Pick(S)] + it[R]
  BY <1>2 DEF Adds
<1> QED  BY <1>2, <1>3, <1>4, <1>5

LEMMA SumInt ==
  ASSUME NEW S, IsFiniteSet(S), NEW g, \A x \in S : g[x] \in Int
  PROVE  SumFunctionOnSet(g, S) \in Int
<1>1. PICK it : Adds(it, g, S) /\ SumFunctionOnSet(g, S) = it[S]
  BY SumIsAdded
<1>2. PICK that : Adds(that, g, S) /\ that \in [SUBSET S -> Int]
  BY SomethingAdds
<1>3. it[S] = that[S]
  BY <1>1, <1>2, AddsAgree
<1> QED  BY <1>1, <1>2, <1>3

\* Any summand can be taken out of a sum.
LEMMA SumTaken ==
  ASSUME NEW U, IsFiniteSet(U), NEW g, \A x \in U : g[x] \in Int
  PROVE  \A x \in U : SumFunctionOnSet(g, U) = g[x] + SumFunctionOnSet(g, U \ {x})
<1> DEFINE Tot(S) == SumFunctionOnSet(g, S)
           T == {S \in SUBSET U : \A x \in S : Tot(S) = g[x] + Tot(S \ {x})}
<1>1. ASSUME NEW S \in SUBSET U, \A x \in S : S \ {x} \in T, NEW x \in S
      PROVE  Tot(S) = g[x] + Tot(S \ {x})
  <2>1. S # {} /\ IsFiniteSet(S) /\ \A y \in S : g[y] \in Int
    BY FS_Subset
  <2>2. PICK p \in S : Tot(S) = g[p] + Tot(S \ {p})
    BY <2>1, SumPicked, Picked
  <2>3. CASE x # p
    <3> DEFINE R == (S \ {p}) \ {x}
    <3>1. x \in S \ {p} /\ p \in S \ {x} /\ (S \ {x}) \ {p} = R
      BY <2>3
    <3>2. Tot(S \ {p}) = g[x] + Tot(R)
      BY <1>1, <3>1
    <3>3. Tot(S \ {x}) = g[p] + Tot(R)
      <4>1. Tot(S \ {x}) = g[p] + Tot((S \ {x}) \ {p})
        BY <1>1, <3>1
      <4> QED  BY <3>1, <4>1
    <3>4. Tot(R) \in Int /\ g[p] \in Int /\ g[x] \in Int
      <4>1. IsFiniteSet(R) /\ \A y \in R : g[y] \in Int
        BY <2>1, FS_RemoveElement
      <4> QED  BY <2>1, <4>1, SumInt
    <3> QED  BY <2>2, <3>2, <3>3, <3>4
  <2> QED  BY <2>2, <2>3
<1>2. \A S \in SUBSET U : S \in T
  <2>1. \A S \in SUBSET U : (\A x \in S : S \ {x} \in T) => S \in T
    BY <1>1
  <2> HIDE DEF T
  <2> QED  BY <2>1, EverySubset
<1> QED  BY <1>2

LEMMA SumOfOne ==
  ASSUME NEW a, NEW g, g[a] \in Int
  PROVE  SumFunctionOnSet(g, {a}) = g[a]
<1>1. IsFiniteSet({a}) /\ {a} \ {a} = {}
  BY FS_Singleton
<1>2. SumFunctionOnSet(g, {a}) = g[a] + SumFunctionOnSet(g, {a} \ {a})
  BY <1>1, SumTaken
<1> QED  BY <1>1, <1>2, SumOfNone

LEMMA SumFirst ==
  ASSUME NEW a \in Int, NEW b \in Int, a <= b, NEW g, \A x \in a..b : g[x] \in Int
  PROVE  SumFunctionOnSet(g, a..b) = g[a] + SumFunctionOnSet(g, (a + 1)..b)
<1>1. a \in a..b /\ (a..b) \ {a} = (a + 1)..b
  OBVIOUS
<1>2. IsFiniteSet(a..b)
  BY FS_Interval
<1>3. SumFunctionOnSet(g, a..b) = g[a] + SumFunctionOnSet(g, (a..b) \ {a})
  BY <1>1, <1>2, SumTaken
<1> QED  BY <1>1, <1>3

LEMMA SumLast ==
  ASSUME NEW a \in Int, NEW b \in Int, a <= b + 1, NEW g, \A x \in a..(b + 1) : g[x] \in Int
  PROVE  SumFunctionOnSet(g, a..(b + 1)) = SumFunctionOnSet(g, a..b) + g[b + 1]
<1> DEFINE c == b + 1
<1>1. c \in a..c /\ (a..c) \ {c} = a..b
  OBVIOUS
<1>2. IsFiniteSet(a..c) /\ IsFiniteSet(a..b)
  BY FS_Interval
<1>3. SumFunctionOnSet(g, a..c) = g[c] + SumFunctionOnSet(g, (a..c) \ {c})
  BY <1>1, <1>2, SumTaken
<1>4. g[c] \in Int /\ SumFunctionOnSet(g, a..b) \in Int
  <2>1. \A x \in a..b : g[x] \in Int
    OBVIOUS
  <2> QED  BY <1>1, <1>2, <2>1, SumInt
<1>5. SumFunctionOnSet(g, a..c) = g[c] + SumFunctionOnSet(g, a..b)
  BY <1>1, <1>3
<1> HIDE DEF c
<1>6. SumFunctionOnSet(g, a..c) = SumFunctionOnSet(g, a..b) + g[c]
  BY <1>4, <1>5
<1> QED  BY <1>6 DEF c

LEMMA SumOfZeros ==
  ASSUME NEW S, IsFiniteSet(S), NEW g, \A x \in S : g[x] = 0
  PROVE  SumFunctionOnSet(g, S) = 0
<1> DEFINE T == {R \in SUBSET S : SumFunctionOnSet(g, R) = 0}
<1>1. ASSUME NEW R \in SUBSET S, \A x \in R : R \ {x} \in T
      PROVE  SumFunctionOnSet(g, R) = 0
  <2>1. CASE R # {}
    <3>1. IsFiniteSet(R) /\ \A x \in R : g[x] \in Int
      BY FS_Subset
    <3>2. Pick(R) \in R
      BY <2>1 DEF Pick
    <3>3. SumFunctionOnSet(g, R) = g[Pick(R)] + SumFunctionOnSet(g, R \ {Pick(R)})
      BY <2>1, <3>1, SumPicked
    <3>4. g[Pick(R)] = 0 /\ SumFunctionOnSet(g, R \ {Pick(R)}) = 0
      BY <1>1, <3>2
    <3> QED  BY <3>3, <3>4
  <2> QED  BY <2>1, SumOfNone
<1>2. \A R \in SUBSET S : R \in T
  <2>1. \A R \in SUBSET S : (\A x \in R : R \ {x} \in T) => R \in T
    BY <1>1
  <2> HIDE DEF T
  <2> QED  BY <2>1, EverySubset
<1> QED  BY <1>2

\* Sums add up term by term.
LEMMA SumPlus ==
  ASSUME NEW S, IsFiniteSet(S), NEW f, NEW d, NEW g,
         \A x \in S : f[x] \in Int /\ d[x] \in Int /\ g[x] = f[x] + d[x]
  PROVE  SumFunctionOnSet(g, S) = SumFunctionOnSet(f, S) + SumFunctionOnSet(d, S)
<1> DEFINE Both(R) == SumFunctionOnSet(f, R) + SumFunctionOnSet(d, R)
           T == {R \in SUBSET S : SumFunctionOnSet(g, R) = Both(R)}
<1>1. ASSUME NEW R \in SUBSET S, \A x \in R : R \ {x} \in T
      PROVE  SumFunctionOnSet(g, R) = Both(R)
  <2>1. CASE R = {}
    <3>1. /\ SumFunctionOnSet(f, R) = 0 /\ SumFunctionOnSet(d, R) = 0
          /\ SumFunctionOnSet(g, R) = 0
      BY <2>1, SumOfNone
    <3> QED  BY <3>1
  <2>2. CASE R # {}
    <3>1. PICK p \in R : p = Pick(R)
      BY <2>2 DEF Pick
    <3>2. IsFiniteSet(R) /\ \A x \in R : f[x] \in Int /\ d[x] \in Int /\ g[x] \in Int
      BY FS_Subset
    <3>3. /\ SumFunctionOnSet(f, R) = f[p] + SumFunctionOnSet(f, R \ {p})
          /\ SumFunctionOnSet(d, R) = d[p] + SumFunctionOnSet(d, R \ {p})
          /\ SumFunctionOnSet(g, R) = g[p] + SumFunctionOnSet(g, R \ {p})
      BY <2>2, <3>1, <3>2, SumPicked
    <3>4. SumFunctionOnSet(g, R \ {p}) = Both(R \ {p})
      BY <1>1
    <3>5. /\ SumFunctionOnSet(f, R \ {p}) \in Int /\ SumFunctionOnSet(d, R \ {p}) \in Int
          /\ f[p] \in Int /\ d[p] \in Int /\ g[p] = f[p] + d[p]
      <4>1. IsFiniteSet(R \ {p})
        BY <3>2, FS_RemoveElement
      <4> QED  BY <3>2, <4>1, SumInt
    <3> QED  BY <3>3, <3>4, <3>5
  <2> QED  BY <2>1, <2>2
<1>2. \A R \in SUBSET S : R \in T
  <2>1. \A R \in SUBSET S : (\A x \in R : R \ {x} \in T) => R \in T
    BY <1>1
  <2> HIDE DEF T
  <2> QED  BY <2>1, EverySubset
<1> QED  BY <1>2

\* A set of numbers that holds a and the next of each from a on holds all of these.
LEMMA EveryFrom ==
  ASSUME NEW a \in Int, NEW T, a \in T, \A n \in Int : n >= a /\ n \in T => n + 1 \in T
  PROVE  \A n \in Int : n >= a => n \in T
<1> DEFINE U == {k \in Nat : a + k \in T}
<1>1. 0 \in U
  OBVIOUS
<1>2. ASSUME NEW k \in Nat, k \in U
      PROVE  k + 1 \in U
  <2>1. a + k \in Int /\ a + k >= a /\ (a + k) + 1 = a + (k + 1)
    OBVIOUS
  <2>2. (a + k) + 1 \in T
    BY <1>2, <2>1
  <2> QED  BY <2>1, <2>2
<1>3. \A k \in Nat : k \in U
  <2> HIDE DEF U
  <2> QED  BY <1>1, <1>2, EveryNat
<1>4. ASSUME NEW n \in Int, n >= a
      PROVE  n \in T
  <2>1. n - a \in Nat /\ a + (n - a) = n
    BY <1>4
  <2>2. n - a \in U
    BY <1>3, <2>1
  <2> QED  BY <2>1, <2>2
<1> QED  BY <1>4

\* The sum over two sets apart.
LEMMA SumApart ==
  ASSUME NEW S, NEW U, IsFiniteSet(S), IsFiniteSet(U), S \cap U = {},
         NEW g, \A x \in S \cup U : g[x] \in Int
  PROVE  SumFunctionOnSet(g, S \cup U) = SumFunctionOnSet(g, S) + SumFunctionOnSet(g, U)
<1> DEFINE Tot(R) == SumFunctionOnSet(g, R)
           T == {R \in SUBSET U : Tot(S \cup R) = Tot(S) + Tot(R)}
<1>1. ASSUME NEW R \in SUBSET U, \A x \in R : R \ {x} \in T
      PROVE  Tot(S \cup R) = Tot(S) + Tot(R)
  <2>0. Tot(S) \in Int
    BY SumInt
  <2>1. CASE R = {}
    <3>1. S \cup R = S /\ Tot(R) = 0
      BY <2>1, SumOfNone
    <3> QED  BY <2>0, <3>1
  <2>2. CASE R # {}
    <3>1. PICK p : p \in R
      BY <2>2
    <3>2. /\ IsFiniteSet(R) /\ IsFiniteSet(R \ {p}) /\ IsFiniteSet(S \cup R)
          /\ (S \cup R) \ {p} = S \cup (R \ {p})
      BY <3>1, FS_Subset, FS_Union
    <3>3. Tot(R) = g[p] + Tot(R \ {p}) /\ Tot(S \cup R) = g[p] + Tot((S \cup R) \ {p})
      <4>1. \A x \in R : g[x] \in Int
        OBVIOUS
      <4>2. \A x \in S \cup R : g[x] \in Int
        OBVIOUS
      <4>3. \A x \in R : Tot(R) = g[x] + Tot(R \ {x})
        BY <3>2, <4>1, SumTaken
      <4>4. \A x \in S \cup R : Tot(S \cup R) = g[x] + Tot((S \cup R) \ {x})
        BY <3>2, <4>2, SumTaken
      <4> QED  BY <3>1, <4>3, <4>4
    <3>4. Tot(S \cup (R \ {p})) = Tot(S) + Tot(R \ {p})
      BY <1>1, <3>1
    <3>5. Tot(R \ {p}) \in Int /\ g[p] \in Int
      <4>1. \A x \in R \ {p} : g[x] \in Int
        OBVIOUS
      <4> QED  BY <3>1, <3>2, <4>1, SumInt
    <3>6. Tot(S \cup R) = g[p] + Tot(S \cup (R \ {p}))
      BY <3>2, <3>3
    <3>7. Tot(R) = g[p] + Tot(R \ {p})
      BY <3>3
    <3> HIDE DEF Tot
    <3> QED  BY <2>0, <3>4, <3>5, <3>6, <3>7
  <2> QED  BY <2>1, <2>2
<1>2. \A R \in SUBSET U : R \in T
  <2>1. \A R \in SUBSET U : (\A x \in R : R \ {x} \in T) => R \in T
    BY <1>1
  <2> HIDE DEF T
  <2> QED  BY <2>1, EverySubset
<1> QED  BY <1>2

\* The sum over the images of a set, which are as many as its elements.
LEMMA SumImages ==
  ASSUME NEW S, IsFiniteSet(S), NEW f, NEW g, NEW h,
         \A x \in S : h[x] \in Int /\ g[f[x]] = h[x],
         \A x, y \in S : f[x] = f[y] => x = y
  PROVE  /\ IsFiniteSet({f[x] : x \in S})
         /\ SumFunctionOnSet(g, {f[x] : x \in S}) = SumFunctionOnSet(h, S)
<1> DEFINE Img(R) == {f[x] : x \in R}
           T == {R \in SUBSET S : IsFiniteSet(Img(R))
                                  /\ SumFunctionOnSet(g, Img(R)) = SumFunctionOnSet(h, R)}
<1>1. ASSUME NEW R \in SUBSET S, \A x \in R : R \ {x} \in T
      PROVE  R \in T
  <2>1. CASE R = {}
    <3>1. Img(R) = {}
      BY <2>1
    <3> QED  BY <2>1, <3>1, SumOfNone, FS_EmptySet
  <2>2. CASE R # {}
    <3>1. PICK p : p \in R
      BY <2>2
    <3>2. Img(R) \ {f[p]} = Img(R \ {p}) /\ Img(R) = Img(R \ {p}) \cup {f[p]}
          /\ f[p] \notin Img(R \ {p}) /\ f[p] \in Img(R)
      BY <3>1
    <3>3. IsFiniteSet(Img(R \ {p})) /\ SumFunctionOnSet(g, Img(R \ {p})) = SumFunctionOnSet(h, R \ {p})
      BY <1>1, <3>1
    <3>4. IsFiniteSet(R) /\ IsFiniteSet(Img(R))
      <4> HIDE DEF Img
      <4> QED  BY <3>2, <3>3, FS_Subset, FS_AddElement
    <3>5. SumFunctionOnSet(h, R) = h[p] + SumFunctionOnSet(h, R \ {p})
      <4>1. \A x \in R : h[x] \in Int
        OBVIOUS
      <4> QED  BY <3>1, <3>4, <4>1, SumTaken
    <3>6. SumFunctionOnSet(g, Img(R)) = g[f[p]] + SumFunctionOnSet(g, Img(R) \ {f[p]})
      <4>1. \A y \in Img(R) : g[y] \in Int
        OBVIOUS
      <4> HIDE DEF Img
      <4> QED  BY <3>2, <3>4, <4>1, SumTaken
    <3>7. g[f[p]] = h[p]
      BY <3>1
    <3> HIDE DEF Img
    <3> QED  BY <3>2, <3>3, <3>4, <3>5, <3>6, <3>7
  <2> QED  BY <2>1, <2>2
<1>2. \A R \in SUBSET S : R \in T
  <2>1. \A R \in SUBSET S : (\A x \in R : R \ {x} \in T) => R \in T
    BY <1>1
  <2> HIDE DEF T
  <2> QED  BY <2>1, EverySubset
<1>3. S \in T
  BY <1>2
<1> QED  BY <1>3

\* A sum by groups: what each key's elements add up to adds up to the whole.
LEMMA SumGrouped ==
  ASSUME NEW K, IsFiniteSet(K), NEW S, IsFiniteSet(S), NEW key, \A x \in S : key[x] \in K,
         NEW g, \A x \in S : g[x] \in Int,
         NEW h, \A k \in K : h[k] = SumFunctionOnSet(g, {x \in S : key[x] = k})
  PROVE  SumFunctionOnSet(h, K) = SumFunctionOnSet(g, S)
<1> DEFINE Of(R) == {x \in S : key[x] \in R}
           T == {R \in SUBSET K : SumFunctionOnSet(h, R) = SumFunctionOnSet(g, Of(R))}
<1>0. \A k \in K : h[k] \in Int
  <2>1. ASSUME NEW k \in K
        PROVE  h[k] \in Int
    <3>1. IsFiniteSet({x \in S : key[x] = k})
      BY FS_Subset
    <3>2. SumFunctionOnSet(g, {x \in S : key[x] = k}) \in Int
      BY <3>1, SumInt
    <3> QED  BY <3>2
  <2> QED  BY <2>1
<1>1. ASSUME NEW R \in SUBSET K, \A x \in R : R \ {x} \in T
      PROVE  R \in T
  <2>1. CASE R = {}
    <3>1. Of(R) = {}
      BY <2>1
    <3> QED  BY <2>1, <3>1, SumOfNone
  <2>2. CASE R # {}
    <3>1. PICK p : p \in R
      BY <2>2
    <3> DEFINE P == {x \in S : key[x] = p}
    <3>2. Of(R) = Of(R \ {p}) \cup P /\ Of(R \ {p}) \cap P = {}
          /\ Of(R \ {p}) \subseteq S /\ P \subseteq S
      BY <3>1
    <3>3. SumFunctionOnSet(h, R \ {p}) = SumFunctionOnSet(g, Of(R \ {p}))
      BY <1>1, <3>1
    <3>4. h[p] = SumFunctionOnSet(g, P)
      BY <3>1
    <3>5. SumFunctionOnSet(h, R) = h[p] + SumFunctionOnSet(h, R \ {p})
      <4>1. IsFiniteSet(R) /\ \A x \in R : h[x] \in Int
        BY <1>0, FS_Subset
      <4> QED  BY <3>1, <4>1, SumTaken
    <3> HIDE DEF Of, P
    <3>6. IsFiniteSet(P) /\ IsFiniteSet(Of(R \ {p}))
      BY <3>2, FS_Subset
    <3>7. SumFunctionOnSet(g, Of(R \ {p}) \cup P)
            = SumFunctionOnSet(g, Of(R \ {p})) + SumFunctionOnSet(g, P)
      <4>1. \A x \in Of(R \ {p}) \cup P : g[x] \in Int
        BY <3>2
      <4> QED  BY <3>2, <3>6, <4>1, SumApart
    <3>8. SumFunctionOnSet(g, Of(R \ {p})) \in Int /\ SumFunctionOnSet(g, P) \in Int
      <4>1. (\A x \in Of(R \ {p}) : g[x] \in Int) /\ (\A x \in P : g[x] \in Int)
        BY <3>2
      <4> QED  BY <3>6, <4>1, SumInt
    <3>9. SumFunctionOnSet(h, R) = SumFunctionOnSet(g, Of(R))
      BY <3>2, <3>3, <3>4, <3>5, <3>7, <3>8
    <3> QED  BY <3>9
  <2> QED  BY <2>1, <2>2
<1>2. \A R \in SUBSET K : R \in T
  <2>1. \A R \in SUBSET K : (\A x \in R : R \ {x} \in T) => R \in T
    BY <1>1
  <2> HIDE DEF T
  <2> QED  BY <2>1, EverySubset
<1>3. K \in T /\ Of(K) = S
  BY <1>2
<1> QED  BY <1>3

LEMMA SumParted ==
  ASSUME NEW K, IsFiniteSet(K), NEW S, IsFiniteSet(S), NEW key, \A x \in S : key[x] \in K,
         NEW g, \A x \in S : g[x] \in Int,
         NEW part, \A k \in K : part[k] \subseteq S /\ \A x \in S : x \in part[k] <=> key[x] = k,
         NEW h, \A k \in K : h[k] = SumFunctionOnSet(g, part[k])
  PROVE  SumFunctionOnSet(h, K) = SumFunctionOnSet(g, S)
<1>1. \A k \in K : part[k] = {x \in S : key[x] = k}
  OBVIOUS
<1>2. \A k \in K : h[k] = SumFunctionOnSet(g, {x \in S : key[x] = k})
  BY <1>1
<1> QED  BY <1>2, SumGrouped

\* The images of a finite set are finite.
LEMMA FiniteImages ==
  ASSUME NEW S, IsFiniteSet(S), NEW f
  PROVE  IsFiniteSet({f[x] : x \in S})
<1> DEFINE Img(R) == {f[x] : x \in R}
           T == {R \in SUBSET S : IsFiniteSet(Img(R))}
<1>1. ASSUME NEW R \in SUBSET S, \A x \in R : R \ {x} \in T
      PROVE  R \in T
  <2>1. CASE R = {}
    <3>1. Img(R) = {}
      BY <2>1
    <3> QED  BY <3>1, FS_EmptySet
  <2>2. CASE R # {}
    <3>1. PICK p : p \in R
      BY <2>2
    <3>2. Img(R) = Img(R \ {p}) \cup {f[p]}
      BY <3>1
    <3>3. IsFiniteSet(Img(R \ {p}))
      BY <1>1, <3>1
    <3>4. IsFiniteSet(Img(R \ {p}) \cup {f[p]})
      <4> HIDE DEF Img
      <4> QED  BY <3>3, FS_AddElement
    <3> QED  BY <3>2, <3>4
  <2> QED  BY <2>1, <2>2
<1>2. \A R \in SUBSET S : R \in T
  <2>1. \A R \in SUBSET S : (\A x \in R : R \ {x} \in T) => R \in T
    BY <1>1
  <2> HIDE DEF T
  <2> QED  BY <2>1, EverySubset
<1>3. S \in T
  BY <1>2
<1> QED  BY <1>3

LEMMA OneMore ==
  ASSUME NEW n \in Int, NEW c \in Int
  PROVE  c * n \in Int /\ c + c * (n - 1) = c * n
OBVIOUS

\* Equal summands.
LEMMA SumEqual ==
  ASSUME NEW S, IsFiniteSet(S), NEW c \in Int, NEW g, \A x \in S : g[x] = c
  PROVE  SumFunctionOnSet(g, S) = c * Cardinality(S)
<1> DEFINE T == {R \in SUBSET S : SumFunctionOnSet(g, R) = c * Cardinality(R)}
<1>1. ASSUME NEW R \in SUBSET S, \A x \in R : R \ {x} \in T
      PROVE  SumFunctionOnSet(g, R) = c * Cardinality(R)
  <2>0. IsFiniteSet(R) /\ Cardinality(R) \in Nat
    BY FS_Subset, FS_CardinalityType
  <2>1. CASE R # {}
    <3>1. PICK p : p \in R
      BY <2>1
    <3>2. Cardinality(R \ {p}) = Cardinality(R) - 1
      BY <2>0, <3>1, FS_RemoveElement
    <3>3. SumFunctionOnSet(g, R) = c + SumFunctionOnSet(g, R \ {p})
      <4>1. \A x \in R : g[x] \in Int
        OBVIOUS
      <4> QED  BY <2>0, <3>1, <4>1, SumTaken
    <3>4. SumFunctionOnSet(g, R \ {p}) = c * Cardinality(R \ {p})
      BY <1>1, <3>1
    <3> QED  BY <2>0, <3>2, <3>3, <3>4, OneMore
  <2>2. CASE R = {}
    <3>1. Cardinality(R) = 0 /\ SumFunctionOnSet(g, R) = 0
      BY <2>2, FS_EmptySet, SumOfNone
    <3> QED  BY <3>1
  <2> QED  BY <2>1, <2>2
<1>2. \A R \in SUBSET S : R \in T
  <2>1. \A R \in SUBSET S : (\A x \in R : R \ {x} \in T) => R \in T
    BY <1>1
  <2> HIDE DEF T
  <2> QED  BY <2>1, EverySubset
<1>3. S \in T
  BY <1>2
<1> QED  BY <1>3

LEMMA RunningSum ==
  ASSUME NEW a \in Int, NEW b \in Int, NEW g, \A m \in a..b : g[m] \in Int
  PROVE  /\ SumFunctionOnSet(g, a..(a - 1)) = 0
         /\ \A m \in (a - 1)..b : SumFunctionOnSet(g, a..m) \in Int
         /\ \A m \in a..b : SumFunctionOnSet(g, a..m) = SumFunctionOnSet(g, a..(m - 1)) + g[m]
<1>1. ASSUME NEW m \in (a - 1)..b
      PROVE  SumFunctionOnSet(g, a..m) \in Int
  <2>1. IsFiniteSet(a..m) /\ \A n \in a..m : g[n] \in Int
    BY FS_Interval
  <2> QED  BY <2>1, SumInt
<1>2. ASSUME NEW m \in a..b
      PROVE  SumFunctionOnSet(g, a..m) = SumFunctionOnSet(g, a..(m - 1)) + g[m]
  <2>1. PICK n \in Int : n = m - 1 /\ m = n + 1 /\ a <= n + 1
    OBVIOUS
  <2>2. SumFunctionOnSet(g, a..(n + 1)) = SumFunctionOnSet(g, a..n) + g[n + 1]
    <3>1. \A k \in a..(n + 1) : g[k] \in Int
      BY <2>1
    <3> QED  BY <2>1, <3>1, SumLast
  <2> QED  BY <2>1, <2>2
<1>3. SumFunctionOnSet(g, a..(a - 1)) = 0
  <2>1. a..(a - 1) = {}
    OBVIOUS
  <2> QED  BY <2>1, SumOfNone
<1> QED  BY <1>1, <1>2, <1>3

\* A balance that rolls from start over the points of an interval.
Rolls(f, S, start, up, down) ==
  f = [m \in S |-> (IF m - 1 \in S THEN f[m - 1] ELSE start) + up[m] - down[m]]

\* There is one.
LEMMA BalanceExists ==
  ASSUME NEW a \in Int, NEW b \in Int, NEW start \in Int, NEW up, NEW down,
         \A m \in a..b : up[m] \in Int /\ down[m] \in Int
  PROVE  \E f : Rolls(f, a..b, start, up, down)
<1> DEFINE Up(m) == SumFunctionOnSet(up, a..m)
           Down(m) == SumFunctionOnSet(down, a..m)
           F == [m \in a..b |-> start + Up(m) - Down(m)]
<1>1. /\ Up(a - 1) = 0 /\ Down(a - 1) = 0
      /\ \A m \in (a - 1)..b : Up(m) \in Int /\ Down(m) \in Int
      /\ \A m \in a..b : Up(m) = Up(m - 1) + up[m] /\ Down(m) = Down(m - 1) + down[m]
  <2>1. /\ Up(a - 1) = 0 /\ \A m \in (a - 1)..b : Up(m) \in Int
        /\ \A m \in a..b : Up(m) = Up(m - 1) + up[m]
    <3>1. \A m \in a..b : up[m] \in Int
      OBVIOUS
    <3> QED  BY <3>1, RunningSum
  <2>2. /\ Down(a - 1) = 0 /\ \A m \in (a - 1)..b : Down(m) \in Int
        /\ \A m \in a..b : Down(m) = Down(m - 1) + down[m]
    <3>1. \A m \in a..b : down[m] \in Int
      OBVIOUS
    <3> QED  BY <3>1, RunningSum
  <2> HIDE DEF Up, Down
  <2> QED  BY <2>1, <2>2
<1> HIDE DEF Up, Down
<1>2. ASSUME NEW m \in a..b
      PROVE  F[m] = (IF m - 1 \in a..b THEN F[m - 1] ELSE start) + up[m] - down[m]
  <2>1. m - 1 \in (a - 1)..b /\ (m - 1 \notin a..b => m - 1 = a - 1)
    OBVIOUS
  <2> QED  BY <1>1, <2>1
<1>3. Rolls(F, a..b, start, up, down)
  BY <1>2 DEF Rolls
<1> QED  BY <1>3

\* It stands where what came and went takes it.
LEMMA BalanceStands ==
  \A a \in Int, b \in Int, start \in Int : \A up, down, f :
    (\A m \in a..b : up[m] \in Int /\ down[m] \in Int) /\ Rolls(f, a..b, start, up, down)
      => \A m \in a..b : /\ SumFunctionOnSet(up, a..m) \in Int /\ SumFunctionOnSet(down, a..m) \in Int
                        /\ f[m] = start + SumFunctionOnSet(up, a..m) - SumFunctionOnSet(down, a..m)
<1> SUFFICES ASSUME NEW a \in Int, NEW b \in Int, NEW start \in Int, NEW up, NEW down, NEW f,
                    \A m \in a..b : up[m] \in Int /\ down[m] \in Int,
                    Rolls(f, a..b, start, up, down)
             PROVE  \A m \in a..b : /\ SumFunctionOnSet(up, a..m) \in Int /\ SumFunctionOnSet(down, a..m) \in Int
                                  /\ f[m] = start + SumFunctionOnSet(up, a..m) - SumFunctionOnSet(down, a..m)
  OBVIOUS
<1> DEFINE Up(m) == SumFunctionOnSet(up, a..m)
           Down(m) == SumFunctionOnSet(down, a..m)
           T == {n \in Int : n \in a..b => f[n] = start + Up(n) - Down(n)}
<1>1. /\ Up(a - 1) = 0 /\ Down(a - 1) = 0
      /\ \A m \in (a - 1)..b : Up(m) \in Int /\ Down(m) \in Int
      /\ \A m \in a..b : Up(m) = Up(m - 1) + up[m] /\ Down(m) = Down(m - 1) + down[m]
  <2>1. /\ Up(a - 1) = 0 /\ \A m \in (a - 1)..b : Up(m) \in Int
        /\ \A m \in a..b : Up(m) = Up(m - 1) + up[m]
    <3>1. \A m \in a..b : up[m] \in Int
      OBVIOUS
    <3> QED  BY <3>1, RunningSum
  <2>2. /\ Down(a - 1) = 0 /\ \A m \in (a - 1)..b : Down(m) \in Int
        /\ \A m \in a..b : Down(m) = Down(m - 1) + down[m]
    <3>1. \A m \in a..b : down[m] \in Int
      OBVIOUS
    <3> QED  BY <3>1, RunningSum
  <2> HIDE DEF Up, Down
  <2> QED  BY <2>1, <2>2
<1> HIDE DEF Up, Down
<1>2. \A m \in a..b : f[m] = (IF m - 1 \in a..b THEN f[m - 1] ELSE start) + up[m] - down[m]
  BY DEF Rolls
<1>3. a \in T
  <2>1. ASSUME a \in a..b
        PROVE  f[a] = start + Up(a) - Down(a)
    <3>1. Up(a) = up[a] /\ Down(a) = down[a] /\ up[a] \in Int /\ down[a] \in Int
      BY <1>1, <2>1
    <3>2. f[a] = start + up[a] - down[a]
      BY <1>2, <2>1
    <3> QED  BY <3>1, <3>2
  <2> QED  BY <2>1
<1>4. ASSUME NEW n \in Int, n >= a, n \in T
      PROVE  n + 1 \in T
  <2>1. ASSUME n + 1 \in a..b
        PROVE  f[n + 1] = start + Up(n + 1) - Down(n + 1)
    <3>1. n \in a..b /\ (n + 1) - 1 = n
      BY <1>4, <2>1
    <3>2. f[n] = start + Up(n) - Down(n)
      BY <1>4, <3>1
    <3>3. f[n + 1] = f[n] + up[n + 1] - down[n + 1]
      BY <1>2, <2>1, <3>1
    <3>4. /\ Up(n + 1) = Up(n) + up[n + 1] /\ Down(n + 1) = Down(n) + down[n + 1]
          /\ Up(n) \in Int /\ Down(n) \in Int /\ up[n + 1] \in Int /\ down[n + 1] \in Int
      BY <1>1, <2>1, <3>1
    <3> QED  BY <3>2, <3>3, <3>4
  <2> QED  BY <2>1
<1>5. \A n \in Int : n >= a => n \in T
  <2> HIDE DEF T
  <2> QED  BY <1>3, <1>4, EveryFrom
<1>6. \A m \in a..b : Up(m) \in Int /\ Down(m) \in Int /\ f[m] = start + Up(m) - Down(m)
  BY <1>1, <1>5
<1> QED  BY <1>6 DEF Up, Down

Keyed(D, key, n) == {e \in D : key[e] = n}
Earlier(D, key, n) == {e \in D : key[e] < n}
Pending(D, came, went, m) == {e \in D : came[e] <= m /\ m < went[e]}

\* Comings and goings by month, the balance that they start from, and in time order.
ComeAndGo(a, b, D, g, came, went, up, down, start) ==
  /\ IsFiniteSet(D) /\ \A e \in D : g[e] \in Int
  /\ \A e \in D : came[e] \in Int /\ went[e] \in Int /\ came[e] <= went[e]
  /\ \A n \in a..b : up[n] = SumFunctionOnSet(g, Keyed(D, came, n))
  /\ \A n \in a..b : down[n] = SumFunctionOnSet(g, Keyed(D, went, n))
  /\ start = SumFunctionOnSet(g, Earlier(D, came, a)) - SumFunctionOnSet(g, Earlier(D, went, a))

\* The balance stands at what came by the month and goes after it.
LEMMA Outstanding ==
  ASSUME NEW a \in Int, NEW b \in Int, NEW D, NEW g, NEW came, NEW went, NEW up, NEW down, NEW start,
         ComeAndGo(a, b, D, g, came, went, up, down, start)
  PROVE  /\ \E f : Rolls(f, a..b, start, up, down)
         /\ \A f : Rolls(f, a..b, start, up, down) =>
              \A m \in a..b : f[m] = SumFunctionOnSet(g, Pending(D, came, went, m))
<1> DEFINE Total(S) == SumFunctionOnSet(g, S)
           By(key, n) == Keyed(D, key, n)
           Until(key, n) == {e \in D : key[e] <= n}
           Between(key, m) == {e \in D : key[e] \in a..m}
           Prior(key) == Earlier(D, key, a)
<1>0. /\ IsFiniteSet(D) /\ \A e \in D : g[e] \in Int
      /\ \A e \in D : came[e] \in Int /\ went[e] \in Int /\ came[e] <= went[e]
      /\ \A n \in a..b : up[n] = Total(By(came, n)) /\ down[n] = Total(By(went, n))
      /\ start = Total(Prior(came)) - Total(Prior(went))
  BY DEF ComeAndGo
<1>1. ASSUME NEW S \in SUBSET D
      PROVE  Total(S) \in Int /\ IsFiniteSet(S) /\ \A e \in S : g[e] \in Int
  <2>1. IsFiniteSet(S) /\ \A e \in S : g[e] \in Int
    BY <1>0, FS_Subset
  <2> QED  BY <2>1, SumInt
<1>2. ASSUME NEW S \in SUBSET D, NEW U \in SUBSET D, S \cap U = {}
      PROVE  Total(S \cup U) = Total(S) + Total(U)
  <2>1. IsFiniteSet(S) /\ IsFiniteSet(U) /\ \A e \in S \cup U : g[e] \in Int
    BY <1>1
  <2> QED  BY <1>2, <2>1, SumApart
\* What comes, or goes, month by month.
<1>3. ASSUME NEW key, \A e \in D : key[e] \in Int,
             NEW by, \A n \in a..b : by[n] = Total(By(key, n)), NEW m \in a..b
      PROVE  Total(Until(key, m)) = Total(Prior(key)) + SumFunctionOnSet(by, a..m)
  <2> DEFINE part == [n \in a..m |-> By(key, n)]
             K == a..m
             S == Between(key, m)
  <2>1. IsFiniteSet(K) /\ IsFiniteSet(S) /\ \A e \in S : key[e] \in K
    BY <1>1, FS_Interval
  <2>2. \A e \in S : g[e] \in Int
    BY <1>0
  <2>3. \A n \in K : part[n] \subseteq S /\ \A e \in S : e \in part[n] <=> key[e] = n
    BY <1>3 DEF Keyed
  <2>4. \A n \in K : by[n] = SumFunctionOnSet(g, part[n])
    BY <1>3
  <2>5. SumFunctionOnSet(by, K) = Total(S)
    <3> HIDE DEF K, S, part
    <3> QED  BY <2>1, <2>2, <2>3, <2>4, SumParted
  <2>6. /\ Prior(key) \in SUBSET D /\ S \in SUBSET D /\ Prior(key) \cap S = {}
        /\ Until(key, m) = Prior(key) \cup S
    <3>1. ASSUME NEW e \in D
          PROVE  key[e] <= m <=> (key[e] < a \/ key[e] \in a..m)
      BY <1>3
    <3>2. \A e \in D : ~(key[e] < a /\ key[e] \in a..m)
      BY <1>3
    <3> QED  BY <3>1, <3>2 DEF Earlier
  <2>7. Total(Prior(key) \cup S) = Total(Prior(key)) + Total(S)
    <3> HIDE DEF Prior, S, Total
    <3> QED  BY <1>2, <2>6
  <2> HIDE DEF Total, Prior, S, Until
  <2> QED  BY <2>5, <2>6, <2>7
<1>4. \A n \in a..b : up[n] \in Int /\ down[n] \in Int
  <2>1. \A n : By(came, n) \in SUBSET D /\ By(went, n) \in SUBSET D
    BY DEF Keyed
  <2> HIDE DEF By, Total
  <2> QED  BY <1>0, <1>1, <2>1
<1>5. start \in Int /\ Total(Prior(came)) \in Int /\ Total(Prior(went)) \in Int
      /\ start = Total(Prior(came)) - Total(Prior(went))
  <2>1. Prior(came) \in SUBSET D /\ Prior(went) \in SUBSET D
    BY DEF Earlier
  <2> HIDE DEF Prior, Total
  <2> QED  BY <1>0, <1>1, <2>1
<1>6. \E f : Rolls(f, a..b, start, up, down)
  BY <1>4, <1>5, BalanceExists
<1>7. ASSUME NEW f, Rolls(f, a..b, start, up, down), NEW m \in a..b
      PROVE  f[m] = Total(Pending(D, came, went, m))
  <2> DEFINE W == Pending(D, came, went, m)
             U == SumFunctionOnSet(up, a..m)
             V == SumFunctionOnSet(down, a..m)
  <2>1. U \in Int /\ V \in Int /\ f[m] = start + U - V
    BY <1>4, <1>5, <1>7, BalanceStands
  <2>2. Total(Until(came, m)) = Total(Prior(came)) + U
    <3>1. \A e \in D : came[e] \in Int
      BY <1>0
    <3>2. \A n \in a..b : up[n] = Total(By(came, n))
      BY <1>0
    <3> HIDE DEF Total, By, Until, Prior
    <3> QED  BY <1>3, <3>1, <3>2
  <2>3. Total(Until(went, m)) = Total(Prior(went)) + V
    <3>1. \A e \in D : went[e] \in Int
      BY <1>0
    <3>2. \A n \in a..b : down[n] = Total(By(went, n))
      BY <1>0
    <3> HIDE DEF Total, By, Until, Prior
    <3> QED  BY <1>3, <3>1, <3>2
  <2>4. /\ W \in SUBSET D /\ Until(went, m) \in SUBSET D /\ Until(went, m) \cap W = {}
        /\ Until(came, m) = Until(went, m) \cup W
    BY <1>0 DEF Pending
  <2>5. Total(Until(went, m) \cup W) = Total(Until(went, m)) + Total(W)
    <3> HIDE DEF Until, W, Total
    <3> QED  BY <1>2, <2>4
  <2>6. Total(W) \in Int
    <3> HIDE DEF W, Total
    <3> QED  BY <1>1, <2>4
  <2>7. f[m] = Total(W)
    <3> HIDE DEF Total, Prior, Until, W, U, V
    <3> QED  BY <1>5, <2>1, <2>2, <2>3, <2>4, <2>5, <2>6
  <2> QED  BY <2>7
<1> QED  BY <1>6, <1>7

-----------------------------------------------------------------------------
(* The calendar. *)

\* The days of a year before each of its months, in a year that is no leap year.
Before == <<0, 31, 59, 90, 120, 151, 181, 212, 243, 273, 304, 334>>
YearDay(y) == 365 * (y - 1) + (y - 1) \div 4 - (y - 1) \div 100 + (y - 1) \div 400

LEMMA MonthParts ==
  ASSUME NEW m \in Int
  PROVE  \E y \in Int, r \in 0..11 : m = 12 * y + r
<1>1. m \div 12 \in Int /\ m % 12 \in 0..11 /\ m = 12 * (m \div 12) + (m % 12)
  OBVIOUS
<1> QED  BY <1>1

LEMMA FirstDayParts ==
  ASSUME NEW y \in Int, NEW r \in 0..11
  PROVE  /\ FirstDay(12 * y + r) = YearDay(y) + Before[r + 1] + IF r > 1 /\ Leap(y) THEN 1 ELSE 0
         /\ YearDay(y) \in Int /\ Before[r + 1] \in Int /\ FirstDay(12 * y + r) \in Int
<1>1. PICK m \in Int : m = 12 * y + r
  OBVIOUS
<1>2. m \div 12 = y /\ m % 12 = r
  BY <1>1
<1>3. YearDay(y) \in Int
  BY DEF YearDay
<1>4. Before[r + 1] \in Int
  BY DEF Before
<1>5. FirstDay(m) = YearDay(y) + Before[r + 1] + IF r > 1 /\ Leap(y) THEN 1 ELSE 0
  BY <1>2 DEF FirstDay, MonthOfYear, YearDay, Before
<1> QED  BY <1>1, <1>3, <1>4, <1>5

LEMMA LeapDays ==
  ASSUME NEW y \in Int
  PROVE  YearDay(y + 1) = YearDay(y) + 365 + IF Leap(y) THEN 1 ELSE 0
<1>1. /\ y \div 4 = (y - 1) \div 4 + IF y % 4 = 0 THEN 1 ELSE 0
      /\ y \div 100 = (y - 1) \div 100 + IF y % 100 = 0 THEN 1 ELSE 0
      /\ y \div 400 = (y - 1) \div 400 + IF y % 400 = 0 THEN 1 ELSE 0
  OBVIOUS
<1>2. (y % 400 = 0 => y % 100 = 0) /\ (y % 100 = 0 => y % 4 = 0)
  OBVIOUS
<1>3. (y - 1) \div 4 \in Int /\ (y - 1) \div 100 \in Int /\ (y - 1) \div 400 \in Int /\ (y + 1) - 1 = y
  OBVIOUS
<1> QED  BY <1>1, <1>2, <1>3 DEF YearDay, Leap

\* A month has between 28 and 31 days.
LEMMA MonthLasts ==
  ASSUME NEW m \in Int
  PROVE  /\ FirstDay(m) \in Int /\ FirstDay(m + 1) \in Int
         /\ FirstDay(m) + 28 <= FirstDay(m + 1) /\ FirstDay(m + 1) <= FirstDay(m) + 31
<1>1. PICK y \in Int, r \in 0..11 : m = 12 * y + r
  BY MonthParts
<1>2. CASE r = 11
  <2>1. m + 1 = 12 * (y + 1) + 0
    BY <1>1, <1>2
  <2>2. FirstDay(m + 1) = YearDay(y + 1) + Before[1]
    <3>1. PICK z \in Int, s \in 0..11 : z = y + 1 /\ s = 0
      OBVIOUS
    <3>2. FirstDay(12 * z + s) = YearDay(z) + Before[s + 1] + IF s > 1 /\ Leap(z) THEN 1 ELSE 0
      BY FirstDayParts
    <3>3. YearDay(z) \in Int /\ Before[1] \in Int
      BY FirstDayParts DEF Before
    <3> QED  BY <2>1, <3>1, <3>2, <3>3
  <2>3. FirstDay(m) = YearDay(y) + Before[12] + IF Leap(y) THEN 1 ELSE 0
    <3>1. FirstDay(m) = YearDay(y) + Before[r + 1] + IF r > 1 /\ Leap(y) THEN 1 ELSE 0
      BY <1>1, FirstDayParts
    <3> QED  BY <1>2, <3>1
  <2>4. YearDay(y) \in Int /\ Before[1] = 0 /\ Before[12] = 334
    BY FirstDayParts DEF Before
  <2> QED  BY <2>2, <2>3, <2>4, LeapDays
<1>3. CASE r # 11
  <2>1. r + 1 \in 0..11 /\ m + 1 = 12 * y + (r + 1)
    BY <1>1, <1>3
  <2>2. FirstDay(m + 1) = YearDay(y) + Before[(r + 1) + 1] + IF (r + 1) > 1 /\ Leap(y) THEN 1 ELSE 0
    BY <2>1, FirstDayParts
  <2>3. FirstDay(m) = YearDay(y) + Before[r + 1] + IF r > 1 /\ Leap(y) THEN 1 ELSE 0
    BY <1>1, FirstDayParts
  <2>4. YearDay(y) \in Int
    BY FirstDayParts
  <2>5. \E b \in Int, c \in Int : /\ Before[r + 1] = b /\ Before[(r + 1) + 1] = c
                                  /\ c - b <= 31 /\ IF r = 1 THEN c - b = 28 ELSE c - b >= 30
    BY <1>3 DEF Before
  <2> QED  BY <2>2, <2>3, <2>4, <2>5
<1> QED  BY <1>2, <1>3

LEMMA MonthsInOrder ==
  ASSUME NEW m \in Int, NEW n \in Int, m <= n
  PROVE  FirstDay(m) + 28 * (n - m) <= FirstDay(n)
<1> DEFINE T == {k \in Int : FirstDay(m) + 28 * (k - m) <= FirstDay(k)}
<1>1. m \in T
  BY MonthLasts
<1>2. ASSUME NEW k \in Int, k >= m, k \in T
      PROVE  k + 1 \in T
  BY <1>2, MonthLasts
<1>3. n \in T
  <2> HIDE DEF T
  <2> QED  BY <1>1, <1>2, EveryFrom
<1> QED  BY <1>3

\* A month begins within four days of its place.
LEMMA MonthsNear ==
  ASSUME NEW m \in Int
  PROVE  /\ 1600 * FirstDay(m) <= 48699 * (m - 12) + 6400
         /\ 48699 * (m - 12) <= 1600 * FirstDay(m) + 8000
<1>1. PICK y \in Int, r \in 0..11 : m = 12 * y + r
  BY MonthParts
<1>2. PICK b \in Int : /\ Before[r + 1] = b
                       /\ 1600 * b <= 48699 * r + 3200 /\ 48699 * r <= 1600 * b + 3200
  BY DEF Before
<1>3. PICK p \in Int, q \in Int, h \in Int, c \in Int :
         /\ p = y - 1 /\ q = p \div 4 /\ h = p \div 100 /\ c = p \div 400
         /\ 4 * q <= p /\ p < 4 * q + 4 /\ 100 * h <= p /\ p < 100 * h + 100 /\ 400 * c <= p /\ p < 400 * c + 400
  OBVIOUS
<1>4. YearDay(y) = 365 * p + q - h + c
  BY <1>3 DEF YearDay
<1>5. PICK l \in 0..1 : FirstDay(m) = YearDay(y) + b + l
  <2>1. FirstDay(m) = YearDay(y) + Before[r + 1] + IF r > 1 /\ Leap(y) THEN 1 ELSE 0
    BY <1>1, FirstDayParts
  <2> QED  BY <1>2, <2>1
<1> QED  BY <1>1, <1>2, <1>3, <1>4, <1>5

\* Every day is in one month.
LEMMA DayInMonth ==
  ASSUME NEW d \in Int
  PROVE  /\ MonthOf(d) \in Int
         /\ FirstDay(MonthOf(d)) <= d /\ d <= LastDay(MonthOf(d))
         /\ FirstDay(MonthOf(d)) \in Int /\ LastDay(MonthOf(d)) \in Int
<1> DEFINE near == (1600 * d) \div 48699 + 12
<1>1. near \in Int /\ 48699 * (near - 12) <= 1600 * d /\ 1600 * d < 48699 * (near - 11)
  OBVIOUS
<1> HIDE DEF near
<1>2. FirstDay(near - 1) <= d
  <2>1. near - 1 \in Int /\ FirstDay(near - 1) \in Int
    BY <1>1, MonthLasts
  <2>2. 1600 * FirstDay(near - 1) <= 48699 * ((near - 1) - 12) + 6400
    BY <2>1, MonthsNear
  <2> QED  BY <1>1, <2>1, <2>2
<1>3. d < FirstDay(near + 4)
  <2>1. near + 4 \in Int /\ FirstDay(near + 4) \in Int
    BY <1>1, MonthLasts
  <2>2. 48699 * ((near + 4) - 12) <= 1600 * FirstDay(near + 4) + 8000
    BY <2>1, MonthsNear
  <2> QED  BY <1>1, <2>1, <2>2
<1>4. \E m \in (near - 1)..(near + 3) : FirstDay(m) <= d /\ d <= LastDay(m)
  <2>1. \A m \in (near - 1)..(near + 3) : FirstDay(m) \in Int /\ FirstDay(m + 1) \in Int
    BY <1>1, MonthLasts
  <2>2. /\ near - 1 \in (near - 1)..(near + 3) /\ near \in (near - 1)..(near + 3)
        /\ near + 1 \in (near - 1)..(near + 3) /\ near + 2 \in (near - 1)..(near + 3)
        /\ near + 3 \in (near - 1)..(near + 3)
        /\ (near - 1) + 1 = near /\ (near + 1) + 1 = near + 2 /\ (near + 2) + 1 = near + 3 /\ (near + 3) + 1 = near + 4
    BY <1>1
  <2>3. CASE d < FirstDay(near)
    BY <1>2, <2>1, <2>2, <2>3 DEF LastDay
  <2>4. CASE FirstDay(near) <= d /\ d < FirstDay(near + 1)
    BY <2>1, <2>2, <2>4 DEF LastDay
  <2>5. CASE FirstDay(near + 1) <= d /\ d < FirstDay(near + 2)
    BY <2>1, <2>2, <2>5 DEF LastDay
  <2>6. CASE FirstDay(near + 2) <= d /\ d < FirstDay(near + 3)
    BY <2>1, <2>2, <2>6 DEF LastDay
  <2>7. CASE FirstDay(near + 3) <= d
    BY <1>3, <2>1, <2>2, <2>7 DEF LastDay
  <2> QED  BY <2>1, <2>2, <2>3, <2>4, <2>5, <2>6, <2>7
<1>5. MonthOf(d) = CHOOSE m \in (near - 1)..(near + 3) : FirstDay(m) <= d /\ d <= LastDay(m)
  BY DEF MonthOf, near
<1>6. MonthOf(d) \in (near - 1)..(near + 3) /\ FirstDay(MonthOf(d)) <= d /\ d <= LastDay(MonthOf(d))
  BY <1>4, <1>5
<1>7. MonthOf(d) \in Int
  BY <1>1, <1>6
<1> QED  BY <1>6, <1>7, MonthLasts DEF LastDay

\* The month of a day is the one it lies in.
LEMMA MonthIs ==
  ASSUME NEW d \in Int, NEW m \in Int, FirstDay(m) <= d, d <= LastDay(m)
  PROVE  MonthOf(d) = m
<1>1. PICK n \in Int : n = MonthOf(d) /\ FirstDay(n) <= d /\ d <= LastDay(n)
  BY DayInMonth
<1>2. ASSUME n < m PROVE FALSE
  <2>1. n + 1 \in Int /\ FirstDay(n + 1) + 28 * (m - (n + 1)) <= FirstDay(m)
    BY <1>2, MonthsInOrder
  <2>2. FirstDay(n + 1) \in Int /\ FirstDay(m) \in Int
    BY MonthLasts
  <2> QED  BY <1>1, <1>2, <2>1, <2>2 DEF LastDay
<1>3. ASSUME m < n PROVE FALSE
  <2>1. m + 1 \in Int /\ FirstDay(m + 1) + 28 * (n - (m + 1)) <= FirstDay(n)
    BY <1>3, MonthsInOrder
  <2>2. FirstDay(m + 1) \in Int /\ FirstDay(n) \in Int
    BY MonthLasts
  <2> QED  BY <1>1, <1>3, <2>1, <2>2 DEF LastDay
<1> QED  BY <1>1, <1>2, <1>3

LEMMA LastIsInMonth ==
  ASSUME NEW m \in Int
  PROVE  LastDay(m) \in Int /\ MonthOf(LastDay(m)) = m /\ MonthOf(FirstDay(m)) = m
<1>1. /\ FirstDay(m) \in Int /\ LastDay(m) \in Int
      /\ FirstDay(m) <= LastDay(m)
  BY MonthLasts DEF LastDay
<1> QED  BY <1>1, MonthIs

\* Months follow the days.
LEMMA MonthsFollow ==
  ASSUME NEW d \in Int, NEW e \in Int, d <= e
  PROVE  MonthOf(d) <= MonthOf(e)
<1>1. PICK m \in Int : m = MonthOf(d) /\ FirstDay(m) <= d /\ d <= LastDay(m)
  BY DayInMonth
<1>2. PICK n \in Int : n = MonthOf(e) /\ FirstDay(n) <= e /\ e <= LastDay(n)
  BY DayInMonth
<1>3. ASSUME n < m PROVE FALSE
  <2>1. n + 1 \in Int /\ FirstDay(n + 1) + 28 * (m - (n + 1)) <= FirstDay(m)
    BY <1>3, MonthsInOrder
  <2>2. FirstDay(n + 1) \in Int /\ FirstDay(m) \in Int
    BY MonthLasts
  <2> QED  BY <1>1, <1>2, <1>3, <2>1, <2>2 DEF LastDay
<1> QED  BY <1>1, <1>2, <1>3

-----------------------------------------------------------------------------
(* Payment plans. *)

(* Rounding to cents, a half away from nil. *)
LEMMA Division ==
  ASSUME NEW a \in Int, NEW b \in Nat \ {0}
  PROVE  a \div b \in Int /\ b * (a \div b) <= a /\ a < b * (a \div b) + b
PROOF BY SMT

LEMMA Halves ==
  ASSUME NEW x \in Int, x >= 0
  PROVE  /\ Cents(x) \in Nat
         /\ 2 * (Fine * Cents(x)) <= 2 * x + Fine
         /\ 2 * x < 2 * (Fine * Cents(x)) + Fine
  <1>1. 2 * x + Fine \in Int /\ 2 * Fine \in Nat \ {0} BY PlanAssumption
  <1> DEFINE c == (2 * x + Fine) \div (2 * Fine)
  <1>2. c \in Int /\ (2 * Fine) * c <= 2 * x + Fine /\ 2 * x + Fine < (2 * Fine) * c + 2 * Fine
    BY <1>1, Division
  <1>3. Cents(x) = c BY DEF Cents, c
  <1> HIDE DEF c
  <1>4. (2 * Fine) * c = 2 * (Fine * c) BY <1>2, PlanAssumption
  <1>5. Fine * c \in Int BY <1>2, PlanAssumption
  <1>6. 2 * (Fine * c) <= 2 * x + Fine /\ 2 * x < 2 * (Fine * c) + Fine
    BY <1>2, <1>4, <1>5, PlanAssumption
  <1>7. c >= 0
    <2> SUFFICES ASSUME c + 1 <= 0 PROVE FALSE BY <1>2
    <2>1. Fine * (c + 1) <= 0 BY <1>2, PlanAssumption, SMT
    <2>2. Fine * (c + 1) = Fine * c + Fine BY <1>2, PlanAssumption
    <2> QED BY <1>5, <1>6, <2>1, <2>2, PlanAssumption
  <1> QED BY <1>2, <1>3, <1>6, <1>7

LEMMA Mirrored ==
  ASSUME NEW x \in Int, x < 0
  PROVE  Cents(x) = -Cents(-x) /\ -x \in Int /\ -x > 0
  <1>1. -x \in Int /\ -x > 0 BY SMT
  <1> DEFINE y == -x
  <1>2. Cents(x) = -((2 * y + Fine) \div (2 * Fine)) BY DEF Cents
  <1>3. Cents(y) = (2 * y + Fine) \div (2 * Fine) BY <1>1 DEF Cents
  <1> QED BY <1>1, <1>2, <1>3

\* The nearest, within half a cent on either side; and nil for less than half a cent only.
LEMMA CentsRounds ==
  ASSUME NEW x \in Int
  PROVE  /\ Cents(x) \in Int
         /\ 2 * (Fine * Cents(x)) <= 2 * x + Fine
         /\ 2 * x - Fine <= 2 * (Fine * Cents(x))
  <1>1. CASE x >= 0
    <2>1. Fine * Cents(x) \in Int BY <1>1, Halves, PlanAssumption
    <2> QED BY <1>1, <2>1, Halves, PlanAssumption
  <1>2. CASE x < 0
    <2> DEFINE c == Cents(-x)
    <2>1. /\ -x \in Int /\ -x > 0 /\ Cents(x) = -c
      BY <1>2, Mirrored
    <2>2. c \in Nat /\ 2 * (Fine * c) <= 2 * (-x) + Fine /\ 2 * (-x) < 2 * (Fine * c) + Fine
      BY <2>1, Halves
    <2> HIDE DEF c
    <2>3. Fine * c \in Int /\ Fine * (-c) = -(Fine * c) BY <2>2, PlanAssumption
    <2>4. 2 * (Fine * (-c)) <= 2 * x + Fine /\ 2 * x - Fine <= 2 * (Fine * (-c))
      BY <2>2, <2>3, PlanAssumption
    <2> QED BY <2>1, <2>2, <2>4
  <1> QED BY <1>1, <1>2

LEMMA CentsOfLittle ==
  ASSUME NEW x \in Int
  PROVE  Cents(x) = 0 <=> -Fine < 2 * x /\ 2 * x < Fine
  <1>1. \A y \in Int : y >= 0 => (Cents(y) = 0 <=> 2 * y < Fine)
    <2> SUFFICES ASSUME NEW y \in Int, y >= 0 PROVE Cents(y) = 0 <=> 2 * y < Fine OBVIOUS
    <2> DEFINE c == Cents(y)
    <2>1. c \in Nat /\ 2 * (Fine * c) <= 2 * y + Fine /\ 2 * y < 2 * (Fine * c) + Fine BY Halves
    <2> HIDE DEF c
    <2>2. ASSUME c = 0 PROVE 2 * y < Fine
      <3>1. Fine * c = 0 BY <2>2, PlanAssumption
      <3> QED BY <2>1, <3>1, PlanAssumption
    <2>3. ASSUME c # 0 PROVE ~(2 * y < Fine)
      <3>1. Fine * c >= Fine BY <2>1, <2>3, PlanAssumption, SMT
      <3>2. Fine * c \in Int BY <2>1, PlanAssumption
      <3> QED BY <2>1, <3>1, <3>2, PlanAssumption
    <2> QED BY <2>2, <2>3 DEF c
  <1>2. CASE x >= 0
    BY <1>1, <1>2, PlanAssumption
  <1>3. CASE x < 0
    <2>1. Cents(x) = -Cents(-x) /\ -x \in Int /\ -x > 0 BY <1>3, Mirrored
    <2>2. Cents(-x) \in Int BY <2>1, Halves
    <2>3. Cents(x) = 0 <=> Cents(-x) = 0 BY <2>1, <2>2
    <2>4. Cents(-x) = 0 <=> 2 * (-x) < Fine BY <1>1, <2>1
    <2>5. 2 * (-x) < Fine <=> -Fine < 2 * x BY PlanAssumption
    <2>6. 2 * x < Fine BY <1>3, PlanAssumption
    <2> QED BY <2>3, <2>4, <2>5, <2>6
  <1> QED BY <1>2, <1>3

LEMMA CentsMonotone ==
  ASSUME NEW x \in Int, NEW y \in Int, x <= y
  PROVE  Cents(x) <= Cents(y)
  <1>1. \A u, v \in Int : 0 <= u /\ u <= v => Cents(u) <= Cents(v)
    <2> SUFFICES ASSUME NEW u \in Int, NEW v \in Int, 0 <= u, u <= v PROVE Cents(u) <= Cents(v) OBVIOUS
    <2> DEFINE c == Cents(u)
               d == Cents(v)
    <2>1. c \in Int /\ 2 * (Fine * c) <= 2 * u + Fine BY Halves
    <2>2. d \in Int /\ 2 * v < 2 * (Fine * d) + Fine BY Halves
    <2> HIDE DEF c, d
    <2>3. ~(d < c)
      <3> SUFFICES ASSUME d + 1 <= c PROVE FALSE BY <2>1, <2>2
      <3>1. Fine * (d + 1) <= Fine * c BY <2>1, <2>2, PlanAssumption, SMT
      <3>2. Fine * (d + 1) = Fine * d + Fine BY <2>2, PlanAssumption
      <3>3. Fine * d \in Int /\ Fine * c \in Int BY <2>1, <2>2, PlanAssumption
      <3> QED BY <2>1, <2>2, <3>1, <3>2, <3>3, PlanAssumption
    <2> QED BY <2>1, <2>2, <2>3 DEF c, d
  <1>2. CASE x >= 0
    BY <1>1, <1>2
  <1>3. CASE x < 0 /\ y >= 0
    <2>1. Cents(x) = -Cents(-x) /\ Cents(-x) \in Nat BY <1>3, Mirrored, Halves
    <2>2. Cents(y) \in Nat BY <1>3, Halves
    <2> QED BY <2>1, <2>2
  <1>4. CASE x < 0 /\ y < 0
    <2>1. Cents(x) = -Cents(-x) /\ -x \in Int /\ Cents(-x) \in Nat BY <1>4, Mirrored, Halves
    <2>2. Cents(y) = -Cents(-y) /\ -y \in Int /\ -y > 0 /\ Cents(-y) \in Nat BY <1>4, Mirrored, Halves
    <2>3. -y <= -x BY SMT
    <2>4. Cents(-y) <= Cents(-x) BY <1>1, <2>1, <2>2, <2>3
    <2> QED BY <2>1, <2>2, <2>4
  <1> QED BY <1>2, <1>3, <1>4

(* A day's interest is of the sign of the debt and no more than it. *)
LEMMA RateFits ==
  ASSUME NEW d \in Int, DailyRate(d) # Refused
  PROVE  DailyRate(d) \in 0..RateUnit
  <1> DEFINE S == {e \in Data.gic_rates : ~(e.from > d)}
  <1>1. PICK e \in Data.gic_rates : ~(e.from > d) BY DEF DailyRate
  <1>2. S # {} /\ S \in SUBSET Data.gic_rates BY <1>1
  <1>3. PICK l \in S : \A f \in S : f.from <= l.from BY <1>2, PlanAssumption
  <1>4. l \in Data.gic_rates /\ l.from <= d /\ \A f \in Data.gic_rates : f.from <= d => f.from <= l.from
    BY <1>3, PlanAssumption
  <1> DEFINE best == CHOOSE e2 \in Data.gic_rates :
               e2.from <= d /\ \A f \in Data.gic_rates : f.from <= d => f.from <= e2.from
  <1>5. best \in Data.gic_rates BY <1>4
  <1>6. DailyRate(d) = best.rate BY DEF DailyRate
  <1> HIDE DEF best
  <1> QED BY <1>5, <1>6, PlanAssumption

LEMMA AccruedBetween ==
  ASSUME NEW b \in Int, day \in Int, DailyRate(day) # Refused
  PROVE  /\ Accrued(b) \in Int
         /\ b >= 0 => Accrued(b) >= 0
         /\ b < 0 => b <= Accrued(b) /\ Accrued(b) <= 0
  <1> DEFINE r == DailyRate(day)
             a == (b * r) \div RateUnit
  <1>1. r \in 0..RateUnit /\ RateUnit \in Nat \ {0} BY RateFits, PlanAssumption
  <1> HIDE DEF r
  <1>2. b * r \in Int BY <1>1
  <1>3. a \in Int /\ RateUnit * a <= b * r /\ b * r < RateUnit * a + RateUnit BY <1>1, <1>2, Division
  <1>4. Accrued(b) = a BY DEF Accrued, r
  <1> HIDE DEF a
  <1>5. ASSUME b >= 0 PROVE a >= 0
    <2> SUFFICES ASSUME a + 1 <= 0 PROVE FALSE BY <1>3
    <2>1. RateUnit * (a + 1) <= 0 BY <1>1, <1>3, SMT
    <2>2. RateUnit * (a + 1) = RateUnit * a + RateUnit /\ RateUnit * a \in Int BY <1>1, <1>3
    <2>3. b * r >= 0 BY <1>1, <1>5, SMT
    <2> QED BY <1>1, <1>2, <1>3, <2>1, <2>2, <2>3
  <1>6. ASSUME b < 0 PROVE b <= a /\ a <= 0
    <2>1. b * RateUnit <= b * r /\ b * r <= 0 BY <1>1, <1>6, SMT
    <2>2. RateUnit * a \in Int /\ b * RateUnit \in Int BY <1>1, <1>3
    <2>3. ~(a + 1 <= b)
      <3> SUFFICES ASSUME a + 1 <= b PROVE FALSE OBVIOUS
      <3>1. RateUnit * (a + 1) <= b * RateUnit BY <1>1, <1>3, SMT
      <3>2. RateUnit * (a + 1) = RateUnit * a + RateUnit BY <1>1, <1>3
      <3> QED BY <1>1, <1>2, <1>3, <2>1, <2>2, <3>1, <3>2
    <2>4. ~(1 <= a)
      <3> SUFFICES ASSUME 1 <= a PROVE FALSE OBVIOUS
      <3>1. RateUnit * a >= RateUnit BY <1>1, <1>3, SMT
      <3> QED BY <1>1, <1>2, <1>3, <2>1, <2>2, <3>1
    <2> QED BY <1>3, <2>3, <2>4
  <1> QED BY <1>3, <1>4, <1>5, <1>6

ScheduleRow == [due : Int, amount : Int, gic_to_date : Int, gic_accrued : Int, closing : Int]

PlanTypes ==
  /\ phase \in {"none", "running", "cleared", "refused"}
  /\ {day, balance, gic, paid, amount} \subseteq Int
  /\ rows \in Seq(ScheduleRow)
  /\ phase # "none" => plan.owed \in Int /\ plan.instalment \in Int

(* The books of the loop: what is owed is the debt and its interest less   *)
(* what was paid.                                                          *)
Books ==
  /\ phase # "none" => balance = Fine * plan.owed + gic - Fine * paid
  /\ phase = "none" => rows = <<>> /\ paid = 0 /\ gic = 0
  /\ rows = <<>> => paid = 0
  /\ phase = "running" => plan.instalment > 0 /\ amount > 0
  /\ phase = "running" /\ rows # <<>> => rows[Len(rows)].due < day

(* The last row states them to the cent, and while it shows a debt there   *)
(* is one, whose interest has only grown since.                            *)
LastRow ==
  /\ rows # <<>> => rows[Len(rows)].closing = plan.owed + Shown - paid
  /\ phase = "running" /\ plan.owed + Shown - paid > 0 => 2 * balance >= Fine /\ Shown <= Cents(gic)

RowsHold ==
  \A i \in 1..Len(rows) :
     LET before == IF i = 1 THEN plan.owed ELSE rows[i - 1].closing
     IN /\ rows[i].closing = before + rows[i].gic_accrued - rows[i].amount
        /\ rows[i].closing >= -1
        /\ before > 0 => rows[i].amount > 0
        /\ before > 0 /\ rows[i].closing >= 0 => rows[i].gic_accrued >= 0
        /\ i < Len(rows) => rows[i].due < rows[i + 1].due

Clear == phase = "cleared" => rows[Len(rows)].closing = 0 /\ paid = plan.owed + Cents(gic)

PlanInv == PlanTypes /\ Books /\ LastRow /\ RowsHold /\ Clear

(* A payment leaves more than nothing, or nothing within half a cent.      *)
LEMMA PaymentFits ==
  ASSUME PlanInv, phase = "running"
  PROVE  /\ Payment \in Int /\ Left \in Int /\ 2 * Left >= -Fine
         /\ plan.owed + Shown - paid > 0 => Payment > 0
  <1>1. /\ balance \in Int /\ amount \in Int /\ amount > 0 /\ Cents(balance) \in Int
        /\ 2 * (Fine * Cents(balance)) <= 2 * balance + Fine
    BY CentsRounds DEF PlanInv, PlanTypes, Books
  <1>2. Payment \in Int /\ Payment <= Cents(balance) BY <1>1 DEF Payment
  <1>3. Fine * Payment \in Int /\ Fine * Cents(balance) \in Int BY <1>1, <1>2, PlanAssumption
  <1>4. Left \in Int BY <1>1, <1>3 DEF Left
  <1>5. 2 * Left >= -Fine
    <2>1. Fine * Payment <= Fine * Cents(balance) BY <1>1, <1>2, PlanAssumption, SMT
    <2> QED BY <1>1, <1>3, <2>1, PlanAssumption DEF Left
  <1>6. ASSUME plan.owed + Shown - paid > 0 PROVE Payment > 0
    <2>1. 2 * balance >= Fine BY <1>6 DEF PlanInv, LastRow
    <2>2. Cents(balance) \in Nat BY <1>1, <2>1, Halves, PlanAssumption
    <2>3. Cents(balance) # 0 BY <1>1, <2>1, CentsOfLittle, PlanAssumption
    <2> QED BY <1>1, <2>2, <2>3 DEF Payment
  <1> QED BY <1>2, <1>4, <1>5, <1>6

(* The closing balance of a row is what is owed after it, to the cent. *)
LEMMA Closing ==
  ASSUME NEW owed \in Int, NEW g \in Int, NEW p \in Int, NEW b \in Int,
         b = Fine * owed + g - Fine * p
  PROVE  LET c == owed + Cents(g) - p
         IN /\ c \in Int
            /\ 2 * b >= -2 * Fine => c >= -1
            /\ c > 0 => 2 * b >= Fine
            /\ 2 * b < -Fine => c < 0
            /\ -Fine < 2 * b /\ 2 * b < Fine => c = 0
  <1> DEFINE c == owed + Cents(g) - p
  <1>1. /\ Cents(g) \in Int /\ 2 * (Fine * Cents(g)) <= 2 * g + Fine
        /\ 2 * g - Fine <= 2 * (Fine * Cents(g))
    BY CentsRounds
  <1>2. /\ Fine * owed \in Int /\ Fine * p \in Int /\ Fine * Cents(g) \in Int
        /\ Fine * c = Fine * owed + Fine * Cents(g) - Fine * p
    BY <1>1, PlanAssumption
  <1>3. c \in Int /\ Fine * c \in Int BY <1>1, <1>2
  <1> HIDE DEF c
  <1>4. 2 * (Fine * c) <= 2 * b + Fine /\ 2 * b - Fine <= 2 * (Fine * c)
    <2> DEFINE u == Fine * owed
               v == Fine * p
               w == Fine * Cents(g)
    <2>1. u \in Int /\ v \in Int /\ w \in Int /\ b = u + g - v /\ Fine * c = u + w - v
          /\ 2 * w <= 2 * g + Fine /\ 2 * g - Fine <= 2 * w
      BY <1>1, <1>2
    <2> HIDE DEF u, v, w
    <2> QED BY <1>3, <2>1, PlanAssumption
  <1>5. ASSUME 2 * b >= -2 * Fine PROVE c >= -1
    <2> SUFFICES ASSUME c <= -2 PROVE FALSE BY <1>3
    <2>1. Fine * c <= -2 * Fine BY <1>3, PlanAssumption, SMT
    <2> QED BY <1>3, <1>4, <1>5, <2>1, PlanAssumption
  <1>6. ASSUME c > 0 PROVE 2 * b >= Fine
    <2>1. Fine * c >= Fine BY <1>3, <1>6, PlanAssumption, SMT
    <2> QED BY <1>3, <1>4, <2>1, PlanAssumption
  <1>7. ASSUME 2 * b < -Fine PROVE c < 0
    <2> SUFFICES ASSUME c >= 0 PROVE FALSE BY <1>3
    <2>1. Fine * c >= 0 BY <1>3, PlanAssumption, SMT
    <2> QED BY <1>3, <1>4, <1>7, <2>1, PlanAssumption
  <1>8. ASSUME -Fine < 2 * b, 2 * b < Fine PROVE c = 0
    <2>1. ~(c >= 1)
      <3> SUFFICES ASSUME c >= 1 PROVE FALSE OBVIOUS
      <3>1. Fine * c >= Fine BY <1>3, PlanAssumption, SMT
      <3> QED BY <1>3, <1>4, <1>8, <3>1, PlanAssumption
    <2>2. ~(c <= -1)
      <3> SUFFICES ASSUME c <= -1 PROVE FALSE OBVIOUS
      <3>1. Fine * c <= -Fine BY <1>3, PlanAssumption, SMT
      <3> QED BY <1>3, <1>4, <1>8, <3>1, PlanAssumption
    <2> QED BY <1>3, <2>1, <2>2
  <1> QED BY <1>3, <1>5, <1>6, <1>7, <1>8 DEF c

LEMMA Initially == PlanIdle => PlanInv
  <1> SUFFICES ASSUME PlanIdle PROVE PlanInv OBVIOUS
  <1>1. PlanTypes BY DEF PlanIdle, PlanTypes
  <1>2. Books BY DEF PlanIdle, Books
  <1>3. LastRow BY DEF PlanIdle, LastRow
  <1>4. RowsHold BY DEF PlanIdle, RowsHold
  <1>5. Clear BY DEF PlanIdle, Clear
  <1> QED BY <1>1, <1>2, <1>3, <1>4, <1>5 DEF PlanInv

LEMMA Starting ==
  ASSUME PlanInv, NEW p \in Plans, StartPlan(p)
  PROVE  PlanInv'
  <1> USE DEF StartPlan
  <1>1. /\ p.owed \in Int /\ p.upfront \in Int /\ p.instalment \in Int /\ p.due \in Int
        /\ Fine * p.owed \in Int
    BY PlanAssumption
  <1>2. rows = <<>> /\ paid = 0 /\ gic = 0 BY DEF PlanInv, Books
  <1>3. PlanTypes' BY <1>1 DEF PlanInv, PlanTypes
  <1>4. Books' BY <1>1, <1>2, PlanAssumption DEF Books, PlanFits
  <1>5. LastRow'
    <2>1. Cents(0) = 0 BY CentsOfLittle, PlanAssumption
    <2>2. Shown' = 0 /\ Cents(gic)' = 0 BY <1>2, <2>1 DEF Shown, Cents
    <2>3. phase' = "running" => 2 * (Fine * p.owed) >= Fine
      <3> SUFFICES ASSUME p.owed >= 1 PROVE 2 * (Fine * p.owed) >= Fine BY <1>1 DEF PlanFits
      <3>1. Fine * p.owed >= Fine BY <1>1, PlanAssumption, SMT
      <3> QED BY <1>1, <3>1, PlanAssumption
    <2> QED BY <1>2, <2>2, <2>3 DEF LastRow
  <1>6. RowsHold' BY <1>2 DEF RowsHold
  <1>7. Clear' BY DEF Clear
  <1> QED BY <1>3, <1>4, <1>5, <1>6, <1>7 DEF PlanInv

LEMMA LastRowTyped ==
  ASSUME PlanInv
  PROVE  Shown \in Int /\ (rows # <<>> => rows[Len(rows)] \in ScheduleRow)
  <1>1. rows \in Seq(ScheduleRow) BY DEF PlanInv, PlanTypes
  <1>2. CASE rows = <<>> BY <1>2 DEF Shown
  <1>3. CASE rows # <<>>
    <2>1. Len(rows) \in 1..Len(rows) BY <1>1, <1>3
    <2>2. rows[Len(rows)] \in ScheduleRow BY <1>1, <2>1
    <2> QED BY <1>3, <2>2 DEF Shown, ScheduleRow
  <1> QED BY <1>2, <1>3

(* A row appended to the schedule continues it. *)
LEMMA Appending ==
  ASSUME PlanInv, phase = "running", NEW g \in Int,
         plan.owed + Cents(g) - (paid + Payment) >= -1,
         /\ plan.owed + Shown - paid > 0
         /\ plan.owed + Cents(g) - (paid + Payment) >= 0
         => Shown <= Cents(g),
         rows' = Append(rows, PlanRow(g)), plan' = plan
  PROVE  /\ rows' \in Seq(ScheduleRow) /\ Len(rows') = Len(rows) + 1
         /\ rows'[Len(rows')] = PlanRow(g)
         /\ Shown' = Cents(g)
         /\ RowsHold'
  <1> DEFINE n == Len(rows)
             r == PlanRow(g)
             old == plan.owed + Shown - paid
             new == plan.owed + Cents(g) - (paid + Payment)
  <1>1. /\ rows \in Seq(ScheduleRow) /\ day \in Int /\ paid \in Int /\ plan.owed \in Int
        /\ Payment \in Int /\ (old > 0 => Payment > 0)
    BY PaymentFits DEF PlanInv, PlanTypes
  <1>2. Cents(g) \in Int BY CentsRounds
  <1>3. Shown \in Int /\ (old > 0 /\ new >= 0 => Shown <= Cents(g)) /\ new >= -1
    BY LastRowTyped
  <1>4. /\ r.due = day /\ r.amount = Payment /\ r.gic_to_date = Cents(g)
        /\ r.gic_accrued = Cents(g) - Shown
        /\ r.closing = new
        /\ r \in ScheduleRow
    BY <1>1, <1>2, <1>3 DEF PlanRow, ScheduleRow
  <1>5. old \in Int /\ new \in Int /\ new = old + (Cents(g) - Shown) - Payment BY <1>1, <1>2, <1>3
  <1>6. n > 0 => rows[n].closing = old /\ rows[n].due < day
    <2>1. n > 0 => rows # <<>> BY <1>1
    <2> QED BY <2>1 DEF PlanInv, LastRow, Books
  <1>7. n = 0 => old = plan.owed
    <2>1. n = 0 => rows = <<>> BY <1>1
    <2> QED BY <1>1, <2>1 DEF PlanInv, Books, Shown
  <1> HIDE DEF r, old, new
  <1>8. /\ rows' = Append(rows, r) /\ rows' \in Seq(ScheduleRow) /\ Len(rows') = n + 1 /\ n \in Nat
        /\ rows'[n + 1] = r /\ \A i \in 1..n : rows'[i] = rows[i]
        /\ rows' # <<>>
    BY <1>1, <1>4 DEF r
  <1>9. Shown' = Cents(g) BY <1>4, <1>8 DEF Shown
  <1>10. RowsHold'
    <2> SUFFICES ASSUME NEW i \in 1..(n + 1)
                 PROVE  LET before == IF i = 1 THEN plan.owed ELSE rows'[i - 1].closing
                        IN /\ rows'[i].closing = before + rows'[i].gic_accrued - rows'[i].amount
                           /\ rows'[i].closing >= -1
                           /\ before > 0 => rows'[i].amount > 0
                           /\ before > 0 /\ rows'[i].closing >= 0 => rows'[i].gic_accrued >= 0
                           /\ i < n + 1 => rows'[i].due < rows'[i + 1].due
      BY <1>8 DEF RowsHold
    <2>1. CASE i \in 1..n
      <3>1. rows'[i] = rows[i] /\ (i # 1 => rows'[i - 1] = rows[i - 1]) BY <1>8, <2>1
      <3>2. LET before == IF i = 1 THEN plan.owed ELSE rows[i - 1].closing
            IN /\ rows[i].closing = before + rows[i].gic_accrued - rows[i].amount
               /\ rows[i].closing >= -1
               /\ before > 0 => rows[i].amount > 0
               /\ before > 0 /\ rows[i].closing >= 0 => rows[i].gic_accrued >= 0
               /\ i < n => rows[i].due < rows[i + 1].due
        BY <2>1 DEF PlanInv, RowsHold
      <3>3. rows'[i].due < rows'[i + 1].due
        <4>1. CASE i < n
          <5>1. rows'[i + 1] = rows[i + 1] BY <1>8, <2>1, <4>1
          <5> QED BY <3>1, <3>2, <4>1, <5>1
        <4>2. CASE i = n
          BY <1>4, <1>6, <1>8, <2>1, <3>1, <4>2
        <4> QED BY <1>8, <2>1, <4>1, <4>2
      <3> QED BY <3>1, <3>2, <3>3
    <2>2. CASE i = n + 1
      <3>1. (IF i = 1 THEN plan.owed ELSE rows'[i - 1].closing) = old
        <4>1. CASE n = 0 BY <1>7, <2>2, <4>1
        <4>2. CASE n # 0
          <5>1. i # 1 /\ i - 1 = n /\ n \in 1..n /\ n > 0 BY <1>8, <2>2, <4>2
          <5>2. rows'[i - 1] = rows[n] BY <1>8, <5>1
          <5> QED BY <1>6, <5>1, <5>2
        <4> QED BY <4>1, <4>2
      <3>2. rows'[i] = r BY <1>8, <2>2
      <3>3. /\ rows'[i].gic_accrued = Cents(g) - Shown /\ rows'[i].amount = Payment
            /\ rows'[i].closing = new
        BY <1>4, <3>2
      <3>4. ~(i < n + 1) BY <1>8, <2>2
      <3>5. /\ old > 0 => Payment > 0
            /\ old > 0 /\ new >= 0 => Cents(g) - Shown >= 0
        BY <1>1, <1>2, <1>3, <1>5
      <3> QED BY <1>3, <1>5, <3>1, <3>3, <3>4, <3>5
    <2> QED BY <1>8, <2>1, <2>2
  <1> QED BY <1>8, <1>9, <1>10 DEF r

(* A payment is entered in the books. *)
LEMMA Entering ==
  ASSUME PlanInv, phase = "running", NEW a \in Int
  PROVE  Left + a = Fine * plan.owed + (gic + a) - Fine * (paid + Payment)
  <1>1. /\ Payment \in Int /\ plan.owed \in Int /\ gic \in Int /\ paid \in Int /\ balance \in Int
    BY PaymentFits DEF PlanInv, PlanTypes
  <1> DEFINE u == Fine * plan.owed
             v == Fine * paid
             w == Fine * Payment
  <1>2. /\ u \in Int /\ v \in Int /\ w \in Int /\ Fine * (paid + Payment) = v + w
    BY <1>1, PlanAssumption
  <1>3. balance = u + gic - v /\ Left = balance - w
    BY DEF PlanInv, Books, Left
  <1> HIDE DEF u, v, w
  <1>4. Left + a = u + (gic + a) - (v + w) BY <1>1, <1>2, <1>3
  <1> QED BY <1>2, <1>4 DEF u

LEMMA Clearing ==
  ASSUME PlanInv, ClearingPayment
  PROVE  PlanInv'
  <1> USE DEF ClearingPayment, Running, Clears
  <1>1. /\ Payment \in Int /\ Left \in Int /\ plan.owed \in Int
        /\ gic \in Int /\ paid \in Int /\ Cents(gic) \in Int
    BY PaymentFits, CentsRounds DEF PlanInv, PlanTypes
  <1>2. Left = Fine * plan.owed + gic - Fine * (paid + Payment)
    <2>1. Left + 0 = Fine * plan.owed + (gic + 0) - Fine * (paid + Payment) BY Entering
    <2> QED BY <1>1, <2>1
  <1>3. plan.owed + Cents(gic) - (paid + Payment) = 0
    <2>1. -Fine < 2 * Left /\ 2 * Left < Fine BY <1>1, CentsOfLittle
    <2>2. paid + Payment \in Int BY <1>1
    <2> QED BY <1>1, <1>2, <2>1, <2>2, Closing
  <1>4. plan.owed + Shown - paid > 0 => Shown <= Cents(gic)
    BY DEF PlanInv, LastRow
  <1>5. /\ rows' \in Seq(ScheduleRow) /\ Len(rows') = Len(rows) + 1
        /\ rows'[Len(rows')] = PlanRow(gic) /\ Shown' = Cents(gic) /\ RowsHold'
    BY <1>1, <1>3, <1>4, Appending
  <1>6. PlanRow(gic).closing = 0 /\ rows' # <<>>
    BY <1>3, <1>5 DEF PlanRow, PlanInv, PlanTypes
  <1>7. PlanTypes' BY <1>1, <1>5 DEF PlanInv, PlanTypes
  <1>8. Books' BY <1>1, <1>2, <1>6 DEF PlanInv, Books
  <1>9. LastRow' BY <1>1, <1>3, <1>5, <1>6 DEF LastRow
  <1>10. Clear'
    <2>1. Cents(gic)' = Cents(gic) BY DEF Cents
    <2> QED BY <1>1, <1>3, <1>5, <1>6, <2>1 DEF Clear
  <1> QED BY <1>5, <1>7, <1>8, <1>9, <1>10 DEF PlanInv

LEMMA Paying ==
  ASSUME PlanInv, PartPayment
  PROVE  PlanInv'
  <1> USE DEF PartPayment, Running, Clears
  <1> DEFINE a == Accrued(Left)
             g == gic + a
             b == Left + a
             new == plan.owed + Cents(g) - (paid + Payment)
  <1>1. /\ Payment \in Int /\ Left \in Int /\ 2 * Left >= -Fine /\ Cents(Left) # 0
        /\ plan.owed \in Int /\ day \in Int /\ gic \in Int /\ paid \in Int /\ plan.instalment \in Int
    BY PaymentFits DEF PlanInv, PlanTypes, Books
  <1>2. /\ a \in Int /\ (Left >= 0 => a >= 0) /\ (Left < 0 => Left <= a /\ a <= 0)
    BY <1>1, AccruedBetween
  <1>3. /\ gic' = g /\ balance' = b /\ rows' = Append(rows, PlanRow(g)) /\ plan' = plan
        /\ paid' = paid + Payment
    OBVIOUS
  <1> HIDE DEF a
  <1>4. g \in Int /\ b \in Int /\ Cents(g) \in Int /\ paid + Payment \in Int
    BY <1>1, <1>2, CentsRounds
  <1>5. b = Fine * plan.owed + g - Fine * (paid + Payment)
    BY <1>2, Entering
  <1>6. 2 * b >= -2 * Fine
    BY <1>1, <1>2, PlanAssumption
  <1>7. /\ new \in Int /\ new >= -1
        /\ new > 0 => 2 * b >= Fine
        /\ 2 * b < -Fine => new < 0
    BY <1>1, <1>4, <1>5, <1>6, Closing
  <1>8. ASSUME plan.owed + Shown - paid > 0, new >= 0
        PROVE  Shown <= Cents(g)
    <2>1. Shown <= Cents(gic) BY <1>8 DEF PlanInv, LastRow
    <2>2. a >= 0
      <3> SUFFICES ASSUME Left < 0, a <= -1 PROVE FALSE BY <1>1, <1>2
      <3>1. 2 * Left <= -Fine
        <4>1. ~(-Fine < 2 * Left /\ 2 * Left < Fine) BY <1>1, CentsOfLittle
        <4> QED BY <1>1, <4>1, PlanAssumption
      <3>2. 2 * b < -Fine BY <1>1, <1>2, <3>1, PlanAssumption
      <3> QED BY <1>7, <1>8, <3>2
    <2>3. Cents(gic) <= Cents(g) /\ Cents(gic) \in Int
      <3>1. gic <= g BY <1>1, <1>2, <2>2
      <3> QED BY <1>1, <1>4, <3>1, CentsMonotone, CentsRounds
    <2> QED BY <1>4, <2>1, <2>3, LastRowTyped
  <1>9. /\ rows' \in Seq(ScheduleRow) /\ Len(rows') = Len(rows) + 1
        /\ rows'[Len(rows')] = PlanRow(g) /\ Shown' = Cents(g) /\ RowsHold'
    BY <1>3, <1>4, <1>7, <1>8, Appending
  <1>10. PlanRow(g).closing = new /\ PlanRow(g).due = day /\ rows' # <<>>
    BY <1>9 DEF PlanRow, PlanInv, PlanTypes
  <1> HIDE DEF g, b, new
  <1>11. PlanTypes' BY <1>1, <1>3, <1>4, <1>9 DEF PlanInv, PlanTypes
  <1>12. Books'
    <2>1. balance' = Fine * plan.owed + gic' - Fine * paid' BY <1>3, <1>5
    <2>2. rows'[Len(rows')].due < day' BY <1>1, <1>9, <1>10
    <2>3. amount' = plan.instalment /\ plan.instalment > 0 BY DEF PlanInv, Books
    <2> QED BY <1>3, <1>10, <2>1, <2>2, <2>3 DEF Books
  <1>13. LastRow'
    <2>1. Cents(gic)' = Cents(g) BY <1>3 DEF Cents
    <2>2. plan'.owed + Shown' - paid' = new BY <1>3, <1>9 DEF new
    <2>3. rows'[Len(rows')].closing = plan'.owed + Shown' - paid' BY <1>9, <1>10, <2>2
    <2>4. plan'.owed + Shown' - paid' > 0 => 2 * balance' >= Fine BY <1>3, <1>7, <2>2
    <2>5. Shown' <= Cents(gic)' BY <1>4, <1>9, <2>1
    <2> QED BY <2>3, <2>4, <2>5 DEF LastRow
  <1>14. Clear' BY DEF Clear
  <1> QED BY <1>9, <1>11, <1>12, <1>13, <1>14 DEF PlanInv

LEMMA Accruing ==
  ASSUME PlanInv, Accrue
  PROVE  PlanInv'
  <1> USE DEF Accrue, Running
  <1> DEFINE a == Accrued(balance)
  <1>1. /\ balance \in Int /\ day \in Int /\ gic \in Int /\ paid \in Int
        /\ plan.owed \in Int
    BY DEF PlanInv, PlanTypes, Books
  <1>2. a \in Int /\ (balance >= 0 => a >= 0) BY <1>1, AccruedBetween
  <1>3. balance' = balance + a /\ gic' = gic + a OBVIOUS
  <1> HIDE DEF a
  <1>4. PlanTypes' BY <1>1, <1>2, <1>3 DEF PlanInv, PlanTypes
  <1>5. Books'
    <2>1. Fine * plan.owed \in Int /\ Fine * paid \in Int BY <1>1, PlanAssumption
    <2>2. balance' = Fine * plan.owed + gic' - Fine * paid
      BY <1>1, <1>2, <1>3, <2>1 DEF PlanInv, Books
    <2>3. rows # <<>> => rows[Len(rows)].due < day'
      <3>1. rows # <<>> => rows[Len(rows)].due \in Int
        BY LastRowTyped DEF ScheduleRow
      <3> QED BY <1>1, <3>1 DEF PlanInv, Books
    <2> QED BY <1>1, <1>2, <1>3, <2>2, <2>3 DEF PlanInv, Books
  <1>6. LastRow'
    <2>1. Cents(gic)' = Cents(gic + a) BY <1>3 DEF Cents
    <2>2. Shown' = Shown BY DEF Shown
    <2>3. ASSUME plan.owed + Shown - paid > 0
          PROVE  2 * balance' >= Fine /\ Shown <= Cents(gic + a)
      <3>1. 2 * balance >= Fine /\ Shown <= Cents(gic) BY <2>3 DEF PlanInv, LastRow
      <3>2. a >= 0 BY <1>1, <1>2, <3>1, PlanAssumption
      <3>3. Cents(gic) <= Cents(gic + a) /\ Cents(gic) \in Int /\ Cents(gic + a) \in Int
        <4>1. gic + a \in Int /\ gic <= gic + a BY <1>1, <1>2, <3>2
        <4> QED BY <1>1, <4>1, CentsMonotone, CentsRounds
      <3> QED BY <1>1, <1>2, <1>3, <3>1, <3>2, <3>3, LastRowTyped, PlanAssumption
    <2> QED BY <2>1, <2>2, <2>3 DEF PlanInv, LastRow
  <1>7. RowsHold' BY DEF PlanInv, RowsHold
  <1>8. Clear' BY DEF Clear
  <1> QED BY <1>4, <1>5, <1>6, <1>7, <1>8 DEF PlanInv

LEMMA PlanSteps == PlanInv /\ [PlanNext]_planVars => PlanInv'
  <1> SUFFICES ASSUME PlanInv, [PlanNext]_planVars PROVE PlanInv' OBVIOUS
  <1>1. CASE UNCHANGED planVars
    BY <1>1 DEF planVars, PlanInv, PlanTypes, Books, LastRow, Shown, RowsHold, Clear, Cents
  <1>2. CASE NoRate
    BY <1>2 DEF NoRate, Running, PlanInv, PlanTypes, Books, LastRow, Shown, RowsHold, Clear, Cents
  <1> QED BY <1>1, <1>2, Clearing, Paying, Accruing, Starting DEF PlanNext, PlanDay

LEMMA PlanIs ==
  /\ Init => PlanInv
  /\ PlanInv /\ [Next]_vars => PlanInv'
<1>1. Init => PlanInv
  BY Initially DEF Init
<1>2. [Next]_vars => [PlanNext]_planVars
  <2> SUFFICES ASSUME [Next]_vars PROVE [PlanNext]_planVars
    OBVIOUS
  <2>1. \/ UNCHANGED planVars
        \/ EstimatePlan
    <3> USE DEF Ask, Then
    <3>1. CASE SummariseYears \/ ScheduleBas \/ ScheduleInstalments \/ PayInstalments
      BY <3>1 DEF SummariseYears, ScheduleBas, ScheduleInstalments, PayInstalments
    <3>2. CASE DueWithholding \/ DueSuper \/ DuePayrollTax \/ PlaceFbt
      BY <3>2 DEF DueWithholding, DueSuper, DuePayrollTax, PlaceFbt
    <3>3. CASE PlaceBas \/ ForecastBasCash \/ ForecastCash \/ CompareScenario
      BY <3>3 DEF PlaceBas, ForecastBasCash, ForecastCash, CompareScenario
    <3>4. CASE SpreadCharge \/ SpendOnAssets \/ RollAssets \/ FetchRba \/ FetchAbs
      BY <3>4 DEF SpreadCharge, SpendOnAssets, RollAssets, FetchRba, FetchAbs
    <3>5. CASE ForecastPayroll \/ SettlePayroll \/ RollLiabilities \/ PlacePayments
      BY <3>5 DEF ForecastPayroll, SettlePayroll, RollLiabilities, PlacePayments
    <3>6. CASE UNCHANGED vars
      BY <3>6 DEF vars
    <3> QED  BY <3>1, <3>2, <3>3, <3>4, <3>5, <3>6 DEF Next
  <2> QED  BY <2>1 DEF EstimatePlan
<1> QED  BY <1>1, <1>2, PlanSteps

\* The invariant of the loop: its books balance in parts of a cent, the last row of
\* the schedule states them to the nearest cent, and as long as it shows a debt there
\* is one, whose interest has only grown since.
THEOREM PlanInvariant == Spec => []PlanInv
  BY PlanIs, PTL DEF Spec

\* Every schedule of every plan reconciles to the cent: it may pass nil by one cent
\* and no more, and a debt that it shows is paid off and grows by its interest.
THEOREM SchedulesReconcile == Spec => []PlanReconciles
<1>1. PlanInv => PlanReconciles
  BY DEF PlanInv, Books, RowsHold, Clear, PlanReconciles
<1> QED  BY <1>1, PlanInvariant, PTL

-----------------------------------------------------------------------------
(* Payroll. *)

\* Of the entries in force there is a latest.
LEMMA LatestEntry ==
  ASSUME NEW table, IsFiniteSet(table), \A e \in table : e.from \in Int,
         NEW until, NEW d \in Int, RateAt(table, until, d) # Refused
  PROVE  \E e \in table : RateAt(table, until, d) = e.rate
<1> DEFINE S == {e \in table : e.from <= d}
           T == {R \in SUBSET S : R # {} => \E e \in R : \A f \in R : f.from <= e.from}
<1>1. IsFiniteSet(S) /\ \A e \in S : e.from \in Int
  BY FS_Subset
<1>2. ASSUME NEW R \in SUBSET S, \A e \in R : R \ {e} \in T
      PROVE  R \in T
  <2> SUFFICES ASSUME R # {} PROVE \E e \in R : \A f \in R : f.from <= e.from
    OBVIOUS
  <2>1. PICK p \in R : TRUE
    OBVIOUS
  <2>2. CASE R \ {p} = {}
    <3>1. \A f \in R : f.from <= p.from
      BY <1>1, <2>1, <2>2
    <3> QED  BY <3>1
  <2>3. CASE R \ {p} # {}
    <3>1. PICK e \in R \ {p} : \A f \in R \ {p} : f.from <= e.from
      BY <1>2, <2>1, <2>3
    <3>2. e.from \in Int /\ p.from \in Int
      BY <1>1
    <3>3. CASE p.from <= e.from
      <4>1. \A f \in R : f.from <= e.from
        BY <3>1, <3>3
      <4> QED  BY <4>1
    <3>4. CASE e.from <= p.from
      <4>1. \A f \in R : f.from \in Int
        BY <1>1
      <4>2. \A f \in R : f.from <= p.from
        BY <3>1, <3>2, <3>4, <4>1
      <4> QED  BY <4>2
    <3> QED  BY <3>2, <3>3, <3>4
  <2> QED  BY <2>2, <2>3
<1>3. \A R \in SUBSET S : R \in T
  <2>1. \A R \in SUBSET S : (\A e \in R : R \ {e} \in T) => R \in T
    BY <1>2
  <2> HIDE DEF T
  <2> QED  BY <1>1, <2>1, EverySubset
<1>4. S # {}
  BY DEF RateAt
<1>5. PICK e \in S : \A f \in S : f.from <= e.from
  BY <1>3, <1>4
<1> DEFINE best == CHOOSE e2 \in S : \A f \in S : f.from <= e2.from
<1>6. best \in S
  BY <1>5
<1>7. RateAt(table, until, d) = best.rate
  BY DEF RateAt
<1> HIDE DEF best
<1> QED  BY <1>6, <1>7

LEMMA DividesInt ==
  ASSUME NEW a \in Int, NEW b \in Nat \ {0}
  PROVE  a \div b \in Int
OBVIOUS

LEMMA ProductsInt ==
  ASSUME NEW a \in Int, NEW b \in Int
  PROVE  a * b \in Int
OBVIOUS

LEMMA StateTaxInt ==
  ASSUME NEW t \in Int, NEW e \in [threshold : Nat, deduction : Nat, rate : Nat, ramp : Nat]
  PROVE  StateTax(t, e) \in Int
<1> DEFINE annual == 12 * t
           base == t - e.deduction \div 12
           ramp == IF annual - e.threshold < e.ramp THEN annual - e.threshold ELSE e.ramp
<1>1. base \in Int /\ ramp \in Int /\ e.ramp \in Nat /\ e.rate \in Int /\ 100 * e.ramp \in Nat
  OBVIOUS
<1>2. StateTax(t, e) = IF annual <= e.threshold \/ base <= 0 THEN 0
                         ELSE IF e.ramp = 0 THEN (base * e.rate) \div 100
                         ELSE (base * e.rate * ramp) \div (100 * e.ramp)
  BY DEF StateTax
<1> HIDE DEF base, ramp
<1>3. base * e.rate \in Int
  BY <1>1, ProductsInt
<1>4. base * e.rate * ramp \in Int
  BY <1>1, <1>3, ProductsInt
<1>5. (base * e.rate) \div 100 \in Int
  BY <1>3, DividesInt
<1>6. CASE e.ramp # 0
  <2>1. 100 * e.ramp \in Nat \ {0}
    BY <1>1, <1>6
  <2>2. (base * e.rate * ramp) \div (100 * e.ramp) \in Int
    BY <1>4, <2>1, DividesInt
  <2> QED  BY <1>2, <1>5, <2>2
<1>7. CASE e.ramp = 0
  BY <1>2, <1>5, <1>7
<1> QED  BY <1>6, <1>7

PayrollInput == [roles : Seq(Roles), first : Int, horizon : Nat, registered : BOOLEAN, workers_comp_rate : Nat, leave_pct : Nat]
CostRow(row) ==
  row.gross \in Int /\ row.bonuses \in Int /\ row.super \in Int /\ row.payroll_tax \in Int /\ row.workers_comp \in Int

LEMMA PayrollInts ==
  ASSUME NEW x \in PayrollInput, ~PayrollRefused(x), NEW m \in PayrollMonths(x)
  PROVE  CostRow(PayrollMonth(x, m))
<1>0. m \in Int /\ FirstDay(m) \in Int
  BY MonthLasts DEF PayrollMonths, PayrollInput
<1>1. /\ IsFiniteSet(DOMAIN x.roles) /\ \A i \in DOMAIN x.roles : x.roles[i] \in Roles
  <2>1. x.roles \in Seq(Roles)
    BY DEF PayrollInput
  <2>2. DOMAIN x.roles = 1..Len(x.roles) /\ Len(x.roles) \in Nat /\ \A i \in DOMAIN x.roles : x.roles[i] \in Roles
    BY <2>1
  <2> QED  BY <2>2, FS_Interval
<1>2. IsFiniteSet(Staff(x, m)) /\ Staff(x, m) \subseteq DOMAIN x.roles
  BY <1>1, FS_Subset DEF Staff
<1>3. SuperRate(m) \in Nat
  <2>1. SuperRate(m) # Refused
    BY DEF PayrollRefused
  <2>2. \E e \in Data.super_table : SuperRate(m) = e.rate
    BY <1>0, <2>1, LatestEntry, RatesAssumption DEF SuperRate
  <2> QED  BY <2>2, RatesAssumption
<1>4. ASSUME NEW r \in Roles
      PROVE  /\ r.salary \in Int /\ Bonus(r) \in Int /\ RoleSuper(r, m) \in Int
             /\ (r.salary * x.leave_pct) \div 100 \in Int
  <2>1. r.salary \in Int /\ r.bonus_pct \in Int /\ x.leave_pct \in Int
    BY DEF Roles, PayrollInput
  <2>2. Bonus(r) \in Int /\ (r.salary * x.leave_pct) \div 100 \in Int
    BY <2>1, ProductsInt, DividesInt DEF Bonus
  <2>3. (r.salary + Bonus(r)) * SuperRate(m) \in Int
    BY <1>3, <2>1, <2>2, ProductsInt
  <2>4. RoleSuper(r, m) \in Int
    BY <2>3, DividesInt DEF RoleSuper
  <2> QED  BY <2>1, <2>2, <2>4
<1> DEFINE total(f) == SumFunctionOnSet(f, Staff(x, m))
<1>5. ASSUME NEW f, \A i \in Staff(x, m) : f[i] \in Int
      PROVE  total(f) \in Int
  BY <1>2, <1>5, SumInt
<1>6. /\ total([i \in Staff(x, m) |-> x.roles[i].salary]) \in Int
      /\ total([i \in Staff(x, m) |-> Bonus(x.roles[i])]) \in Int
      /\ total([i \in Staff(x, m) |-> RoleSuper(x.roles[i], m)]) \in Int
  BY <1>1, <1>2, <1>4, <1>5
<1>7. ASSUME x.registered
      PROVE  Add(LAMBDA j : StateTax(Taxable(x, j, m), TaxEntry(j, m)), States(x, m)) \in Int
  <2>1. IsFiniteSet(States(x, m)) /\ States(x, m) \subseteq DOMAIN Data.payroll_tax_table
    <3>1. IsFiniteSet({[k \in Staff(x, m) |-> x.roles[k].jurisdiction][i] : i \in Staff(x, m)})
      BY <1>2, FiniteImages
    <3>2. States(x, m) = {[k \in Staff(x, m) |-> x.roles[k].jurisdiction][i] : i \in Staff(x, m)}
      BY DEF States
    <3> QED  BY <1>1, <1>2, <3>1, <3>2 DEF States, Roles
  <2>2. ASSUME NEW j \in States(x, m)
        PROVE  StateTax(Taxable(x, j, m), TaxEntry(j, m)) \in Int
    <3>1. Taxable(x, j, m) \in Int
      <4> DEFINE S == {i \in Staff(x, m) : x.roles[i].jurisdiction = j}
                 g == [i \in S |-> x.roles[i].salary + Bonus(x.roles[i]) + RoleSuper(x.roles[i], m)]
      <4>1. IsFiniteSet(S) /\ \A i \in S : g[i] \in Int
        BY <1>1, <1>2, <1>4, FS_Subset
      <4>2. SumFunctionOnSet(g, S) \in Int
        <5> HIDE DEF g, S
        <5> QED  BY <4>1, SumInt
      <4> QED  BY <4>2 DEF Taxable, Add
    <3>2. TaxEntry(j, m) # Refused
      BY <1>7, <2>2 DEF PayrollRefused
    <3>3. PICK e \in Data.payroll_tax_table[j] : TaxEntry(j, m) = e.rate
      BY <1>0, <2>1, <2>2, <3>2, LatestEntry, RatesAssumption DEF TaxEntry
    <3>4. TaxEntry(j, m) \in [threshold : Nat, deduction : Nat, rate : Nat, ramp : Nat]
      BY <2>1, <3>3, RatesAssumption
    <3> QED  BY <3>1, <3>4, StateTaxInt
  <2>3. SumFunctionOnSet([j \in States(x, m) |-> StateTax(Taxable(x, j, m), TaxEntry(j, m))], States(x, m)) \in Int
    BY <2>1, <2>2, SumInt
  <2> QED  BY <2>3 DEF Add
<1>8. PICK row : row = PayrollMonth(x, m)
  OBVIOUS
<1>9. /\ row.gross = total([i \in Staff(x, m) |-> x.roles[i].salary])
      /\ row.bonuses = total([i \in Staff(x, m) |-> Bonus(x.roles[i])])
      /\ row.super = total([i \in Staff(x, m) |-> RoleSuper(x.roles[i], m)])
      /\ row.payroll_tax = IF ~x.registered THEN 0
                           ELSE Add(LAMBDA j : StateTax(Taxable(x, j, m), TaxEntry(j, m)), States(x, m))
      /\ row.workers_comp = ((row.gross + row.bonuses) * x.workers_comp_rate) \div 100
  BY <1>8 DEF PayrollMonth, Add
<1>10. row.gross \in Int /\ row.bonuses \in Int /\ row.super \in Int /\ row.payroll_tax \in Int
  BY <1>6, <1>7, <1>9
<1>11. row.workers_comp \in Int
  BY <1>9, <1>10, ProductsInt, DividesInt DEF PayrollInput
<1> QED  BY <1>8, <1>10, <1>11 DEF CostRow

-----------------------------------------------------------------------------
(* Settlement. *)

\* What is settled: costs of consecutive months, and the terms of their payment.
SettleFits(x) ==
  /\ IsFiniteSet(x.paydays) /\ x.paydays \subseteq Int
  /\ x.withholding_rate \in Nat /\ x.premium_terms \in Nat /\ x.early \in [Components -> Nat]
  /\ x.jurisdiction \in DOMAIN Data.payroll_tax
  /\ DOMAIN x.rows \subseteq Int /\ IsFiniteSet(DOMAIN x.rows)
  /\ \A m \in DOMAIN x.rows : CostRow(x.rows[m])
  /\ \A m \in DOMAIN x.rows, c \in PaydayComponents :
       Paydays(x, m) # {} => Cost(x, c, m) % Cardinality(Paydays(x, m)) = 0

LEMMA CostInt ==
  ASSUME NEW x, SettleFits(x), NEW m \in DOMAIN x.rows, NEW c \in Components
  PROVE  Cost(x, c, m) \in Int
<1>1. CostRow(x.rows[m]) /\ x.withholding_rate \in Int
  BY DEF SettleFits
<1>2. x.rows[m].gross + x.rows[m].bonuses \in Int
  BY <1>1 DEF CostRow
<1>3. ((x.rows[m].gross + x.rows[m].bonuses) * x.withholding_rate) \div 100 \in Int
  BY <1>1, <1>2, ProductsInt, DividesInt
<1> QED  BY <1>1, <1>2, <1>3 DEF CostRow, Cost, Components, PaydayComponents, MonthlyComponents

LEMMA PaydaysFinite ==
  ASSUME NEW x, SettleFits(x), NEW m
  PROVE  /\ Paydays(x, m) \subseteq Int /\ IsFiniteSet(Paydays(x, m)) /\ Cardinality(Paydays(x, m)) \in Nat
         /\ Paydays(x, m) # {} => Cardinality(Paydays(x, m)) \in Nat \ {0}
<1>1. Paydays(x, m) \subseteq x.paydays
  BY DEF Paydays
<1>2. IsFiniteSet(Paydays(x, m)) /\ Paydays(x, m) \subseteq Int
  BY <1>1, FS_Subset DEF SettleFits
<1> QED  BY <1>2, FS_CardinalityType, FS_EmptySet

\* Due dates are days, or refused.
LEMMA ReviewedDays ==
  /\ \A d : NextBusinessDay(d) \in Int \cup {Refused}
  /\ \A d : SuperDue(d) \in Int \cup {Refused}
<1>1. Data.holidays_reviewed \subseteq Int
  BY StatutesAssumption
<1>2. ASSUME NEW d PROVE NextBusinessDay(d) \in Int \cup {Refused}
  BY <1>1 DEF NextBusinessDay, Reviewed
<1>3. ASSUME NEW d PROVE SuperDue(d) \in Int \cup {Refused}
  BY <1>1 DEF SuperDue
<1> QED  BY <1>2, <1>3

\* A day that may fall on two days off in a row has one that is free within two more.
LEMMA FreeDay ==
  ASSUME NEW d \in Int, NEW off \in SUBSET {5, 6}
  PROVE  \E e \in d..(d + 2) : e % 7 \notin off /\ \A h \in d..(e - 1) : h % 7 \in off
<1>1. CASE d % 7 \notin off
  BY <1>1
<1>2. CASE d % 7 \in off /\ (d + 1) % 7 \notin off
  BY <1>2
<1>3. CASE d % 7 \in off /\ (d + 1) % 7 \in off
  <2>1. d % 7 = 5 /\ (d + 1) % 7 = 6 /\ (d + 2) % 7 = 0
    <3>1. d % 7 \in {5, 6} /\ (d + 1) % 7 \in {5, 6}
      BY <1>3
    <3> QED  BY <3>1
  <2>2. \A h \in d..((d + 2) - 1) : h = d \/ h = d + 1
    OBVIOUS
  <2>3. d + 2 \in d..(d + 2) /\ (d + 2) % 7 \notin off /\ \A h \in d..((d + 2) - 1) : h % 7 \in off
    BY <1>3, <2>1, <2>2
  <2> QED  BY <2>3
<1> QED  BY <1>1, <1>2, <1>3

LEMMA PayrollTaxDays ==
  ASSUME NEW j \in DOMAIN Data.payroll_tax, NEW m \in Int
  PROVE  PayrollTaxDue(j, m) \in Int \cup {Refused}
<1> DEFINE rule == Data.payroll_tax[j]
           dom == CASE MonthOfYear(m) = 6 -> rule.june_day
                    [] MonthOfYear(m) = 12 -> rule.december_day
                    [] OTHER -> rule.monthly_day
           moved == IF MonthOfYear(m) = 6 THEN rule.june_moved ELSE rule.moved
           nominal == FirstDay(m + 1) + dom - 1
           slip == CHOOSE d \in nominal..(nominal + 2) :
                         d % 7 \notin moved /\ \A e \in nominal..(d - 1) : e % 7 \in moved
<1>1. TaxRuleFits(rule)
  BY StatutesAssumption
<1>2. nominal \in Int /\ moved \in SUBSET {5, 6}
  BY <1>1, MonthLasts DEF TaxRuleFits
<1>3. PayrollTaxDue(j, m) = IF LastDay(m) > Data.payroll_tax_until THEN Refused
      ELSE IF m \in DOMAIN rule.dated THEN rule.dated[m] ELSE slip
  BY DEF PayrollTaxDue
<1>4. m \in DOMAIN rule.dated => rule.dated[m] \in Int
  BY <1>1 DEF TaxRuleFits
<1> HIDE DEF nominal, moved
<1>5. slip \in Int
  <2>1. \E d \in nominal..(nominal + 2) :
                         d % 7 \notin moved /\ \A e \in nominal..(d - 1) : e % 7 \in moved
    BY <1>2, FreeDay
  <2>2. slip \in nominal..(nominal + 2)
    BY <2>1
  <2> QED  BY <1>2, <2>2
<1> HIDE DEF slip, rule
<1> QED  BY <1>3, <1>4, <1>5

LEMMA DueDays ==
  ASSUME NEW x, SettleFits(x), NEW c \in Components, NEW d \in Int
  PROVE  DueOn(x, c, d) \in Int \cup {Refused}
<1>1. WithholdingDue(x, d) \in Int \cup {Refused}
  BY ReviewedDays DEF WithholdingDue, QuarterlyDue, MonthlyDue
<1>2. SuperDue(d) \in Int \cup {Refused}
  BY ReviewedDays
<1>3. PayrollTaxDue(x.jurisdiction, MonthOf(d)) \in Int \cup {Refused}
  BY PayrollTaxDays, DayInMonth DEF SettleFits
<1>4. d + x.premium_terms \in Int
  BY DEF SettleFits
<1> QED  BY <1>1, <1>2, <1>3, <1>4 DEF DueOn, Components, PaydayComponents, MonthlyComponents

\* The events of a month's payday costs, and those of its monthly ones.
PayEvents(x, m, c) ==
  {Event(x, c, m, d, Cost(x, c, m) \div Cardinality(Paydays(x, m))) : d \in Paydays(x, m)}

LEMMA WhichEvents ==
  ASSUME NEW x, NEW e
  PROVE  e \in EventsOf(x) <=>
           \E m \in DOMAIN x.rows, c \in Components :
             /\ Cost(x, c, m) # 0
             /\ \/ c \in PaydayComponents /\ e \in PayEvents(x, m, c)
                \/ c \in MonthlyComponents /\ e = Event(x, c, m, LastDay(m), Cost(x, c, m))
BY DEF EventsOf, PayEvents, Components

LEMMA EventFields ==
  ASSUME NEW x, NEW c, NEW m, NEW d, NEW a
  PROVE  /\ Event(x, c, m, d, a).component = c /\ Event(x, c, m, d, a).period = m
         /\ Event(x, c, m, d, a).obligation = d /\ Event(x, c, m, d, a).due = DueOn(x, c, d)
         /\ Event(x, c, m, d, a).cash = IF DueOn(x, c, d) = Refused THEN Refused ELSE DueOn(x, c, d) - x.early[c]
         /\ Event(x, c, m, d, a).amount = a
BY DEF Event

\* An event by its component and the day it is owed from.
EventOf(x, c, d) ==
  Event(x, c, MonthOf(d), d,
        IF c \in PaydayComponents THEN Cost(x, c, MonthOf(d)) \div Cardinality(Paydays(x, MonthOf(d)))
        ELSE Cost(x, c, MonthOf(d)))

LEMMA EventKeys ==
  ASSUME NEW x, SettleFits(x), NEW e \in EventsOf(x)
  PROVE  /\ e.component \in Components /\ e.obligation \in Int
         /\ e.obligation \in x.paydays \cup {LastDay(m) : m \in DOMAIN x.rows}
         /\ e.period \in DOMAIN x.rows /\ MonthOf(e.obligation) = e.period
         /\ e.due = DueOn(x, e.component, e.obligation)
         /\ e.cash = IF e.due = Refused THEN Refused ELSE e.due - x.early[e.component]
         /\ e.amount \in Int
         /\ e = EventOf(x, e.component, e.obligation)
<1>1. PICK m \in DOMAIN x.rows, c \in Components :
             /\ Cost(x, c, m) # 0
             /\ \/ c \in PaydayComponents /\ e \in PayEvents(x, m, c)
                \/ c \in MonthlyComponents /\ e = Event(x, c, m, LastDay(m), Cost(x, c, m))
  BY WhichEvents
<1>2. m \in Int /\ Cost(x, c, m) \in Int
  BY CostInt DEF SettleFits
<1>3. CASE c \in PaydayComponents /\ e \in PayEvents(x, m, c)
  <2>1. PICK d \in Paydays(x, m) : e = Event(x, c, m, d, Cost(x, c, m) \div Cardinality(Paydays(x, m)))
    BY <1>3 DEF PayEvents
  <2>2. d \in x.paydays /\ MonthOf(d) = m /\ d \in Int
    BY DEF Paydays, SettleFits
  <2>3. Cardinality(Paydays(x, m)) \in Nat \ {0}
    BY PaydaysFinite
  <2>4. Cost(x, c, m) \div Cardinality(Paydays(x, m)) \in Int
    BY <1>2, <2>3, DividesInt
  <2>5. e = EventOf(x, c, d)
    BY <1>3, <2>1, <2>2 DEF EventOf
  <2> QED  BY <2>1, <2>2, <2>4, <2>5, EventFields
<1>4. CASE c \in MonthlyComponents /\ e = Event(x, c, m, LastDay(m), Cost(x, c, m))
  <2>1. MonthOf(LastDay(m)) = m /\ LastDay(m) \in Int
    BY <1>2, LastIsInMonth
  <2>2. c \notin PaydayComponents
    BY <1>4 DEF MonthlyComponents, PaydayComponents
  <2>3. e = EventOf(x, c, LastDay(m))
    BY <1>4, <2>1, <2>2 DEF EventOf
  <2>4. /\ e.component = c /\ e.period = m /\ e.obligation = LastDay(m) /\ e.due = DueOn(x, c, LastDay(m))
        /\ e.cash = IF e.due = Refused THEN Refused ELSE e.due - x.early[c]
        /\ e.amount = Cost(x, c, m)
    BY <1>4, EventFields
  <2>5. LastDay(m) \in {LastDay(n) : n \in DOMAIN x.rows}
    OBVIOUS
  <2> HIDE <1>4
  <2> QED  BY <1>2, <2>1, <2>3, <2>4, <2>5
<1> QED  BY <1>1, <1>3, <1>4

LEMMA ComponentsFinite == IsFiniteSet(Components)
<1>1. IsFiniteSet({"net_wages"} \cup {"payg_withholding"})
  BY FS_Singleton, FS_Union
<1>2. IsFiniteSet(({"net_wages"} \cup {"payg_withholding"}) \cup {"super_guarantee"})
  BY <1>1, FS_AddElement
<1>3. IsFiniteSet({"payroll_tax"} \cup {"workers_comp"})
  BY FS_Singleton, FS_Union
<1>4. IsFiniteSet((({"net_wages"} \cup {"payg_withholding"}) \cup {"super_guarantee"})
                    \cup ({"payroll_tax"} \cup {"workers_comp"}))
  BY <1>2, <1>3, FS_Union
<1>5. (({"net_wages"} \cup {"payg_withholding"}) \cup {"super_guarantee"})
                    \cup ({"payroll_tax"} \cup {"workers_comp"}) = Components
  BY DEF Components, PaydayComponents, MonthlyComponents
<1> QED  BY <1>4, <1>5

LEMMA EventsFinite ==
  ASSUME NEW x, SettleFits(x)
  PROVE  IsFiniteSet(EventsOf(x))
<1> DEFINE D == x.paydays \cup {[n \in DOMAIN x.rows |-> LastDay(n)][m] : m \in DOMAIN x.rows}
           K == Components \X D
           F == [k \in K |-> EventOf(x, k[1], k[2])]
<1>1. IsFiniteSet(Components)
  BY ComponentsFinite
<1>2. IsFiniteSet(D)
  <2>1. IsFiniteSet({[n \in DOMAIN x.rows |-> LastDay(n)][m] : m \in DOMAIN x.rows})
    BY FiniteImages DEF SettleFits
  <2> QED  BY <2>1, FS_Union DEF SettleFits
<1>3. EventsOf(x) \subseteq {F[k] : k \in K}
  <2>1. ASSUME NEW e \in EventsOf(x)
        PROVE  \E k \in K : e = F[k]
    <3>1. e.component \in Components /\ e.obligation \in D /\ e = EventOf(x, e.component, e.obligation)
      BY EventKeys
    <3>2. <<e.component, e.obligation>> \in K /\ F[<<e.component, e.obligation>>] = e
      BY <3>1
    <3> QED  BY <3>2
  <2> QED  BY <2>1
<1>4. IsFiniteSet({F[k] : k \in K})
  <2>1. IsFiniteSet(K)
    BY <1>1, <1>2, FS_Product
  <2> HIDE DEF F, K
  <2> QED  BY <2>1, FiniteImages
<1> HIDE DEF F, K
<1> QED  BY <1>3, <1>4, FS_Subset

\* The events of a settlement that is not refused.
Settled(S) ==
  /\ IsFiniteSet(S)
  /\ \A e \in S : /\ e.component \in Components /\ e.amount \in Int
                  /\ e.obligation \in Int /\ e.cash \in Int /\ e.due \in Int
                  /\ e.obligation <= e.cash /\ e.cash <= e.due /\ MonthOf(e.obligation) = e.period
  /\ \A e, o \in S : e.component = o.component /\ e.obligation = o.obligation => e = o

LEMMA EventsSettled ==
  ASSUME NEW x, SettleFits(x), SettlementEvents(x) # Refused
  PROVE  Settled(SettlementEvents(x)) /\ SettlementEvents(x) = EventsOf(x)
<1>1. SettlementEvents(x) = EventsOf(x) /\ ~SettlementRefused(x)
  BY DEF SettlementEvents
<1>2. ASSUME NEW e \in EventsOf(x)
      PROVE  /\ e.component \in Components /\ e.amount \in Int
             /\ e.obligation \in Int /\ e.cash \in Int /\ e.due \in Int
             /\ e.obligation <= e.cash /\ e.cash <= e.due /\ MonthOf(e.obligation) = e.period
  <2>1. EventFits(e)
    BY <1>1 DEF SettlementRefused
  <2>2. e.due # Refused /\ e.due >= e.obligation /\ e.cash >= e.obligation
    BY <2>1 DEF EventFits
  <2>3. e.due \in Int
    BY <2>2, EventKeys, DueDays
  <2>4. x.early[e.component] \in Nat /\ e.cash = e.due - x.early[e.component]
    BY <2>2, EventKeys DEF SettleFits
  <2> QED  BY <2>2, <2>3, <2>4, EventKeys
<1>3. \A e, o \in EventsOf(x) : e.component = o.component /\ e.obligation = o.obligation => e = o
  BY EventKeys
<1> QED  BY <1>1, <1>2, <1>3, EventsFinite DEF Settled

\* The money of a set of events.
LEMMA MoneyIs ==
  ASSUME NEW S, Settled(S), NEW g, \A e \in S : g[e] = e.amount, NEW T \in SUBSET S
  PROVE  Add(LAMBDA e : e.amount, T) = SumFunctionOnSet(g, T) /\ SumFunctionOnSet(g, T) \in Int
         /\ IsFiniteSet(T)
<1>1. IsFiniteSet(T) /\ \A e \in T : g[e] \in Int /\ [e2 \in T |-> e2.amount][e] = g[e]
  BY FS_Subset DEF Settled
<1>2. SumFunctionOnSet([e2 \in T |-> e2.amount], T) = SumFunctionOnSet(g, T)
  BY <1>1, SumSame
<1>3. SumFunctionOnSet(g, T) \in Int
  BY <1>1, SumInt
<1> QED  BY <1>1, <1>2, <1>3 DEF Add

\* A component's events of a month come to its cost.
LEMMA ComponentPaid ==
  ASSUME NEW x, SettleFits(x), ~SettlementRefused(x), NEW m \in DOMAIN x.rows, NEW c \in Components,
         NEW g, \A e \in EventsOf(x) : g[e] = e.amount
  PROVE  SumFunctionOnSet(g, {e \in EventsOf(x) : e.period = m /\ e.component = c}) = Cost(x, c, m)
<1> DEFINE S == {e \in EventsOf(x) : e.period = m /\ e.component = c}
<1> SUFFICES SumFunctionOnSet(g, S) = Cost(x, c, m)
  OBVIOUS
<1>0. Cost(x, c, m) \in Int /\ m \in Int
  BY CostInt DEF SettleFits
<1>1. CASE Cost(x, c, m) = 0
  <2>1. ASSUME NEW e \in S PROVE FALSE
    <3>1. PICK n \in DOMAIN x.rows, k \in Components :
             /\ Cost(x, k, n) # 0
             /\ \/ k \in PaydayComponents /\ e \in PayEvents(x, n, k)
                \/ k \in MonthlyComponents /\ e = Event(x, k, n, LastDay(n), Cost(x, k, n))
      BY WhichEvents
    <3>2. e.component = k /\ e.period = n
      BY <3>1, EventFields DEF PayEvents
    <3> QED  BY <1>1, <3>1, <3>2
  <2>2. S = {}
    BY <2>1
  <2> HIDE DEF S
  <2> QED  BY <1>1, <2>2, SumOfNone
<1>2. CASE Cost(x, c, m) # 0 /\ c \in PaydayComponents
  <2> DEFINE P == Paydays(x, m)
             share == Cost(x, c, m) \div Cardinality(P)
             F == [d \in P |-> Event(x, c, m, d, share)]
             h == [d \in P |-> share]
  <2>1. P # {} /\ IsFiniteSet(P) /\ Cardinality(P) \in Nat \ {0}
    BY <1>2, PaydaysFinite DEF SettlementRefused
  <2>2. share \in Int /\ share * Cardinality(P) = Cost(x, c, m)
    <3>1. Cost(x, c, m) % Cardinality(P) = 0
      BY <1>2, <2>1 DEF SettleFits
    <3>2. \A a \in Int, b \in Nat \ {0} : a % b = 0 => (a \div b) * b = a
      BY SMT
    <3> QED  BY <1>0, <2>1, <3>1, <3>2, DividesInt
  <2>3. S = {F[d] : d \in P}
    <3>1. ASSUME NEW e \in S
          PROVE  \E d \in P : e = F[d]
      <4>1. PICK n \in DOMAIN x.rows, k \in Components :
               /\ Cost(x, k, n) # 0
               /\ \/ k \in PaydayComponents /\ e \in PayEvents(x, n, k)
                  \/ k \in MonthlyComponents /\ e = Event(x, k, n, LastDay(n), Cost(x, k, n))
        BY WhichEvents
      <4>2. e.component = k /\ e.period = n
        BY <4>1, EventFields DEF PayEvents
      <4>3. k = c /\ n = m /\ c \notin MonthlyComponents
        BY <1>2, <4>2 DEF MonthlyComponents, PaydayComponents
      <4> QED  BY <4>1, <4>3 DEF PayEvents
    <3>2. ASSUME NEW d \in P
          PROVE  F[d] \in S
      <4>1. F[d] \in EventsOf(x)
        BY <1>2, WhichEvents DEF PayEvents
      <4> QED  BY <4>1, EventFields
    <3> QED  BY <3>1, <3>2
  <2>4. \A d \in P : share \in Int /\ g[F[d]] = share
    <3>1. \A d \in P : F[d] \in EventsOf(x) /\ F[d].amount = share
      BY <1>2, WhichEvents, EventFields DEF PayEvents
    <3> HIDE DEF F, share
    <3> QED  BY <2>2, <3>1
  <2>5. \A d, o \in P : F[d] = F[o] => d = o
    <3>1. \A d \in P : F[d].obligation = d
      BY EventFields
    <3> HIDE DEF F
    <3> QED  BY <3>1
  <2>6. SumFunctionOnSet(g, {F[d] : d \in P}) = SumFunctionOnSet(h, P)
    <3>1. \A d \in P : h[d] \in Int /\ g[F[d]] = h[d]
      BY <2>4
    <3> HIDE DEF F, P, h
    <3> QED  BY <2>1, <2>5, <3>1, SumImages
  <2>7. SumFunctionOnSet(h, P) = share * Cardinality(P)
    <3>1. \A d \in P : h[d] = share
      OBVIOUS
    <3> HIDE DEF share, P, h
    <3> QED  BY <2>1, <2>2, <3>1, SumEqual
  <2> HIDE DEF S, F, P, share, h
  <2> QED  BY <2>2, <2>3, <2>6, <2>7
<1>3. CASE Cost(x, c, m) # 0 /\ c \in MonthlyComponents
  <2> DEFINE e == Event(x, c, m, LastDay(m), Cost(x, c, m))
  <2>1. e \in EventsOf(x)
    BY <1>3, WhichEvents
  <2>2. e.component = c /\ e.period = m /\ e.amount = Cost(x, c, m)
    BY EventFields
  <2>3. ASSUME NEW o \in S
        PROVE  o = e
    <3>1. PICK n \in DOMAIN x.rows, k \in Components :
             /\ Cost(x, k, n) # 0
             /\ \/ k \in PaydayComponents /\ o \in PayEvents(x, n, k)
                \/ k \in MonthlyComponents /\ o = Event(x, k, n, LastDay(n), Cost(x, k, n))
      BY WhichEvents
    <3>2. o.component = k /\ o.period = n
      BY <3>1, EventFields DEF PayEvents
    <3>3. k = c /\ n = m /\ c \notin PaydayComponents
      BY <1>3, <3>2 DEF MonthlyComponents, PaydayComponents
    <3> QED  BY <3>1, <3>3
  <2> HIDE DEF e
  <2>4. S = {e}
    BY <2>1, <2>2, <2>3
  <2>5. g[e] = Cost(x, c, m)
    BY <2>1, <2>2
  <2> QED  BY <1>0, <2>4, <2>5, SumOfOne
<1> QED  BY <1>1, <1>2, <1>3 DEF Components

LEMMA SumOfComponents ==
  ASSUME NEW h, \A c \in Components : h[c] \in Int
  PROVE  SumFunctionOnSet(h, Components)
           = h["net_wages"] + h["payg_withholding"] + h["super_guarantee"] + h["payroll_tax"] + h["workers_comp"]
<1> DEFINE Tot(S) == SumFunctionOnSet(h, S)
           D == {"workers_comp"}
           C == {"payroll_tax", "workers_comp"}
           B == {"super_guarantee", "payroll_tax", "workers_comp"}
           A == {"payg_withholding", "super_guarantee", "payroll_tax", "workers_comp"}
<1>1. A \subseteq Components /\ B \subseteq A /\ C \subseteq B /\ D \subseteq C
  BY DEF Components, PaydayComponents, MonthlyComponents
<1>2. IsFiniteSet(Components) /\ IsFiniteSet(A) /\ IsFiniteSet(B) /\ IsFiniteSet(C)
  <2> HIDE DEF A, B, C, D
  <2> QED  BY <1>1, ComponentsFinite, FS_Subset
<1>3. \A S \in {Components, A, B, C} : \A c \in S : Tot(S) = h[c] + Tot(S \ {c})
  <2>1. \A S \in {Components, A, B, C} : IsFiniteSet(S) /\ \A c \in S : h[c] \in Int
    BY <1>1, <1>2
  <2>2. ASSUME NEW S \in {Components, A, B, C}
        PROVE  \A c \in S : Tot(S) = h[c] + Tot(S \ {c})
    <3>1. IsFiniteSet(S) /\ \A c \in S : h[c] \in Int
      BY <2>1
    <3> HIDE DEF A, B, C, D
    <3> QED  BY <3>1, SumTaken
  <2> QED  BY <2>2
<1>4. /\ "net_wages" \in Components /\ Components \ {"net_wages"} = A
      /\ "payg_withholding" \in A /\ A \ {"payg_withholding"} = B
      /\ "super_guarantee" \in B /\ B \ {"super_guarantee"} = C
      /\ "payroll_tax" \in C /\ C \ {"payroll_tax"} = D
  BY DEF Components, PaydayComponents, MonthlyComponents
<1>5. Tot(D) = h["workers_comp"]
  <2>1. h["workers_comp"] \in Int
    BY DEF Components, MonthlyComponents
  <2> QED  BY <2>1, SumOfOne
<1>6. /\ h["net_wages"] \in Int /\ h["payg_withholding"] \in Int /\ h["super_guarantee"] \in Int
      /\ h["payroll_tax"] \in Int /\ h["workers_comp"] \in Int
  BY DEF Components, PaydayComponents, MonthlyComponents
<1> HIDE DEF A, B, C, D, Tot
<1>7. /\ Tot(Components) = h["net_wages"] + Tot(A) /\ Tot(A) = h["payg_withholding"] + Tot(B)
      /\ Tot(B) = h["super_guarantee"] + Tot(C) /\ Tot(C) = h["payroll_tax"] + Tot(D)
  BY <1>3, <1>4
<1>8. Tot(Components)
           = h["net_wages"] + h["payg_withholding"] + h["super_guarantee"] + h["payroll_tax"] + h["workers_comp"]
  BY <1>5, <1>6, <1>7
<1> QED  BY <1>8 DEF Tot

LEMMA CostsAddUp ==
  ASSUME NEW x, SettleFits(x), NEW m \in DOMAIN x.rows
  PROVE  SumFunctionOnSet([c \in Components |-> Cost(x, c, m)], Components) = TotalCash(x.rows[m])
<1> DEFINE h == [c \in Components |-> Cost(x, c, m)]
           pay == x.rows[m].gross + x.rows[m].bonuses
           withheld == (pay * x.withholding_rate) \div 100
<1>1. CostRow(x.rows[m]) /\ x.withholding_rate \in Int
  BY DEF SettleFits
<1>2. pay \in Int
  BY <1>1 DEF CostRow
<1>3. withheld \in Int
  BY <1>1, <1>2, ProductsInt, DividesInt
<1>4. SumFunctionOnSet(h, Components)
           = h["net_wages"] + h["payg_withholding"] + h["super_guarantee"] + h["payroll_tax"] + h["workers_comp"]
  <2>1. \A c \in Components : h[c] \in Int
    BY CostInt
  <2> HIDE DEF h
  <2> QED  BY <2>1, SumOfComponents
<1>5. /\ h["net_wages"] = pay - withheld /\ h["payg_withholding"] = withheld
      /\ h["super_guarantee"] = x.rows[m].super /\ h["payroll_tax"] = x.rows[m].payroll_tax
      /\ h["workers_comp"] = x.rows[m].workers_comp
  BY DEF Cost, Components, PaydayComponents, MonthlyComponents
<1> HIDE DEF h, withheld
<1>6. SumFunctionOnSet(h, Components)
        = pay + x.rows[m].super + x.rows[m].payroll_tax + x.rows[m].workers_comp
  BY <1>1, <1>2, <1>3, <1>4, <1>5 DEF CostRow
<1> QED  BY <1>6 DEF TotalCash, h

LEMMA AllPaid ==
  ASSUME NEW x, SettleFits(x), answer = SettlementEvents(x), answer # Refused
  PROVE  PayrollPaid(x)
<1> DEFINE S == EventsOf(x)
           g == [e \in S |-> e.amount]
           M == DOMAIN x.rows
           total == [m \in M |-> TotalCash(x.rows[m])]
<1>1. answer = S /\ Settled(S) /\ ~SettlementRefused(x)
  BY EventsSettled DEF SettlementEvents
<1>2. ASSUME NEW m \in M
      PROVE  total[m] = SumFunctionOnSet(g, {e \in S : e.period = m})
  <2> DEFINE P == {e \in S : e.period = m}
             cost == [c \in Components |-> Cost(x, c, m)]
             key == [e \in S |-> e.component]
             part == [c \in Components |-> {e \in P : e.component = c}]
  <2>1. SumFunctionOnSet(cost, Components) = total[m]
    BY CostsAddUp
  <2>2. \A c \in Components : cost[c] = SumFunctionOnSet(g, part[c])
    <3>1. ASSUME NEW c \in Components
          PROVE  cost[c] = SumFunctionOnSet(g, part[c])
      <4>1. SumFunctionOnSet(g, {e \in EventsOf(x) : e.period = m /\ e.component = c}) = Cost(x, c, m)
        BY <1>1, ComponentPaid
      <4>2. part[c] = {e \in EventsOf(x) : e.period = m /\ e.component = c}
        OBVIOUS
      <4> QED  BY <4>1, <4>2
    <3> QED  BY <3>1
  <2>3. SumFunctionOnSet(cost, Components) = SumFunctionOnSet(g, P)
    <3>1. IsFiniteSet(P) /\ \A e \in P : key[e] \in Components /\ g[e] \in Int
      BY <1>1, FS_Subset DEF Settled
    <3>2. \A c \in Components : part[c] \subseteq P /\ \A e \in P : e \in part[c] <=> key[e] = c
      OBVIOUS
    <3> HIDE DEF key, g, P, cost, part
    <3> QED  BY <2>2, <3>1, <3>2, ComponentsFinite, SumParted
  <2> QED  BY <2>1, <2>3
<1>3. SumFunctionOnSet(total, M) = SumFunctionOnSet(g, S)
  <2> DEFINE key == [e \in S |-> e.period]
             part == [m \in M |-> {e \in S : e.period = m}]
  <2>1. IsFiniteSet(M) /\ IsFiniteSet(S) /\ (\A e \in S : key[e] \in M) /\ \A e \in S : g[e] \in Int
    BY <1>1, EventKeys DEF Settled, SettleFits
  <2>2. \A m \in M : part[m] \subseteq S /\ \A e \in S : e \in part[m] <=> key[e] = m
    OBVIOUS
  <2>3. \A m \in M : total[m] = SumFunctionOnSet(g, part[m])
    BY <1>2
  <2> HIDE DEF key, g, S, M, total, part
  <2> QED  BY <2>1, <2>2, <2>3, SumParted
<1>4. Add(LAMBDA e : e.amount, answer) = Add(LAMBDA m : TotalCash(x.rows[m]), DOMAIN x.rows)
  BY <1>1, <1>3 DEF Add
<1>5. \A e \in answer : e.obligation <= e.cash /\ e.cash <= e.due /\ MonthOf(e.obligation) = e.period
  BY <1>1 DEF Settled
<1> QED  BY <1>4, <1>5 DEF PayrollPaid

\* A window's payments, one for each event that is paid in it.
LEMMA AllPlaced ==
  ASSUME NEW x, Settled(x.events), x.start \in Int, x.weeks \in Nat,
         answer = WeeklyPayments(x.events, x.start, x.weeks)
  PROVE  PaymentsPlaced(x)
<1> DEFINE T == {f \in x.events : 0 <= f.cash - x.start /\ f.cash - x.start < 7 * x.weeks}
           P == [e \in T |-> [component |-> e.component, of |-> e.obligation,
                              week |-> WeekOf(e.cash, x.start), amount |-> e.amount]]
           h == [e \in T |-> e.amount]
           g == [p \in answer |-> p.amount]
<1>1. answer = {P[e] : e \in T}
  BY DEF WeeklyPayments
<1>2. IsFiniteSet(T) /\ \A e \in T : h[e] \in Int /\ g[P[e]] = h[e]
  <2>1. IsFiniteSet(T)
    BY FS_Subset DEF Settled
  <2>2. \A e \in T : P[e].amount = h[e] /\ h[e] \in Int
    BY DEF Settled
  <2>3. \A e \in T : P[e] \in answer
    BY <1>1
  <2> HIDE DEF P, h, T
  <2> QED  BY <2>1, <2>2, <2>3
<1>3. \A e, o \in T : P[e] = P[o] => e = o
  <2>1. \A e \in T : P[e].component = e.component /\ P[e].of = e.obligation
    OBVIOUS
  <2>2. \A e, o \in T : e.component = o.component /\ e.obligation = o.obligation => e = o
    BY DEF Settled
  <2> HIDE DEF P, T
  <2> QED  BY <2>1, <2>2
<1>4. SumFunctionOnSet(g, answer) = SumFunctionOnSet(h, T)
  <2> HIDE DEF P, h, T, g
  <2> QED  BY <1>1, <1>2, <1>3, SumImages
<1>5. {e \in x.events : InWindow(x, e.cash)} = T
  <2>1. \A e \in x.events : e.cash \in Int
    BY DEF Settled
  <2>2. \A e \in x.events : InWindow(x, e.cash) <=> (0 <= e.cash - x.start /\ e.cash - x.start < 7 * x.weeks)
    BY <2>1 DEF InWindow
  <2> QED  BY <2>2
<1>6. \A p \in answer : p.week \in 1..x.weeks
  <2>1. ASSUME NEW e \in T
        PROVE  P[e].week \in 1..x.weeks
    <3>1. PICK d \in Int : d = e.cash - x.start /\ 0 <= d /\ d < 7 * x.weeks
      BY DEF Settled
    <3>2. d \div 7 + 1 \in 1..x.weeks
      BY <3>1
    <3> QED  BY <3>1, <3>2 DEF WeekOf
  <2> QED  BY <1>1, <2>1
<1>7. Add(LAMBDA p : p.amount, answer) = Add(LAMBDA e : e.amount, {e \in x.events : InWindow(x, e.cash)})
  BY <1>4, <1>5 DEF Add
<1> QED  BY <1>6, <1>7 DEF PaymentsPlaced

\* What a component owes: what has arisen less what is paid, wherever the months begin.
LEMMA AllOwed ==
  ASSUME NEW x, Settled(x.events), x.months \subseteq Int, \E a, b \in Int : x.months = a..b,
         answer = [c \in Components |-> MonthlySettlement(x.events, c, x.months)]
  PROVE  LiabilitiesRight(x)
<1>1. PICK a \in Int, b \in Int : x.months = a..b
  OBVIOUS
<1> SUFFICES ASSUME NEW c \in Components, NEW m \in a..b
             PROVE  answer[c][m].closing =
               Add(LAMBDA e : e.amount, {e \in x.events : e.component = c /\ MonthOf(e.obligation) <= m /\ m < MonthOf(e.cash)})
  BY <1>1 DEF LiabilitiesRight
<1> DEFINE D == {e \in x.events : e.component = c}
           g == [e \in x.events |-> e.amount]
           came == [e \in D |-> MonthOf(e.obligation)]
           went == [e \in D |-> MonthOf(e.cash)]
           up == [n \in a..b |-> SumFunctionOnSet(g, Keyed(D, came, n))]
           down == [n \in a..b |-> SumFunctionOnSet(g, Keyed(D, went, n))]
           start == SumFunctionOnSet(g, Earlier(D, came, a)) - SumFunctionOnSet(g, Earlier(D, went, a))
           rolled == CHOOSE f : Rolls(f, a..b, start, up, down)
<1>2. /\ IsFiniteSet(D) /\ D \subseteq x.events
      /\ \A e \in D : g[e] = e.amount /\ g[e] \in Int /\ came[e] \in Int /\ went[e] \in Int /\ came[e] <= went[e]
  <2>1. IsFiniteSet(D)
    BY FS_Subset DEF Settled
  <2>2. ASSUME NEW e \in D
        PROVE  e.amount \in Int /\ MonthOf(e.obligation) \in Int /\ MonthOf(e.cash) \in Int
               /\ MonthOf(e.obligation) <= MonthOf(e.cash)
    <3>1. e.amount \in Int /\ e.obligation \in Int /\ e.cash \in Int /\ e.obligation <= e.cash
      BY DEF Settled
    <3> QED  BY <3>1, DayInMonth, MonthsFollow
  <2> QED  BY <2>1, <2>2
<1>3. ASSUME NEW T \in SUBSET D
      PROVE  Add(LAMBDA e : e.amount, T) = SumFunctionOnSet(g, T)
  <2>1. T \in SUBSET x.events /\ \A e \in x.events : g[e] = e.amount
    OBVIOUS
  <2> QED  BY <2>1, MoneyIs
<1>4. answer[c][m].closing = rolled[m]
  <2> DEFINE own(S) == Add(LAMBDA e : e.amount, {e \in S : e.component = c})
             arisen(n) == own({e \in x.events : MonthOf(e.obligation) = n})
             settled(n) == own({e \in x.events : MonthOf(e.cash) = n})
             opening == own({e \in x.events : \A k \in a..b : MonthOf(e.obligation) < k})
                          - own({e \in x.events : \A k \in a..b : MonthOf(e.cash) < k})
             closing == CHOOSE f : f = [n \in a..b |-> (IF n - 1 \in a..b THEN f[n - 1] ELSE opening) + arisen(n) - settled(n)]
  <2>1. answer[c][m].closing = closing[m]
    <3>1. answer[c] = MonthlySettlement(x.events, c, a..b)
      BY <1>1
    <3>2. MonthlySettlement(x.events, c, a..b)[m].closing = closing[m]
      BY DEF MonthlySettlement
    <3> HIDE DEF closing
    <3> QED  BY <3>1, <3>2
  <2>2. \A n \in a..b : arisen(n) = up[n] /\ settled(n) = down[n]
    <3>1. ASSUME NEW n \in a..b
          PROVE  arisen(n) = up[n] /\ settled(n) = down[n]
      <4> DEFINE O == Keyed(D, came, n)
                 P == Keyed(D, went, n)
      <4>1. /\ {e \in {e \in x.events : MonthOf(e.obligation) = n} : e.component = c} = O
            /\ {e \in {e \in x.events : MonthOf(e.cash) = n} : e.component = c} = P
        BY DEF Keyed
      <4>2. O \in SUBSET D /\ P \in SUBSET D
        BY DEF Keyed
      <4>3. arisen(n) = Add(LAMBDA e : e.amount, O) /\ settled(n) = Add(LAMBDA e : e.amount, P)
        BY <4>1
      <4>4. up[n] = SumFunctionOnSet(g, O) /\ down[n] = SumFunctionOnSet(g, P)
        OBVIOUS
      <4> HIDE DEF D, g, O, P, arisen, settled, up, down
      <4> QED  BY <1>3, <4>2, <4>3, <4>4
    <3> QED  BY <3>1
  <2>3. opening = start
    <3> DEFINE A == Earlier(D, came, a)
               B == Earlier(D, went, a)
    <3>0. a \in a..b /\ \A k \in a..b : a <= k
      OBVIOUS
    <3>1. {e \in {e \in x.events : \A k \in a..b : MonthOf(e.obligation) < k} : e.component = c} = A
      <4>1. ASSUME NEW e \in D
            PROVE  (\A k \in a..b : came[e] < k) <=> came[e] < a
        <5>1. came[e] \in Int
          BY <1>2
        <5> HIDE DEF came
        <5> QED  BY <3>0, <5>1
      <4> QED  BY <4>1 DEF Earlier
    <3>2. {e \in {e \in x.events : \A k \in a..b : MonthOf(e.cash) < k} : e.component = c} = B
      <4>1. ASSUME NEW e \in D
            PROVE  (\A k \in a..b : went[e] < k) <=> went[e] < a
        <5>1. went[e] \in Int
          BY <1>2
        <5> HIDE DEF went
        <5> QED  BY <3>0, <5>1
      <4> QED  BY <4>1 DEF Earlier
    <3>3. opening = Add(LAMBDA e : e.amount, A) - Add(LAMBDA e : e.amount, B)
      BY <3>1, <3>2
    <3>4. A \in SUBSET D /\ B \in SUBSET D /\ start = SumFunctionOnSet(g, A) - SumFunctionOnSet(g, B)
      BY DEF Earlier
    <3> HIDE DEF A, B, D, g, opening, start
    <3> QED  BY <1>3, <3>3, <3>4
  <2>4. closing = rolled
    <3> HIDE DEF arisen, settled, opening, start, up, down
    <3>1. ASSUME NEW f
          PROVE  [n \in a..b |-> (IF n - 1 \in a..b THEN f[n - 1] ELSE opening) + arisen(n) - settled(n)]
                   = [n \in a..b |-> (IF n - 1 \in a..b THEN f[n - 1] ELSE start) + up[n] - down[n]]
      BY <2>2, <2>3
    <3>2. ASSUME NEW f
          PROVE  (f = [n \in a..b |-> (IF n - 1 \in a..b THEN f[n - 1] ELSE opening) + arisen(n) - settled(n)])
                   <=> Rolls(f, a..b, start, up, down)
      BY <3>1 DEF Rolls
    <3> QED  BY <3>2
  <2> HIDE DEF closing, rolled
  <2> QED  BY <2>1, <2>4
<1>5. ComeAndGo(a, b, D, g, came, went, up, down, start)
  <2>1. /\ \A e \in D : g[e] \in Int
        /\ \A e \in D : came[e] \in Int /\ went[e] \in Int /\ came[e] <= went[e]
    BY <1>2
  <2>2. /\ \A n \in a..b : up[n] = SumFunctionOnSet(g, Keyed(D, came, n))
        /\ \A n \in a..b : down[n] = SumFunctionOnSet(g, Keyed(D, went, n))
    OBVIOUS
  <2>3. start = SumFunctionOnSet(g, Earlier(D, came, a)) - SumFunctionOnSet(g, Earlier(D, went, a))
    OBVIOUS
  <2> HIDE DEF D, g, came, went, up, down, start
  <2> QED  BY <1>2, <2>1, <2>2, <2>3 DEF ComeAndGo
<1>6. rolled[m] = SumFunctionOnSet(g, Pending(D, came, went, m))
  <2> HIDE DEF D, g, came, went, up, down, start
  <2>1. /\ \E f : Rolls(f, a..b, start, up, down)
        /\ \A f : Rolls(f, a..b, start, up, down) =>
             \A n \in a..b : f[n] = SumFunctionOnSet(g, Pending(D, came, went, n))
    BY <1>5, Outstanding
  <2>2. Rolls(rolled, a..b, start, up, down)
    BY <2>1
  <2> HIDE DEF rolled
  <2> QED  BY <2>1, <2>2
<1>7. {e \in x.events : e.component = c /\ MonthOf(e.obligation) <= m /\ m < MonthOf(e.cash)} = Pending(D, came, went, m)
  BY DEF Pending
<1>8. Pending(D, came, went, m) \in SUBSET D
  BY DEF Pending
<1>9. Add(LAMBDA e : e.amount, Pending(D, came, went, m)) = SumFunctionOnSet(g, Pending(D, came, went, m))
  <2> HIDE DEF D, g, came, went
  <2> QED  BY <1>3, <1>8
<1> HIDE DEF D, g, came, went, rolled
<1> QED  BY <1>4, <1>6, <1>7, <1>9

-----------------------------------------------------------------------------
(* One employer for its roles. *)

LEMMA SumWithin ==
  ASSUME NEW S, IsFiniteSet(S), NEW U \in SUBSET S, NEW g, \A x \in S : g[x] \in Int /\ (x \notin U => g[x] = 0)
  PROVE  SumFunctionOnSet(g, S) = SumFunctionOnSet(g, U)
<1> DEFINE R == S \ U
<1>1. /\ IsFiniteSet(U) /\ IsFiniteSet(R) /\ U \cap R = {} /\ S = U \cup R
      /\ (\A x \in U \cup R : g[x] \in Int) /\ \A x \in R : g[x] = 0
  BY FS_Subset
<1> HIDE DEF R
<1>2. SumFunctionOnSet(g, S) = SumFunctionOnSet(g, U) + SumFunctionOnSet(g, R)
  BY <1>1, SumApart
<1>3. SumFunctionOnSet(g, R) = 0
  BY <1>1, SumOfZeros
<1>4. SumFunctionOnSet(g, U) \in Int
  BY <1>1, SumInt
<1> QED  BY <1>2, <1>3, <1>4

LEMMA SumOrder ==
  ASSUME NEW S, IsFiniteSet(S), NEW g, NEW h, \A x \in S : g[x] \in Int /\ h[x] \in Int /\ g[x] <= h[x]
  PROVE  SumFunctionOnSet(g, S) <= SumFunctionOnSet(h, S)
<1> DEFINE T == {R \in SUBSET S : SumFunctionOnSet(g, R) <= SumFunctionOnSet(h, R)}
<1>1. ASSUME NEW R \in SUBSET S, \A x \in R : R \ {x} \in T
      PROVE  R \in T
  <2>1. CASE R = {}
    BY <2>1, SumOfNone
  <2>2. CASE R # {}
    <3>1. PICK x \in R : TRUE
      BY <2>2
    <3>2. IsFiniteSet(R) /\ IsFiniteSet(R \ {x}) /\ (\A y \in R : g[y] \in Int) /\ (\A y \in R : h[y] \in Int)
      BY FS_Subset
    <3>3. SumFunctionOnSet(g, R) = g[x] + SumFunctionOnSet(g, R \ {x}) /\ SumFunctionOnSet(g, R \ {x}) \in Int
      BY <3>1, <3>2, SumTaken, SumInt
    <3>4. SumFunctionOnSet(h, R) = h[x] + SumFunctionOnSet(h, R \ {x}) /\ SumFunctionOnSet(h, R \ {x}) \in Int
      BY <3>1, <3>2, SumTaken, SumInt
    <3>5. SumFunctionOnSet(g, R \ {x}) <= SumFunctionOnSet(h, R \ {x}) /\ g[x] <= h[x] /\ g[x] \in Int /\ h[x] \in Int
      BY <1>1, <3>1
    <3> QED  BY <3>3, <3>4, <3>5
  <2> QED  BY <2>1, <2>2
<1>2. \A R \in SUBSET S : (\A x \in R : R \ {x} \in T) => R \in T
  BY <1>1
<1>3. \A R \in SUBSET S : R \in T
  <2> HIDE DEF T
  <2> QED  BY <1>2, EverySubset
<1> QED  BY <1>3

\* A list's first place, and the others one place earlier.
Shifted(S, h, one, u, rest, g) ==
  /\ IsFiniteSet(S) /\ S \subseteq Nat \ {0} /\ \A i \in S : h[i] \in Int
  /\ one = {i \in S : i = 1} /\ rest = {i \in Nat \ {0} : i + 1 \in S}
  /\ \A i \in one : u[i] = h[i]
  /\ \A i \in rest : g[i] = h[i + 1]

LEMMA SumShift ==
  ASSUME NEW S, NEW h, NEW one, NEW u, NEW rest, NEW g, Shifted(S, h, one, u, rest, g)
  PROVE  /\ IsFiniteSet(one) /\ IsFiniteSet(rest)
         /\ SumFunctionOnSet(h, S) = SumFunctionOnSet(u, one) + SumFunctionOnSet(g, rest)
<1> DEFINE f == [i \in rest |-> i + 1]
           back == [i \in S \ one |-> i - 1]
           tail == {f[i] : i \in rest}
<1>0. /\ IsFiniteSet(S) /\ S \subseteq Nat \ {0} /\ (\A i \in S : h[i] \in Int)
      /\ one = {i \in S : i = 1} /\ rest = {i \in Nat \ {0} : i + 1 \in S}
      /\ (\A i \in one : u[i] = h[i]) /\ \A i \in rest : g[i] = h[i + 1]
  BY DEF Shifted
<1>1. tail = S \ one
  <2>1. ASSUME NEW i \in S \ one
        PROVE  i \in tail
    <3>1. i \in Nat /\ i # 0 /\ i # 1
      BY <1>0
    <3>2. i - 1 \in rest /\ f[i - 1] = i
      BY <1>0, <3>1
    <3> QED  BY <3>2
  <2>2. ASSUME NEW i \in rest
        PROVE  f[i] \in S \ one
    BY <1>0
  <2> QED  BY <2>1, <2>2
<1>2. IsFiniteSet(S \ one) /\ IsFiniteSet(one)
  BY <1>0, FS_Subset
<1>3. IsFiniteSet(rest)
  <2>1. rest = {back[i] : i \in S \ one}
    <3>1. ASSUME NEW i \in rest
          PROVE  i + 1 \in S \ one /\ back[i + 1] = i
      BY <1>0
    <3>2. ASSUME NEW i \in S \ one
          PROVE  back[i] \in rest
      <4>1. i \in Nat /\ i # 0 /\ i # 1
        BY <1>0
      <4> QED  BY <1>0, <4>1
    <3> HIDE DEF back
    <3> QED  BY <3>1, <3>2
  <2>2. PICK R : R = S \ one
    BY <1>0
  <2>3. IsFiniteSet({back[i] : i \in R})
    <3>1. IsFiniteSet(R)
      BY <1>2, <2>2
    <3> HIDE DEF back
    <3> QED  BY <3>1, FiniteImages
  <2> HIDE DEF back
  <2> QED  BY <2>1, <2>2, <2>3
<1>4. SumFunctionOnSet(h, tail) = SumFunctionOnSet(g, rest)
  <2>1. \A i \in rest : g[i] \in Int /\ h[f[i]] = g[i]
    BY <1>0
  <2>2. \A i, k \in rest : f[i] = f[k] => i = k
    BY <1>0
  <2> HIDE DEF f
  <2> QED  BY <1>3, <2>1, <2>2, SumImages
<1>5. SumFunctionOnSet(h, one) = SumFunctionOnSet(u, one)
  <2>1. \A i \in one : h[i] \in Int /\ u[i] = h[i]
    BY <1>0
  <2> QED  BY <1>2, <2>1, SumSame
<1>6. SumFunctionOnSet(h, one \cup (S \ one)) = SumFunctionOnSet(h, one) + SumFunctionOnSet(h, S \ one)
  <2>1. one \cap (S \ one) = {} /\ \A i \in one \cup (S \ one) : h[i] \in Int
    BY <1>0
  <2> QED  BY <1>2, <2>1, SumApart
<1>7. one \cup (S \ one) = S
  BY <1>0
<1> HIDE DEF tail
<1> QED  BY <1>1, <1>2, <1>3, <1>4, <1>5, <1>6, <1>7

TaxRates == [threshold : Nat, deduction : Nat, rate : Nat, ramp : Nat]

LEMMA NotLess ==
  ASSUME NEW a \in Int, NEW b \in Int, a <= b, NEW c \in Nat
  PROVE  a * c \in Int /\ b * c \in Int /\ a * c <= b * c
<1>1. PICK d \in Nat : b = a + d
  <2>1. b - a \in Nat /\ b = a + (b - a)
    OBVIOUS
  <2> QED  BY <2>1
<1>2. d * c \in Nat /\ a * c \in Int /\ b * c \in Int
  OBVIOUS
<1>3. b * c = a * c + d * c
  BY <1>1
<1> QED  BY <1>2, <1>3

LEMMA DividesTwo ==
  ASSUME NEW a \in Nat, NEW b \in Nat, NEW c \in Nat, a + b <= c, NEW n \in Nat \ {0}
  PROVE  /\ a \div n \in Nat /\ b \div n \in Nat /\ c \div n \in Nat
         /\ a \div n + b \div n <= c \div n
<1>1. PICK p, r \in Int : p = a \div n /\ r = a % n /\ a = n * p + r /\ 0 <= r /\ r < n
  OBVIOUS
<1>2. PICK q, s \in Int : q = b \div n /\ s = b % n /\ b = n * q + s /\ 0 <= s /\ s < n
  OBVIOUS
<1>3. PICK t, u \in Int : t = c \div n /\ u = c % n /\ c = n * t + u /\ 0 <= u /\ u < n
  OBVIOUS
<1>4. a \div n \in Nat /\ b \div n \in Nat /\ c \div n \in Nat
  OBVIOUS
<1>5. ASSUME p + q > t PROVE FALSE
  <2>1. n * (t + 1) <= n * (p + q)
    <3>1. t + 1 \in Int /\ p + q \in Int /\ t + 1 <= p + q
      BY <1>5
    <3>2. (t + 1) * n <= (p + q) * n
      BY <3>1, NotLess
    <3> QED  BY <3>1, <3>2
  <2>2. n * (t + 1) = n * t + n /\ n * (p + q) = n * p + n * q
    OBVIOUS
  <2>3. n * t \in Int /\ n * p \in Int /\ n * q \in Int
    OBVIOUS
  <2> QED  BY <1>1, <1>2, <1>3, <2>1, <2>2, <2>3
<1> QED  BY <1>1, <1>2, <1>3, <1>4, <1>5

\* The wages above the deduction, and the part of the rate that the ramp has reached.
Base(t, e) == IF t - e.deduction \div 12 <= 0 THEN 0 ELSE t - e.deduction \div 12
Reached(t, e) ==
  IF 12 * t <= e.threshold THEN 0
  ELSE IF e.ramp = 0 THEN 1
  ELSE IF 12 * t - e.threshold < e.ramp THEN 12 * t - e.threshold ELSE e.ramp
RampUnit(e) == IF e.ramp = 0 THEN 100 ELSE 100 * e.ramp

LEMMA ZeroTimes ==
  ASSUME NEW a \in Nat, NEW n \in Nat \ {0}
  PROVE  0 * a = 0 /\ a * 0 = 0 /\ 0 \div n = 0
OBVIOUS

LEMMA TaxIs ==
  ASSUME NEW t \in Nat, NEW e \in TaxRates
  PROVE  /\ Base(t, e) \in Nat /\ Reached(t, e) \in Nat /\ RampUnit(e) \in Nat \ {0} /\ e.rate \in Nat
         /\ StateTax(t, e) = (Base(t, e) * e.rate * Reached(t, e)) \div RampUnit(e)
<1>1. /\ e.threshold \in Nat /\ e.deduction \in Nat /\ e.rate \in Nat /\ e.ramp \in Nat
      /\ e.deduction \div 12 \in Nat
  BY DEF TaxRates
<1>2. Base(t, e) \in Nat /\ Reached(t, e) \in Nat /\ RampUnit(e) \in Nat \ {0}
  BY <1>1 DEF Base, Reached, RampUnit
<1>3. CASE 12 * t <= e.threshold
  <2>1. StateTax(t, e) = 0 /\ Reached(t, e) = 0
    BY <1>3 DEF StateTax, Reached
  <2>2. Base(t, e) * e.rate \in Nat
    BY <1>1, <1>2
  <2> QED  BY <1>1, <1>2, <2>1, <2>2, ZeroTimes
<1>4. CASE t - e.deduction \div 12 <= 0
  <2>1. StateTax(t, e) = 0 /\ Base(t, e) = 0
    BY <1>4 DEF StateTax, Base
  <2> QED  BY <1>1, <1>2, <2>1, ZeroTimes
<1>5. CASE ~(12 * t <= e.threshold) /\ ~(t - e.deduction \div 12 <= 0)
  <2>1. Base(t, e) = t - e.deduction \div 12
    BY <1>5 DEF Base
  <2>2. CASE e.ramp = 0
    <3>1. StateTax(t, e) = (Base(t, e) * e.rate) \div 100 /\ Reached(t, e) = 1 /\ RampUnit(e) = 100
      BY <1>5, <2>1, <2>2 DEF StateTax, Reached, RampUnit
    <3>2. Base(t, e) * e.rate \in Nat
      BY <1>1, <1>2
    <3>3. (Base(t, e) * e.rate) * 1 = Base(t, e) * e.rate
      BY <3>2
    <3> QED  BY <1>1, <1>2, <3>1, <3>3
  <2>3. CASE e.ramp # 0
    <3>1. StateTax(t, e) = (Base(t, e) * e.rate * Reached(t, e)) \div RampUnit(e)
      BY <1>5, <2>1, <2>3 DEF StateTax, Reached, RampUnit
    <3> QED  BY <1>1, <1>2, <3>1
  <2> QED  BY <2>2, <2>3
<1> QED  BY <1>3, <1>4, <1>5

\* There is one threshold: wages together pay at least what they would pay apart.
LEMMA OneThreshold ==
  ASSUME NEW t \in Nat, NEW u \in Nat, NEW e \in TaxRates
  PROVE  /\ StateTax(t, e) \in Nat /\ StateTax(u, e) \in Nat /\ StateTax(t + u, e) \in Nat
         /\ StateTax(t, e) + StateTax(u, e) <= StateTax(t + u, e)
<1>1. /\ t + u \in Nat /\ Base(t, e) \in Nat /\ Base(u, e) \in Nat /\ Base(t + u, e) \in Nat
      /\ Reached(t, e) \in Nat /\ Reached(u, e) \in Nat /\ Reached(t + u, e) \in Nat
      /\ e.rate \in Nat /\ RampUnit(e) \in Nat
  <2>1. t + u \in Nat
    OBVIOUS
  <2> QED  BY <2>1, TaxIs
<1>2. PICK a, b, c \in Nat : a = Base(t, e) /\ b = Base(u, e) /\ c = Base(t + u, e)
  BY <1>1
<1>3. PICK k, l, m \in Nat : k = Reached(t, e) /\ l = Reached(u, e) /\ m = Reached(t + u, e)
  BY <1>1
<1>4. PICK r, n \in Nat : r = e.rate /\ n = RampUnit(e)
  BY <1>1
<1>5. /\ a = Base(t, e) /\ b = Base(u, e) /\ c = Base(t + u, e)
      /\ k = Reached(t, e) /\ l = Reached(u, e) /\ m = Reached(t + u, e)
      /\ r = e.rate /\ n = RampUnit(e)
  BY <1>2, <1>3, <1>4
<1>6. t + u \in Nat /\ n \in Nat \ {0}
  BY <1>5, TaxIs
<1>7. a + b <= c /\ k <= m /\ l <= m
  <2>1. /\ e.threshold \in Nat /\ e.deduction \in Nat /\ e.ramp \in Nat /\ e.deduction \div 12 \in Nat
    BY DEF TaxRates
  <2>2. a + b <= c
    BY <1>5, <2>1 DEF Base
  <2>3. k <= m /\ l <= m
    BY <1>5, <2>1 DEF Reached
  <2> QED  BY <2>2, <2>3
<1>8. /\ a * r \in Nat /\ b * r \in Nat /\ c * r \in Nat /\ a * r + b * r <= c * r
  <2>1. (a + b) * r <= c * r
    BY <1>7, NotLess
  <2>2. (a + b) * r = a * r + b * r
    OBVIOUS
  <2> QED  BY <2>1, <2>2
<1>9. /\ (a * r) * k \in Nat /\ (b * r) * l \in Nat /\ (c * r) * m \in Nat
      /\ (a * r) * k + (b * r) * l <= (c * r) * m
  <2>1. PICK p, q, s \in Nat : p = a * r /\ q = b * r /\ s = c * r /\ p + q <= s
    BY <1>8
  <2>2. k * p <= m * p /\ l * q <= m * q /\ (p + q) * m <= s * m
    BY <1>7, <2>1, NotLess
  <2>3. (p + q) * m = m * p + m * q /\ k * p = p * k /\ l * q = q * l
    OBVIOUS
  <2>4. /\ p * k \in Nat /\ q * l \in Nat /\ s * m \in Nat /\ m * p \in Nat /\ m * q \in Nat
    OBVIOUS
  <2>5. p * k + q * l <= s * m
    BY <2>2, <2>3, <2>4
  <2> QED  BY <2>1, <2>4, <2>5
<1>10. /\ ((a * r) * k) \div n \in Nat /\ ((b * r) * l) \div n \in Nat /\ ((c * r) * m) \div n \in Nat
      /\ ((a * r) * k) \div n + ((b * r) * l) \div n <= ((c * r) * m) \div n
  BY <1>6, <1>9, DividesTwo
<1>11. /\ StateTax(t, e) = ((a * r) * k) \div n /\ StateTax(u, e) = ((b * r) * l) \div n
      /\ StateTax(t + u, e) = ((c * r) * m) \div n
  BY <1>5, <1>6, TaxIs
<1> QED  BY <1>10, <1>11

\* A sum over those employed in a month, of a value of each role.
OfStaff(x, m, v) == SumFunctionOnSet([i \in Staff(x, m) |-> v[x.roles[i]]], Staff(x, m))

Salary == [r \in Roles |-> r.salary]
Extra == [r \in Roles |-> Bonus(r)]
SuperOf(m) == [r \in Roles |-> RoleSuper(r, m)]
LeaveOf(x) == [r \in Roles |-> IF r.contractor THEN 0 ELSE (r.salary * x.leave_pct) \div 100]
WageIn(j, m) == [r \in Roles |-> IF r.jurisdiction = j THEN r.salary + Bonus(r) + RoleSuper(r, m) ELSE 0]
Values == [Roles -> Nat]

LEMMA SumNat ==
  ASSUME NEW S, IsFiniteSet(S), NEW g, \A x \in S : g[x] \in Nat
  PROVE  SumFunctionOnSet(g, S) \in Nat
<1> DEFINE z == [x \in S |-> 0]
<1>1. SumFunctionOnSet(z, S) = 0
  <2>1. \A x \in S : z[x] = 0
    OBVIOUS
  <2> HIDE DEF z
  <2> QED  BY <2>1, SumOfZeros
<1>2. SumFunctionOnSet(z, S) <= SumFunctionOnSet(g, S)
  <2>1. \A x \in S : z[x] \in Int /\ g[x] \in Int /\ z[x] <= g[x]
    OBVIOUS
  <2> HIDE DEF z
  <2> QED  BY <2>1, SumOrder
<1>3. SumFunctionOnSet(g, S) \in Int
  BY SumInt
<1> HIDE DEF z
<1> QED  BY <1>1, <1>2, <1>3

LEMMA StaffIs ==
  ASSUME NEW x \in PayrollInput, NEW m
  PROVE  /\ DOMAIN x.roles = 1..Len(x.roles) /\ Len(x.roles) \in Nat
         /\ IsFiniteSet(Staff(x, m)) /\ Staff(x, m) \subseteq DOMAIN x.roles /\ Staff(x, m) \subseteq Nat \ {0}
         /\ \A i \in DOMAIN x.roles : x.roles[i] \in Roles
<1>1. x.roles \in Seq(Roles)
  BY DEF PayrollInput
<1>2. DOMAIN x.roles = 1..Len(x.roles) /\ Len(x.roles) \in Nat /\ \A i \in DOMAIN x.roles : x.roles[i] \in Roles
  BY <1>1
<1>3. IsFiniteSet(DOMAIN x.roles) /\ DOMAIN x.roles \subseteq Nat \ {0}
  <2>1. PICK n \in Nat : n = Len(x.roles)
    BY <1>2
  <2>2. IsFiniteSet(1..n) /\ 1..n \subseteq Nat \ {0}
    BY FS_Interval
  <2> QED  BY <1>2, <2>1, <2>2
<1>4. Staff(x, m) \subseteq DOMAIN x.roles
  BY DEF Staff
<1> QED  BY <1>2, <1>3, <1>4, FS_Subset

LEMMA OfStaffNat ==
  ASSUME NEW x \in PayrollInput, NEW m, NEW v \in Values
  PROVE  OfStaff(x, m, v) \in Nat
<1> DEFINE g == [i \in Staff(x, m) |-> v[x.roles[i]]]
<1>1. IsFiniteSet(Staff(x, m)) /\ \A i \in Staff(x, m) : g[i] \in Nat
  BY StaffIs DEF Values
<1>2. SumFunctionOnSet(g, Staff(x, m)) \in Nat
  <2> HIDE DEF g
  <2> QED  BY <1>1, SumNat
<1> QED  BY <1>2 DEF OfStaff

\* Whole amounts, at the rate of super of the month.
LEMMA ValuesAre ==
  ASSUME NEW x \in PayrollInput, ~PayrollRefused(x), NEW m \in PayrollMonths(x)
  PROVE  /\ Salary \in Values /\ Extra \in Values /\ SuperOf(m) \in Values /\ LeaveOf(x) \in Values
         /\ \A j : WageIn(j, m) \in Values
<1>1. m \in Int /\ FirstDay(m) \in Int
  BY MonthLasts DEF PayrollMonths, PayrollInput
<1>2. SuperRate(m) \in Nat
  <2>1. SuperRate(m) # Refused
    BY DEF PayrollRefused
  <2>2. \E e \in Data.super_table : SuperRate(m) = e.rate
    BY <1>1, <2>1, LatestEntry, RatesAssumption DEF SuperRate
  <2> QED  BY <2>2, RatesAssumption
<1>3. \A a, b \in Nat : a * b \in Nat /\ (a * b) \div 100 \in Nat
  <2> TAKE a, b \in Nat
  <2>1. PICK c \in Nat : c = a * b
    OBVIOUS
  <2>2. c \div 100 \in Nat
    OBVIOUS
  <2> QED  BY <2>1, <2>2
<1>4. ASSUME NEW r \in Roles
      PROVE  /\ r.salary \in Nat /\ Bonus(r) \in Nat /\ RoleSuper(r, m) \in Nat
             /\ (r.salary * x.leave_pct) \div 100 \in Nat
             /\ r.salary + Bonus(r) + RoleSuper(r, m) \in Nat
  <2>1. r.salary \in Nat /\ r.bonus_pct \in Nat /\ x.leave_pct \in Nat
    BY DEF Roles, PayrollInput
  <2>2. Bonus(r) \in Nat /\ (r.salary * x.leave_pct) \div 100 \in Nat
    BY <1>3, <2>1 DEF Bonus
  <2>3. r.salary + Bonus(r) \in Nat
    BY <2>1, <2>2
  <2>4. RoleSuper(r, m) \in Nat
    BY <1>2, <1>3, <2>3 DEF RoleSuper
  <2> QED  BY <2>1, <2>2, <2>3, <2>4
<1>5. Salary \in Values /\ Extra \in Values /\ SuperOf(m) \in Values
  BY <1>4 DEF Values, Salary, Extra, SuperOf
<1>6. LeaveOf(x) \in Values
  BY <1>4 DEF Values, LeaveOf
<1>7. ASSUME NEW j PROVE WageIn(j, m) \in Values
  BY <1>4 DEF Values, WageIn
<1> QED  BY <1>5, <1>6, <1>7

LEMMA TaxableIs ==
  ASSUME NEW x \in PayrollInput, NEW m, NEW j, WageIn(j, m) \in Values
  PROVE  /\ Taxable(x, j, m) = OfStaff(x, m, WageIn(j, m))
         /\ Taxable(x, j, m) \in Nat
         /\ j \notin States(x, m) => Taxable(x, j, m) = 0
<1> DEFINE S == Staff(x, m)
           U == {i \in S : x.roles[i].jurisdiction = j}
           g == [i \in S |-> WageIn(j, m)[x.roles[i]]]
           u == [i \in U |-> x.roles[i].salary + Bonus(x.roles[i]) + RoleSuper(x.roles[i], m)]
<1>1. IsFiniteSet(S) /\ \A i \in S : x.roles[i] \in Roles
  BY StaffIs
<1>2. \A i \in S : g[i] \in Nat
  <2>1. WageIn(j, m) \in [Roles -> Nat]
    BY DEF Values
  <2> QED  BY <1>1, <2>1
<1>3. \A i \in S : i \notin U => g[i] = 0
  BY <1>1 DEF WageIn
<1>4. \A i \in U : u[i] = g[i]
  BY <1>1 DEF WageIn
<1>5. U \subseteq S /\ IsFiniteSet(U)
  BY <1>1, FS_Subset
<1>6. Taxable(x, j, m) = SumFunctionOnSet(u, U)
  BY DEF Taxable, Add
<1>7. OfStaff(x, m, WageIn(j, m)) = SumFunctionOnSet(g, S)
  BY DEF OfStaff
<1>8. j \notin States(x, m) => U = {}
  BY DEF States
<1> HIDE DEF S, U, g, u
<1>9. SumFunctionOnSet(u, U) = SumFunctionOnSet(g, U)
  <2>1. \A i \in U : g[i] \in Int /\ u[i] = g[i]
    BY <1>2, <1>4, <1>5
  <2> QED  BY <1>5, <2>1, SumSame
<1>10. SumFunctionOnSet(g, S) = SumFunctionOnSet(g, U)
  <2>1. \A i \in S : g[i] \in Int /\ (i \notin U => g[i] = 0)
    BY <1>2, <1>3
  <2> QED  BY <1>1, <1>5, <2>1, SumWithin
<1>11. SumFunctionOnSet(g, S) \in Nat
  BY <1>1, <1>2, SumNat
<1>12. U = {} => SumFunctionOnSet(g, U) = 0
  BY SumOfNone
<1> QED  BY <1>6, <1>7, <1>8, <1>9, <1>10, <1>11, <1>12

\* The amounts of a month, by the roles that are employed in it.
StatesTax(x, m) ==
  SumFunctionOnSet([j \in States(x, m) |-> StateTax(Taxable(x, j, m), TaxEntry(j, m))], States(x, m))

LEMMA RowIs ==
  ASSUME NEW x \in PayrollInput, NEW m
  PROVE  /\ PayrollMonth(x, m).gross = OfStaff(x, m, Salary)
         /\ PayrollMonth(x, m).bonuses = OfStaff(x, m, Extra)
         /\ PayrollMonth(x, m).super = OfStaff(x, m, SuperOf(m))
         /\ PayrollMonth(x, m).leave = OfStaff(x, m, LeaveOf(x))
         /\ PayrollMonth(x, m).workers_comp =
              ((OfStaff(x, m, Salary) + OfStaff(x, m, Extra)) * x.workers_comp_rate) \div 100
         /\ PayrollMonth(x, m).payroll_tax = IF ~x.registered THEN 0 ELSE StatesTax(x, m)
<1> DEFINE S == Staff(x, m)
<1>1. \A i \in S : x.roles[i] \in Roles
  BY StaffIs
<1>2. PICK row : row = PayrollMonth(x, m)
  OBVIOUS
<1>3. [i \in S |-> x.roles[i].salary] = [i \in S |-> Salary[x.roles[i]]]
  BY <1>1 DEF Salary
<1>4. [i \in S |-> Bonus(x.roles[i])] = [i \in S |-> Extra[x.roles[i]]]
  BY <1>1 DEF Extra
<1>5. [i \in S |-> RoleSuper(x.roles[i], m)] = [i \in S |-> SuperOf(m)[x.roles[i]]]
  BY <1>1 DEF SuperOf
<1>6. [i \in S |-> IF x.roles[i].contractor THEN 0 ELSE (x.roles[i].salary * x.leave_pct) \div 100]
        = [i \in S |-> LeaveOf(x)[x.roles[i]]]
  BY <1>1 DEF LeaveOf
<1>7. row.gross = SumFunctionOnSet([i \in S |-> x.roles[i].salary], S)
  BY <1>2 DEF PayrollMonth, Add
<1>8. row.bonuses = SumFunctionOnSet([i \in S |-> Bonus(x.roles[i])], S)
  BY <1>2 DEF PayrollMonth, Add
<1>9. row.super = SumFunctionOnSet([i \in S |-> RoleSuper(x.roles[i], m)], S)
  BY <1>2 DEF PayrollMonth, Add
<1>10. row.leave = SumFunctionOnSet([i \in S |-> IF x.roles[i].contractor THEN 0 ELSE (x.roles[i].salary * x.leave_pct) \div 100], S)
  BY <1>2 DEF PayrollMonth, Add
<1>11. row.workers_comp = ((row.gross + row.bonuses) * x.workers_comp_rate) \div 100
  BY <1>2 DEF PayrollMonth, Add
<1>12. row.payroll_tax = IF ~x.registered THEN 0 ELSE StatesTax(x, m)
  BY <1>2 DEF PayrollMonth, Add, StatesTax
<1> QED  BY <1>2, <1>3, <1>4, <1>5, <1>6, <1>7, <1>8, <1>9, <1>10, <1>11, <1>12 DEF OfStaff

\* Another list of roles, with the same terms.
Alike(x, y) ==
  /\ y.first = x.first /\ y.horizon = x.horizon /\ y.registered = x.registered
  /\ y.workers_comp_rate = x.workers_comp_rate /\ y.leave_pct = x.leave_pct

LEMMA WithRoles ==
  ASSUME NEW x \in PayrollInput, NEW roles \in Seq(Roles), NEW y, y = [x EXCEPT !.roles = roles]
  PROVE  /\ y \in PayrollInput /\ y.roles = roles /\ Alike(x, y) /\ PayrollMonths(y) = PayrollMonths(x)
         /\ LeaveOf(y) = LeaveOf(x)
<1>1. y \in PayrollInput /\ y.roles = roles /\ Alike(x, y)
  BY DEF PayrollInput, Alike
<1> QED  BY <1>1 DEF Alike, PayrollMonths, LeaveOf

\* Fewer wages in fewer states are not refused.
LEMMA NotRefused ==
  ASSUME NEW x \in PayrollInput, ~PayrollRefused(x),
         NEW y \in PayrollInput, Alike(x, y), \A i \in DOMAIN y.roles : RoleFits(y.roles[i]),
         \A m \in PayrollMonths(x) : States(y, m) \subseteq States(x, m),
         \A m \in PayrollMonths(x) : \A j \in States(y, m) : Taxable(y, j, m) > 0 => Taxable(x, j, m) > 0
  PROVE  ~PayrollRefused(y)
<1>1. PayrollMonths(y) = PayrollMonths(x) /\ y.registered = x.registered
  BY DEF PayrollMonths, Alike
<1>2. TaxedStates(y, PayrollMonths(y)) \subseteq TaxedStates(x, PayrollMonths(x))
  <2>1. ASSUME NEW j \in TaxedStates(y, PayrollMonths(y))
        PROVE  j \in TaxedStates(x, PayrollMonths(x))
    <3>1. PICK m \in PayrollMonths(x) : j \in States(y, m) /\ Taxable(y, j, m) > 0
      BY <1>1, <2>1 DEF TaxedStates
    <3>2. j \in States(x, m) /\ Taxable(x, j, m) > 0
      BY <3>1
    <3> QED  BY <3>2 DEF TaxedStates
  <2> QED  BY <2>1
<1>3. \A i \in DOMAIN y.roles : RoleFits(y.roles[i])
  OBVIOUS
<1>4. ~(\E m \in PayrollMonths(y) : SuperRate(m) = Refused)
  BY <1>1 DEF PayrollRefused
<1>5. ~(y.registered /\ "SA" \in TaxedStates(y, PayrollMonths(y)) /\ TaxedStates(y, PayrollMonths(y)) # {"SA"})
  BY <1>1, <1>2 DEF PayrollRefused
<1>6. ~(y.registered /\ \E m \in PayrollMonths(y) : \E j \in States(y, m) : TaxEntry(j, m) = Refused)
  BY <1>1 DEF PayrollRefused
<1> QED  BY <1>3, <1>4, <1>5, <1>6 DEF PayrollRefused

\* The first role and the others.
Apart(x, y, z) ==
  /\ x \in PayrollInput /\ y \in PayrollInput /\ z \in PayrollInput /\ x.roles # <<>>
  /\ y.roles = <<x.roles[1]>> /\ z.roles = Tail(x.roles) /\ Alike(x, y) /\ Alike(x, z)

LEMMA RolesOf ==
  ASSUME NEW x, NEW y, NEW z, Apart(x, y, z)
  PROVE  /\ 1 \in DOMAIN x.roles /\ DOMAIN y.roles = {1} /\ y.roles[1] = x.roles[1]
         /\ \A i \in Nat \ {0} : i \in DOMAIN z.roles <=> i + 1 \in DOMAIN x.roles
         /\ \A i \in DOMAIN z.roles : i \in Nat \ {0} /\ z.roles[i] = x.roles[i + 1]
<1>1. PICK s \in Seq(Roles) : s = x.roles /\ s # <<>>
  BY DEF Apart, PayrollInput
<1>2. y.roles = <<s[1]>> /\ z.roles = Tail(s)
  BY <1>1 DEF Apart
<1>3. PICK n \in Nat : n = Len(s) /\ n # 0 /\ DOMAIN s = 1..n
  BY <1>1
<1>4. Tail(s) \in Seq(Roles) /\ Len(Tail(s)) = n - 1 /\ DOMAIN Tail(s) = 1..(n - 1) /\ \A i \in 1..(n - 1) : Tail(s)[i] = s[i + 1]
  BY <1>1, <1>3
<1>5. DOMAIN <<s[1]>> = {1} /\ <<s[1]>>[1] = s[1]
  OBVIOUS
<1> QED  BY <1>1, <1>2, <1>3, <1>4, <1>5

LEMMA StaffApart ==
  ASSUME NEW x, NEW y, NEW z, Apart(x, y, z), NEW m
  PROVE  /\ Staff(y, m) = {i \in Staff(x, m) : i = 1}
         /\ Staff(z, m) = {i \in Nat \ {0} : i + 1 \in Staff(x, m)}
         /\ \A i \in Staff(y, m) : y.roles[i] = x.roles[i]
         /\ \A i \in Staff(z, m) : z.roles[i] = x.roles[i + 1]
<1>1. ASSUME NEW i
      PROVE  i \in Staff(y, m) <=> i \in {k \in Staff(x, m) : k = 1}
  BY RolesOf DEF Staff
<1>2. ASSUME NEW i
      PROVE  i \in Staff(z, m) <=> i \in {k \in Nat \ {0} : k + 1 \in Staff(x, m)}
  BY RolesOf DEF Staff
<1>3. \A i \in Staff(y, m) : y.roles[i] = x.roles[i]
  BY RolesOf DEF Staff
<1>4. \A i \in Staff(z, m) : z.roles[i] = x.roles[i + 1]
  BY RolesOf DEF Staff
<1> QED  BY <1>1, <1>2, <1>3, <1>4

LEMMA ValuesApart ==
  ASSUME NEW x, NEW y, NEW z, Apart(x, y, z), NEW m, NEW v \in Values
  PROVE  /\ OfStaff(x, m, v) = OfStaff(y, m, v) + OfStaff(z, m, v)
         /\ OfStaff(x, m, v) \in Nat /\ OfStaff(y, m, v) \in Nat /\ OfStaff(z, m, v) \in Nat
<1> DEFINE S == Staff(x, m)
           one == Staff(y, m)
           rest == Staff(z, m)
           h == [i \in S |-> v[x.roles[i]]]
           u == [i \in one |-> v[y.roles[i]]]
           g == [i \in rest |-> v[z.roles[i]]]
<1>1. x \in PayrollInput /\ y \in PayrollInput /\ z \in PayrollInput
  BY DEF Apart
<1>2. IsFiniteSet(S) /\ S \subseteq Nat \ {0} /\ \A i \in S : x.roles[i] \in Roles
  BY <1>1, StaffIs
<1>3. \A i \in S : h[i] \in Int
  BY <1>2 DEF Values
<1>4. one = {i \in S : i = 1} /\ rest = {i \in Nat \ {0} : i + 1 \in S}
  BY StaffApart
<1>5. \A i \in one : u[i] = h[i]
  BY StaffApart
<1>6. \A i \in rest : g[i] = h[i + 1]
  BY StaffApart
<1>7. OfStaff(x, m, v) = SumFunctionOnSet(h, S) /\ OfStaff(y, m, v) = SumFunctionOnSet(u, one)
      /\ OfStaff(z, m, v) = SumFunctionOnSet(g, rest)
  BY DEF OfStaff
<1> HIDE DEF S, one, rest, h, u, g
<1>8. SumFunctionOnSet(h, S) = SumFunctionOnSet(u, one) + SumFunctionOnSet(g, rest)
  <2>1. Shifted(S, h, one, u, rest, g)
    BY <1>2, <1>3, <1>4, <1>5, <1>6 DEF Shifted
  <2> QED  BY <2>1, SumShift
<1> QED  BY <1>1, <1>7, <1>8, OfStaffNat

LEMMA StatesApart ==
  ASSUME NEW x, NEW y, NEW z, Apart(x, y, z), NEW m
  PROVE  States(y, m) \subseteq States(x, m) /\ States(z, m) \subseteq States(x, m)
BY StaffApart DEF States

\* The first role, or the others, are refused only where all of them are.
LEMMA ApartFits ==
  ASSUME NEW x, NEW y, NEW z, Apart(x, y, z), ~PayrollRefused(x)
  PROVE  ~PayrollRefused(y) /\ ~PayrollRefused(z)
<1>1. /\ x \in PayrollInput /\ y \in PayrollInput /\ z \in PayrollInput /\ Alike(x, y) /\ Alike(x, z)
  BY DEF Apart
<1>2. \A i \in DOMAIN x.roles : RoleFits(x.roles[i])
  BY DEF PayrollRefused
<1>3. (\A i \in DOMAIN y.roles : RoleFits(y.roles[i])) /\ \A i \in DOMAIN z.roles : RoleFits(z.roles[i])
  BY <1>2, RolesOf
<1>4. \A m \in PayrollMonths(x) : States(y, m) \subseteq States(x, m) /\ States(z, m) \subseteq States(x, m)
  BY StatesApart
<1>5. ASSUME NEW m \in PayrollMonths(x), NEW j
      PROVE  (Taxable(y, j, m) > 0 => Taxable(x, j, m) > 0) /\ (Taxable(z, j, m) > 0 => Taxable(x, j, m) > 0)
  <2>1. WageIn(j, m) \in Values
    BY <1>1, ValuesAre
  <2>2. /\ Taxable(x, j, m) = OfStaff(x, m, WageIn(j, m)) /\ Taxable(y, j, m) = OfStaff(y, m, WageIn(j, m))
        /\ Taxable(z, j, m) = OfStaff(z, m, WageIn(j, m))
    BY <1>1, <2>1, TaxableIs
  <2>3. /\ OfStaff(x, m, WageIn(j, m)) = OfStaff(y, m, WageIn(j, m)) + OfStaff(z, m, WageIn(j, m))
        /\ OfStaff(y, m, WageIn(j, m)) \in Nat /\ OfStaff(z, m, WageIn(j, m)) \in Nat
    BY <2>1, ValuesApart
  <2> QED  BY <2>2, <2>3
<1>6. ~PayrollRefused(y)
  BY <1>1, <1>3, <1>4, <1>5, NotRefused
<1>7. ~PayrollRefused(z)
  BY <1>1, <1>3, <1>4, <1>5, NotRefused
<1> QED  BY <1>6, <1>7

\* A state without wages levies nothing.
LEMMA NoWagesNoTax ==
  ASSUME NEW e \in TaxRates
  PROVE  StateTax(0, e) = 0
<1>1. e.threshold \in Nat /\ 12 * 0 = 0
  BY DEF TaxRates
<1> QED  BY <1>1 DEF StateTax

LEMMA EntriesAre ==
  ASSUME NEW x \in PayrollInput, ~PayrollRefused(x), x.registered, NEW m \in PayrollMonths(x)
  PROVE  IsFiniteSet(States(x, m)) /\ \A j \in States(x, m) : TaxEntry(j, m) \in TaxRates
<1>1. m \in Int /\ FirstDay(m) \in Int
  BY MonthLasts DEF PayrollMonths, PayrollInput
<1>2. IsFiniteSet(Staff(x, m)) /\ \A i \in Staff(x, m) : x.roles[i] \in Roles
  BY StaffIs
<1>3. IsFiniteSet(States(x, m)) /\ States(x, m) \subseteq DOMAIN Data.payroll_tax_table
  <2>1. IsFiniteSet({[k \in Staff(x, m) |-> x.roles[k].jurisdiction][i] : i \in Staff(x, m)})
    BY <1>2, FiniteImages
  <2>2. States(x, m) = {[k \in Staff(x, m) |-> x.roles[k].jurisdiction][i] : i \in Staff(x, m)}
    BY DEF States
  <2>3. IsFiniteSet(States(x, m))
    BY <2>1, <2>2
  <2>4. States(x, m) \subseteq DOMAIN Data.payroll_tax_table
    BY <1>2 DEF States, Roles
  <2> QED  BY <2>3, <2>4
<1>4. ASSUME NEW j \in States(x, m)
      PROVE  TaxEntry(j, m) \in TaxRates
  <2>1. TaxEntry(j, m) # Refused
    BY DEF PayrollRefused
  <2>2. PICK e \in Data.payroll_tax_table[j] : TaxEntry(j, m) = e.rate
    BY <1>1, <1>3, <2>1, LatestEntry, RatesAssumption DEF TaxEntry
  <2> QED  BY <1>3, <2>2, RatesAssumption DEF TaxRates
<1> QED  BY <1>3, <1>4

\* The tax of some of the roles, over the states of all of them.
LEMMA TaxOver ==
  ASSUME NEW x \in PayrollInput, ~PayrollRefused(x), x.registered, NEW m \in PayrollMonths(x),
         NEW w \in PayrollInput, States(w, m) \subseteq States(x, m)
  PROVE  /\ \A j \in States(x, m) : StateTax(Taxable(w, j, m), TaxEntry(j, m)) \in Nat
         /\ StatesTax(w, m) = SumFunctionOnSet([j \in States(x, m) |-> StateTax(Taxable(w, j, m), TaxEntry(j, m))], States(x, m))
         /\ StatesTax(w, m) \in Nat
<1> DEFINE S == States(x, m)
           U == States(w, m)
           g == [j \in S |-> StateTax(Taxable(w, j, m), TaxEntry(j, m))]
           h == [j \in U |-> StateTax(Taxable(w, j, m), TaxEntry(j, m))]
<1>1. IsFiniteSet(S) /\ \A j \in S : TaxEntry(j, m) \in TaxRates
  BY EntriesAre
<1>2. \A j : Taxable(w, j, m) \in Nat /\ (j \notin U => Taxable(w, j, m) = 0)
  <2> TAKE j
  <2>1. WageIn(j, m) \in Values
    BY ValuesAre
  <2> QED  BY <2>1, TaxableIs
<1>3. \A j \in S : g[j] \in Nat /\ (j \notin U => g[j] = 0)
  <2> TAKE j \in S
  <2>1. PICK t \in Nat, e \in TaxRates : t = Taxable(w, j, m) /\ e = TaxEntry(j, m) /\ (j \notin U => t = 0)
    BY <1>1, <1>2
  <2>2. StateTax(t, e) \in Nat
    BY OneThreshold
  <2>3. t = 0 => StateTax(t, e) = 0
    BY NoWagesNoTax
  <2> QED  BY <2>1, <2>2, <2>3
<1>4. \A j \in U : j \in S /\ h[j] = g[j]
  OBVIOUS
<1>5. StatesTax(w, m) = SumFunctionOnSet(h, U)
  BY DEF StatesTax
<1>6. \A j \in S : StateTax(Taxable(w, j, m), TaxEntry(j, m)) \in Nat
  BY <1>3
<1>7. U \subseteq S
  OBVIOUS
<1> HIDE DEF S, U, g, h
<1>8. SumFunctionOnSet(h, U) = SumFunctionOnSet(g, U)
  <2>1. IsFiniteSet(U) /\ \A j \in U : g[j] \in Int /\ h[j] = g[j]
    BY <1>1, <1>3, <1>4, <1>7, FS_Subset
  <2> QED  BY <2>1, SumSame
<1>9. SumFunctionOnSet(g, S) = SumFunctionOnSet(g, U)
  <2>1. \A j \in S : g[j] \in Int /\ (j \notin U => g[j] = 0)
    BY <1>3
  <2> QED  BY <1>1, <1>7, <2>1, SumWithin
<1>10. SumFunctionOnSet(g, S) \in Nat
  BY <1>1, <1>3, SumNat
<1> QED  BY <1>5, <1>6, <1>8, <1>9, <1>10 DEF g, S

LEMMA TaxApart ==
  ASSUME NEW x, NEW y, NEW z, Apart(x, y, z), ~PayrollRefused(x), x.registered, NEW m \in PayrollMonths(x)
  PROVE  StatesTax(y, m) + StatesTax(z, m) <= StatesTax(x, m)
<1> DEFINE S == States(x, m)
           tax(w) == [j \in S |-> StateTax(Taxable(w, j, m), TaxEntry(j, m))]
           both == [j \in S |-> tax(y)[j] + tax(z)[j]]
<1>1. /\ x \in PayrollInput /\ y \in PayrollInput /\ z \in PayrollInput
      /\ States(y, m) \subseteq S /\ States(z, m) \subseteq S /\ States(x, m) \subseteq S
  BY StatesApart DEF Apart
<1>2. IsFiniteSet(S) /\ \A j \in S : TaxEntry(j, m) \in TaxRates
  BY <1>1, EntriesAre
<1>3. /\ \A j \in S : tax(x)[j] \in Nat /\ tax(y)[j] \in Nat /\ tax(z)[j] \in Nat
      /\ StatesTax(x, m) = SumFunctionOnSet(tax(x), S) /\ StatesTax(y, m) = SumFunctionOnSet(tax(y), S)
      /\ StatesTax(z, m) = SumFunctionOnSet(tax(z), S)
  BY <1>1, TaxOver
<1>4. \A j \in S : both[j] <= tax(x)[j]
  <2> TAKE j \in S
  <2>1. WageIn(j, m) \in Values
    BY <1>1, ValuesAre
  <2>2. /\ Taxable(x, j, m) = Taxable(y, j, m) + Taxable(z, j, m)
        /\ Taxable(y, j, m) \in Nat /\ Taxable(z, j, m) \in Nat
    BY <1>1, <2>1, TaxableIs, ValuesApart
  <2>3. PICK t, u \in Nat, e \in TaxRates : t = Taxable(y, j, m) /\ u = Taxable(z, j, m) /\ e = TaxEntry(j, m)
    BY <1>2, <2>2
  <2>4. StateTax(t, e) + StateTax(u, e) <= StateTax(t + u, e)
    BY OneThreshold
  <2> QED  BY <2>2, <2>3, <2>4
<1>5. \A j \in S : both[j] = tax(y)[j] + tax(z)[j]
  OBVIOUS
<1> DEFINE taxX == tax(x)
           taxY == tax(y)
           taxZ == tax(z)
<1>6. /\ \A j \in S : taxX[j] \in Int /\ taxY[j] \in Int /\ taxZ[j] \in Int /\ both[j] \in Int
                      /\ both[j] = taxY[j] + taxZ[j] /\ both[j] <= taxX[j]
      /\ StatesTax(x, m) = SumFunctionOnSet(taxX, S) /\ StatesTax(y, m) = SumFunctionOnSet(taxY, S)
      /\ StatesTax(z, m) = SumFunctionOnSet(taxZ, S)
  BY <1>3, <1>4, <1>5
<1> HIDE DEF S, both, taxX, taxY, taxZ
<1>7. SumFunctionOnSet(both, S) = SumFunctionOnSet(taxY, S) + SumFunctionOnSet(taxZ, S)
  <2>1. \A j \in S : taxY[j] \in Int /\ taxZ[j] \in Int /\ both[j] = taxY[j] + taxZ[j]
    BY <1>6
  <2> QED  BY <1>2, <2>1, SumPlus
<1>8. SumFunctionOnSet(both, S) <= SumFunctionOnSet(taxX, S)
  <2>1. \A j \in S : both[j] \in Int /\ taxX[j] \in Int /\ both[j] <= taxX[j]
    BY <1>6
  <2> QED  BY <1>2, <2>1, SumOrder
<1> QED  BY <1>6, <1>7, <1>8

LEMMA PremiumsApart ==
  ASSUME NEW a \in Nat, NEW b \in Nat, NEW c \in Nat, NEW r \in Nat, a = b + c, (b * r) % 100 = 0
  PROVE  (a * r) \div 100 = (b * r) \div 100 + (c * r) \div 100
<1>1. a * r = b * r + c * r
  OBVIOUS
<1>2. PICK p, q \in Nat : p = b * r /\ q = c * r
  OBVIOUS
<1>3. p % 100 = 0
  BY <1>2
<1>4. (p + q) \div 100 = p \div 100 + q \div 100
  BY <1>3
<1> QED  BY <1>1, <1>2, <1>4

\* The wages of one role.
LEMMA OneRole ==
  ASSUME NEW x, NEW y, NEW z, Apart(x, y, z), NEW m, NEW v \in Values
  PROVE  OfStaff(y, m, v) = IF 1 \in Staff(y, m) THEN v[x.roles[1]] ELSE 0
<1> DEFINE g == [i \in Staff(y, m) |-> v[y.roles[i]]]
<1>1. Staff(y, m) \subseteq {1} /\ y.roles[1] = x.roles[1]
  BY RolesOf DEF Staff
<1>2. OfStaff(y, m, v) = SumFunctionOnSet(g, Staff(y, m))
  BY DEF OfStaff
<1>3. CASE 1 \in Staff(y, m)
  <2>1. Staff(y, m) = {1} /\ g[1] = v[x.roles[1]]
    BY <1>1, <1>3
  <2>2. g[1] \in Int
    <3>1. x \in PayrollInput
      BY DEF Apart
    <3>2. x.roles[1] \in Roles
      BY <3>1, RolesOf, StaffIs
    <3> QED  BY <2>1, <3>2 DEF Values
  <2> HIDE DEF g
  <2>3. SumFunctionOnSet(g, {1}) = g[1]
    BY <2>2, SumOfOne
  <2> QED  BY <1>2, <1>3, <2>1, <2>3
<1>4. CASE 1 \notin Staff(y, m)
  <2>1. Staff(y, m) = {}
    BY <1>1, <1>4
  <2> HIDE DEF g
  <2> QED  BY <1>2, <1>4, <2>1, SumOfNone
<1> QED  BY <1>3, <1>4

\* A payroll, month by month, is the first role's and the others'.
LEMMA MonthsAdd ==
  ASSUME NEW x, NEW y, NEW z, Apart(x, y, z), ~PayrollRefused(x), NEW m \in PayrollMonths(x),
         ((x.roles[1].salary + Bonus(x.roles[1])) * x.workers_comp_rate) % 100 = 0
  PROVE  /\ \A c \in {"gross", "bonuses", "super", "workers_comp", "leave"} :
              PayrollMonth(x, m)[c] = PayrollMonth(y, m)[c] + PayrollMonth(z, m)[c]
         /\ PayrollMonth(x, m).payroll_tax >= PayrollMonth(y, m).payroll_tax + PayrollMonth(z, m).payroll_tax
<1> DEFINE Of(w, v) == OfStaff(w, m, v)
<1>1. /\ x \in PayrollInput /\ y \in PayrollInput /\ z \in PayrollInput /\ Alike(x, y) /\ Alike(x, z)
      /\ States(y, m) \subseteq States(x, m) /\ States(z, m) \subseteq States(x, m)
  BY StatesApart DEF Apart
<1>2. /\ LeaveOf(y) = LeaveOf(x) /\ LeaveOf(z) = LeaveOf(x)
      /\ y.workers_comp_rate = x.workers_comp_rate /\ z.workers_comp_rate = x.workers_comp_rate
      /\ y.registered = x.registered /\ z.registered = x.registered /\ x.workers_comp_rate \in Nat
  BY <1>1 DEF Alike, LeaveOf, PayrollInput
<1>3. Salary \in Values /\ Extra \in Values /\ SuperOf(m) \in Values /\ LeaveOf(x) \in Values
  BY <1>1, ValuesAre
<1>4. ASSUME NEW v \in Values
      PROVE  Of(x, v) = Of(y, v) + Of(z, v) /\ Of(x, v) \in Nat /\ Of(y, v) \in Nat /\ Of(z, v) \in Nat
  BY ValuesApart
<1>5. ((Of(y, Salary) + Of(y, Extra)) * x.workers_comp_rate) % 100 = 0
  <2>1. x.roles[1] \in Roles
    BY <1>1, RolesOf, StaffIs
  <2>2. CASE 1 \in Staff(y, m)
    <3>1. Of(y, Salary) = x.roles[1].salary /\ Of(y, Extra) = Bonus(x.roles[1])
      BY <1>3, <2>1, <2>2, OneRole DEF Salary, Extra
    <3> QED  BY <3>1
  <2>3. CASE 1 \notin Staff(y, m)
    <3>1. Of(y, Salary) = 0 /\ Of(y, Extra) = 0
      BY <1>3, <2>3, OneRole
    <3>2. (0 + 0) * x.workers_comp_rate = 0
      BY <1>2
    <3> QED  BY <3>1, <3>2
  <2> QED  BY <2>2, <2>3
<1>6. /\ PayrollMonth(x, m).workers_comp = ((Of(x, Salary) + Of(x, Extra)) * x.workers_comp_rate) \div 100
      /\ PayrollMonth(y, m).workers_comp = ((Of(y, Salary) + Of(y, Extra)) * x.workers_comp_rate) \div 100
      /\ PayrollMonth(z, m).workers_comp = ((Of(z, Salary) + Of(z, Extra)) * x.workers_comp_rate) \div 100
  BY <1>1, <1>2, RowIs
<1>7. PayrollMonth(x, m).workers_comp = PayrollMonth(y, m).workers_comp + PayrollMonth(z, m).workers_comp
  <2>1. PICK a, b, c \in Nat : a = Of(x, Salary) + Of(x, Extra) /\ b = Of(y, Salary) + Of(y, Extra)
                                 /\ c = Of(z, Salary) + Of(z, Extra)
    BY <1>3, <1>4
  <2>2. a = b + c
    BY <1>3, <1>4, <2>1
  <2>3. PICK r \in Nat : r = x.workers_comp_rate
    BY <1>2
  <2>4. (b * r) % 100 = 0
    BY <1>5, <2>1, <2>3
  <2>5. (a * r) \div 100 = (b * r) \div 100 + (c * r) \div 100
    BY <2>2, <2>4, PremiumsApart
  <2> QED  BY <1>6, <2>1, <2>3, <2>5
<1>8. /\ PayrollMonth(x, m).gross = PayrollMonth(y, m).gross + PayrollMonth(z, m).gross
      /\ PayrollMonth(x, m).bonuses = PayrollMonth(y, m).bonuses + PayrollMonth(z, m).bonuses
      /\ PayrollMonth(x, m).super = PayrollMonth(y, m).super + PayrollMonth(z, m).super
      /\ PayrollMonth(x, m).leave = PayrollMonth(y, m).leave + PayrollMonth(z, m).leave
  BY <1>1, <1>2, <1>3, <1>4, RowIs
<1>9. PayrollMonth(x, m).payroll_tax >= PayrollMonth(y, m).payroll_tax + PayrollMonth(z, m).payroll_tax
  <2>1. CASE x.registered
    <3>1. /\ PayrollMonth(x, m).payroll_tax = StatesTax(x, m) /\ PayrollMonth(y, m).payroll_tax = StatesTax(y, m)
          /\ PayrollMonth(z, m).payroll_tax = StatesTax(z, m)
      BY <1>1, <1>2, <2>1, RowIs
    <3>2. StatesTax(x, m) \in Nat /\ StatesTax(y, m) \in Nat /\ StatesTax(z, m) \in Nat
      BY <1>1, <2>1, TaxOver
    <3>3. StatesTax(y, m) + StatesTax(z, m) <= StatesTax(x, m)
      BY <2>1, TaxApart
    <3> QED  BY <3>1, <3>2, <3>3
  <2>2. CASE ~x.registered
    <3>1. PayrollMonth(x, m).payroll_tax = 0 /\ PayrollMonth(y, m).payroll_tax = 0 /\ PayrollMonth(z, m).payroll_tax = 0
      BY <1>1, <1>2, <2>2, RowIs
    <3> QED  BY <3>1
  <2> QED  BY <2>1, <2>2
<1> QED  BY <1>7, <1>8, <1>9

\* Every role with its bonus in its salary.
Fold(r) == [r EXCEPT !.salary = @ + Bonus(r), !.bonus_pct = 0]
Folded(x, y) ==
  /\ x \in PayrollInput /\ y \in PayrollInput /\ Alike(x, y)
  /\ DOMAIN y.roles = DOMAIN x.roles /\ \A i \in DOMAIN x.roles : y.roles[i] = Fold(x.roles[i])

LEMMA FoldIs ==
  ASSUME NEW r \in Roles
  PROVE  /\ Fold(r) \in Roles /\ Fold(r).salary = r.salary + Bonus(r) /\ Bonus(Fold(r)) = 0
         /\ Fold(r).jurisdiction = r.jurisdiction /\ (RoleFits(r) => RoleFits(Fold(r)))
         /\ \A m : RoleSuper(Fold(r), m) = RoleSuper(r, m) /\ (Employed(Fold(r), m) <=> Employed(r, m))
<1>1. r.salary \in Nat /\ r.bonus_pct \in Nat
  BY DEF Roles
<1>2. Bonus(r) \in Nat
  <2>1. PICK p \in Nat : p = r.salary * r.bonus_pct
    BY <1>1
  <2>2. p \div 100 \in Nat
    OBVIOUS
  <2> QED  BY <2>1, <2>2 DEF Bonus
<1>3. PICK n \in Nat : n = r.salary + Bonus(r)
  BY <1>1, <1>2
<1>4. Fold(r) = [r EXCEPT !.salary = n, !.bonus_pct = 0]
  BY <1>3 DEF Fold, Roles
<1>5. PICK q : q = Fold(r)
  OBVIOUS
<1>6. q \in Roles /\ q.salary = n /\ q.bonus_pct = 0 /\ q.jurisdiction = r.jurisdiction /\ q.contractor = r.contractor
      /\ q.sg = r.sg /\ q.start = r.start /\ q.end = r.end
  <2>1. PICK p : p = [r EXCEPT !.salary = n]
    OBVIOUS
  <2>2. /\ p \in Roles /\ p.salary = n /\ p.jurisdiction = r.jurisdiction /\ p.contractor = r.contractor
        /\ p.sg = r.sg /\ p.start = r.start /\ p.end = r.end
    BY <2>1 DEF Roles
  <2>3. q = [p EXCEPT !.bonus_pct = 0]
    BY <1>4, <1>5, <2>1
  <2> QED  BY <2>2, <2>3 DEF Roles
<1>7. Bonus(q) = 0
  <2>1. n * 0 = 0
    OBVIOUS
  <2> QED  BY <1>6, <2>1 DEF Bonus
<1>8. q.salary + Bonus(q) = r.salary + Bonus(r)
  BY <1>3, <1>6, <1>7
<1>9. \A m : RoleSuper(q, m) = RoleSuper(r, m)
  BY <1>6, <1>8 DEF RoleSuper
<1>10. (RoleFits(r) => RoleFits(q)) /\ \A m : Employed(q, m) <=> Employed(r, m)
  BY <1>6 DEF RoleFits, Employed
<1> QED  BY <1>3, <1>5, <1>6, <1>7, <1>9, <1>10

LEMMA FoldedStaff ==
  ASSUME NEW x, NEW y, Folded(x, y), NEW m
  PROVE  /\ Staff(y, m) = Staff(x, m) /\ States(y, m) = States(x, m)
         /\ IsFiniteSet(Staff(x, m))
         /\ \A i \in Staff(x, m) : x.roles[i] \in Roles /\ y.roles[i] = Fold(x.roles[i])
<1>1. x \in PayrollInput
  BY DEF Folded
<1>2. \A i \in DOMAIN x.roles : x.roles[i] \in Roles
  BY <1>1, StaffIs
<1>3. IsFiniteSet(Staff(x, m)) /\ Staff(x, m) \subseteq DOMAIN x.roles
  BY <1>1, StaffIs
<1>4. \A i \in DOMAIN x.roles : Employed(y.roles[i], m) <=> Employed(x.roles[i], m)
  BY <1>2, FoldIs DEF Folded
<1>5. Staff(y, m) = Staff(x, m)
  BY <1>4 DEF Staff, Folded
<1>6. \A i \in Staff(x, m) : x.roles[i] \in Roles /\ y.roles[i] = Fold(x.roles[i])
  BY <1>2, <1>3 DEF Folded
<1>7. \A i \in Staff(x, m) : y.roles[i].jurisdiction = x.roles[i].jurisdiction
  BY <1>6, FoldIs
<1>8. States(y, m) = States(x, m)
  BY <1>5, <1>7 DEF States
<1> QED  BY <1>3, <1>5, <1>6, <1>8

LEMMA SameOfStaff ==
  ASSUME NEW x, NEW y, Folded(x, y), NEW m, NEW v \in Values, NEW w \in Values,
         \A r \in Roles : w[Fold(r)] = v[r]
  PROVE  OfStaff(y, m, w) = OfStaff(x, m, v)
<1>1. Staff(y, m) = Staff(x, m)
  BY FoldedStaff
<1>2. [i \in Staff(y, m) |-> w[y.roles[i]]] = [i \in Staff(x, m) |-> v[x.roles[i]]]
  BY <1>1, FoldedStaff
<1> QED  BY <1>1, <1>2 DEF OfStaff

LEMMA FoldedTaxable ==
  ASSUME NEW x, NEW y, Folded(x, y), ~PayrollRefused(x), NEW m \in PayrollMonths(x), NEW j
  PROVE  Taxable(y, j, m) = Taxable(x, j, m)
<1>1. x \in PayrollInput /\ y \in PayrollInput
  BY DEF Folded
<1>2. WageIn(j, m) \in Values
  BY <1>1, ValuesAre
<1>3. ASSUME NEW r \in Roles
      PROVE  WageIn(j, m)[Fold(r)] = WageIn(j, m)[r]
  <2>1. /\ Fold(r) \in Roles /\ Fold(r).salary = r.salary + Bonus(r) /\ Bonus(Fold(r)) = 0
        /\ Fold(r).jurisdiction = r.jurisdiction /\ RoleSuper(Fold(r), m) = RoleSuper(r, m)
    BY FoldIs
  <2>2. r.salary \in Nat /\ Extra[r] \in Nat /\ Extra[r] = Bonus(r) /\ SuperOf(m)[r] \in Nat /\ SuperOf(m)[r] = RoleSuper(r, m)
    <3>1. Extra \in Values /\ SuperOf(m) \in Values
      BY <1>1, ValuesAre
    <3> QED  BY <3>1 DEF Values, Extra, SuperOf, Roles
  <2>3. Fold(r).salary + Bonus(Fold(r)) + RoleSuper(Fold(r), m) = r.salary + Bonus(r) + RoleSuper(r, m)
    BY <2>1, <2>2
  <2> QED  BY <2>1, <2>3 DEF WageIn
<1>4. OfStaff(y, m, WageIn(j, m)) = OfStaff(x, m, WageIn(j, m))
  BY <1>2, <1>3, SameOfStaff
<1> QED  BY <1>1, <1>2, <1>4, TaxableIs

LEMMA FoldedFits ==
  ASSUME NEW x, NEW y, Folded(x, y), ~PayrollRefused(x)
  PROVE  ~PayrollRefused(y)
<1>1. x \in PayrollInput /\ y \in PayrollInput /\ Alike(x, y)
  BY DEF Folded
<1>2. \A i \in DOMAIN x.roles : x.roles[i] \in Roles /\ RoleFits(x.roles[i])
  BY <1>1, StaffIs DEF PayrollRefused
<1>3. \A i \in DOMAIN y.roles : RoleFits(y.roles[i])
  BY <1>2, FoldIs DEF Folded
<1>4. \A m \in PayrollMonths(x) : States(y, m) \subseteq States(x, m)
  BY FoldedStaff
<1>5. \A m \in PayrollMonths(x) : \A j \in States(y, m) : Taxable(y, j, m) > 0 => Taxable(x, j, m) > 0
  BY FoldedTaxable
<1> QED  BY <1>1, <1>3, <1>4, <1>5, NotRefused

\* A bonus bears what salary bears.
LEMMA FoldedCash ==
  ASSUME NEW x, NEW y, Folded(x, y), ~PayrollRefused(x), NEW m \in PayrollMonths(x)
  PROVE  TotalCash(PayrollMonth(x, m)) = TotalCash(PayrollMonth(y, m))
<1>1. x \in PayrollInput /\ y \in PayrollInput /\ y.registered = x.registered /\ y.workers_comp_rate = x.workers_comp_rate
  BY DEF Folded, Alike
<1>2. Salary \in Values /\ Extra \in Values /\ SuperOf(m) \in Values
  BY <1>1, ValuesAre
<1> DEFINE pay == [r \in Roles |-> r.salary + Bonus(r)]
           none == [r \in Roles |-> 0]
<1>3. pay \in Values /\ none \in Values
  BY <1>2 DEF Values, Salary, Extra
<1>4. OfStaff(y, m, Salary) = OfStaff(x, m, pay)
  <2>1. \A r \in Roles : Salary[Fold(r)] = pay[r]
    BY FoldIs DEF Salary
  <2> HIDE DEF pay
  <2> QED  BY <1>2, <1>3, <2>1, SameOfStaff
<1>5. OfStaff(y, m, Extra) = OfStaff(x, m, none)
  <2>1. \A r \in Roles : Extra[Fold(r)] = none[r]
    BY FoldIs DEF Extra
  <2> HIDE DEF none
  <2> QED  BY <1>2, <1>3, <2>1, SameOfStaff
<1>6. OfStaff(y, m, SuperOf(m)) = OfStaff(x, m, SuperOf(m))
  <2>1. \A r \in Roles : SuperOf(m)[Fold(r)] = SuperOf(m)[r]
    BY FoldIs DEF SuperOf
  <2> QED  BY <1>2, <2>1, SameOfStaff
<1>7. OfStaff(x, m, pay) = OfStaff(x, m, Salary) + OfStaff(x, m, Extra)
  <2> DEFINE S == Staff(x, m)
             f == [i \in S |-> Salary[x.roles[i]]]
             d == [i \in S |-> Extra[x.roles[i]]]
             g == [i \in S |-> pay[x.roles[i]]]
  <2>1. IsFiniteSet(S) /\ \A i \in S : f[i] \in Int /\ d[i] \in Int /\ g[i] = f[i] + d[i]
    BY <1>1, <1>2, StaffIs DEF Values, Salary, Extra
  <2>2. SumFunctionOnSet(g, S) = SumFunctionOnSet(f, S) + SumFunctionOnSet(d, S)
    <3> HIDE DEF f, d, g, S
    <3> QED  BY <2>1, SumPlus
  <2> QED  BY <2>2 DEF OfStaff
<1>8. OfStaff(x, m, none) = 0
  <2> DEFINE g == [i \in Staff(x, m) |-> none[x.roles[i]]]
  <2>1. IsFiniteSet(Staff(x, m)) /\ \A i \in Staff(x, m) : g[i] = 0
    BY <1>1, StaffIs
  <2>2. SumFunctionOnSet(g, Staff(x, m)) = 0
    <3> HIDE DEF g
    <3> QED  BY <2>1, SumOfZeros
  <2> QED  BY <2>2 DEF OfStaff
<1> HIDE DEF pay, none
<1>9. PayrollMonth(y, m).payroll_tax = PayrollMonth(x, m).payroll_tax
  <2>1. States(y, m) = States(x, m) /\ \A j : Taxable(y, j, m) = Taxable(x, j, m)
    BY FoldedStaff, FoldedTaxable
  <2>2. StatesTax(y, m) = StatesTax(x, m)
    BY <2>1 DEF StatesTax
  <2> QED  BY <1>1, <2>2, RowIs
<1>10. PICK a, b, s, t, r : /\ a = OfStaff(x, m, Salary) /\ b = OfStaff(x, m, Extra) /\ s = OfStaff(x, m, SuperOf(m))
                            /\ t = PayrollMonth(x, m).payroll_tax /\ r = x.workers_comp_rate
  OBVIOUS
<1>11. a \in Nat /\ b \in Nat /\ s \in Nat
  BY <1>1, <1>2, <1>10, OfStaffNat
<1>12. /\ PayrollMonth(x, m).gross = a /\ PayrollMonth(x, m).bonuses = b /\ PayrollMonth(x, m).super = s
       /\ PayrollMonth(x, m).workers_comp = ((a + b) * r) \div 100
  BY <1>1, <1>10, RowIs
<1>13. /\ PayrollMonth(y, m).gross = a + b /\ PayrollMonth(y, m).bonuses = 0 /\ PayrollMonth(y, m).super = s
       /\ PayrollMonth(y, m).workers_comp = ((a + b + 0) * r) \div 100
  BY <1>1, <1>4, <1>5, <1>6, <1>7, <1>8, <1>10, RowIs
<1>14. a + b + 0 = a + b
  BY <1>11
<1> QED  BY <1>9, <1>10, <1>11, <1>12, <1>13, <1>14 DEF TotalCash

-----------------------------------------------------------------------------
(* The calls about a payroll. *)

PayrollCalls == {"payroll_forecast", "settlement_events", "monthly_settlement", "settlement_weekly_flows"}

\* The calls that are not about a payroll.
LEMMA OtherCalls ==
  ASSUME Next, call'.fn \in PayrollCalls
  PROVE  \/ ForecastPayroll \/ SettlePayroll \/ RollLiabilities \/ PlacePayments
         \/ call' = call /\ returned' = returned
<1> USE DEF PayrollCalls, Ask, Then
<1>1. ~SummariseYears /\ ~ScheduleBas /\ ~ScheduleInstalments /\ ~PayInstalments
  BY DEF SummariseYears, ScheduleBas, ScheduleInstalments, PayInstalments
<1>2. ~DueWithholding /\ ~DueSuper /\ ~DuePayrollTax /\ ~PlaceFbt
  BY DEF DueWithholding, DueSuper, DuePayrollTax, PlaceFbt
<1>3. ~PlaceBas /\ ~ForecastBasCash /\ ~ForecastCash /\ ~CompareScenario
  BY DEF PlaceBas, ForecastBasCash, ForecastCash, CompareScenario
<1>4. ~SpreadCharge /\ ~SpendOnAssets /\ ~RollAssets /\ ~FetchRba /\ ~FetchAbs
  BY DEF SpreadCharge, SpendOnAssets, RollAssets, FetchRba, FetchAbs
<1>5. EstimatePlan => call' = call /\ returned' = returned
  BY DEF EstimatePlan
<1> QED  BY <1>1, <1>2, <1>3, <1>4, <1>5 DEF Next

\* What the calls about a payroll are asked, and answer.
Costed(p, costs) == p \in Inputs["payroll_forecast"] /\ costs = PayrollForecast(p) /\ costs # Refused
Asking(p, s) == With([rows |-> PayrollForecast(p)], s)
Rolled(events, months) == [c \in Components |-> MonthlySettlement(events, c, months)]
Placing(events, w) == With([events |-> events], w)
Dated(events) ==
  \E p \in Inputs["payroll_forecast"], s \in Inputs["settlement"] :
    PayrollForecast(p) # Refused /\ events = SettlementEvents(Asking(p, s))

Right(c, a) ==
  /\ c.fn = "payroll_forecast" => c.in \in Inputs["payroll_forecast"] /\ a = PayrollForecast(c.in)
  /\ c.fn = "settlement_events" =>
       \E p \in Inputs["payroll_forecast"], s \in Inputs["settlement"] :
         PayrollForecast(p) # Refused /\ c.in = Asking(p, s) /\ a = SettlementEvents(Asking(p, s))
  /\ c.fn = "monthly_settlement" =>
       \E events : \E m \in Inputs["months"] :
         /\ Dated(events) /\ events # Refused /\ c.in = [events |-> events, months |-> m]
         /\ a = Rolled(events, m)
  /\ c.fn = "settlement_weekly_flows" =>
       \E events : \E w \in Inputs["windows"] :
         /\ Dated(events) /\ events # Refused /\ c.in = Placing(events, w)
         /\ a = WeeklyPayments(events, c.in.start, c.in.weeks)
CallsRight == Right(call, answer)

LEMMA CallsStart == Init => CallsRight
BY DEF Init, NoCall, CallsRight, Right

LEMMA CallsStep ==
  ASSUME CallsRight, Next
  PROVE  CallsRight'
<1> SUFFICES ASSUME call'.fn \in PayrollCalls
             PROVE  CallsRight'
  BY DEF CallsRight, Right, PayrollCalls, answer
<1>1. CASE ForecastPayroll
  <2>1. PICK x \in Inputs["payroll_forecast"] :
          call' = [fn |-> "payroll_forecast", in |-> x] /\ returned' = [c \in {"payroll_forecast"} |-> PayrollForecast(x)]
    BY <1>1 DEF ForecastPayroll, Ask
  <2> QED  BY <2>1 DEF CallsRight, Right, Asked, answer
<1>2. CASE SettlePayroll
  <2>1. Asked("payroll_forecast") /\ answer # Refused
    BY <1>2 DEF SettlePayroll, Then
  <2>2. PICK s \in Inputs["settlement"] :
          /\ call' = [fn |-> "settlement_events", in |-> With([rows |-> answer], s)]
          /\ returned' = [c \in {"settlement_events"} |-> SettlementEvents(With([rows |-> answer], s))]
    BY <1>2 DEF SettlePayroll, Then
  <2>3. call.in \in Inputs["payroll_forecast"] /\ answer = PayrollForecast(call.in)
    BY <2>1 DEF CallsRight, Right, Asked
  <2>4. With([rows |-> answer], s) = Asking(call.in, s)
    BY <2>3 DEF Asking
  <2>5. /\ call'.fn = "settlement_events" /\ call'.in = Asking(call.in, s)
        /\ returned'[call'.fn] = SettlementEvents(Asking(call.in, s))
    BY <2>2, <2>4
  <2> QED  BY <2>1, <2>3, <2>5 DEF CallsRight, Right, Asked, answer
<1>3. CASE RollLiabilities
  <2>1. Asked("settlement_events") /\ answer # Refused
    BY <1>3 DEF RollLiabilities, Then
  <2>2. PICK m \in Inputs["months"] :
          /\ call' = [fn |-> "monthly_settlement", in |-> [events |-> answer, months |-> m]]
          /\ returned' = [d \in {"monthly_settlement"} |-> [c \in Components |-> MonthlySettlement(answer, c, m)]]
    BY <1>3 DEF RollLiabilities, Then
  <2>3. Dated(answer)
    BY <2>1 DEF CallsRight, Right, Asked, Dated
  <2>4. PICK events : events = answer
    OBVIOUS
  <2>5. PICK to, of : to = call' /\ of = returned'[call'.fn]
    OBVIOUS
  <2>6. to.fn = "monthly_settlement" /\ to.in = [events |-> events, months |-> m] /\ of = Rolled(events, m)
    BY <2>2, <2>4, <2>5 DEF Rolled
  <2>7. Dated(events) /\ events # Refused
    BY <2>1, <2>3, <2>4
  <2>8. Right(to, of)
    BY <2>6, <2>7 DEF Right
  <2> QED  BY <2>5, <2>8 DEF CallsRight, answer
<1>4. CASE PlacePayments
  <2>1. Asked("settlement_events") /\ answer # Refused
    BY <1>4 DEF PlacePayments, Then
  <2>0. PICK w \in Inputs["windows"] : \E x :
          /\ x = With([events |-> answer], w)
          /\ call' = [fn |-> "settlement_weekly_flows", in |-> x]
          /\ returned' = [d \in {"settlement_weekly_flows"} |-> WeeklyPayments(x.events, x.start, x.weeks)]
    BY <1>4 DEF PlacePayments, Then
  <2>2. PICK x :
          /\ x = With([events |-> answer], w)
          /\ call' = [fn |-> "settlement_weekly_flows", in |-> x]
          /\ returned' = [d \in {"settlement_weekly_flows"} |-> WeeklyPayments(x.events, x.start, x.weeks)]
    BY <2>0
  <2>3. Dated(answer)
    BY <2>1 DEF CallsRight, Right, Asked, Dated
  <2>4. x.events = answer
    BY <2>2 DEF With
  <2>5. PICK events : events = answer
    OBVIOUS
  <2>6. PICK to, of : to = call' /\ of = returned'[call'.fn]
    OBVIOUS
  <2>7. to.fn = "settlement_weekly_flows" /\ to.in = Placing(events, w) /\ of = WeeklyPayments(events, to.in.start, to.in.weeks)
    BY <2>2, <2>4, <2>5, <2>6 DEF Placing
  <2>8. Dated(events) /\ events # Refused
    BY <2>1, <2>3, <2>5
  <2>9. Right(to, of)
    BY <2>7, <2>8 DEF Right
  <2> QED  BY <2>6, <2>9 DEF CallsRight, answer
<1>5. CASE call' = call /\ returned' = returned
  BY <1>5 DEF CallsRight, Right, Asked, answer
<1> QED  BY <1>1, <1>2, <1>3, <1>4, <1>5, OtherCalls

LEMMA AskingFits ==
  ASSUME NEW p \in Inputs["payroll_forecast"], NEW s \in Inputs["settlement"], PayrollForecast(p) # Refused
  PROVE  SettleFits(Asking(p, s))
<1> DEFINE x == Asking(p, s)
           costs == PayrollForecast(p)
<1>1. p \in PayrollInput /\ p.first \in Int /\ p.horizon \in Nat
  BY PayrollAssumption DEF PayrollInput
<1>2. ~PayrollRefused(p) /\ costs = [m \in PayrollMonths(p) |-> PayrollMonth(p, m)]
  BY DEF PayrollForecast
<1>3. DOMAIN costs = PayrollMonths(p) /\ \A m \in PayrollMonths(p) : costs[m] = PayrollMonth(p, m)
  BY <1>2
<1>4. PayrollMonths(p) \subseteq Int /\ IsFiniteSet(PayrollMonths(p))
  BY <1>1, FS_Interval DEF PayrollMonths
<1> HIDE DEF costs
<1>5. \A m \in PayrollMonths(p) : CostRow(costs[m])
  BY <1>1, <1>2, <1>3, PayrollInts
<1>6. s \in [paydays : SUBSET Int, withholding_rate : Nat, withholder : {"small", "medium", "large"}, deferred : BOOLEAN,
             channel : Channels, jurisdiction : DOMAIN Data.payroll_tax, premium_terms : Nat,
             early : [Components -> Nat], ruled : SUBSET Components]
      /\ IsFiniteSet(s.paydays)
  BY PayrollAssumption
<1>7. /\ x.rows = costs /\ x.paydays = s.paydays /\ x.withholding_rate = s.withholding_rate
      /\ x.premium_terms = s.premium_terms /\ x.early = s.early /\ x.jurisdiction = s.jurisdiction
  BY <1>6 DEF Asking, With, costs
<1>8. \A m \in PayrollMonths(p), c \in PaydayComponents :
        Paydays(x, m) # {} => Cost(x, c, m) % Cardinality(Paydays(x, m)) = 0
  <2>1. \A m : Paydays(x, m) = Paydays(s, m)
    BY <1>7 DEF Paydays
  <2>2. costs \in {PayrollForecast(p)} \ {Refused} /\ x = With([rows |-> costs], s)
    BY DEF costs, Asking
  <2> HIDE DEF x
  <2> QED  BY <2>1, <2>2, PaydayUnitAssumption
<1> HIDE DEF x
<1>9. SettleFits(x)
  BY <1>3, <1>4, <1>5, <1>6, <1>7, <1>8 DEF SettleFits
<1> QED  BY <1>9 DEF x

LEMMA DatedSettled ==
  ASSUME NEW events, Dated(events), events # Refused
  PROVE  Settled(events)
BY AskingFits, EventsSettled DEF Dated

LEMMA PaidRight ==
  ASSUME CallsRight
  PROVE  /\ Answered("settlement_events") => PayrollPaid(call.in)
         /\ Answered("monthly_settlement") => LiabilitiesRight(call.in)
         /\ Answered("settlement_weekly_flows") => PaymentsPlaced(call.in)
<1>1. ASSUME Answered("settlement_events")
      PROVE  PayrollPaid(call.in)
  <2>1. PICK p \in Inputs["payroll_forecast"], s \in Inputs["settlement"] :
         PayrollForecast(p) # Refused /\ call.in = Asking(p, s) /\ answer = SettlementEvents(Asking(p, s))
    BY <1>1 DEF CallsRight, Right, Answered, Asked
  <2> QED  BY <1>1, <2>1, AskingFits, AllPaid DEF Answered
<1>2. ASSUME Answered("monthly_settlement")
      PROVE  LiabilitiesRight(call.in)
  <2>0. PICK events : \E m \in Inputs["months"] :
         /\ Dated(events) /\ events # Refused /\ call.in = [events |-> events, months |-> m]
         /\ answer = Rolled(events, m)
    BY <1>2 DEF CallsRight, Right, Answered, Asked
  <2>1. PICK m \in Inputs["months"] :
         /\ Dated(events) /\ events # Refused /\ call.in = [events |-> events, months |-> m]
         /\ answer = Rolled(events, m)
    BY <2>0
  <2>2. PICK x : x = call.in
    OBVIOUS
  <2>3. x.events = events /\ x.months = m /\ Settled(x.events)
    BY <2>1, <2>2, DatedSettled
  <2>4. x.months \subseteq Int /\ \E a, b \in Int : x.months = a..b
    <3>1. m \subseteq Int /\ \E a, b \in m : m = a..b
      BY PayrollAssumption
    <3> QED  BY <2>3, <3>1
  <2>5. answer = [c \in Components |-> MonthlySettlement(x.events, c, x.months)]
    BY <2>1, <2>3 DEF Rolled
  <2>6. LiabilitiesRight(x)
    BY <2>3, <2>4, <2>5, AllOwed
  <2> QED  BY <2>2, <2>6
<1>3. ASSUME Answered("settlement_weekly_flows")
      PROVE  PaymentsPlaced(call.in)
  <2>0. PICK events : \E w \in Inputs["windows"] :
         /\ Dated(events) /\ events # Refused /\ call.in = Placing(events, w)
         /\ answer = WeeklyPayments(events, call.in.start, call.in.weeks)
    BY <1>3 DEF CallsRight, Right, Answered, Asked
  <2>1. PICK w \in Inputs["windows"] :
         /\ Dated(events) /\ events # Refused /\ call.in = Placing(events, w)
         /\ answer = WeeklyPayments(events, call.in.start, call.in.weeks)
    BY <2>0
  <2>2. PICK x : x = call.in
    OBVIOUS
  <2>3. w.start \in Int /\ w.weeks \in Nat /\ w \in [opening : Int, start : Int, weeks : Nat]
    BY PayrollAssumption
  <2>4. x.events = events /\ x.start = w.start /\ x.weeks = w.weeks
    BY <2>1, <2>2, <2>3 DEF Placing, With
  <2>5. Settled(x.events) /\ x.start \in Int /\ x.weeks \in Nat /\ answer = WeeklyPayments(x.events, x.start, x.weeks)
    BY <2>1, <2>2, <2>3, <2>4, DatedSettled
  <2>6. PaymentsPlaced(x)
    BY <2>5, AllPlaced
  <2> QED  BY <2>2, <2>6
<1> QED  BY <1>1, <1>2, <1>3

LEMMA AllAdd ==
  ASSUME NEW x \in Inputs["payroll_forecast"], answer = PayrollForecast(x), answer # Refused, x.roles # <<>>
  PROVE  PayrollAdds(x)
<1> DEFINE y == [x EXCEPT !.roles = <<x.roles[1]>>]
           z == [x EXCEPT !.roles = Tail(x.roles)]
           folds == [i \in DOMAIN x.roles |-> [x.roles[i] EXCEPT !.salary = @ + Bonus(x.roles[i]), !.bonus_pct = 0]]
           u == [x EXCEPT !.roles = folds]
<1>1. x \in PayrollInput
  BY PayrollAssumption DEF PayrollInput
<1>2. PICK s \in Seq(Roles) : s = x.roles /\ s # <<>>
  BY <1>1 DEF PayrollInput
<1>3. s[1] \in Roles /\ <<s[1]>> \in Seq(Roles) /\ Tail(s) \in Seq(Roles) /\ DOMAIN s = 1..Len(s) /\ Len(s) \in Nat
      /\ \A i \in DOMAIN s : s[i] \in Roles
  BY <1>2
<1>4. Apart(x, y, z)
  <2>1. <<x.roles[1]>> \in Seq(Roles) /\ Tail(x.roles) \in Seq(Roles)
    BY <1>2, <1>3
  <2>2. y \in PayrollInput /\ y.roles = <<x.roles[1]>> /\ Alike(x, y)
    BY <1>1, <2>1, WithRoles
  <2>3. z \in PayrollInput /\ z.roles = Tail(x.roles) /\ Alike(x, z)
    BY <1>1, <2>1, WithRoles
  <2> QED  BY <1>1, <2>2, <2>3 DEF Apart
<1>5. Folded(x, u)
  <2>1. \A i \in DOMAIN x.roles : folds[i] = Fold(x.roles[i]) /\ folds[i] \in Roles
    <3>1. \A i \in DOMAIN x.roles : folds[i] = Fold(x.roles[i])
      BY DEF Fold
    <3> QED  BY <1>2, <1>3, <3>1, FoldIs
  <2>2. DOMAIN folds = DOMAIN x.roles
    OBVIOUS
  <2>3. folds \in Seq(Roles)
    <3>1. PICK n \in Nat : DOMAIN x.roles = 1..n
      BY <1>2, <1>3
    <3>2. folds \in [1..n -> Roles]
      BY <2>1, <3>1
    <3> HIDE DEF folds
    <3> QED  BY <3>2
  <2> HIDE DEF folds
  <2>4. u \in PayrollInput /\ u.roles = folds /\ Alike(x, u)
    BY <1>1, <2>3, WithRoles
  <2> QED  BY <1>1, <2>1, <2>2, <2>4 DEF Folded
<1>6. ~PayrollRefused(x)
  BY DEF PayrollForecast
<1> HIDE DEF y, z, u
<1>7. PayrollMonths(y) = PayrollMonths(x) /\ PayrollMonths(z) = PayrollMonths(x) /\ PayrollMonths(u) = PayrollMonths(x)
  BY <1>4, <1>5 DEF Apart, Folded, Alike, PayrollMonths
<1>8. ~PayrollRefused(y) /\ ~PayrollRefused(z) /\ ~PayrollRefused(u)
  BY <1>4, <1>5, <1>6, ApartFits, FoldedFits
<1>9. \A m \in PayrollMonths(x) :
        /\ answer[m] = PayrollMonth(x, m) /\ PayrollForecast(y)[m] = PayrollMonth(y, m)
        /\ PayrollForecast(z)[m] = PayrollMonth(z, m) /\ PayrollForecast(u)[m] = PayrollMonth(u, m)
  BY <1>6, <1>7, <1>8 DEF PayrollForecast
<1>10. ((x.roles[1].salary + Bonus(x.roles[1])) * x.workers_comp_rate) % 100 = 0
  <2>1. 1 \in DOMAIN x.roles
    BY <1>4, RolesOf
  <2> QED  BY <2>1, PremiumUnitAssumption
<1>11. ASSUME NEW m \in PayrollMonths(x)
       PROVE  /\ \A c \in {"gross", "bonuses", "super", "workers_comp", "leave"} :
                   answer[m][c] = PayrollForecast(y)[m][c] + PayrollForecast(z)[m][c]
              /\ answer[m].payroll_tax >= PayrollForecast(y)[m].payroll_tax + PayrollForecast(z)[m].payroll_tax
              /\ TotalCash(answer[m]) = TotalCash(PayrollForecast(u)[m])
  <2>1. /\ \A c \in {"gross", "bonuses", "super", "workers_comp", "leave"} :
             PayrollMonth(x, m)[c] = PayrollMonth(y, m)[c] + PayrollMonth(z, m)[c]
        /\ PayrollMonth(x, m).payroll_tax >= PayrollMonth(y, m).payroll_tax + PayrollMonth(z, m).payroll_tax
    BY <1>4, <1>6, <1>10, MonthsAdd
  <2>2. TotalCash(PayrollMonth(x, m)) = TotalCash(PayrollMonth(u, m))
    BY <1>5, <1>6, FoldedCash
  <2> QED  BY <1>9, <2>1, <2>2
<1> QED  BY <1>11 DEF PayrollAdds, y, z, u

\* Every payroll that is costed, settled, rolled into months or placed in weeks is
\* the same money, owed and paid once.
THEOREM PayrollSettled == Spec => []PayrollSettles
<1>1. Init => CallsRight
  BY CallsStart
<1>2. CallsRight /\ [Next]_vars => CallsRight'
  <2>1. ASSUME CallsRight, UNCHANGED vars
        PROVE  CallsRight'
    BY <2>1 DEF CallsRight, Right, vars, answer
  <2> QED  BY <2>1, CallsStep
<1>3. CallsRight => PayrollSettles
  <2> SUFFICES ASSUME CallsRight PROVE PayrollSettles
    OBVIOUS
  <2>1. ASSUME Answered("payroll_forecast"), call.in.roles # <<>>
        PROVE  PayrollAdds(call.in)
    <3>1. call.in \in Inputs["payroll_forecast"] /\ answer = PayrollForecast(call.in) /\ answer # Refused
      BY <2>1 DEF CallsRight, Right, Answered, Asked
    <3> QED  BY <2>1, <3>1, AllAdd
  <2> QED  BY <2>1, PaidRight DEF PayrollSettles
<1> QED  BY <1>1, <1>2, <1>3, PTL DEF Spec

-----------------------------------------------------------------------------
(* Cash, assets and series. *)

\* The modules for cash and assets read the same calendar.
LEMMA CashCalendar ==
  /\ \A d : Cash!MonthOf(d) = MonthOf(d)
  /\ \A d : Assets!MonthOf(d) = MonthOf(d)
  /\ \A m : Cash!FirstDay(m) = FirstDay(m)
  /\ \A d, s : Cash!WeekOf(d, s) = WeekOf(d, s)
<1>1. \A m : Cash!FirstDay(m) = FirstDay(m) /\ Assets!FirstDay(m) = FirstDay(m)
  BY DEF Cash!FirstDay, FirstDay, Cash!MonthOfYear, MonthOfYear, Cash!Leap, Leap, Assets!FirstDay, Assets!MonthOfYear, Assets!Leap
<1>2. \A m : Cash!LastDay(m) = LastDay(m) /\ Assets!LastDay(m) = LastDay(m)
  BY <1>1 DEF Cash!LastDay, LastDay, Assets!LastDay
<1>3. \A d : Cash!MonthOf(d) = MonthOf(d)
  BY <1>1, <1>2 DEF Cash!MonthOf, MonthOf
<1>4. \A d : Assets!MonthOf(d) = MonthOf(d)
  BY <1>1, <1>2 DEF Assets!MonthOf, MonthOf
<1> QED  BY <1>1, <1>3, <1>4 DEF Cash!WeekOf, WeekOf

\* The sums, counts and least elements of the module for cash are these.
LEMMA CashLibrary ==
  /\ \A g, S : Cash!SumFunctionOnSet(g, S) = SumFunctionOnSet(g, S)
  /\ \A S : Cash!Cardinality(S) = Cardinality(S)
  /\ \A S : Cash!Min(S) = Min(S)
<1>1. \A g, S : Cash!SumFunctionOnSet(g, S) = SumFunctionOnSet(g, S)
  BY DEF Cash!SumFunctionOnSet, SumFunctionOnSet, Cash!FoldFunctionOnSet, FoldFunctionOnSet, Cash!MapThenFoldSet, MapThenFoldSet
<1>2. \A S : Cash!Cardinality(S) = Cardinality(S)
  BY DEF Cash!Cardinality, Cardinality
<1> QED  BY <1>1, <1>2 DEF Cash!Min, Min

\* An occurrence of a flow is in its month, on the anchor's day or the month's last.
LEMMA Occurrence ==
  ASSUME NEW a \in Int, NEW n \in Int
  PROVE  /\ Cash!MonthsLater(a, n) \in Int
         /\ MonthOf(Cash!MonthsLater(a, n)) = MonthOf(a) + n
         /\ n = 0 => Cash!MonthsLater(a, n) = a
         /\ \/ Cash!DayOfMonth(Cash!MonthsLater(a, n)) = Cash!DayOfMonth(a)
            \/ /\ Cash!MonthsLater(a, n) = LastDay(MonthOf(a) + n)
               /\ Cash!DayOfMonth(Cash!MonthsLater(a, n)) < Cash!DayOfMonth(a)
<1> DEFINE m == MonthOf(a) + n
           d == Cash!DayOfMonth(a)
           e == Cash!MonthsLater(a, n)
<1>1. /\ MonthOf(a) \in Int /\ FirstDay(MonthOf(a)) \in Int /\ FirstDay(MonthOf(a)) <= a /\ a <= LastDay(MonthOf(a))
  BY DayInMonth
<1>2. d \in Int /\ d >= 1 /\ a = FirstDay(MonthOf(a)) + d - 1
  BY <1>1, CashCalendar DEF Cash!DayOfMonth
<1>3. m \in Int
  BY <1>1
<1> HIDE DEF m, d
<1>4. FirstDay(m) \in Int /\ FirstDay(m + 1) \in Int /\ FirstDay(m) + 28 <= FirstDay(m + 1)
  BY <1>3, MonthLasts
<1>5. Cash!MonthLength(m) = FirstDay(m + 1) - FirstDay(m)
  BY CashCalendar DEF Cash!MonthLength
<1>6. e = FirstDay(m) + (IF d < Cash!MonthLength(m) THEN d ELSE Cash!MonthLength(m)) - 1
  BY CashCalendar DEF Cash!MonthsLater, m, d
<1> HIDE DEF e
<1>7. e \in Int /\ FirstDay(m) <= e /\ e <= LastDay(m)
  BY <1>2, <1>4, <1>5, <1>6 DEF LastDay
<1>8. MonthOf(e) = m
  BY <1>3, <1>7, MonthIs
<1>9. Cash!DayOfMonth(e) = e - FirstDay(m) + 1
  BY <1>8, CashCalendar DEF Cash!DayOfMonth
<1>10. n = 0 => e = a
  <2> SUFFICES ASSUME n = 0 PROVE e = a
    OBVIOUS
  <2>1. m = MonthOf(a)
    BY <1>1 DEF m
  <2>2. d <= Cash!MonthLength(m)
    BY <1>1, <1>2, <1>4, <1>5, <2>1 DEF LastDay
  <2> QED  BY <1>2, <1>4, <1>5, <1>6, <2>1, <2>2
<1>11. Cash!DayOfMonth(e) = d \/ (e = LastDay(m) /\ Cash!DayOfMonth(e) < d)
  BY <1>2, <1>4, <1>5, <1>6, <1>9 DEF LastDay
<1> QED  BY <1>7, <1>8, <1>10, <1>11 DEF e, m, d

\* A day that matches an anchor is the occurrence of its month.
LEMMA OccursOn ==
  ASSUME NEW a \in Int, NEW e \in Int,
         \/ Cash!DayOfMonth(e) = Cash!DayOfMonth(a)
         \/ e = LastDay(MonthOf(e)) /\ Cash!DayOfMonth(e) < Cash!DayOfMonth(a)
  PROVE  e = Cash!MonthsLater(a, MonthOf(e) - MonthOf(a))
<1> DEFINE m == MonthOf(e)
           d == Cash!DayOfMonth(a)
<1>1. /\ MonthOf(a) \in Int /\ FirstDay(MonthOf(a)) \in Int
      /\ m \in Int /\ FirstDay(m) \in Int /\ FirstDay(m) <= e /\ e <= LastDay(m)
  BY DayInMonth
<1>2. d \in Int
  BY <1>1, CashCalendar DEF Cash!DayOfMonth
<1>3. MonthOf(a) + (m - MonthOf(a)) = m
  BY <1>1
<1>4. Cash!DayOfMonth(e) = e - FirstDay(m) + 1
  BY CashCalendar DEF Cash!DayOfMonth
<1>5. Cash!MonthLength(m) = FirstDay(m + 1) - FirstDay(m) /\ FirstDay(m + 1) \in Int
  BY <1>1, MonthLasts, CashCalendar DEF Cash!MonthLength
<1>6. Cash!MonthsLater(a, m - MonthOf(a)) = FirstDay(m) + (IF d < Cash!MonthLength(m) THEN d ELSE Cash!MonthLength(m)) - 1
  BY <1>3, CashCalendar DEF Cash!MonthsLater
<1> HIDE DEF m, d
<1>7. Cash!DayOfMonth(e) = d \/ (e = LastDay(m) /\ Cash!DayOfMonth(e) < d)
  BY DEF m, d
<1>8. e = Cash!MonthsLater(a, m - MonthOf(a))
  BY <1>1, <1>2, <1>4, <1>5, <1>6, <1>7 DEF LastDay
<1> QED  BY <1>8 DEF m

\* As many values as arguments.
LEMMA SameCount ==
  ASSUME NEW S, IsFiniteSet(S), NEW f, \A x, y \in S : f[x] = f[y] => x = y
  PROVE  Cardinality({f[x] : x \in S}) = Cardinality(S)
<1> DEFINE T == {f[x] : x \in S}
           h == [x \in S |-> 1]
           g == [y \in T |-> 1]
<1>1. \A x \in S : h[x] \in Int /\ g[f[x]] = h[x]
  OBVIOUS
<1>2. (\A x \in S : h[x] = 1) /\ (\A y \in T : g[y] = 1)
  OBVIOUS
<1> HIDE DEF h, g
<1>3. IsFiniteSet(T) /\ SumFunctionOnSet(g, T) = SumFunctionOnSet(h, S)
  BY <1>1, SumImages
<1> HIDE DEF T
<1>4. SumFunctionOnSet(h, S) = 1 * Cardinality(S) /\ SumFunctionOnSet(g, T) = 1 * Cardinality(T)
  BY <1>2, <1>3, SumEqual
<1>5. Cardinality(S) \in Nat /\ Cardinality(T) \in Nat
  BY <1>3, FS_CardinalityType
<1> QED  BY <1>3, <1>4, <1>5 DEF T

\* The days of a monthly or quarterly flow in week w, and the numbers of its occurrences there.
DaysIn(f, cfg, w) ==
  {d \in FlowDays(f, cfg) : WeekOf(d, cfg.window) = w /\ f.start <= w /\ (f.end = None \/ w <= f.end)}
LastWeek(f, cfg) == Cash!Lower(IF f.end = None THEN cfg.weeks ELSE f.end, cfg.weeks)
DayNumber(f, n) == Cash!MonthsLater(f.anchor, Cash!Step(f) * n)
NumbersIn(f, cfg, w) ==
  {n \in Cash!MonthlyWeeks(f, cfg.window, LastWeek(f, cfg)) : WeekOf(DayNumber(f, n), cfg.window) = w}
Windowed(cfg) == cfg.weeks \in Nat \ {0} /\ cfg.window \in Int \cup {None}
ByMonth(f, cfg) ==
  /\ f \in Flows /\ Windowed(cfg) /\ f.anchor # None /\ cfg.window # None
  /\ f.recurrence \in {"monthly", "quarterly"}

\* What is known of a flow that recurs by month.
LEMMA ByMonthIs ==
  ASSUME NEW f, NEW cfg, ByMonth(f, cfg)
  PROVE  /\ f.anchor \in Int /\ cfg.window \in Int /\ cfg.weeks \in Nat \ {0}
         /\ f.start \in Nat \ {0} /\ f.amount \in Nat /\ Cash!Step(f) \in {1, 3}
         /\ f.end = None \/ f.end \in Nat \ {0}
         /\ LastWeek(f, cfg) \in Nat \ {0}
         /\ \A w \in 1..cfg.weeks : w <= LastWeek(f, cfg) <=> (f.end = None \/ w <= f.end)
<1>1. f.anchor \in Int /\ cfg.window \in Int /\ cfg.weeks \in Nat \ {0}
  BY DEF ByMonth, Windowed, Flows
<1>2. f.start \in Nat \ {0} /\ f.amount \in Nat
  BY DEF ByMonth, Flows
<1>3. f.end = None \/ f.end \in Nat \ {0}
  BY DEF ByMonth, Flows
<1>4. Cash!Step(f) \in {1, 3}
  BY DEF Cash!Step
<1>5. CASE f.end = None
  <2>1. LastWeek(f, cfg) = cfg.weeks
    BY <1>1, <1>5 DEF LastWeek, Cash!Lower
  <2> QED  BY <1>1, <1>2, <1>3, <1>4, <1>5, <2>1
<1>6. CASE f.end # None
  <2>1. f.end \in Nat \ {0} /\ LastWeek(f, cfg) = IF f.end < cfg.weeks THEN f.end ELSE cfg.weeks
    BY <1>3, <1>6 DEF LastWeek, Cash!Lower
  <2> QED  BY <1>1, <1>2, <1>3, <1>4, <1>6, <2>1
<1> QED  BY <1>5, <1>6

\* A day is in the week of a window that begins within seven days before it.
LEMMA WeekIs ==
  ASSUME NEW d \in Int, NEW s \in Int, NEW w \in Int
  PROVE  /\ WeekOf(d, s) \in Int
         /\ WeekOf(d, s) = w <=> 7 * (w - 1) <= d - s /\ d - s < 7 * w
BY DEF WeekOf

\* The scan for a flow's weeks is long enough, wherever it begins.
LEMMA ScanReaches ==
  ASSUME NEW f, NEW cfg, ByMonth(f, cfg), NEW d \in Int, NEW n \in Int,
         d >= f.anchor, d >= cfg.window, MonthOf(d) - MonthOf(f.anchor) = Cash!Step(f) * n,
         WeekOf(d, cfg.window) <= LastWeek(f, cfg)
  PROVE  LET from == Cash!Higher(0, (MonthOf(cfg.window) - MonthOf(f.anchor)) \div Cash!Step(f))
         IN  from \in Int /\ n \in from..(from + LastWeek(f, cfg) \div 4 + 2)
<1>1. /\ f.anchor \in Int /\ cfg.window \in Int /\ Cash!Step(f) \in {1, 3} /\ LastWeek(f, cfg) \in Nat \ {0}
  BY ByMonthIs
<1>2. PICK step \in {1, 3}, last \in Nat \ {0}, a \in Int, b \in Int, m \in Int :
        /\ step = Cash!Step(f) /\ last = LastWeek(f, cfg)
        /\ a = MonthOf(f.anchor) /\ b = MonthOf(cfg.window) /\ m = MonthOf(d)
  BY <1>1, DayInMonth
<1>3. a <= m /\ b <= m
  BY <1>1, <1>2, MonthsFollow
<1>4. 4 * (m - b - 1) < last
  <2>1. CASE m <= b
    BY <1>2, <2>1
  <2>2. CASE m > b
    <3>1. FirstDay(b + 1) \in Int /\ cfg.window < FirstDay(b + 1)
      <4>1. FirstDay(b + 1) \in Int
        BY <1>2, MonthLasts
      <4>2. cfg.window <= LastDay(b)
        BY <1>1, <1>2, DayInMonth
      <4> QED  BY <1>1, <4>1, <4>2 DEF LastDay
    <3>2. FirstDay(m) \in Int /\ FirstDay(m) <= d
      BY <1>2, DayInMonth
    <3>3. FirstDay(b + 1) + 28 * (m - (b + 1)) <= FirstDay(m)
      BY <1>2, <2>2, MonthsInOrder
    <3>4. d - cfg.window < 7 * last
      BY <1>1, <1>2, WeekIs DEF WeekOf
    <3> QED  BY <1>1, <1>2, <3>1, <3>2, <3>3, <3>4
  <2> QED  BY <1>2, <2>1, <2>2
<1>5. PICK r \in Int : r = last \div 4 /\ 4 * r <= last /\ last < 4 * r + 4
  BY <1>2
<1>6. m - b <= r + 1
  BY <1>2, <1>4, <1>5
<1>7. m - a = step * n
  BY <1>2
<1>8. PICK q \in Int : q = (b - a) \div step /\ step * q <= b - a /\ b - a < step * q + step
  BY <1>2, Division
<1>9. PICK from \in Int : from = Cash!Higher(0, q) /\ from >= 0 /\ from >= q /\ (from = 0 \/ from = q)
  BY <1>8 DEF Cash!Higher
<1>10. n \in from..(from + r + 2)
  <2>1. CASE step = 1
    BY <1>2, <1>3, <1>5, <1>6, <1>7, <1>8, <1>9, <2>1
  <2>2. CASE step = 3
    BY <1>2, <1>3, <1>5, <1>6, <1>7, <1>8, <1>9, <2>2
  <2> QED  BY <1>2, <2>1, <2>2
<1> QED  BY <1>2, <1>5, <1>8, <1>9, <1>10

\* The occurrences of a flow in a week are as many as its days there.
LEMMA CountedOnce ==
  ASSUME NEW f, NEW cfg, ByMonth(f, cfg), NEW w \in 1..cfg.weeks
  PROVE  /\ Cardinality(NumbersIn(f, cfg, w)) = Cardinality(DaysIn(f, cfg, w))
         /\ Cardinality(NumbersIn(f, cfg, w)) \in Nat
<1> DEFINE N == NumbersIn(f, cfg, w)
           on == [n \in Int |-> DayNumber(f, n)]
           before == MonthOf(cfg.window) - MonthOf(f.anchor)
           from == Cash!Higher(0, before \div Cash!Step(f))
<1>1. /\ f.anchor \in Int /\ cfg.window \in Int /\ cfg.weeks \in Nat \ {0}
      /\ f.start \in Nat \ {0} /\ Cash!Step(f) \in {1, 3} /\ LastWeek(f, cfg) \in Nat \ {0}
      /\ w \in Int /\ (w <= LastWeek(f, cfg) <=> (f.end = None \/ w <= f.end))
  BY ByMonthIs
<1>2. MonthOf(f.anchor) \in Int /\ MonthOf(cfg.window) \in Int
  BY <1>1, DayInMonth
<1>3. from \in Int /\ from >= 0 /\ LastWeek(f, cfg) \div 4 \in Nat
  BY <1>1, <1>2 DEF Cash!Higher
<1>4. \A n \in Int : Cash!Step(f) * n \in Int /\ (n = 0 => Cash!Step(f) * n = 0)
  BY <1>1
<1>5. \A n \in Int : /\ DayNumber(f, n) \in Int /\ MonthOf(DayNumber(f, n)) = MonthOf(f.anchor) + Cash!Step(f) * n
                    /\ (n = 0 => DayNumber(f, n) = f.anchor)
                    /\ \/ Cash!DayOfMonth(DayNumber(f, n)) = Cash!DayOfMonth(f.anchor)
                       \/ /\ DayNumber(f, n) = LastDay(MonthOf(f.anchor) + Cash!Step(f) * n)
                          /\ Cash!DayOfMonth(DayNumber(f, n)) < Cash!DayOfMonth(f.anchor)
  BY <1>1, <1>4, Occurrence DEF DayNumber
<1>6. \A n : n \in N <=> /\ n \in from..(from + LastWeek(f, cfg) \div 4 + 2)
                        /\ f.start <= WeekOf(DayNumber(f, n), cfg.window)
                        /\ WeekOf(DayNumber(f, n), cfg.window) <= LastWeek(f, cfg)
                        /\ WeekOf(DayNumber(f, n), cfg.window) = w
  BY CashCalendar DEF NumbersIn, Cash!MonthlyWeeks, DayNumber
<1> HIDE DEF N, from
<1>7. N \subseteq Int /\ \A n \in N : n >= 0 /\ f.start <= w /\ w <= LastWeek(f, cfg) /\ WeekOf(DayNumber(f, n), cfg.window) = w
  BY <1>3, <1>6
<1>8. ASSUME NEW n \in N
      PROVE  on[n] \in DaysIn(f, cfg, w)
  <2>1. PICK d \in Int : d = on[n] /\ d = DayNumber(f, n)
    BY <1>5, <1>7
  <2>2. n \in Int /\ n >= 0 /\ f.start <= w /\ w <= LastWeek(f, cfg) /\ WeekOf(d, cfg.window) = w
    BY <1>7, <2>1
  <2>3. cfg.window <= d /\ d <= cfg.window + 7 * cfg.weeks - 1
    BY <1>1, <2>2, WeekIs
  <2>4. d >= f.anchor
    <3>1. CASE n = 0
      BY <1>1, <1>5, <2>1, <2>2, <3>1
    <3>2. CASE n > 0
      <4>1. MonthOf(f.anchor) < MonthOf(d)
        BY <1>1, <1>2, <1>5, <2>1, <2>2, <3>2
      <4>2. ~(d <= f.anchor)
        <5>1. d <= f.anchor => MonthOf(d) <= MonthOf(f.anchor)
          BY <1>1, <2>1, MonthsFollow
        <5>2. MonthOf(d) \in Int
          BY <2>1, DayInMonth
        <5> QED  BY <1>2, <4>1, <5>1, <5>2
      <4> QED  BY <1>1, <2>1, <4>2
    <3> QED  BY <2>2, <3>1, <3>2
  <2>5. (MonthOf(d) - MonthOf(f.anchor)) % Cash!Step(f) = 0
    <3>1. MonthOf(d) - MonthOf(f.anchor) = Cash!Step(f) * n
      BY <1>2, <1>4, <1>5, <2>1, <2>2
    <3>2. (Cash!Step(f) * n) % Cash!Step(f) = 0
      BY <1>1, <2>2
    <3> QED  BY <3>1, <3>2
  <2>6. Cash!DayOfMonth(d) = Cash!DayOfMonth(f.anchor)
        \/ (d = LastDay(MonthOf(d)) /\ Cash!DayOfMonth(d) < Cash!DayOfMonth(f.anchor))
    BY <1>5, <2>1, <2>2
  <2>7. d \in FlowDays(f, cfg)
    BY <1>1, <2>1, <2>3, <2>4, <2>5, <2>6 DEF FlowDays
  <2> QED  BY <1>1, <2>1, <2>2, <2>7 DEF DaysIn
<1>9. ASSUME NEW d \in DaysIn(f, cfg, w)
      PROVE  \E n \in N : on[n] = d
  <2>1. d \in FlowDays(f, cfg) /\ WeekOf(d, cfg.window) = w /\ f.start <= w /\ w <= LastWeek(f, cfg)
    BY <1>1 DEF DaysIn
  <2>2. /\ d \in Int /\ d >= cfg.window /\ d >= f.anchor /\ (MonthOf(d) - MonthOf(f.anchor)) % Cash!Step(f) = 0
        /\ \/ Cash!DayOfMonth(d) = Cash!DayOfMonth(f.anchor)
           \/ d = LastDay(MonthOf(d)) /\ Cash!DayOfMonth(d) < Cash!DayOfMonth(f.anchor)
    BY <1>1, <2>1 DEF FlowDays
  <2>3. d = Cash!MonthsLater(f.anchor, MonthOf(d) - MonthOf(f.anchor))
    BY <1>1, <2>2, OccursOn
  <2>4. PICK n \in Int : MonthOf(d) - MonthOf(f.anchor) = Cash!Step(f) * n
    <3>1. MonthOf(d) - MonthOf(f.anchor) \in Int
      BY <1>2, <2>2, DayInMonth
    <3>2. PICK x \in Int : x = MonthOf(d) - MonthOf(f.anchor)
      BY <3>1
    <3>3. CASE Cash!Step(f) = 1
      BY <3>2, <3>3
    <3>4. CASE Cash!Step(f) = 3
      <4>1. x % 3 = 0
        BY <2>2, <3>2, <3>4
      <4>2. x = 3 * (x \div 3) /\ x \div 3 \in Int
        BY <3>2, <4>1
      <4> QED  BY <3>2, <3>4, <4>2
    <3> QED  BY <1>1, <3>3, <3>4
  <2>5. on[n] = d /\ DayNumber(f, n) = d
    BY <2>3, <2>4 DEF DayNumber
  <2>6. n \in from..(from + LastWeek(f, cfg) \div 4 + 2)
    BY <2>1, <2>2, <2>4, ScanReaches DEF from
  <2>7. n \in N
    BY <1>6, <2>1, <2>5, <2>6
  <2> QED  BY <2>5, <2>7
<1>10. \A x, y \in N : on[x] = on[y] => x = y
  <2> SUFFICES ASSUME NEW x \in N, NEW y \in N, on[x] = on[y] PROVE x = y
    OBVIOUS
  <2>1. x \in Int /\ y \in Int /\ DayNumber(f, x) = DayNumber(f, y)
    BY <1>7
  <2>2. Cash!Step(f) * x = Cash!Step(f) * y
    <3>1. /\ MonthOf(DayNumber(f, x)) = MonthOf(f.anchor) + Cash!Step(f) * x
          /\ MonthOf(DayNumber(f, y)) = MonthOf(f.anchor) + Cash!Step(f) * y
      BY <1>5, <2>1
    <3>2. Cash!Step(f) * x \in Int /\ Cash!Step(f) * y \in Int
      BY <1>4, <2>1
    <3>3. MonthOf(f.anchor) + Cash!Step(f) * x = MonthOf(f.anchor) + Cash!Step(f) * y
      BY <2>1, <3>1
    <3> QED  BY <1>2, <3>2, <3>3
  <2> QED  BY <1>1, <2>1, <2>2
<1>11. IsFiniteSet(N)
  <2>1. N \subseteq from..(from + LastWeek(f, cfg) \div 4 + 2)
    BY <1>6
  <2>2. IsFiniteSet(from..(from + LastWeek(f, cfg) \div 4 + 2))
    BY <1>3, FS_Interval
  <2> QED  BY <2>1, <2>2, FS_Subset
<1>12. {on[n] : n \in N} = DaysIn(f, cfg, w)
  BY <1>8, <1>9
<1> HIDE DEF on
<1> QED  BY <1>10, <1>11, <1>12, SameCount, FS_CardinalityType DEF N

\* What a flow comes to in a week, by its recurrence.
LEMMA ExpandedIs ==
  ASSUME NEW f, NEW cfg, NEW w \in 1..cfg.weeks
  PROVE  /\ f.recurrence = "once" => Cash!Expanded(f, cfg)[w] = f.amount * (IF w = f.start THEN 1 ELSE 0)
         /\ f.recurrence = "weekly" =>
              Cash!Expanded(f, cfg)[w] = f.amount * (IF f.start <= w /\ w <= (IF f.end = None THEN cfg.weeks ELSE f.end) THEN 1 ELSE 0)
         /\ f.recurrence = "biweekly" =>
              Cash!Expanded(f, cfg)[w] = f.amount * (IF f.start <= w /\ w <= (IF f.end = None THEN cfg.weeks ELSE f.end)
                                                        /\ (w - f.start) % 2 = 0 THEN 1 ELSE 0)
         /\ ByMonth(f, cfg) => Cash!Expanded(f, cfg)[w] = f.amount * Cardinality(NumbersIn(f, cfg, w))
<1>1. ASSUME f.recurrence = "once"
      PROVE  Cash!Expanded(f, cfg)[w] = f.amount * (IF w = f.start THEN 1 ELSE 0)
  BY <1>1 DEF Cash!Expanded, Cash!Weeks
<1>2. ASSUME f.recurrence = "weekly"
      PROVE  Cash!Expanded(f, cfg)[w] = f.amount * (IF f.start <= w /\ w <= (IF f.end = None THEN cfg.weeks ELSE f.end) THEN 1 ELSE 0)
  BY <1>2 DEF Cash!Expanded, Cash!Weeks
<1>3. ASSUME f.recurrence = "biweekly"
      PROVE  Cash!Expanded(f, cfg)[w] = f.amount * (IF f.start <= w /\ w <= (IF f.end = None THEN cfg.weeks ELSE f.end)
                                                        /\ (w - f.start) % 2 = 0 THEN 1 ELSE 0)
  BY <1>3 DEF Cash!Expanded, Cash!Weeks
<1>4. ASSUME ByMonth(f, cfg)
      PROVE  Cash!Expanded(f, cfg)[w] = f.amount * Cardinality(NumbersIn(f, cfg, w))
  <2> DEFINE dated == [n \in Cash!MonthlyWeeks(f, cfg.window, LastWeek(f, cfg)) |-> Cash!WeekOf(DayNumber(f, n), cfg.window)]
  <2>1. f.recurrence \in {"monthly", "quarterly"} /\ f.anchor # None
    BY <1>4 DEF ByMonth
  <2>2. Cash!Expanded(f, cfg)[w] = f.amount * Cardinality({n \in DOMAIN dated : dated[n] = w})
    <3> DEFINE end == IF f.end = None THEN cfg.weeks ELSE f.end
               weeks == Cash!MonthlyWeeks(f, cfg.window, Cash!Lower(end, cfg.weeks))
               all == IF f.anchor = None THEN <<>> ELSE [n \in weeks |-> Cash!WeekOf(Cash!MonthsLater(f.anchor, Cash!Step(f) * n), cfg.window)]
    <3>1. Cash!Expanded(f, cfg)[w] = f.amount * Cash!Cardinality({n \in DOMAIN all : all[n] = w})
      BY <2>1 DEF Cash!Expanded, Cash!Weeks
    <3>2. all = dated
      BY <2>1 DEF LastWeek, DayNumber
    <3> HIDE DEF all, dated
    <3> QED  BY <3>1, <3>2, CashLibrary
  <2>3. {n \in DOMAIN dated : dated[n] = w} = NumbersIn(f, cfg, w)
    BY CashCalendar DEF NumbersIn
  <2> QED  BY <2>2, <2>3
<1> QED  BY <1>1, <1>2, <1>3, <1>4

\* A flow that fits, in a configuration that can place it.
Placeable(f, cfg) == f \in Flows /\ Windowed(cfg) /\ Cash!FlowFits(f) /\ (f.anchor # None => cfg.window # None)

\* What is known of a flow that a configuration accepts.
LEMMA PlaceableIs ==
  ASSUME NEW f, NEW cfg, Placeable(f, cfg)
  PROVE  /\ f.recurrence \in {"once", "weekly", "biweekly"} <=> f.anchor = None
         /\ f.anchor # None => ByMonth(f, cfg)
         /\ f.recurrence \in {"once", "weekly", "biweekly", "monthly", "quarterly"}
         /\ f.amount \in Nat /\ f.start \in Nat \ {0}
         /\ f.end \in (Nat \ {0}) \cup {None} /\ cfg.weeks \in Nat \ {0}
BY DEF Placeable, Cash!FlowFits, ByMonth, Flows, Windowed

\* What a flow comes to in a week is a whole amount.
LEMMA ExpandedInt ==
  ASSUME NEW f, NEW cfg, Placeable(f, cfg), NEW w \in 1..cfg.weeks
  PROVE  Cash!Expanded(f, cfg)[w] \in Int
<1>1. CASE f.anchor = None
  <2>1. PICK a \in Int : a = f.amount
    BY PlaceableIs
  <2>2. a * 1 \in Int /\ a * 0 \in Int
    BY <2>1
  <2>3. \E n \in {0, 1} : Cash!Expanded(f, cfg)[w] = f.amount * n
    BY <1>1, PlaceableIs, ExpandedIs
  <2> QED  BY <2>1, <2>2, <2>3
<1>2. CASE f.anchor # None
  <2>1. PICK a \in Int, n \in Int : a = f.amount /\ n = Cardinality(NumbersIn(f, cfg, w))
    BY <1>2, PlaceableIs, CountedOnce
  <2>2. Cash!Expanded(f, cfg)[w] = a * n
    BY <1>2, <2>1, PlaceableIs, ExpandedIs
  <2> QED  BY <2>1, <2>2, ProductsInt
<1> QED  BY <1>1, <1>2

\* The receipts and the disbursements of a week are the sums of its flows.
CashRuns(W, o, r, d) == CHOOSE g : g = [w \in 1..W |-> (IF w = 1 THEN o ELSE g[w - 1]) + r[w] - d[w]]
Placed(cfg, flows, w) == [f \in flows |-> Cash!Expanded(f, cfg)[w]]
\* A forecast is the sum of its flows, week by week, and the cash they leave.
LEMMA ForecastIs ==
  ASSUME NEW cfg
  PROVE  /\ Cash!Forecast13(cfg).receipts = [w \in 1..cfg.weeks |-> SumFunctionOnSet(Placed(cfg, cfg.receipts, w), cfg.receipts)]
         /\ Cash!Forecast13(cfg).disbursements = [w \in 1..cfg.weeks |-> SumFunctionOnSet(Placed(cfg, cfg.disbursements, w), cfg.disbursements)]
         /\ LET r == Cash!Forecast13(cfg).receipts
                d == Cash!Forecast13(cfg).disbursements
            IN  Cash!Forecast13(cfg).ending = [w \in 1..cfg.weeks |-> CashRuns(cfg.weeks, cfg.opening, r, d)[w]]
<1> DEFINE placed == [f \in cfg.receipts \cup cfg.disbursements |-> Cash!Expanded(f, cfg)]
           sums(flows) == [w \in 1..cfg.weeks |-> Cash!SumFunctionOnSet([f \in flows |-> placed[f][w]], flows)]
           ending(r, d) == CashRuns(cfg.weeks, cfg.opening, r, d)
<1>1. Cash!Forecast13(cfg) = [receipts |-> sums(cfg.receipts), disbursements |-> sums(cfg.disbursements),
                              ending |-> [w \in 1..cfg.weeks |-> ending(sums(cfg.receipts), sums(cfg.disbursements))[w]]]
  BY DEF Cash!Forecast13, Cash!Weeks, Cash!Add, CashRuns
<1>2. ASSUME NEW flows \in SUBSET (cfg.receipts \cup cfg.disbursements)
      PROVE  sums(flows) = [w \in 1..cfg.weeks |-> SumFunctionOnSet(Placed(cfg, flows, w), flows)]
  <2>1. ASSUME NEW w PROVE [f \in flows |-> placed[f][w]] = Placed(cfg, flows, w)
    BY DEF Placed
  <2>2. ASSUME NEW w PROVE Cash!SumFunctionOnSet([f \in flows |-> placed[f][w]], flows) = SumFunctionOnSet(Placed(cfg, flows, w), flows)
    <3> HIDE DEF placed
    <3> QED  BY <2>1, CashLibrary
  <2> HIDE DEF placed
  <2> QED  BY <2>2
<1>3. PICK r, d : r = sums(cfg.receipts) /\ d = sums(cfg.disbursements)
  OBVIOUS
<1>4. /\ Cash!Forecast13(cfg).receipts = r /\ Cash!Forecast13(cfg).disbursements = d
      /\ Cash!Forecast13(cfg).ending = [w \in 1..cfg.weeks |-> ending(r, d)[w]]
  <2> HIDE DEF sums, ending
  <2> QED  BY <1>1, <1>3
<1>5. /\ r = [w \in 1..cfg.weeks |-> SumFunctionOnSet(Placed(cfg, cfg.receipts, w), cfg.receipts)]
      /\ d = [w \in 1..cfg.weeks |-> SumFunctionOnSet(Placed(cfg, cfg.disbursements, w), cfg.disbursements)]
  <2> HIDE DEF sums
  <2> QED  BY <1>2, <1>3
<1> HIDE DEF sums
<1> QED  BY <1>4, <1>5

\* The running cash is the opening cash and the flows to date.
LEMMA CashRolls ==
  ASSUME NEW W \in Nat \ {0}, NEW o \in Int, NEW r, NEW d, \A w \in 1..W : r[w] \in Int /\ d[w] \in Int,
         NEW e, e = CashRuns(W, o, r, d)
  PROVE  \A w \in 1..W : /\ SumFunctionOnSet(r, 1..w) \in Int /\ SumFunctionOnSet(d, 1..w) \in Int
                         /\ e[w] = o + SumFunctionOnSet(r, 1..w) - SumFunctionOnSet(d, 1..w)
<1>1. ASSUME NEW g
      PROVE  (g = [w \in 1..W |-> (IF w = 1 THEN o ELSE g[w - 1]) + r[w] - d[w]]) <=> Rolls(g, 1..W, o, r, d)
  <2> DEFINE one == [w \in 1..W |-> (IF w = 1 THEN o ELSE g[w - 1]) + r[w] - d[w]]
             two == [w \in 1..W |-> (IF w - 1 \in 1..W THEN g[w - 1] ELSE o) + r[w] - d[w]]
  <2>1. \A w \in 1..W : w = 1 <=> w - 1 \notin 1..W
    OBVIOUS
  <2>2. \A w \in 1..W : (IF w = 1 THEN o ELSE g[w - 1]) = (IF w - 1 \in 1..W THEN g[w - 1] ELSE o)
    BY <2>1
  <2>3. \A w \in 1..W : (IF w = 1 THEN o ELSE g[w - 1]) + r[w] - d[w] = (IF w - 1 \in 1..W THEN g[w - 1] ELSE o) + r[w] - d[w]
    BY <2>2
  <2>4. one = two
    BY <2>3
  <2> QED  BY <2>4 DEF Rolls
<1>2. \E g : Rolls(g, 1..W, o, r, d)
  <2>1. PICK a \in Int : a = 1
    OBVIOUS
  <2>2. W \in Int /\ \A w \in a..W : r[w] \in Int /\ d[w] \in Int
    BY <2>1
  <2>3. \E g : Rolls(g, a..W, o, r, d)
    BY <2>2, BalanceExists
  <2> QED  BY <2>1, <2>3
<1>3. Rolls(e, 1..W, o, r, d)
  <2>1. \E g : g = [w \in 1..W |-> (IF w = 1 THEN o ELSE g[w - 1]) + r[w] - d[w]]
    BY <1>1, <1>2
  <2>2. e = [w \in 1..W |-> (IF w = 1 THEN o ELSE e[w - 1]) + r[w] - d[w]]
    BY <2>1 DEF CashRuns
  <2> QED  BY <1>1, <2>2
<1> QED  BY <1>3, BalanceStands

Fits(cfg) ==
  cfg \in Configs /\ IsFiniteSet(cfg.receipts) /\ IsFiniteSet(cfg.disbursements) /\ ~Cash!ConfigRefused(cfg)

\* The flows of a configuration that is accepted are.
LEMMA FlowsFit ==
  ASSUME NEW cfg, Fits(cfg)
  PROVE  /\ \A f \in cfg.receipts \cup cfg.disbursements : Placeable(f, cfg)
         /\ cfg.weeks \in Nat \ {0} /\ cfg.opening \in Int
BY DEF Fits, Configs, Placeable, Windowed, Cash!ConfigRefused

\* What flows come to in a week is a whole amount.
LEMMA PlacedInt ==
  ASSUME NEW cfg, NEW flows, IsFiniteSet(flows), \A f \in flows : Placeable(f, cfg), NEW w \in 1..cfg.weeks
  PROVE  /\ SumFunctionOnSet(Placed(cfg, flows, w), flows) \in Int
         /\ \A f \in flows : Placed(cfg, flows, w)[f] \in Int /\ Placed(cfg, flows, w)[f] = Cash!Expanded(f, cfg)[w]
<1>1. \A f \in flows : Placed(cfg, flows, w)[f] = Cash!Expanded(f, cfg)[w]
  BY DEF Placed
<1>2. \A f \in flows : Placed(cfg, flows, w)[f] \in Int
  BY <1>1, ExpandedInt
<1> QED  BY <1>1, <1>2, SumInt

\* The ending cash of a forecast has moved by its receipts and disbursements.
LEMMA CashEnds ==
  ASSUME NEW cfg, Fits(cfg), NEW F, F = Cash!Forecast13(cfg), NEW W, W = cfg.weeks
  PROVE  /\ \A w \in 1..W : F.receipts[w] \in Int /\ F.disbursements[w] \in Int /\ F.ending[w] \in Int
         /\ F.ending[W] = cfg.opening + SumFunctionOnSet(F.receipts, 1..W) - SumFunctionOnSet(F.disbursements, 1..W)
<1>1. W \in Nat \ {0} /\ cfg.opening \in Int /\ W \in 1..W /\ \A f \in cfg.receipts \cup cfg.disbursements : Placeable(f, cfg)
  BY FlowsFit
<1>2. PICK r, d : r = F.receipts /\ d = F.disbursements
  OBVIOUS
<1>3. \A w \in 1..W : r[w] \in Int /\ d[w] \in Int
  <2>1. /\ r = [w \in 1..cfg.weeks |-> SumFunctionOnSet(Placed(cfg, cfg.receipts, w), cfg.receipts)]
        /\ d = [w \in 1..cfg.weeks |-> SumFunctionOnSet(Placed(cfg, cfg.disbursements, w), cfg.disbursements)]
    BY <1>2, ForecastIs
  <2>2. IsFiniteSet(cfg.receipts) /\ IsFiniteSet(cfg.disbursements)
    BY DEF Fits
  <2>3. \A w \in 1..cfg.weeks : /\ SumFunctionOnSet(Placed(cfg, cfg.receipts, w), cfg.receipts) \in Int
                                /\ SumFunctionOnSet(Placed(cfg, cfg.disbursements, w), cfg.disbursements) \in Int
    BY <1>1, <2>2, PlacedInt
  <2> QED  BY <2>1, <2>3
<1>4. PICK e : e = CashRuns(W, cfg.opening, r, d)
  OBVIOUS
<1>5. \A w \in 1..W : F.ending[w] = e[w]
  <2>1. F.ending = [w \in 1..cfg.weeks |-> CashRuns(cfg.weeks, cfg.opening, F.receipts, F.disbursements)[w]]
    BY ForecastIs
  <2> QED  BY <1>2, <1>4, <2>1
<1>6. \A w \in 1..W : /\ SumFunctionOnSet(r, 1..w) \in Int /\ SumFunctionOnSet(d, 1..w) \in Int
                      /\ e[w] = cfg.opening + SumFunctionOnSet(r, 1..w) - SumFunctionOnSet(d, 1..w)
  BY <1>1, <1>3, <1>4, CashRolls
<1>7. \A w \in 1..W : F.ending[w] = e[w] /\ e[w] \in Int
  BY <1>1, <1>5, <1>6
<1> QED  BY <1>1, <1>2, <1>3, <1>6, <1>7

\* A least element of what is not empty.
LEMMA LeastOf ==
  ASSUME NEW S, IsFiniteSet(S), S # {}, S \subseteq Int
  PROVE  Min(S) \in S /\ \A x \in S : Min(S) <= x
<1> DEFINE T == {R \in SUBSET S : R = {} \/ \E x \in R : \A y \in R : x <= y}
<1>1. ASSUME NEW R \in SUBSET S, \A x \in R : R \ {x} \in T
      PROVE  R \in T
  <2>1. CASE R = {}
    BY <2>1
  <2>2. CASE R # {}
    <3>1. PICK a \in R : TRUE
      BY <2>2
    <3>2. R \ {a} = {} \/ \E x \in R \ {a} : \A y \in R \ {a} : x <= y
      BY <1>1, <3>1
    <3>3. CASE R \ {a} = {}
      BY <3>1, <3>3
    <3>4. ASSUME NEW x \in R \ {a}, \A y \in R \ {a} : x <= y
          PROVE  R \in T
      <4>1. a \in Int /\ x \in Int /\ R \subseteq Int
        BY <3>1, <3>4
      <4>2. CASE a <= x
        <5>1. \A y \in R : a <= y
          BY <3>4, <4>1, <4>2
        <5> QED  BY <3>1, <5>1
      <4>3. CASE ~(a <= x)
        <5>1. \A y \in R : x <= y
          BY <3>4, <4>1, <4>3
        <5> QED  BY <3>4, <5>1
      <4> QED  BY <4>2, <4>3
    <3> QED  BY <3>2, <3>3, <3>4
  <2> QED  BY <2>1, <2>2
<1> HIDE DEF T
<1>2. S \in T
  BY <1>1, EverySubset
<1>3. \E x \in S : \A y \in S : x <= y
  BY <1>2 DEF T
<1> QED  BY <1>3 DEF Min

\* The first breach of the limit is one, and there is none where the lowest cash holds.
LEMMA BreachFound ==
  ASSUME NEW cfg, Fits(cfg), NEW F, F = Cash!Forecast13(cfg), NEW R, R = Cash!Runway(cfg, F), cfg.limit # None
  PROVE  IF R.first_breach = None THEN R.min_cash + cfg.limit >= cfg.buffer
         ELSE /\ F.ending[R.first_breach] + cfg.limit < cfg.buffer
              /\ \A w \in 1..(R.first_breach - 1) : ~(F.ending[w] + cfg.limit < cfg.buffer)
<1> DEFINE W == 1..cfg.weeks
           low == {F.ending[w] : w \in W}
           bad == {w \in W : F.ending[w] + cfg.limit < cfg.buffer}
<1>1. cfg.weeks \in Nat \ {0} /\ cfg.limit \in Int /\ cfg.buffer \in Int /\ \A w \in W : F.ending[w] \in Int
  <2>1. cfg.weeks \in Nat \ {0} /\ \A w \in 1..cfg.weeks : F.ending[w] \in Int
    BY FlowsFit, CashEnds
  <2>2. cfg.limit \in Int /\ cfg.buffer \in Int
    BY DEF Fits, Configs
  <2> QED  BY <2>1, <2>2
<1>2. R.min_cash = Min(low) /\ R.first_breach = IF bad = {} THEN None ELSE Min(bad)
  BY CashLibrary DEF Cash!Runway, Cash!FirstWeek, Cash!Weeks
<1>3. IsFiniteSet(W) /\ 1 \in W /\ W \subseteq Int
  BY <1>1, FS_Interval
<1>4. low # {} /\ low \subseteq Int /\ IsFiniteSet(low)
  BY <1>1, <1>3, FiniteImages
<1>5. IsFiniteSet(bad) /\ bad \subseteq W
  BY <1>3, FS_Subset
<1>6. Min(low) \in low
  BY <1>4, LeastOf
<1>7. CASE bad = {}
  <2>1. R.first_breach = None
    BY <1>2, <1>7
  <2>2. PICK w \in W : Min(low) = F.ending[w]
    BY <1>6
  <2>3. ~(F.ending[w] + cfg.limit < cfg.buffer)
    BY <1>7, <2>2
  <2> QED  BY <1>1, <1>2, <2>1, <2>2, <2>3
<1>8. CASE bad # {}
  <2>1. Min(bad) \in bad /\ \A w \in bad : Min(bad) <= w
    BY <1>3, <1>5, <1>8, LeastOf
  <2>2. R.first_breach = Min(bad) /\ Min(bad) \in Int /\ R.first_breach # None
    BY <1>2, <1>3, <1>5, <1>8, <2>1, StatutesAssumption
  <2>3. PICK b \in W : b = Min(bad) /\ b \in bad /\ b \in Int
    BY <1>3, <2>1, <2>2
  <2>4. \A w \in 1..(b - 1) : w \in W /\ w \notin bad
    BY <1>1, <2>1, <2>3
  <2> HIDE DEF low
  <2> QED  BY <1>1, <2>2, <2>3, <2>4
<1> QED  BY <1>7, <1>8

\* A forecast puts its flows in their weeks, and its runway says where they breach.
LEMMA CashIsPlaced ==
  ASSUME NEW cfg, Fits(cfg),
         answer = [forecast |-> Cash!Forecast13(cfg), runway |-> Cash!Runway(cfg, Cash!Forecast13(cfg))]
  PROVE  CashPlaced(cfg)
<1>1. PICK F : F = Cash!Forecast13(cfg)
  OBVIOUS
<1>2. PICK R : R = Cash!Runway(cfg, F)
  OBVIOUS
<1>3. answer.forecast = F /\ answer.runway = R
  BY <1>1, <1>2
<1>4. ASSUME NEW f \in cfg.receipts \cup cfg.disbursements, f.anchor # None
      PROVE  \A w \in 1..cfg.weeks :
               Cash!Expanded(f, cfg)[w] = f.amount * Cardinality({d \in FlowDays(f, cfg) :
                 WeekOf(d, cfg.window) = w /\ f.start <= w /\ (f.end = None \/ w <= f.end)})
  <2> SUFFICES ASSUME NEW w \in 1..cfg.weeks
               PROVE  Cash!Expanded(f, cfg)[w] = f.amount * Cardinality(DaysIn(f, cfg, w))
    BY DEF DaysIn
  <2>1. ByMonth(f, cfg)
    BY <1>4, FlowsFit, PlaceableIs
  <2>2. Cash!Expanded(f, cfg)[w] = f.amount * Cardinality(NumbersIn(f, cfg, w))
    BY <2>1, ExpandedIs
  <2> QED  BY <2>1, <2>2, CountedOnce
<1>5. /\ \A w \in 1..cfg.weeks : F.receipts[w] \in Int /\ F.disbursements[w] \in Int
      /\ F.ending[cfg.weeks] = cfg.opening + SumFunctionOnSet(F.receipts, 1..cfg.weeks) - SumFunctionOnSet(F.disbursements, 1..cfg.weeks)
  BY <1>1, CashEnds
<1>6. ASSUME NEW c \in {"receipts", "disbursements"}
      PROVE  Add(LAMBDA w : F[c][w], 1..cfg.weeks) = SumFunctionOnSet(F[c], 1..cfg.weeks)
  <2> DEFINE g == [w \in 1..cfg.weeks |-> F[c][w]]
  <2>1. \A w \in 1..cfg.weeks : F[c][w] \in Int /\ g[w] = F[c][w]
    BY <1>5
  <2>2. IsFiniteSet(1..cfg.weeks)
    BY FlowsFit, FS_Interval
  <2>3. Add(LAMBDA w : F[c][w], 1..cfg.weeks) = SumFunctionOnSet(g, 1..cfg.weeks)
    BY DEF Add
  <2> HIDE DEF g
  <2> QED  BY <2>1, <2>2, <2>3, SumSame
<1>7. cfg.limit # None =>
        IF R.first_breach = None THEN R.min_cash + cfg.limit >= cfg.buffer
        ELSE /\ F.ending[R.first_breach] + cfg.limit < cfg.buffer
             /\ \A w \in 1..(R.first_breach - 1) : ~(F.ending[w] + cfg.limit < cfg.buffer)
  BY <1>1, <1>2, BreachFound
<1>8. F.ending[cfg.weeks] = cfg.opening + Add(LAMBDA w : F["receipts"][w], 1..cfg.weeks) - Add(LAMBDA w : F["disbursements"][w], 1..cfg.weeks)
  BY <1>5, <1>6
<1> QED  BY <1>3, <1>4, <1>7, <1>8 DEF CashPlaced

\* The sum over the images of a function, where two arguments share one only if they add nothing.
LEMMA SumMerged ==
  ASSUME NEW S, IsFiniteSet(S), NEW f, NEW g, NEW h,
         \A x \in S : h[x] \in Int /\ g[f[x]] = h[x],
         \A x, y \in S : f[x] = f[y] => x = y \/ h[x] = 0
  PROVE  /\ IsFiniteSet({f[x] : x \in S})
         /\ SumFunctionOnSet(g, {f[x] : x \in S}) = SumFunctionOnSet(h, S)
<1> DEFINE U == {x \in S : h[x] # 0}
           T == {f[x] : x \in S}
           V == {f[x] : x \in U}
<1>1. IsFiniteSet(U) /\ U \in SUBSET S
  BY FS_Subset
<1>2. SumFunctionOnSet(h, S) = SumFunctionOnSet(h, U)
  BY <1>1, SumWithin
<1>3. SumFunctionOnSet(g, V) = SumFunctionOnSet(h, U)
  <2>1. (\A x \in U : h[x] \in Int /\ g[f[x]] = h[x]) /\ (\A x, y \in U : f[x] = f[y] => x = y)
    OBVIOUS
  <2> HIDE DEF U
  <2> QED  BY <1>1, <2>1, SumImages
<1>4. IsFiniteSet(T)
  BY FiniteImages
<1>5. V \in SUBSET T /\ \A y \in T : g[y] \in Int /\ (y \notin V => g[y] = 0)
  OBVIOUS
<1> HIDE DEF T, V
<1>6. SumFunctionOnSet(g, T) = SumFunctionOnSet(g, V)
  BY <1>4, <1>5, SumWithin
<1> QED  BY <1>2, <1>3, <1>4, <1>6 DEF T

\* Where a flow falls depends on the window and the weeks only.
LEMMA SameWeeks ==
  ASSUME NEW f, NEW cfg, NEW new, Placeable(f, cfg), Placeable(f, new),
         new.weeks = cfg.weeks, new.window = cfg.window, NEW w \in 1..cfg.weeks
  PROVE  Cash!Expanded(f, new)[w] = Cash!Expanded(f, cfg)[w]
<1>1. CASE f.anchor = None
  BY <1>1, PlaceableIs, ExpandedIs
<1>2. CASE f.anchor # None
  <2>1. NumbersIn(f, new, w) = NumbersIn(f, cfg, w)
    <3>1. LastWeek(f, new) = LastWeek(f, cfg)
      BY DEF LastWeek
    <3> QED  BY <3>1 DEF NumbersIn
  <2>2. Cash!Expanded(f, new)[w] = f.amount * Cardinality(NumbersIn(f, new, w))
    BY <1>2, PlaceableIs, ExpandedIs
  <2>3. Cash!Expanded(f, cfg)[w] = f.amount * Cardinality(NumbersIn(f, cfg, w))
    BY <1>2, PlaceableIs, ExpandedIs
  <2> QED  BY <2>1, <2>2, <2>3
<1> QED  BY <1>1, <1>2

\* What a change makes of a flow that is not placed by its days.
LEMMA DelayedIs ==
  ASSUME NEW f \in Flows, Cash!FlowFits(f), f.anchor = None, NEW c \in Changes
  PROVE  /\ Cash!Delayed(f, c) \in Flows /\ Cash!FlowFits(Cash!Delayed(f, c))
         /\ Cash!Delayed(f, c).amount = f.amount * c.factor /\ Cash!Delayed(f, c).start = f.start + c.delay
         /\ Cash!Delayed(f, c).end = (IF f.end = None THEN None ELSE f.end + c.delay)
         /\ Cash!Delayed(f, c).anchor = None /\ Cash!Delayed(f, c).recurrence = f.recurrence
         /\ Cash!Delayed(f, c).name = f.name
<1>1. /\ f.amount \in Nat /\ f.start \in Nat \ {0} /\ f.end \in (Nat \ {0}) \cup {None} /\ f.name \in STRING
      /\ f.recurrence \in {"once", "weekly", "biweekly", "monthly", "quarterly"}
      /\ c.factor \in Nat /\ c.delay \in Nat
  BY DEF Flows, Changes
<1>2. f.amount * c.factor \in Nat
  BY <1>1
<1>3. f.start + c.delay \in Nat \ {0} /\ (f.end # None => f.end + c.delay \in Nat \ {0} /\ f.end \in Nat)
  BY <1>1
<1>4. PICK e : e = IF f.end = None THEN None ELSE f.end + c.delay
  OBVIOUS
<1>5. e \in (Nat \ {0}) \cup {None}
  BY <1>3, <1>4
<1>6. Cash!Delayed(f, c) = [f EXCEPT !.amount = f.amount * c.factor, !.start = f.start + c.delay, !.end = e, !.anchor = None]
  BY <1>4 DEF Cash!Delayed, Flows
<1>7. Cash!Delayed(f, c) =
        [name |-> f.name, amount |-> f.amount * c.factor, recurrence |-> f.recurrence,
         start |-> f.start + c.delay, end |-> e, anchor |-> None]
  BY <1>6 DEF Flows
<1>8. Cash!Delayed(f, c) \in Flows
  BY <1>1, <1>2, <1>3, <1>5, <1>7 DEF Flows
<1>9. (e = None \/ e >= f.start + c.delay) /\ f.recurrence \notin {"monthly", "quarterly"}
  <2>1. f.end = None \/ f.end >= f.start
    BY DEF Cash!FlowFits
  <2>2. f.recurrence \notin {"monthly", "quarterly"}
    BY DEF Cash!FlowFits
  <2> QED  BY <1>1, <1>4, <2>1, <2>2
<1>10. Cash!FlowFits(Cash!Delayed(f, c))
  BY <1>7, <1>9 DEF Cash!FlowFits
<1> QED  BY <1>4, <1>7, <1>8, <1>10

\* A delayed flow is the flow itself that many weeks earlier, scaled.
LEMMA DelayShifts ==
  ASSUME NEW f, NEW cfg, Placeable(f, cfg), f.anchor = None, NEW c \in Changes, NEW w \in 1..cfg.weeks
  PROVE  /\ Placeable(Cash!Delayed(f, c), cfg)
         /\ Cash!Expanded(Cash!Delayed(f, c), cfg)[w] = IF w > c.delay THEN c.factor * Cash!Expanded(f, cfg)[w - c.delay] ELSE 0
<1>1. PICK d : d = Cash!Delayed(f, c)
  OBVIOUS
<1>2. /\ d \in Flows /\ Cash!FlowFits(d) /\ d.amount = f.amount * c.factor /\ d.start = f.start + c.delay
      /\ d.end = (IF f.end = None THEN None ELSE f.end + c.delay)
      /\ d.anchor = None /\ d.recurrence = f.recurrence
  BY <1>1, DelayedIs DEF Placeable
<1>3. Placeable(d, cfg)
  BY <1>2 DEF Placeable
<1>4. /\ f.recurrence \in {"once", "weekly", "biweekly"}
      /\ f.amount \in Nat /\ f.start \in Nat \ {0} /\ cfg.weeks \in Nat \ {0} /\ c.delay \in Nat /\ c.factor \in Nat
      /\ f.end # None => f.end \in Nat /\ f.end + c.delay # None
  <2>1. c.delay \in Nat /\ c.factor \in Nat
    BY DEF Changes
  <2>2. f.end # None => f.end \in Nat
    BY PlaceableIs
  <2>3. f.end # None => f.end + c.delay # None
    BY <2>1, <2>2, StatutesAssumption
  <2> QED  BY <2>1, <2>2, <2>3, PlaceableIs
<1>5. PICK a \in Nat, k \in Nat : a = f.amount /\ k = c.factor /\ d.amount = a * k
  BY <1>2, <1>4
<1>6. a * k \in Int /\ (a * k) * 1 = k * (a * 1) /\ (a * k) * 0 = 0 /\ k * (a * 0) = 0
  BY <1>5
<1> DEFINE hits(g, v) ==
      IF f.recurrence = "once" THEN IF v = g.start THEN 1 ELSE 0
      ELSE IF f.recurrence = "weekly" THEN IF g.start <= v /\ v <= (IF g.end = None THEN cfg.weeks ELSE g.end) THEN 1 ELSE 0
      ELSE IF g.start <= v /\ v <= (IF g.end = None THEN cfg.weeks ELSE g.end) /\ (v - g.start) % 2 = 0 THEN 1 ELSE 0
<1>7. \A v \in 1..cfg.weeks : Cash!Expanded(f, cfg)[v] = a * hits(f, v)
  BY <1>4, <1>5, ExpandedIs
<1>8. Cash!Expanded(d, cfg)[w] = (a * k) * hits(d, w)
  <2>1. PICK p : p = a * k
    OBVIOUS
  <2>2. d.amount = p /\ d.recurrence = f.recurrence
    BY <1>2, <1>5, <2>1
  <2>3. Cash!Expanded(d, cfg)[w] = p * hits(d, w)
    <3>1. CASE f.recurrence = "once"
      BY <2>2, <3>1, ExpandedIs
    <3>2. CASE f.recurrence = "weekly"
      BY <2>2, <3>2, ExpandedIs
    <3>3. CASE f.recurrence = "biweekly"
      BY <2>2, <3>3, ExpandedIs
    <3> QED  BY <1>4, <3>1, <3>2, <3>3
  <2> QED  BY <2>1, <2>3
<1>9. CASE w > c.delay
  <2>1. w - c.delay \in 1..cfg.weeks
    BY <1>4, <1>9
  <2>2. hits(d, w) = hits(f, w - c.delay)
    <3>1. w = d.start <=> w - c.delay = f.start
      BY <1>2, <1>4
    <3>2. d.start <= w <=> f.start <= w - c.delay
      BY <1>2, <1>4
    <3>3. w <= (IF d.end = None THEN cfg.weeks ELSE d.end) <=> w - c.delay <= (IF f.end = None THEN cfg.weeks ELSE f.end)
      BY <1>2, <1>4, <2>1
    <3>4. w - d.start = (w - c.delay) - f.start
      BY <1>2, <1>4
    <3> QED  BY <3>1, <3>2, <3>3, <3>4
  <2>3. hits(f, w - c.delay) \in {0, 1}
    OBVIOUS
  <2>4. Cash!Expanded(f, cfg)[w - c.delay] = a * hits(f, w - c.delay)
    BY <1>7, <2>1
  <2> HIDE DEF hits
  <2> QED  BY <1>1, <1>3, <1>5, <1>6, <1>8, <1>9, <2>2, <2>3, <2>4
<1>10. CASE ~(w > c.delay)
  <2>1. hits(d, w) = 0
    <3>1. ~(d.start <= w) /\ w # d.start
      BY <1>2, <1>4, <1>10
    <3> QED  BY <3>1
  <2> HIDE DEF hits
  <2> QED  BY <1>1, <1>3, <1>6, <1>8, <1>10, <2>1
<1> QED  BY <1>9, <1>10

ScenarioFits(cfg, s) ==
  /\ Fits(cfg) /\ \A f \in cfg.receipts : f.anchor = None
  /\ s.receipts \subseteq Changes /\ \A c, d \in s.receipts : c.name = d.name => c = d
  /\ IsFiniteSet(s.add_receipts) /\ \A g \in s.add_receipts : Placeable(g, cfg)
  /\ \A f \in cfg.receipts, g \in s.add_receipts : f.name # g.name

\* What becomes of a base flow in a scenario.
ChangeTo(f, changes) ==
  IF Cash!ChangesOf(f, changes) = {} THEN f ELSE Cash!Delayed(f, CHOOSE c \in Cash!ChangesOf(f, changes) : TRUE)

TheChange(f, changes) == CHOOSE c \in changes : c.name = f.name

\* A flow that a scenario names becomes what its change makes of it, and no other flow does.
LEMMA ChangeIs ==
  ASSUME NEW cfg, NEW s, ScenarioFits(cfg, s), NEW f \in cfg.receipts
  PROVE  /\ Placeable(f, cfg) /\ f.anchor = None
         /\ Cash!ChangesOf(f, s.receipts) = {} => ChangeTo(f, s.receipts) = f
         /\ Cash!ChangesOf(f, s.receipts) # {} =>
              /\ TheChange(f, s.receipts) \in s.receipts /\ TheChange(f, s.receipts) \in Changes
              /\ TheChange(f, s.receipts).name = f.name
              /\ ChangeTo(f, s.receipts) = Cash!Delayed(f, TheChange(f, s.receipts))
         /\ ChangeTo(f, s.receipts).name = f.name
<1>1. Placeable(f, cfg) /\ f.anchor = None
  BY FlowsFit DEF ScenarioFits
<1>2. CASE Cash!ChangesOf(f, s.receipts) = {}
  BY <1>1, <1>2 DEF ChangeTo
<1>3. CASE Cash!ChangesOf(f, s.receipts) # {}
  <2>1. PICK c : c = TheChange(f, s.receipts)
    OBVIOUS
  <2>2. c \in s.receipts /\ c.name = f.name
    BY <1>3, <2>1 DEF Cash!ChangesOf, TheChange
  <2>3. PICK d : d = CHOOSE e \in Cash!ChangesOf(f, s.receipts) : TRUE
    OBVIOUS
  <2>4. d \in s.receipts /\ d.name = f.name
    BY <1>3, <2>3 DEF Cash!ChangesOf
  <2>5. c = d /\ c \in Changes
    BY <2>2, <2>4 DEF ScenarioFits
  <2>6. ChangeTo(f, s.receipts) = Cash!Delayed(f, c)
    BY <1>3, <2>3, <2>5 DEF ChangeTo
  <2>7. Cash!Delayed(f, c).name = f.name
    BY <1>1, <2>5, DelayedIs DEF Placeable
  <2> QED  BY <1>1, <1>3, <2>1, <2>2, <2>5, <2>6, <2>7
<1> QED  BY <1>2, <1>3

\* A changed flow falls where its change delays it to.
LEMMA ChangePlaced ==
  ASSUME NEW cfg, NEW s, ScenarioFits(cfg, s), NEW f \in cfg.receipts, NEW w \in 1..cfg.weeks,
         NEW c, c = TheChange(f, s.receipts)
  PROVE  /\ Placeable(ChangeTo(f, s.receipts), cfg)
         /\ Cash!Expanded(ChangeTo(f, s.receipts), cfg)[w] =
              IF Cash!ChangesOf(f, s.receipts) = {} THEN Cash!Expanded(f, cfg)[w]
              ELSE IF w > c.delay THEN c.factor * Cash!Expanded(f, cfg)[w - c.delay] ELSE 0
<1>1. Placeable(f, cfg) /\ f.anchor = None
  BY ChangeIs
<1>2. CASE Cash!ChangesOf(f, s.receipts) = {}
  <2>1. ChangeTo(f, s.receipts) = f
    BY <1>2, ChangeIs
  <2> QED  BY <1>1, <1>2, <2>1
<1>3. CASE Cash!ChangesOf(f, s.receipts) # {}
  <2>1. c \in Changes /\ ChangeTo(f, s.receipts) = Cash!Delayed(f, c)
    BY <1>3, ChangeIs
  <2>2. /\ Placeable(Cash!Delayed(f, c), cfg)
        /\ Cash!Expanded(Cash!Delayed(f, c), cfg)[w] = IF w > c.delay THEN c.factor * Cash!Expanded(f, cfg)[w - c.delay] ELSE 0
    BY <1>1, <2>1, DelayShifts
  <2> QED  BY <1>3, <2>1, <2>2
<1> QED  BY <1>2, <1>3

\* A change with a factor tells the flows it changes apart.
LEMMA ChangesApart ==
  ASSUME NEW cfg, NEW s, ScenarioFits(cfg, s), NEW f \in cfg.receipts, NEW g \in cfg.receipts, NEW w \in 1..cfg.weeks,
         ChangeTo(f, s.receipts) = ChangeTo(g, s.receipts)
  PROVE  f = g \/ Cash!Expanded(ChangeTo(f, s.receipts), cfg)[w] = 0
<1>1. f.name = g.name
  BY ChangeIs
<1>2. Cash!ChangesOf(f, s.receipts) = Cash!ChangesOf(g, s.receipts)
  BY <1>1 DEF Cash!ChangesOf
<1>3. CASE Cash!ChangesOf(f, s.receipts) = {}
  BY <1>2, <1>3 DEF ChangeTo
<1>4. CASE Cash!ChangesOf(f, s.receipts) # {}
  <2>1. PICK c : c = TheChange(f, s.receipts)
    OBVIOUS
  <2>2. /\ c \in Changes /\ ChangeTo(f, s.receipts) = Cash!Delayed(f, c)
        /\ Cash!Expanded(ChangeTo(f, s.receipts), cfg)[w] = IF w > c.delay THEN c.factor * Cash!Expanded(f, cfg)[w - c.delay] ELSE 0
    BY <1>4, <2>1, ChangeIs, ChangePlaced
  <2>3. ChangeTo(g, s.receipts) = Cash!Delayed(g, c)
    <3>1. c = TheChange(g, s.receipts)
      BY <1>1, <2>1 DEF TheChange
    <3> QED  BY <1>2, <1>4, <3>1, ChangeIs
  <2>4. Placeable(f, cfg) /\ Placeable(g, cfg) /\ f.anchor = None /\ g.anchor = None
    BY FlowsFit DEF ScenarioFits
  <2>5. CASE c.factor = 0
    <3>1. \A v \in 1..cfg.weeks : Cash!Expanded(f, cfg)[v] \in Int
      BY <2>4, ExpandedInt
    <3>2. w > c.delay => w - c.delay \in 1..cfg.weeks
      BY <2>2, <2>4, PlaceableIs DEF Changes
    <3>3. w > c.delay => 0 * Cash!Expanded(f, cfg)[w - c.delay] = 0
      <4>1. \A i \in Int : 0 * i = 0
        OBVIOUS
      <4> QED  BY <3>1, <3>2, <4>1
    <3> QED  BY <2>2, <2>5, <3>3
  <2>6. CASE c.factor # 0
    <3>1. /\ f.amount * c.factor = g.amount * c.factor /\ f.start + c.delay = g.start + c.delay
          /\ (IF f.end = None THEN None ELSE f.end + c.delay) = (IF g.end = None THEN None ELSE g.end + c.delay)
          /\ f.recurrence = g.recurrence
      <4>0. f \in Flows /\ Cash!FlowFits(f) /\ g \in Flows /\ Cash!FlowFits(g) /\ c \in Changes
        BY <2>2, <2>4 DEF Placeable
      <4>1. /\ Cash!Delayed(f, c).amount = f.amount * c.factor /\ Cash!Delayed(f, c).start = f.start + c.delay
            /\ Cash!Delayed(f, c).end = (IF f.end = None THEN None ELSE f.end + c.delay)
            /\ Cash!Delayed(f, c).recurrence = f.recurrence
        BY <2>4, <4>0, DelayedIs
      <4>2. /\ Cash!Delayed(g, c).amount = g.amount * c.factor /\ Cash!Delayed(g, c).start = g.start + c.delay
            /\ Cash!Delayed(g, c).end = (IF g.end = None THEN None ELSE g.end + c.delay)
            /\ Cash!Delayed(g, c).recurrence = g.recurrence
        BY <2>4, <4>0, DelayedIs
      <4>3. Cash!Delayed(f, c) = Cash!Delayed(g, c)
        BY <2>2, <2>3
      <4> QED  BY <4>1, <4>2, <4>3
    <3>2. /\ f.amount \in Nat /\ g.amount \in Nat /\ f.start \in Nat /\ g.start \in Nat /\ c.delay \in Nat /\ c.factor \in Nat \ {0}
          /\ f.end \in (Nat \ {0}) \cup {None} /\ g.end \in (Nat \ {0}) \cup {None}
      BY <2>2, <2>4, <2>6, PlaceableIs DEF Changes
    <3>3. f.amount = g.amount
      <4>1. \A a \in Nat, b \in Nat, n \in Nat \ {0} : a * n = b * n => a = b
        OBVIOUS
      <4> QED  BY <3>1, <3>2, <4>1
    <3>4. f.start = g.start
      BY <3>1, <3>2
    <3>5. f.end = g.end
      BY <3>1, <3>2, StatutesAssumption
    <3>6. f \in Flows /\ g \in Flows
      BY <2>4 DEF Placeable
    <3>7. f = g
      BY <1>1, <2>4, <3>1, <3>3, <3>4, <3>5, <3>6 DEF Flows
    <3> QED  BY <3>7
  <2> QED  BY <2>5, <2>6
<1> QED  BY <1>3, <1>4

\* The receipts of a week in a scenario: the base's, changed, and the added.
Moved(f, cfg, s, w) ==
  IF Cash!ChangesOf(f, s.receipts) = {} THEN Cash!Expanded(f, cfg)[w]
  ELSE IF w > TheChange(f, s.receipts).delay
       THEN TheChange(f, s.receipts).factor * Cash!Expanded(f, cfg)[w - TheChange(f, s.receipts).delay] ELSE 0
\* The receipts of a scenario are the base flows, moved, and the added ones.
LEMMA ScenarioAdds ==
  ASSUME NEW cfg, NEW s, ScenarioFits(cfg, s), NEW w \in 1..cfg.weeks,
         NEW new, new.weeks = cfg.weeks, new.window = cfg.window,
         new.receipts = {ChangeTo(f, s.receipts) : f \in cfg.receipts} \cup s.add_receipts
  PROVE  Cash!Forecast13(new).receipts[w] =
           SumFunctionOnSet([f \in cfg.receipts |-> Moved(f, cfg, s, w)], cfg.receipts)
             + SumFunctionOnSet(Placed(cfg, s.add_receipts, w), s.add_receipts)
<1> DEFINE ch == [f \in cfg.receipts |-> ChangeTo(f, s.receipts)]
           T == {ch[f] : f \in cfg.receipts}
           A == s.add_receipts
           h == [f \in cfg.receipts |-> Moved(f, cfg, s, w)]
           g == Placed(new, new.receipts, w)
           k == Placed(cfg, A, w)
<1>1. IsFiniteSet(cfg.receipts) /\ IsFiniteSet(A)
  BY DEF ScenarioFits, Fits
<1>2. T = {ChangeTo(f, s.receipts) : f \in cfg.receipts}
  OBVIOUS
<1>3. new.receipts = T \cup A
  BY <1>2
<1>4. Cash!Forecast13(new).receipts[w] = SumFunctionOnSet(g, T \cup A)
  <2>1. Cash!Forecast13(new).receipts = [v \in 1..new.weeks |-> SumFunctionOnSet(Placed(new, new.receipts, v), new.receipts)]
    BY ForecastIs
  <2> QED  BY <1>3, <2>1
<1>5. \A y \in T \cup A : g[y] = Cash!Expanded(y, new)[w]
  BY <1>3 DEF Placed
<1>6. \A y : Placeable(y, cfg) => Placeable(y, new)
  BY DEF Placeable, Windowed
<1>7. \A y : Placeable(y, cfg) => Cash!Expanded(y, new)[w] = Cash!Expanded(y, cfg)[w] /\ Cash!Expanded(y, cfg)[w] \in Int
  BY <1>6, SameWeeks, ExpandedInt
<1>8. ASSUME NEW f \in cfg.receipts
      PROVE  h[f] \in Int /\ g[ch[f]] = h[f] /\ ch[f].name = f.name
  <2>1. Placeable(ch[f], cfg) /\ Cash!Expanded(ch[f], cfg)[w] = Moved(f, cfg, s, w)
    BY ChangePlaced DEF Moved
  <2>2. ch[f] \in T /\ ch[f].name = f.name
    BY ChangeIs
  <2> HIDE DEF ch, T, g
  <2> QED  BY <1>5, <1>7, <2>1, <2>2
<1>9. ASSUME NEW f \in cfg.receipts, NEW e \in cfg.receipts, ch[f] = ch[e]
      PROVE  f = e \/ h[f] = 0
  <2>1. ChangeTo(f, s.receipts) = ChangeTo(e, s.receipts)
    BY <1>9
  <2>2. f = e \/ Cash!Expanded(ChangeTo(f, s.receipts), cfg)[w] = 0
    BY <2>1, ChangesApart
  <2>3. Cash!Expanded(ChangeTo(f, s.receipts), cfg)[w] = Moved(f, cfg, s, w)
    BY ChangePlaced DEF Moved
  <2> QED  BY <2>2, <2>3
<1>10. T \cap A = {}
  <2> SUFFICES ASSUME NEW y \in T, y \in A PROVE FALSE
    OBVIOUS
  <2>1. PICK f \in cfg.receipts : y = ch[f]
    OBVIOUS
  <2>2. y.name = f.name
    BY <1>8, <2>1
  <2> HIDE DEF ch, T
  <2> QED  BY <2>2 DEF ScenarioFits
<1>11. \A y \in A : g[y] = k[y] /\ k[y] \in Int
  <2>1. \A y \in A : Placeable(y, cfg) /\ k[y] = Cash!Expanded(y, cfg)[w]
    BY DEF ScenarioFits, Placed
  <2> HIDE DEF g, k
  <2> QED  BY <1>5, <1>7, <2>1
<1> HIDE DEF ch, h, g, k
<1>12. IsFiniteSet(T) /\ SumFunctionOnSet(g, T) = SumFunctionOnSet(h, cfg.receipts)
  <2>1. \A f \in cfg.receipts : h[f] \in Int /\ g[ch[f]] = h[f]
    BY <1>8
  <2>2. \A f, e \in cfg.receipts : ch[f] = ch[e] => f = e \/ h[f] = 0
    BY <1>9
  <2> QED  BY <1>1, <2>1, <2>2, SumMerged
<1>13. SumFunctionOnSet(g, A) = SumFunctionOnSet(k, A)
  BY <1>1, <1>11, SumSame
<1>14. \A y \in T \cup A : g[y] \in Int
  BY <1>8, <1>11
<1> HIDE DEF T
<1>15. SumFunctionOnSet(g, T \cup A) = SumFunctionOnSet(g, T) + SumFunctionOnSet(g, A)
  BY <1>1, <1>10, <1>12, <1>14, SumApart
<1> QED  BY <1>4, <1>12, <1>13, <1>15 DEF h, k

\* A scenario moves the flows it names and nothing else.
LEMMA ScenarioIsMoved ==
  ASSUME NEW x, x \in Inputs["compare_scenarios"], answer = Cash!Compared(x.cfg, x.scenario), answer # Refused
  PROVE  ScenarioMoves(x)
<1> SUFFICES ASSUME \A f \in x.cfg.receipts : f.anchor = None
             PROVE  ScenarioMoves(x)
  BY DEF ScenarioMoves
<1> DEFINE cfg == x.cfg
           s == x.scenario
<1>2. PICK new : new = Cash!Scenario13(cfg, s)
  OBVIOUS
<1>3. ~Cash!ConfigRefused(cfg) /\ new # Refused
  BY <1>2 DEF Cash!Compared
<1>4. answer.scenario = Cash!Forecast13(new)
  BY <1>2, <1>3 DEF Cash!Compared
<1>5. /\ cfg \in Configs /\ IsFiniteSet(cfg.receipts) /\ IsFiniteSet(cfg.disbursements)
      /\ s \in [receipts : SUBSET Changes, disbursements : SUBSET Changes, add_receipts : SUBSET Flows, add_disbursements : SUBSET Flows]
      /\ IsFiniteSet(s.add_receipts) /\ \A f \in s.add_receipts : Cash!FlowFits(f)
      /\ \A f \in cfg.receipts, g \in s.add_receipts : f.name # g.name
  <2>1. /\ x \in [cfg : Configs, scenario : [receipts : SUBSET Changes, disbursements : SUBSET Changes,
                                             add_receipts : SUBSET Flows, add_disbursements : SUBSET Flows]]
        /\ IsFiniteSet(x.cfg.receipts) /\ IsFiniteSet(x.cfg.disbursements)
        /\ IsFiniteSet(x.scenario.add_receipts) /\ \A f \in x.scenario.add_receipts : Cash!FlowFits(f)
    BY CashAssumption
  <2>2. \A f \in x.cfg.receipts, g \in x.scenario.add_receipts : f.name # g.name
    BY AddedFlowsAssumption
  <2> QED  BY <2>1, <2>2
<1>6. /\ ~Cash!ChangeRefused(cfg.receipts, s.receipts)
      /\ \A f \in s.add_receipts : f.anchor # None => cfg.window # None
  BY <1>2, <1>3 DEF Cash!Scenario13
<1>7. /\ new.weeks = cfg.weeks /\ new.window = cfg.window
      /\ new.receipts = Cash!Changed(cfg.receipts, s.receipts) \cup s.add_receipts
  <2> DEFINE A == Cash!Changed(cfg.receipts, s.receipts) \cup s.add_receipts
             B == Cash!Changed(cfg.disbursements, s.disbursements) \cup s.add_disbursements
  <2>1. new = [cfg EXCEPT !.receipts = A, !.disbursements = B]
    BY <1>2, <1>3 DEF Cash!Scenario13
  <2> HIDE DEF A, B
  <2>2. new.weeks = cfg.weeks /\ new.window = cfg.window /\ new.receipts = A
    BY <1>5, <2>1 DEF Configs
  <2> QED  BY <2>2 DEF A
<1>8. Cash!Changed(cfg.receipts, s.receipts) = {ChangeTo(f, s.receipts) : f \in cfg.receipts}
  BY DEF Cash!Changed, ChangeTo
<1>9. ScenarioFits(cfg, s)
  <2>1. \A c, d \in s.receipts : c.name = d.name => c = d
    BY <1>6 DEF Cash!ChangeRefused
  <2>2. \A g \in s.add_receipts : Placeable(g, cfg)
    <3>1. Windowed(cfg)
      BY <1>5 DEF Configs, Windowed
    <3> QED  BY <1>5, <1>6, <3>1 DEF Placeable
  <2> QED  BY <1>3, <1>5, <2>1, <2>2 DEF ScenarioFits, Fits
<1> HIDE DEF cfg, s
<1>10. ASSUME NEW w \in 1..cfg.weeks
       PROVE  answer.scenario.receipts[w] =
                SumFunctionOnSet([f \in cfg.receipts |-> Moved(f, cfg, s, w)], cfg.receipts)
                  + SumFunctionOnSet(Placed(cfg, s.add_receipts, w), s.add_receipts)
  BY <1>4, <1>7, <1>8, <1>9, ScenarioAdds
<1> DEFINE of == [f \in cfg.receipts \cup s.add_receipts |-> Cash!Expanded(f, cfg)]
           moved(f, c, w) == IF w > c.delay THEN c.factor * of[f][w - c.delay] ELSE 0
           changed(f, w) == IF Cash!ChangesOf(f, s.receipts) = {} THEN of[f][w]
                            ELSE moved(f, CHOOSE c \in s.receipts : c.name = f.name, w)
<1>11. ASSUME NEW w
       PROVE  Add(LAMBDA f : changed(f, w), cfg.receipts) = SumFunctionOnSet([f \in cfg.receipts |-> Moved(f, cfg, s, w)], cfg.receipts)
  <2>1. \A f \in cfg.receipts : changed(f, w) = Moved(f, cfg, s, w)
    BY DEF Moved, TheChange
  <2>2. [f \in cfg.receipts |-> changed(f, w)] = [f \in cfg.receipts |-> Moved(f, cfg, s, w)]
    <3> HIDE DEF changed
    <3> QED  BY <2>1
  <2> HIDE DEF changed
  <2> QED  BY <2>2 DEF Add
<1>12. ASSUME NEW w
       PROVE  Add(LAMBDA f : of[f][w], s.add_receipts) = SumFunctionOnSet(Placed(cfg, s.add_receipts, w), s.add_receipts)
  <2>1. [f \in s.add_receipts |-> of[f][w]] = Placed(cfg, s.add_receipts, w)
    BY DEF Placed
  <2> HIDE DEF of
  <2> QED  BY <2>1 DEF Add
<1>13. \A w \in 1..cfg.weeks :
         answer.scenario.receipts[w] = Add(LAMBDA f : changed(f, w), cfg.receipts) + Add(LAMBDA f : of[f][w], s.add_receipts)
  <2> HIDE DEF changed, of
  <2> QED  BY <1>10, <1>11, <1>12
<1> QED  BY <1>13 DEF ScenarioMoves, cfg, s

\* The sum of the opposites is the opposite of the sum.
LEMMA SumNegated ==
  ASSUME NEW S, IsFiniteSet(S), NEW g, NEW h, \A x \in S : g[x] \in Int /\ h[x] = -g[x]
  PROVE  SumFunctionOnSet(h, S) = -SumFunctionOnSet(g, S)
<1> DEFINE z == [x \in S |-> 0]
<1>1. \A x \in S : z[x] = 0 /\ h[x] \in Int /\ g[x] \in Int /\ z[x] = h[x] + g[x]
  OBVIOUS
<1> HIDE DEF z
<1>2. SumFunctionOnSet(z, S) = 0
  BY <1>1, SumOfZeros
<1>3. SumFunctionOnSet(z, S) = SumFunctionOnSet(h, S) + SumFunctionOnSet(g, S)
  BY <1>1, SumPlus
<1>4. SumFunctionOnSet(h, S) \in Int /\ SumFunctionOnSet(g, S) \in Int
  BY <1>1, SumInt
<1> QED  BY <1>2, <1>3, <1>4

ShareFor(q, n, s, i) == (q \div n + IF i <= q % n THEN 1 ELSE 0) * s

Shares(g, q, n, s, p) ==
    /\ n \in Nat \ {0} /\ q \in Nat /\ s \in Int /\ p = q * s
    /\ \A i \in 1..n : g[i] = ShareFor(q, n, s, i)

\* n shares of q, of which the first r have one more: they add up to q of s each.
LEMMA SharesAdd ==
  ASSUME NEW n, NEW q, NEW s, NEW g, NEW p, Shares(g, q, n, s, p)
  PROVE  SumFunctionOnSet(g, 1..n) = p /\ \A i \in 1..n : g[i] \in Int
<1>0. n \in Nat \ {0} /\ q \in Nat /\ s \in Int /\ p = q * s /\ \A i \in 1..n : g[i] = ShareFor(q, n, s, i)
  BY DEF Shares
<1> DEFINE S == 1..n
<1>1. PICK k \in Nat, r \in Nat : k = q \div n /\ r = q % n /\ q = n * k + r /\ r < n
  BY <1>0
<1>2. IsFiniteSet(S) /\ Cardinality(S) = n
  BY <1>0, FS_Interval
<1>3. PICK a \in Int : a = k * s
  BY <1>0
<1> DEFINE f == [i \in S |-> a]
           d == [i \in S |-> IF i <= r THEN s ELSE 0]
           U == 1..r
<1>4. \A i \in S : g[i] = f[i] + d[i] /\ f[i] \in Int /\ d[i] \in Int
  <2> SUFFICES ASSUME NEW i \in S PROVE g[i] = f[i] + d[i] /\ f[i] \in Int /\ d[i] \in Int
    OBVIOUS
  <2>1. CASE i <= r
    <3>1. g[i] = (k + 1) * s
      BY <1>0, <1>1, <2>1 DEF ShareFor
    <3>2. (k + 1) * s = k * s + s
      BY <1>0
    <3> QED  BY <1>0, <1>3, <2>1, <3>1, <3>2
  <2>2. CASE ~(i <= r)
    <3>1. g[i] = (k + 0) * s
      BY <1>0, <1>1, <2>2 DEF ShareFor
    <3>2. (k + 0) * s = k * s
      BY <1>0
    <3> QED  BY <1>0, <1>3, <2>2, <3>1, <3>2
  <2> QED  BY <2>1, <2>2
<1>5. \A i \in S : f[i] = a
  OBVIOUS
<1>6. U \in SUBSET S /\ (\A i \in U : d[i] = s) /\ (\A i \in S : d[i] \in Int /\ (i \notin U => d[i] = 0))
  BY <1>0, <1>1
<1>7. IsFiniteSet(U) /\ Cardinality(U) = r
  <2>1. r \in Int /\ 1 \in Int
    OBVIOUS
  <2>2. Cardinality(1..r) = IF 1 > r THEN 0 ELSE r - 1 + 1
    BY <2>1, FS_Interval
  <2>3. IsFiniteSet(1..r)
    BY <2>1, FS_Interval
  <2> QED  BY <2>2, <2>3 DEF U
<1> HIDE DEF f, d, U, S
<1>8. SumFunctionOnSet(g, S) = SumFunctionOnSet(f, S) + SumFunctionOnSet(d, S)
  BY <1>2, <1>4, SumPlus
<1>9. SumFunctionOnSet(f, S) = a * n
  BY <1>0, <1>2, <1>5, SumEqual
<1>10. SumFunctionOnSet(d, S) = SumFunctionOnSet(d, U)
  BY <1>2, <1>6, SumWithin
<1>11. SumFunctionOnSet(d, U) = s * r
  BY <1>0, <1>6, <1>7, SumEqual
<1>12. (k * s) * n + s * r = (n * k + r) * s
  BY <1>0
<1>13. SumFunctionOnSet(g, S) = p
  BY <1>0, <1>1, <1>3, <1>8, <1>9, <1>10, <1>11, <1>12
<1>14. \A i \in S : g[i] \in Int
  BY <1>4
<1> QED  BY <1>13, <1>14 DEF S

\* A charge that is spread is spread to the cent, the larger shares first.
LEMMA SharesAre ==
  ASSUME NEW x, NEW shares, x.file.charge \in Int \cup {None}, x.months \in Nat,
         shares = IF Assets!LoadEvidence(x.file) = Refused THEN Refused ELSE Assets!StraightLine(x.file, x.months),
         shares # Refused
  PROVE  /\ x.file.digest = x.file.calculation
         /\ SumFunctionOnSet(shares, 1..x.months) = x.file.charge
         /\ \A i, j \in 1..x.months : i < j => Assets!Magnitude(shares[i]) - Assets!Magnitude(shares[j]) \in {0, 100}
         /\ DOMAIN shares = 1..x.months /\ \A i \in 1..x.months : shares[i] \in Int
<1>1. x.file.digest = x.file.calculation
  BY DEF Assets!LoadEvidence, Assets!EvidenceReads
<1>2. PICK c, n : c = x.file.charge /\ n = x.months
  OBVIOUS
<1>3. shares = Assets!StraightLine(x.file, n)
  BY <1>2
<1>4. Assets!Usable(x.file) /\ n # 0 /\ c % 100 = 0
  BY <1>2, <1>3 DEF Assets!StraightLine, Assets!Cent
<1>5. c \in Int /\ n \in Nat \ {0}
  BY <1>2, <1>4 DEF Assets!Usable
<1>6. shares = [i \in 1..n |-> Assets!ShareOf(c, n, i)]
  <2>1. shares = [i \in 1..n |-> Assets!ShareOf(x.file.charge, n, i)]
    BY <1>3 DEF Assets!StraightLine
  <2> QED  BY <1>2, <2>1
<1>7. PICK q \in Nat, s \in {-100, 100} : q = Assets!Magnitude(c) \div 100 /\ c = q * s /\ s = IF c < 0 THEN -100 ELSE 100
  <2>1. CASE c < 0
    <3>1. Assets!Magnitude(c) = -c
      BY <2>1 DEF Assets!Magnitude
    <3>2. (-c) \div 100 \in Nat /\ c = ((-c) \div 100) * (-100)
      BY <1>4, <1>5, <2>1
    <3> QED  BY <2>1, <3>1, <3>2
  <2>2. CASE ~(c < 0)
    <3>1. Assets!Magnitude(c) = c
      BY <2>2 DEF Assets!Magnitude
    <3>2. c \div 100 \in Nat /\ c = (c \div 100) * 100
      BY <1>4, <1>5, <2>2
    <3> QED  BY <2>2, <3>1, <3>2
  <2> QED  BY <2>1, <2>2
<1>8. \A i \in 1..n : shares[i] = (q \div n + IF i <= q % n THEN 1 ELSE 0) * s
  <2>1. \A i \in 1..n : Assets!ShareOf(c, n, i) = (q \div n + IF i <= q % n THEN 1 ELSE 0) * (IF c < 0 THEN -100 ELSE 100)
    BY <1>7 DEF Assets!ShareOf, Assets!Cent
  <2> QED  BY <1>6, <1>7, <2>1
<1>9. DOMAIN shares = 1..n
  BY <1>6
<1>10. SumFunctionOnSet(shares, 1..n) = q * s /\ \A i \in 1..n : shares[i] \in Int
  <2>1. s \in Int /\ q \in Nat /\ n \in Nat \ {0}
    BY <1>5, <1>7
  <2> DEFINE g == shares
  <2>2. \A i \in 1..n : g[i] = ShareFor(q, n, s, i)
    BY <1>8 DEF ShareFor
  <2>4. PICK p : p = q * s
    OBVIOUS
  <2>3. SumFunctionOnSet(g, 1..n) = p /\ \A i \in 1..n : g[i] \in Int
    <3> HIDE DEF g
    <3>1. Shares(g, q, n, s, p)
      BY <2>1, <2>2, <2>4 DEF Shares
    <3> QED  BY <3>1, SharesAdd
  <2> QED  BY <2>3, <2>4 DEF g
<1>12. ASSUME NEW i \in 1..n, NEW j \in 1..n, i < j
       PROVE  Assets!Magnitude(shares[i]) - Assets!Magnitude(shares[j]) \in {0, 100}
  <2>1. PICK k \in Nat, r \in Nat : k = q \div n /\ r = q % n
    BY <1>5
  <2>2. \A e \in 1..n : Assets!Magnitude(shares[e]) = 100 * (k + IF e <= r THEN 1 ELSE 0)
    BY <1>7, <1>8, <2>1 DEF Assets!Magnitude
  <2> QED  BY <1>5, <1>12, <2>1, <2>2
<1> QED  BY <1>1, <1>2, <1>7, <1>9, <1>10, <1>12

\* A charge that is answered is spread.
LEMMA ChargeIsSpread ==
  ASSUME NEW x, x.file.charge \in Int \cup {None}, x.months \in Nat,
         answer = IF Assets!LoadEvidence(x.file) = Refused THEN Refused ELSE Assets!StraightLine(x.file, x.months),
         answer # Refused
  PROVE  ChargeSpread(x)
<1>1. PICK n : n = x.months
  OBVIOUS
<1>2. /\ x.file.digest = x.file.calculation /\ SumFunctionOnSet(answer, 1..n) = x.file.charge
      /\ \A i, j \in 1..n : i < j => Assets!Magnitude(answer[i]) - Assets!Magnitude(answer[j]) \in {0, 100}
      /\ \A i \in 1..n : answer[i] \in Int
  BY <1>1, SharesAre
<1>3. Add(LAMBDA i : answer[i], 1..n) = x.file.charge
  <2> DEFINE g == [i \in 1..n |-> answer[i]]
  <2>1. \A i \in 1..n : answer[i] \in Int /\ g[i] = answer[i]
    BY <1>2
  <2>2. Add(LAMBDA i : answer[i], 1..n) = SumFunctionOnSet(g, 1..n)
    BY DEF Add
  <2>3. IsFiniteSet(1..n)
    BY <1>1, FS_Interval
  <2> HIDE DEF g
  <2>5. SumFunctionOnSet(g, 1..n) = SumFunctionOnSet(answer, 1..n)
    BY <2>1, <2>3, SumSame
  <2> QED  BY <1>2, <2>2, <2>5
<1> QED  BY <1>1, <1>2, <1>3 DEF ChargeSpread, Assets!Cent

\* A purchase and a charge are entered once each in the months of the schedule.
LEMMA SpendingAdds ==
  ASSUME NEW shares, NEW purchases, NEW n \in Nat, DOMAIN shares = 1..n,
         \A i \in 1..n : shares[i] \in Int, purchases \in Seq(Int),
         answer = Assets!CashAndExpense(shares, purchases), answer # Refused
  PROVE  AssetsSpent([shares |-> shares, purchases |-> purchases])
<1> DEFINE D == 1..n
           U == DOMAIN purchases
           g == [i \in D |-> answer[i].profit]
           h == [i \in D |-> shares[i]]
           d == [i \in D |-> answer[i].cash]
           e == [i \in U |-> purchases[i]]
           x == [shares |-> shares, purchases |-> purchases]
<1>1. U \subseteq D /\ (\A i \in U : purchases[i] \in Int)
  <2>1. U \subseteq DOMAIN shares
    BY DEF Assets!CashAndExpense
  <2>2. \A i \in U : purchases[i] \in Int
    OBVIOUS
  <2> QED  BY <2>1, <2>2
<1>2. answer = [i \in D |-> [profit |-> -shares[i], cash |-> IF i \in U THEN -purchases[i] ELSE 0]]
  BY DEF Assets!CashAndExpense
<1>3. IsFiniteSet(D) /\ IsFiniteSet(U)
  <2>1. IsFiniteSet(1..n)
    <3>1. n \in Int /\ 1 \in Int
      OBVIOUS
    <3> QED  BY <3>1, FS_Interval
  <2> QED  BY <1>1, <2>1, FS_Subset
<1>4. \A i \in D : h[i] \in Int /\ g[i] = -h[i]
  BY <1>2
<1>5. \A i \in D : d[i] \in Int /\ (i \notin U => d[i] = 0)
  BY <1>1, <1>2
<1>6. \A i \in U : e[i] \in Int /\ d[i] = -e[i]
  BY <1>1, <1>2
<1>7. Add(LAMBDA i : answer[i].profit, D) = SumFunctionOnSet(g, D)
  BY DEF Add
<1>8. Add(LAMBDA i : x.shares[i], D) = SumFunctionOnSet(h, D)
  BY DEF Add
<1>9. Add(LAMBDA i : answer[i].cash, D) = SumFunctionOnSet(d, D)
  BY DEF Add
<1>10. Add(LAMBDA i : x.purchases[i], U) = SumFunctionOnSet(e, U)
  BY DEF Add
<1>11. DOMAIN answer = D /\ DOMAIN x.shares = D /\ DOMAIN x.purchases = U
  BY <1>2
<1> HIDE DEF D, U, g, h, d, e, x
<1>12. SumFunctionOnSet(g, D) = -SumFunctionOnSet(h, D)
  BY <1>3, <1>4, SumNegated
<1>13. SumFunctionOnSet(d, D) = SumFunctionOnSet(d, U)
  BY <1>1, <1>3, <1>5, SumWithin
<1>14. SumFunctionOnSet(d, U) = -SumFunctionOnSet(e, U)
  BY <1>3, <1>6, SumNegated
<1>15. AssetsSpent(x)
  BY <1>7, <1>8, <1>9, <1>10, <1>11, <1>12, <1>13, <1>14 DEF AssetsSpent
<1> QED  BY <1>15 DEF x

\* Of finitely many dated rows one is the latest.
LEMMA LatestOf ==
  ASSUME NEW S, IsFiniteSet(S), S # {}, \A r \in S : r.on \in Int
  PROVE  \E r \in S : \A o \in S : o.on <= r.on
<1> DEFINE f == [r \in S |-> -r.on]
           T == {f[r] : r \in S}
<1>1. IsFiniteSet(T)
  <2>1. f \in [S -> T] /\ \A t \in T : \E r \in S : f[r] = t
    OBVIOUS
  <2> HIDE DEF f, T
  <2>2. f \in Surjection(S, T)
    BY <2>1 DEF Surjection
  <2> QED  BY <2>2, FS_Surjection
<1>2. T # {} /\ T \subseteq Int
  OBVIOUS
<1>3. PICK m : m \in T /\ \A x \in T : m <= x
  <2> HIDE DEF T
  <2> QED  BY <1>1, <1>2, LeastOf
<1>4. PICK r \in S : m = -r.on
  BY <1>3
<1>5. \A o \in S : -o.on \in T
  OBVIOUS
<1>6. \A o \in S : o.on <= r.on
  <2> SUFFICES ASSUME NEW o \in S PROVE o.on <= r.on
    OBVIOUS
  <2>1. m <= -o.on
    BY <1>3, <1>5
  <2> HIDE DEF T
  <2>2. o.on \in Int /\ r.on \in Int
    OBVIOUS
  <2> QED  BY <1>4, <2>1, <2>2
<1> QED  BY <1>6

\* Of each month the series reads its latest observation.
LEMMA RbaIsRead ==
  ASSUME NEW x \in Inputs["fetch_rba_series"], answer = Assets!RbaSeries(x), answer # Refused
  PROVE  RbaRead(x)
<1> DEFINE seen == Assets!Parsed(x.rows)
           of(m) == {r \in seen : MonthOf(r.on) = m}
           last(m) == CHOOSE r \in seen : /\ MonthOf(r.on) = m
                                          /\ \A o \in seen : MonthOf(o.on) = m => o.on <= r.on
<1>1. IsFiniteSet(x.rows) /\ \A r \in x.rows : r.on \in Int \cup {None} /\ r.value \in Int \cup {None}
  BY FilesAssumption
<1>2. seen \subseteq x.rows /\ IsFiniteSet(seen)
      /\ \A r \in seen : r.on \in Int /\ r.on # None /\ r.value # None
  <2>1. seen \subseteq x.rows /\ \A r \in seen : r.on # None /\ r.value # None
    BY DEF Assets!Parsed
  <2> QED  BY <1>1, <2>1, FS_Subset
<1>3. \A r, o \in seen : r.on = o.on => r.value = o.value
  BY DEF Assets!RbaSeries
<1>4. answer = [m \in {MonthOf(r.on) : r \in seen} |-> last(m).value]
  BY CashCalendar DEF Assets!RbaSeries
<1>5. ASSUME NEW r \in x.rows, r.on # None, r.value # None
      PROVE  /\ MonthOf(r.on) \in DOMAIN answer
             /\ (\A o \in x.rows : (o.value # None /\ o.on # None /\ o.on > r.on) => MonthOf(o.on) # MonthOf(r.on))
                  => answer[MonthOf(r.on)] = r.value
  <2>1. r \in seen
    BY <1>5 DEF Assets!Parsed
  <2>2. MonthOf(r.on) \in DOMAIN answer /\ answer[MonthOf(r.on)] = last(MonthOf(r.on)).value
    BY <1>4, <2>1
  <2>3. ASSUME \A o \in x.rows : (o.value # None /\ o.on # None /\ o.on > r.on) => MonthOf(o.on) # MonthOf(r.on)
        PROVE  last(MonthOf(r.on)).value = r.value
    <3>1. PICK m : m = MonthOf(r.on)
      OBVIOUS
    <3>2. \A o \in seen : MonthOf(o.on) = m => o.on <= r.on
      <4> SUFFICES ASSUME NEW o \in seen, MonthOf(o.on) = m PROVE o.on <= r.on
        OBVIOUS
      <4>1. o \in x.rows /\ o.value # None /\ o.on # None /\ o.on \in Int /\ r.on \in Int
        BY <1>2, <2>1
      <4>2. ~(o.on > r.on)
        BY <2>3, <3>1, <4>1
      <4> QED  BY <4>1, <4>2
    <3>3. last(m) \in seen /\ MonthOf(last(m).on) = m /\ \A o \in seen : MonthOf(o.on) = m => o.on <= last(m).on
      <4>1. \E l \in seen : MonthOf(l.on) = m /\ \A o \in seen : MonthOf(o.on) = m => o.on <= l.on
        BY <2>1, <3>1, <3>2
      <4> QED  BY <4>1
    <3>4. PICK l : l = last(m)
      OBVIOUS
    <3>5. l \in seen /\ l.on <= r.on /\ r.on <= l.on
      BY <2>1, <3>1, <3>2, <3>3, <3>4
    <3>6. l.on = r.on
      BY <1>2, <2>1, <3>5
    <3> QED  BY <1>3, <2>1, <3>1, <3>4, <3>5, <3>6
  <2> QED  BY <2>2, <2>3
<1> QED  BY <1>5 DEF RbaRead

\* What every selected row agrees on is read.
LEMMA AbsIsRead ==
  ASSUME NEW x, answer = Assets!AbsSeries(x.table, x.dims), answer # Refused
  PROVE  AbsRead(x)
<1> DEFINE selected == Assets!Selected(x.table, x.dims)
           numeric == Assets!Numeric(selected)
<1>1. ~Assets!AbsRefused(x.table, x.dims)
  BY DEF Assets!AbsSeries
<1>2. /\ \A r, o \in selected : r.dims = o.dims /\ r.unit = o.unit
      /\ \A r, o \in numeric : r = o \/ r.period # o.period
  BY <1>1 DEF Assets!AbsRefused
<1>3. answer = [p \in {r.period : r \in numeric} |-> (CHOOSE r \in numeric : r.period = p).value]
  BY <1>1 DEF Assets!AbsSeries
<1>4. ASSUME NEW r \in x.table.rows, NEW o \in x.table.rows,
             \A c \in DOMAIN x.dims : r.dims[c] = x.dims[c] /\ o.dims[c] = x.dims[c]
      PROVE  r.unit = o.unit /\ r.dims = o.dims /\ (r.period # None /\ r.value \in Int => answer[r.period] = r.value)
  <2>1. r \in selected /\ o \in selected
    BY <1>4 DEF Assets!Selected
  <2>2. ASSUME r.period # None, r.value \in Int
        PROVE  answer[r.period] = r.value
    <3>1. r.value # NaN /\ r.value # None
      BY <2>2, FilesAssumption, StatutesAssumption
    <3>2. r \in numeric
      BY <2>1, <2>2, <3>1 DEF Assets!Numeric, Assets!WithValue
    <3>3. PICK l : l = CHOOSE e \in numeric : e.period = r.period
      OBVIOUS
    <3>4. l \in numeric /\ l.period = r.period
      BY <3>2, <3>3
    <3>5. l = r
      BY <1>2, <3>2, <3>4
    <3> QED  BY <1>3, <3>2, <3>3, <3>5
  <2> QED  BY <1>2, <2>1, <2>2
<1> QED  BY <1>4 DEF AbsRead

-----------------------------------------------------------------------------
(* The calls that place amounts. *)

\* The calls that place cash, a charge or an observation.
PlacingCalls ==
    {"cash13_forecast", "compare_scenarios", "straight_line", "cash_and_expense", "fetch_rba_series", "fetch_abs_series"}

\* No other action makes one of them.
LEMMA NotPlacing ==
  ASSUME Next, call'.fn \in PlacingCalls
  PROVE  \/ ForecastCash \/ CompareScenario \/ SpreadCharge \/ SpendOnAssets \/ FetchRba \/ FetchAbs
         \/ call' = call /\ returned' = returned
<1> USE DEF PlacingCalls, Ask, Then
<1>1. ~SummariseYears /\ ~ScheduleBas /\ ~ScheduleInstalments /\ ~PayInstalments
  BY DEF SummariseYears, ScheduleBas, ScheduleInstalments, PayInstalments
<1>2. ~DueWithholding /\ ~DueSuper /\ ~DuePayrollTax /\ ~PlaceFbt
  BY DEF DueWithholding, DueSuper, DuePayrollTax, PlaceFbt
<1>3. ~PlaceBas /\ ~ForecastBasCash /\ ~RollAssets
  BY DEF PlaceBas, ForecastBasCash, RollAssets
<1>4. ~ForecastPayroll /\ ~SettlePayroll /\ ~RollLiabilities /\ ~PlacePayments
  BY DEF ForecastPayroll, SettlePayroll, RollLiabilities, PlacePayments
<1>5. EstimatePlan => call' = call /\ returned' = returned
  BY DEF EstimatePlan
<1> QED  BY <1>1, <1>2, <1>3, <1>4, <1>5 DEF Next

\* What those calls are asked, and answer.
CashAnswer(x) ==
    IF Cash!ConfigRefused(x) THEN Refused ELSE [forecast |-> Cash!Forecast13(x), runway |-> Cash!Runway(x, Cash!Forecast13(x))]
ChargeAnswer(x) ==
    IF Assets!LoadEvidence(x.file) = Refused THEN Refused ELSE Assets!StraightLine(x.file, x.months)
Spending(shares, purchases) == [shares |-> shares, purchases |-> purchases]

PlacingRight(c, a) ==
  /\ c.fn = "cash13_forecast" => c.in \in Inputs["cash13_forecast"] /\ a = CashAnswer(c.in)
  /\ c.fn = "compare_scenarios" => c.in \in Inputs["compare_scenarios"] /\ a = Cash!Compared(c.in.cfg, c.in.scenario)
  /\ c.fn = "straight_line" => c.in \in Inputs["straight_line"] /\ a = ChargeAnswer(c.in)
  /\ c.fn = "cash_and_expense" =>
       \E x \in Inputs["straight_line"], p \in Inputs["purchases"] :
         /\ ChargeAnswer(x) # Refused /\ c.in = Spending(ChargeAnswer(x), p)
         /\ a = Assets!CashAndExpense(ChargeAnswer(x), p)
  /\ c.fn = "fetch_rba_series" => c.in \in Inputs["fetch_rba_series"] /\ a = Assets!RbaSeries(c.in)
  /\ c.fn = "fetch_abs_series" => a = Assets!AbsSeries(c.in.table, c.in.dims)
PlacementsRight == PlacingRight(call, answer)

\* Nothing is placed at first.
LEMMA PlacementsStart == Init => PlacementsRight
BY DEF Init, NoCall, PlacementsRight, PlacingRight

\* Every call that places an amount answers what its function does of what it was asked.
LEMMA PlacementsStep ==
  ASSUME PlacementsRight, Next
  PROVE  PlacementsRight'
<1> SUFFICES ASSUME call'.fn \in PlacingCalls
             PROVE  PlacementsRight'
  BY DEF PlacementsRight, PlacingRight, PlacingCalls, answer
<1>0. SUFFICES ASSUME NEW to, NEW of, to = call', of = returned'[call'.fn]
               PROVE  PlacingRight(to, of)
  BY DEF PlacementsRight, answer
<1>1. CASE ForecastCash
  <2>1. PICK x \in Inputs["cash13_forecast"] :
          call' = [fn |-> "cash13_forecast", in |-> x] /\ returned' = [c \in {"cash13_forecast"} |-> CashAnswer(x)]
    BY <1>1 DEF ForecastCash, Ask, CashAnswer
  <2> QED  BY <1>0, <2>1 DEF PlacingRight
<1>2. CASE CompareScenario
  <2>1. PICK x \in Inputs["compare_scenarios"] :
          /\ call' = [fn |-> "compare_scenarios", in |-> x]
          /\ returned' = [c \in {"compare_scenarios"} |-> Cash!Compared(x.cfg, x.scenario)]
    BY <1>2 DEF CompareScenario, Ask
  <2> QED  BY <1>0, <2>1 DEF PlacingRight
<1>3. CASE SpreadCharge
  <2>1. PICK x \in Inputs["straight_line"] :
          call' = [fn |-> "straight_line", in |-> x] /\ returned' = [c \in {"straight_line"} |-> ChargeAnswer(x)]
    BY <1>3 DEF SpreadCharge, Ask, ChargeAnswer
  <2> QED  BY <1>0, <2>1 DEF PlacingRight
<1>4. CASE SpendOnAssets
  <2>1. Asked("straight_line") /\ answer # Refused
    BY <1>4 DEF SpendOnAssets, Then
  <2>2. PICK p \in Inputs["purchases"] :
          /\ call' = [fn |-> "cash_and_expense", in |-> Spending(answer, p)]
          /\ returned' = [c \in {"cash_and_expense"} |-> Assets!CashAndExpense(answer, p)]
    BY <1>4 DEF SpendOnAssets, Then, Spending
  <2>3. call.in \in Inputs["straight_line"] /\ answer = ChargeAnswer(call.in)
    BY <2>1 DEF PlacementsRight, PlacingRight, Asked
  <2>4. /\ to.fn = "cash_and_expense" /\ to.in = Spending(ChargeAnswer(call.in), p)
        /\ of = Assets!CashAndExpense(ChargeAnswer(call.in), p) /\ ChargeAnswer(call.in) # Refused
    BY <1>0, <2>1, <2>2, <2>3
  <2> QED  BY <2>3, <2>4 DEF PlacingRight
<1>5. CASE FetchRba
  <2>1. PICK x \in Inputs["fetch_rba_series"] :
          call' = [fn |-> "fetch_rba_series", in |-> x] /\ returned' = [c \in {"fetch_rba_series"} |-> Assets!RbaSeries(x)]
    BY <1>5 DEF FetchRba, Ask
  <2> QED  BY <1>0, <2>1 DEF PlacingRight
<1>6. CASE FetchAbs
  <2>1. PICK x \in Inputs["fetch_abs_series"] :
          /\ call' = [fn |-> "fetch_abs_series", in |-> x]
          /\ returned' = [c \in {"fetch_abs_series"} |-> Assets!AbsSeries(x.table, x.dims)]
    BY <1>6 DEF FetchAbs, Ask
  <2> QED  BY <1>0, <2>1 DEF PlacingRight
<1>7. CASE call' = call /\ returned' = returned
  BY <1>0, <1>7 DEF PlacementsRight, answer
<1> QED  BY <1>1, <1>2, <1>3, <1>4, <1>5, <1>6, <1>7, NotPlacing

\* A call that is right has put its amounts where they belong.
LEMMA PlacementsHold ==
  ASSUME PlacementsRight
  PROVE  AmountsPlaced
<1>1. ASSUME Answered("cash13_forecast")
      PROVE  CashPlaced(call.in)
  <2>1. call.in \in Inputs["cash13_forecast"] /\ answer = CashAnswer(call.in) /\ answer # Refused
    BY <1>1 DEF PlacementsRight, PlacingRight, Answered, Asked
  <2>2. ~Cash!ConfigRefused(call.in)
        /\ answer = [forecast |-> Cash!Forecast13(call.in), runway |-> Cash!Runway(call.in, Cash!Forecast13(call.in))]
    BY <2>1 DEF CashAnswer
  <2>3. Fits(call.in)
    BY <2>1, <2>2, CashAssumption DEF Fits
  <2> QED  BY <2>2, <2>3, CashIsPlaced
<1>2. ASSUME Answered("compare_scenarios")
      PROVE  ScenarioMoves(call.in)
  <2>1. /\ call.in \in Inputs["compare_scenarios"] /\ answer # Refused
        /\ answer = Cash!Compared(call.in.cfg, call.in.scenario)
    BY <1>2 DEF PlacementsRight, PlacingRight, Answered, Asked
  <2> QED  BY <2>1, ScenarioIsMoved
<1>3. ASSUME Answered("straight_line")
      PROVE  ChargeSpread(call.in)
  <2>1. call.in \in Inputs["straight_line"] /\ answer = ChargeAnswer(call.in) /\ answer # Refused
    BY <1>3 DEF PlacementsRight, PlacingRight, Answered, Asked
  <2>2. call.in.file.charge \in Int \cup {None} /\ call.in.months \in Nat
    BY <2>1, FilesAssumption
  <2> QED  BY <2>1, <2>2, ChargeIsSpread DEF ChargeAnswer
<1>4. ASSUME Answered("cash_and_expense")
      PROVE  AssetsSpent(call.in)
  <2>1. PICK x \in Inputs["straight_line"], p \in Inputs["purchases"] :
          /\ ChargeAnswer(x) # Refused /\ call.in = Spending(ChargeAnswer(x), p)
          /\ answer = Assets!CashAndExpense(ChargeAnswer(x), p)
    BY <1>4 DEF PlacementsRight, PlacingRight, Answered, Asked
  <2>2. x.file.charge \in Int \cup {None} /\ x.months \in Nat /\ p \in Seq(Int)
    BY FilesAssumption
  <2>3. DOMAIN ChargeAnswer(x) = 1..x.months /\ \A i \in 1..x.months : ChargeAnswer(x)[i] \in Int
    BY <2>1, <2>2, SharesAre DEF ChargeAnswer
  <2>4. answer # Refused
    BY <1>4 DEF Answered
  <2> QED  BY <2>1, <2>2, <2>3, <2>4, SpendingAdds DEF Spending
<1>5. ASSUME Answered("fetch_rba_series")
      PROVE  RbaRead(call.in)
  <2>1. call.in \in Inputs["fetch_rba_series"] /\ answer = Assets!RbaSeries(call.in) /\ answer # Refused
    BY <1>5 DEF PlacementsRight, PlacingRight, Answered, Asked
  <2> QED  BY <2>1, RbaIsRead
<1>6. ASSUME Answered("fetch_abs_series")
      PROVE  AbsRead(call.in)
  <2>1. answer = Assets!AbsSeries(call.in.table, call.in.dims) /\ answer # Refused
    BY <1>6 DEF PlacementsRight, PlacingRight, Answered, Asked
  <2> QED  BY <2>1, AbsIsRead
<1> QED  BY <1>1, <1>2, <1>3, <1>4, <1>5, <1>6 DEF AmountsPlaced

\* Every forecast, scenario, depreciation and series that is answered has put its
\* amounts in their weeks, months and periods, and nowhere else.
THEOREM AmountsAllPlaced == Spec => []AmountsPlaced
<1>1. PlacementsRight /\ [Next]_vars => PlacementsRight'
  <2>1. ASSUME PlacementsRight, UNCHANGED vars
        PROVE  PlacementsRight'
    BY <2>1 DEF PlacementsRight, PlacingRight, vars, answer
  <2> QED  BY <2>1, PlacementsStep
<1> QED  BY <1>1, PlacementsStart, PlacementsHold, PTL DEF Spec
=============================================================================
