------------------------------ MODULE SumProofs ------------------------------
(***************************************************************************)
(* Sums over finite sets of integers.  MapThenSumSet picks the elements   *)
(* in an order of its own; these lemmas say that the order does not        *)
(* matter.                                                                 *)
(***************************************************************************)
EXTENDS Integers, FiniteSets, FiniteSetsExt, FiniteSetTheorems, WellFoundedInduction, TLAPS

\* The sum of a function over a set.
Total(f, S) == MapThenSumSet(LAMBDA i : f[i], S)

Pick(s) == CHOOSE x \in s : TRUE

\* g sums f over every subset of S, one picked element after the other.
Sums(g, f, S) ==
  g = [s \in SUBSET S |-> IF s = {} THEN 0 ELSE f[Pick(s)] + g[s \ {Pick(s)}]]

\* Every set of natural numbers that is not empty has a least element.
LEMMA LeastNumber ==
  ASSUME NEW T, T \subseteq Nat, T # {}
  PROVE  \E m \in T : \A n \in T : m <= n
<1>1. PICK m \in T : \A n \in T : ~(<<n, m>> \in OpToRel(<, Nat))
  BY NatLessThanWellFounded, WFMin
<1>2. \A n \in T : ~(n < m)
  BY <1>1 DEF OpToRel
<1> QED BY <1>2

\* A minimal set among some subsets of a finite set.
LEMMA LeastSubset ==
  ASSUME NEW U, IsFiniteSet(U), NEW W, W \subseteq SUBSET U, W # {}
  PROVE  \E T \in W : \A S \in W : S \subseteq T => S = T
<1>1. \A T \in SUBSET U : IsFiniteSet(T)
  BY FS_Subset
<1>2. W \subseteq FiniteSubsetsOf(U)
  BY <1>1 DEF FiniteSubsetsOf
<1>3. PICK T \in W : \A S \in W : ~(<<S, T>> \in StrictSubsetOrdering(U))
  BY <1>2, FS_StrictSubsetOrderingWellFounded, WFMin
<1>4. \A S \in W : S \subseteq T => S = T
  BY <1>3 DEF StrictSubsetOrdering
<1> QED BY <1>4

\* A set of numbers with a bound has a greatest one.
LEMMA GreatestNumber ==
  ASSUME NEW k \in Int, NEW S, S \subseteq Int, S # {}, \A n \in S : n <= k
  PROVE  Max(S) \in S /\ \A n \in S : n <= Max(S)
<1> DEFINE T == {m \in Nat : k - m \in S}
<1>1. PICK s \in S : s \in Int /\ s <= k
  OBVIOUS
<1>2. k - s \in T
  <2>1. k - (k - s) = s /\ k - s \in Nat
    BY <1>1
  <2> QED BY <1>1, <2>1
<1>3. PICK m \in T : \A n \in T : m <= n
  BY <1>2, LeastNumber
<1>4. \A n \in S : n <= k - m
  <2> SUFFICES ASSUME NEW n \in S PROVE n <= k - m
    OBVIOUS
  <2>1. n \in Int /\ n <= k
    OBVIOUS
  <2>2. k - (k - n) = n /\ k - n \in Nat
    BY <2>1
  <2>3. k - n \in T
    BY <2>2
  <2>4. m <= k - n /\ m \in Nat
    BY <1>3, <2>3
  <2> QED BY <2>1, <2>4
<1>5. k - m \in S
  BY <1>3
<1>6. \E x \in S : \A y \in S : x >= y
  BY <1>4, <1>5
<1> HIDE DEF T
<1> QED BY <1>6 DEF Max

\* The greater and the smaller of two numbers.
LEMMA TwoNumbers ==
  ASSUME NEW a \in Int, NEW b \in Int
  PROVE  /\ Max({a, b}) = IF a >= b THEN a ELSE b
         /\ Min({a, b}) = IF a <= b THEN a ELSE b
<1>1. /\ \E m \in {a, b} : \A n \in {a, b} : m >= n
      /\ \E m \in {a, b} : \A n \in {a, b} : m <= n
  OBVIOUS
<1>2. /\ Max({a, b}) \in {a, b} /\ \A n \in {a, b} : Max({a, b}) >= n
      /\ Min({a, b}) \in {a, b} /\ \A n \in {a, b} : Min({a, b}) <= n
  BY <1>1 DEF Max, Min
<1> QED BY <1>2

\* choose names an element of every set that has one, and g folds op over the
\* subsets of U, one chosen element after the other.
Chooses(choose, U) == \A s \in SUBSET U : s # {} => choose[s] \in s

Folds(g, base, op, choose, U) ==
  \A s \in SUBSET U : g[s] = IF s = {} THEN base ELSE op[<<choose[s], g[s \ {choose[s]}]>>]

\* A fold over the subsets of a finite set exists, whatever it adds up and
\* whatever order it takes.
LEMMA FoldExists ==
  ASSUME NEW U, IsFiniteSet(U), NEW V, NEW base \in V, NEW op \in [U \X V -> V],
         NEW choose, Chooses(choose, U)
  PROVE  \E g \in [SUBSET U -> V] : Folds(g, base, op, choose, U)
<1> DEFINE Small(n) == {s \in SUBSET U : Cardinality(s) <= n}
           Step(g, s) == IF s = {} THEN base ELSE op[<<choose[s], g[s \ {choose[s]}]>>]
           Have(n) == \E g \in [Small(n) -> V] : \A s \in Small(n) : g[s] = Step(g, s)
<1>1. \A s \in SUBSET U : IsFiniteSet(s) /\ Cardinality(s) \in Nat
  BY FS_Subset, FS_CardinalityType
<1>2. ASSUME NEW s \in SUBSET U, s # {}
      PROVE  choose[s] \in s /\ s \ {choose[s]} \in SUBSET U /\ Cardinality(s \ {choose[s]}) = Cardinality(s) - 1
  <2>1. choose[s] \in s
    BY <1>2 DEF Chooses
  <2> QED BY <1>1, <2>1, FS_RemoveElement
<1>3. Have(0)
  <2>1. \A s \in Small(0) : s = {}
    BY <1>1, FS_EmptySet
  <2>2. [s \in Small(0) |-> base] \in [Small(0) -> V]
    OBVIOUS
  <2>3. \A s \in Small(0) : [t \in Small(0) |-> base][s] = Step([t \in Small(0) |-> base], s)
    BY <2>1
  <2> QED BY <2>2, <2>3
<1>4. ASSUME NEW n \in Nat, Have(n) PROVE Have(n + 1)
  <2>1. PICK g \in [Small(n) -> V] : \A s \in Small(n) : g[s] = Step(g, s)
    BY <1>4
  <2> DEFINE h == [s \in Small(n + 1) |-> IF s \in Small(n) THEN g[s] ELSE Step(g, s)]
  <2>2. \A s \in Small(n + 1) : s # {} => s \ {choose[s]} \in Small(n)
    BY <1>1, <1>2
  <2>3. \A s \in Small(n + 1) : s # {} => choose[s] \in U
    BY <1>2
  <2>4. Small(n) \subseteq Small(n + 1)
    BY <1>1
  <2> HIDE DEF Small
  <2>5. ASSUME NEW s \in Small(n + 1) PROVE h[s] = Step(g, s) /\ Step(g, s) \in V
    <3>1. Step(g, s) \in V
      <4>1. s # {} => <<choose[s], g[s \ {choose[s]}]>> \in U \X V
        BY <2>2, <2>3
      <4> QED BY <4>1
    <3> QED BY <2>1, <3>1
  <2>6. \A s \in Small(n + 1) : Step(h, s) = Step(g, s)
    <3>1. \A s \in Small(n) : h[s] = g[s]
      BY <2>4
    <3> HIDE DEF h
    <3>2. ASSUME NEW s \in Small(n + 1), s # {} PROVE h[s \ {choose[s]}] = g[s \ {choose[s]}]
      BY <2>2, <3>1, <3>2
    <3> QED BY <3>2
  <2>7. h \in [Small(n + 1) -> V]
    BY <2>5
  <2> QED BY <2>5, <2>6, <2>7
<1>5. \A n \in Nat : Have(n)
  <2> SUFFICES ASSUME NEW k \in Nat, ~Have(k) PROVE FALSE
    OBVIOUS
  <2> HIDE DEF Have
  <2> DEFINE Bad == {n \in Nat : ~Have(n)}
  <2>1. PICK m \in Bad : \A n \in Bad : m <= n
    BY LeastNumber, k \in Bad
  <2>2. m # 0
    BY <1>3
  <2>3. m - 1 \in Nat /\ m - 1 \notin Bad
    BY <2>1, <2>2
  <2>4. Have(m - 1)
    BY <2>3
  <2>5. Have((m - 1) + 1)
    BY <1>4, <2>3, <2>4
  <2> QED BY <2>1, <2>5
<1>6. Small(Cardinality(U)) = SUBSET U /\ Cardinality(U) \in Nat
  BY <1>1, FS_Subset, FS_CardinalityType
<1> HIDE DEF Step
<1>7. PICK g \in [SUBSET U -> V] : \A s \in SUBSET U : g[s] = Step(g, s)
  <2> HIDE DEF Small
  <2>1. Have(Cardinality(U))
    BY <1>5, <1>6
  <2> QED BY <1>6, <2>1
<1> QED BY <1>7 DEF Step, Folds

\* The sums exist, and they stay natural numbers if these are all they add.
LEMMA SumsExist ==
  ASSUME NEW U, IsFiniteSet(U), NEW V, V \in {Nat, Int}, NEW f \in [U -> V]
  PROVE  \E g \in [SUBSET U -> V] : Sums(g, f, U)
<1> DEFINE op == [p \in U \X V |-> f[p[1]] + p[2]]
           choose == [s \in SUBSET U |-> Pick(s)]
<1>1. 0 \in V /\ op \in [U \X V -> V]
  OBVIOUS
<1>2. \A s \in SUBSET U : choose[s] = Pick(s) /\ (s # {} => choose[s] \in s)
  BY DEF Pick
<1>3. \A x \in U, a \in V : op[<<x, a>>] = f[x] + a
  OBVIOUS
<1> HIDE DEF op, choose
<1>4. PICK g \in [SUBSET U -> V] :
        \A s \in SUBSET U : g[s] = IF s = {} THEN 0 ELSE op[<<choose[s], g[s \ {choose[s]}]>>]
  <2>1. Chooses(choose, U)
    BY <1>2 DEF Chooses
  <2>2. PICK g \in [SUBSET U -> V] : Folds(g, 0, op, choose, U)
    BY <1>1, <2>1, FoldExists
  <2> QED BY <2>2 DEF Folds
<1>5. ASSUME NEW s \in SUBSET U PROVE g[s] = IF s = {} THEN 0 ELSE f[Pick(s)] + g[s \ {Pick(s)}]
  <2>1. s # {} => Pick(s) \in U /\ s \ {Pick(s)} \in SUBSET U
    BY <1>2
  <2> QED BY <1>2, <1>3, <1>4, <2>1
<1>6. g = [s \in SUBSET U |-> IF s = {} THEN 0 ELSE f[Pick(s)] + g[s \ {Pick(s)}]]
  BY <1>5
<1> QED BY <1>6 DEF Sums

\* There is only one sum, also when only a part of the set is summed.
LEMMA SumsAgree ==
  ASSUME NEW U, IsFiniteSet(U), NEW f, NEW g, Sums(g, f, U), NEW S \in SUBSET U, NEW h, Sums(h, f, S)
  PROVE  \A s \in SUBSET S : h[s] = g[s]
<1> DEFINE Bad == {s \in SUBSET S : h[s] # g[s]}
<1> SUFFICES ASSUME Bad # {} PROVE FALSE
  OBVIOUS
<1>1. IsFiniteSet(S)
  BY FS_Subset
<1>2. PICK T \in Bad : \A s \in Bad : s \subseteq T => s = T
  <2>1. Bad \subseteq SUBSET S
    OBVIOUS
  <2> HIDE DEF Bad
  <2> QED BY <1>1, <2>1, LeastSubset
<1>3. /\ h[T] = IF T = {} THEN 0 ELSE f[Pick(T)] + h[T \ {Pick(T)}]
      /\ g[T] = IF T = {} THEN 0 ELSE f[Pick(T)] + g[T \ {Pick(T)}]
  BY DEF Sums
<1>4. T # {}
  BY <1>3
<1>5. Pick(T) \in T
  BY <1>4 DEF Pick
<1>6. h[T \ {Pick(T)}] = g[T \ {Pick(T)}]
  BY <1>2, <1>5
<1> QED BY <1>3, <1>4, <1>6

\* The fold of the community modules is that sum.
LEMMA TotalIs ==
  ASSUME NEW U, IsFiniteSet(U), NEW f, NEW g, Sums(g, f, U), NEW S \in SUBSET U
  PROVE  Total(f, S) = g[S]
<1> DEFINE iter == CHOOSE h : Sums(h, f, S)
           r == [s \in SUBSET S |-> g[s]]
<1>1. Sums(r, f, S)
  <2>1. \A s \in SUBSET S : g[s] = IF s = {} THEN 0 ELSE f[Pick(s)] + g[s \ {Pick(s)}]
    BY DEF Sums
  <2>2. \A s \in SUBSET S : s # {} => r[s \ {Pick(s)}] = g[s \ {Pick(s)}]
    OBVIOUS
  <2> QED BY <2>1, <2>2 DEF Sums
<1> HIDE DEF r
<1>2. Sums(iter, f, S)
  BY <1>1
<1>3. Total(f, S) = iter[S]
  BY DEF Total, MapThenSumSet, MapThenFoldSet, Sums, Pick
<1> HIDE DEF iter
<1> QED BY <1>2, <1>3, SumsAgree

-----------------------------------------------------------------------------
(* What a sum does when its set or its function changes.                   *)

LEMMA TotalEmpty ==
  ASSUME NEW f
  PROVE  Total(f, {}) = 0
BY DEF Total, MapThenSumSet, MapThenFoldSet

LEMMA TotalType ==
  ASSUME NEW S, IsFiniteSet(S), NEW V, V \in {Nat, Int}, NEW f \in [S -> V]
  PROVE  Total(f, S) \in V
<1>1. PICK g \in [SUBSET S -> V] : Sums(g, f, S)
  BY SumsExist
<1> QED BY <1>1, TotalIs

\* Any element may be summed last.
LEMMA TotalSplit ==
  ASSUME NEW U, IsFiniteSet(U), NEW f \in [U -> Int], NEW S \in SUBSET U, NEW x \in S
  PROVE  Total(f, S) = f[x] + Total(f, S \ {x})
<1>1. PICK g \in [SUBSET U -> Int] : Sums(g, f, U)
  BY SumsExist
<1> DEFINE Bad == {T \in SUBSET U : \E y \in T : g[T] # f[y] + g[T \ {y}]}
<1>2. Bad = {}
  <2> SUFFICES ASSUME Bad # {} PROVE FALSE
    OBVIOUS
  <2>1. PICK T \in Bad : \A s \in Bad : s \subseteq T => s = T
    <3>1. Bad \subseteq SUBSET U
      OBVIOUS
    <3> HIDE DEF Bad
    <3> QED BY <3>1, LeastSubset
  <2>2. PICK y \in T : g[T] # f[y] + g[T \ {y}]
    BY <2>1
  <2> DEFINE p == Pick(T)
  <2>3. p \in T
    BY <2>2 DEF Pick
  <2>4. g[T] = f[p] + g[T \ {p}]
    BY <1>1, <2>1, <2>2 DEF Sums
  <2> HIDE DEF p
  <2>5. p # y
    BY <2>2, <2>4
  <2>6. T \ {p} \notin Bad /\ T \ {y} \notin Bad /\ T \ {p} \in SUBSET U /\ T \ {y} \in SUBSET U
    BY <2>1, <2>2, <2>3
  <2>7. y \in T \ {p} /\ p \in T \ {y} /\ (T \ {p}) \ {y} = (T \ {y}) \ {p}
    BY <2>2, <2>3, <2>5
  <2>8. g[T \ {p}] = f[y] + g[(T \ {p}) \ {y}]
    BY <2>6, <2>7
  <2>9. g[T \ {y}] = f[p] + g[(T \ {y}) \ {p}]
    BY <2>6, <2>7
  <2>10. f[p] \in Int /\ f[y] \in Int /\ g[(T \ {p}) \ {y}] \in Int
    <3>1. (T \ {p}) \ {y} \in SUBSET U /\ p \in U /\ y \in U
      BY <2>1, <2>2, <2>3
    <3> QED BY <3>1
  <2>11. g[T \ {y}] = f[p] + g[(T \ {p}) \ {y}]
    BY <2>7, <2>9
  <2>12. \A a, b, c \in Int : a + (b + c) = b + (a + c)
    OBVIOUS
  <2>13. g[T] = f[y] + g[T \ {y}]
    BY ONLY <2>4, <2>8, <2>10, <2>11, <2>12
  <2> QED BY <2>2, <2>13
<1>3. g[S] = f[x] + g[S \ {x}]
  BY <1>2
<1>4. Total(f, S) = g[S] /\ Total(f, S \ {x}) = g[S \ {x}]
  BY <1>1, TotalIs
<1> QED BY <1>3, <1>4

\* What is added to a set of natural numbers never makes its sum smaller.
LEMMA TotalGrows ==
  ASSUME NEW U, IsFiniteSet(U), NEW f \in [U -> Nat], NEW T \in SUBSET U, NEW S \in SUBSET T
  PROVE  Total(f, S) <= Total(f, T)
<1> DEFINE Bad == {W \in SUBSET U : S \subseteq W /\ ~(Total(f, S) <= Total(f, W))}
<1> SUFFICES ASSUME Bad # {} PROVE FALSE
  OBVIOUS
<1>1. PICK W \in Bad : \A V \in Bad : V \subseteq W => V = W
  <2>1. Bad \subseteq SUBSET U
    OBVIOUS
  <2> HIDE DEF Bad
  <2> QED BY <2>1, LeastSubset
<1>2. \A V \in SUBSET U : Total(f, V) \in Nat
  <2> SUFFICES ASSUME NEW V \in SUBSET U PROVE Total(f, V) \in Nat
    OBVIOUS
  <2>1. PICK g \in [SUBSET U -> Nat] : Sums(g, f, U)
    BY SumsExist
  <2> QED BY <2>1, TotalIs
<1>3. PICK x \in W \ S : TRUE
  <2>1. W # S
    BY <1>1, <1>2
  <2> QED BY <1>1, <2>1
<1>4. Total(f, W) = f[x] + Total(f, W \ {x})
  BY <1>1, <1>3, TotalSplit
<1>5. Total(f, S) <= Total(f, W \ {x})
  BY <1>1, <1>3
<1>6. Total(f, W) \in Nat /\ Total(f, W \ {x}) \in Nat /\ Total(f, S) \in Nat /\ f[x] \in Nat
  BY <1>1, <1>2, <1>3
<1> QED BY <1>1, <1>4, <1>5, <1>6

\* A sum depends on the function's values in the set, and on nothing else.
LEMMA TotalSame ==
  ASSUME NEW S, IsFiniteSet(S), NEW f, NEW h, \A x \in S : f[x] = h[x] /\ f[x] \in Int
  PROVE  Total(f, S) = Total(h, S)
<1> DEFINE r == [x \in S |-> f[x]]
<1>1. r \in [S -> Int]
  OBVIOUS
<1>2. PICK g \in [SUBSET S -> Int] : Sums(g, r, S)
  BY <1>1, SumsExist
<1>3. \A s \in SUBSET S : s # {} => Pick(s) \in s
  BY DEF Pick
<1>4. \A s \in SUBSET S : s # {} => r[Pick(s)] = f[Pick(s)] /\ r[Pick(s)] = h[Pick(s)]
  BY <1>3
<1> HIDE DEF r
<1>5. Sums(g, f, S) /\ Sums(g, h, S)
  BY <1>2, <1>4 DEF Sums
<1>6. Total(f, S) = g[S] /\ Total(h, S) = g[S]
  BY <1>5, TotalIs
<1> QED BY <1>6
=============================================================================
