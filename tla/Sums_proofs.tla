---------------------------- MODULE Sums_proofs ----------------------------
(***************************************************************************)
(* Facts about finite sets and the sums over them.                         *)
(***************************************************************************)
EXTENDS Sums, Functions, FiniteSetTheorems, WellFoundedInduction, TLAPS

-----------------------------------------------------------------------------
(* Induction, with a set in the place of the predicate                     *)

\* A set of naturals has a least one.
LEMMA LeastNatural ==
    ASSUME NEW T \in SUBSET Nat, T # {}
    PROVE  \E x \in T : \A y \in T : x <= y
<1>1. \E x \in T : \A y \in T : ~ (<<y, x>> \in OpToRel(<, Nat))
  BY NatLessThanWellFounded, WFMin
<1>2. PICK x \in T : \A y \in T : ~ (<<y, x>> \in OpToRel(<, Nat))
  BY <1>1
<1>3. \A y \in T : ~ (y < x)
  BY <1>2 DEF OpToRel
<1>4. QED
  BY <1>3

\* What every subset inherits from its proper subsets, every subset has.
LEMMA FiniteInduction ==
    ASSUME NEW S, IsFiniteSet(S), NEW G,
           \A T \in SUBSET S : (\A U \in (SUBSET T) \ {T} : U \in G) => T \in G
    PROVE  SUBSET S \subseteq G
<1> DEFINE Bad == (SUBSET S) \ G
<1>1. SUFFICES ASSUME Bad # {} PROVE FALSE
  OBVIOUS
<1>2. IsWellFoundedOn(StrictSubsetOrdering(S), SUBSET S)
  BY FS_StrictSubsetOrderingWellFounded, FS_FiniteSubsetsOfFinite
<1>3. PICK T \in Bad : \A U \in Bad : ~ (<<U, T>> \in StrictSubsetOrdering(S))
  <2> HIDE DEF Bad
  <2>1. Bad \subseteq SUBSET S
    BY DEF Bad
  <2>2. QED
    BY <1>1, <1>2, <2>1, WFMin
<1>4. ASSUME NEW U \in (SUBSET T) \ {T} PROVE U \in G
  BY <1>3 DEF StrictSubsetOrdering
<1>5. QED
  BY <1>3, <1>4

-----------------------------------------------------------------------------
(* Recursive definitions that have a solution                              *)

UpTo(S, n) == {T \in SUBSET S : Cardinality(T) <= n}

\* The equation of a fold over the subsets in D: one element is picked from each, and
\* op adds it to the fold of the others.
Folds(D, base, pick, op, g) ==
    g = [T \in D |-> IF T = {} THEN base ELSE op[<<pick[T], g[T \ {pick[T]}]>>]]

\* It has a solution over the subsets of each size, and so over all.
LEMMA FoldsAreDefined ==
    ASSUME NEW S, IsFiniteSet(S), NEW V, NEW base \in V,
           NEW pick, \A T \in SUBSET S : T # {} => pick[T] \in T,
           NEW op \in [S \X V -> V]
    PROVE  \E g \in [SUBSET S -> V] : Folds(SUBSET S, base, pick, op, g)
<1> DEFINE Missing == {n \in Nat : ~ \E g \in [UpTo(S, n) -> V] : Folds(UpTo(S, n), base, pick, op, g)}
<1>0. \A T \in SUBSET S : IsFiniteSet(T) /\ Cardinality(T) \in Nat /\ Cardinality(T) <= Cardinality(S)
  BY FS_Subset, FS_CardinalityType
<1>1. ASSUME Missing # {} PROVE FALSE
  <2>1. PICK n \in Missing : \A m \in Missing : n <= m
    <3> HIDE DEF Missing
    <3>1. Missing \subseteq Nat
      BY DEF Missing
    <3>2. QED
      BY <1>1, <3>1, LeastNatural
  <2>2. n # 0
    <3>1. ASSUME n = 0 PROVE FALSE
      <4> DEFINE g == [T \in UpTo(S, 0) |-> base]
      <4>1. \A T \in UpTo(S, 0) : T = {}
        BY <1>0, FS_EmptySet DEF UpTo
      <4>2. g \in [UpTo(S, 0) -> V]
        OBVIOUS
      <4>3. Folds(UpTo(S, 0), base, pick, op, g)
        BY <4>1 DEF Folds
      <4>4. QED
        BY <2>1, <3>1, <4>2, <4>3
    <3>2. QED
      BY <3>1
  <2>3. n - 1 \in Nat /\ n \in Nat
    BY <2>1, <2>2
  <2>4. PICK g \in [UpTo(S, n - 1) -> V] : Folds(UpTo(S, n - 1), base, pick, op, g)
    <3>1. n - 1 \notin Missing
      BY <2>1, <2>3
    <3>2. QED
      BY <2>3, <3>1
  <2> DEFINE h == [T \in UpTo(S, n) |-> IF T = {} THEN base ELSE op[<<pick[T], g[T \ {pick[T]}]>>]]
  <2>5. ASSUME NEW T \in UpTo(S, n), T # {}
        PROVE  pick[T] \in S /\ T \ {pick[T]} \in UpTo(S, n - 1)
    <3>1. pick[T] \in T /\ T \in SUBSET S
      BY <2>5 DEF UpTo
    <3>2. Cardinality(T \ {pick[T]}) = Cardinality(T) - 1
      BY <1>0, <3>1, FS_RemoveElement
    <3>3. QED
      BY <1>0, <2>3, <3>1, <3>2 DEF UpTo
  <2>6. h \in [UpTo(S, n) -> V]
    <3>1. ASSUME NEW T \in UpTo(S, n), T # {} PROVE op[<<pick[T], g[T \ {pick[T]}]>>] \in V
      <4>1. pick[T] \in S /\ g[T \ {pick[T]}] \in V
        BY <2>5, <3>1
      <4>2. QED
        BY <4>1
    <3>2. QED
      BY <3>1
  <2>7. \A T \in UpTo(S, n - 1) : h[T] = g[T]
    <3>1. \A T \in UpTo(S, n - 1) : T \in UpTo(S, n)
      BY <1>0, <2>3 DEF UpTo
    <3>2. QED
      BY <2>4, <3>1 DEF Folds
  <2>8. Folds(UpTo(S, n), base, pick, op, h)
    BY <2>5, <2>7 DEF Folds
  <2>9. QED
    BY <2>1, <2>6, <2>8
<1>2. Cardinality(S) \in Nat
  BY <1>0
<1>3. UpTo(S, Cardinality(S)) = SUBSET S
  BY <1>0 DEF UpTo
<1>4. Cardinality(S) \notin Missing
  BY <1>1
<1>5. \E g \in [UpTo(S, Cardinality(S)) -> V] : Folds(UpTo(S, Cardinality(S)), base, pick, op, g)
  BY <1>2, <1>4
<1>6. QED
  BY <1>3, <1>5

\* What holds at zero and of each next natural holds of all.
LEMMA NaturalInduction ==
    ASSUME NEW G, 0 \in G, \A n \in Nat : n \in G => n + 1 \in G
    PROVE  Nat \subseteq G
<1> DEFINE Bad == Nat \ G
<1>1. SUFFICES ASSUME Bad # {} PROVE FALSE
  OBVIOUS
<1>2. PICK n \in Bad : \A m \in Bad : n <= m
  <2> HIDE DEF Bad
  <2>1. Bad \subseteq Nat
    BY DEF Bad
  <2>2. QED
    BY <1>1, <2>1, LeastNatural
<1>3. n - 1 \in Nat /\ n - 1 \notin Bad
  BY <1>2
<1>4. n - 1 \in G /\ (n - 1) + 1 = n
  BY <1>3
<1>5. QED
  BY <1>2, <1>3, <1>4

\* A list of the powers of b.
Powers(b, D, g) == g = [k \in D |-> IF k = 0 THEN 1 ELSE b * g[k - 1]]

LEMMA PowersAreDefined ==
    ASSUME NEW b \in Int
    PROVE  \E g \in [Nat -> Int] : Powers(b, Nat, g)
<1> DEFINE G == {n \in Nat : \E p \in [0..n -> Int] : Powers(b, 0..n, p)}
<1>1. 0 \in G
  <2> DEFINE p == [k \in 0..0 |-> 1]
  <2>1. p \in [0..0 -> Int]
    OBVIOUS
  <2>2. \A k \in 0..0 : k = 0
    OBVIOUS
  <2>3. Powers(b, 0..0, p)
    BY <2>2 DEF Powers
  <2>4. QED
    BY <2>1, <2>3
<1>2. ASSUME NEW n \in Nat, n \in G PROVE n + 1 \in G
  <2>1. PICK p \in [0..n -> Int] : Powers(b, 0..n, p)
    BY <1>2
  <2> DEFINE q == [k \in 0..(n + 1) |-> IF k = 0 THEN 1 ELSE b * p[k - 1]]
  <2>2. \A k \in 0..(n + 1) : k # 0 => k - 1 \in 0..n
    OBVIOUS
  <2>3. \A k \in 0..n : k \in 0..(n + 1) /\ q[k] = p[k]
    BY <2>1 DEF Powers
  <2>4. q \in [0..(n + 1) -> Int]
    <3>1. \A k \in 0..(n + 1) : k # 0 => b * p[k - 1] \in Int
      BY <2>1, <2>2
    <3>2. QED
      BY <3>1
  <2>5. Powers(b, 0..(n + 1), q)
    BY <2>2, <2>3 DEF Powers
  <2>6. QED
    BY <2>4, <2>5
<1>3. Nat \subseteq G
  <2> HIDE DEF G
  <2>1. QED
    BY <1>1, <1>2, NaturalInduction
<1> DEFINE list == [n \in Nat |-> CHOOSE p \in [0..n -> Int] : Powers(b, 0..n, p)]
           g == [n \in Nat |-> list[n][n]]
<1>4. \A n \in Nat : list[n] \in [0..n -> Int] /\ Powers(b, 0..n, list[n])
  BY <1>3
<1> HIDE DEF list
<1>5. ASSUME NEW n \in Nat PROVE \A k \in 0..n : list[n + 1][k] = list[n][k]
  <2> DEFINE p == list[n]
             q == list[n + 1]
             H == {k \in Nat : k \in 0..n => p[k] = q[k]}
  <2>0. n + 1 \in Nat
    OBVIOUS
  <2>1. Powers(b, 0..n, p) /\ Powers(b, 0..(n + 1), q)
    BY <1>4, <2>0
  <2> HIDE DEF p, q
  <2>2. 0 \in H
    BY <2>1 DEF Powers
  <2>3. ASSUME NEW k \in Nat, k \in H PROVE k + 1 \in H
    <3>1. k + 1 \in 0..n => p[k + 1] = b * p[k] /\ q[k + 1] = b * q[k]
      BY <2>1 DEF Powers
    <3>2. QED
      BY <2>3, <3>1
  <2>4. Nat \subseteq H
    <3> HIDE DEF H
    <3>1. QED
      BY <2>2, <2>3, NaturalInduction
  <2>5. QED
    BY <2>4 DEF p, q
<1>6. ASSUME NEW n \in Nat, n # 0 PROVE list[n][n] = b * list[n - 1][n - 1]
  <2>1. n - 1 \in Nat /\ (n - 1) + 1 = n /\ n - 1 \in 0..(n - 1) /\ n \in 0..n
    BY <1>6
  <2>2. list[n][n - 1] = list[n - 1][n - 1]
    BY <1>5, <2>1
  <2>3. list[n][n] = b * list[n][n - 1]
    BY <1>4, <1>6, <2>1 DEF Powers
  <2>4. QED
    BY <2>2, <2>3
<1>7. list[0][0] = 1 /\ \A n \in Nat : list[n][n] \in Int
  <2>0. 0 \in Nat /\ 0 \in 0..0
    OBVIOUS
  <2>1. Powers(b, 0..0, list[0])
    BY <1>4, <2>0, Zenon
  <2>2. list[0][0] = 1
    BY <2>0, <2>1 DEF Powers
  <2>3. \A n \in Nat : n \in 0..n
    OBVIOUS
  <2>4. QED
    BY <1>4, <2>2, <2>3
<1>8. g \in [Nat -> Int]
  BY <1>7
<1>9. Powers(b, Nat, g)
  <2> DEFINE h == [n \in Nat |-> IF n = 0 THEN 1 ELSE b * g[n - 1]]
  <2>1. ASSUME NEW n \in Nat PROVE g[n] = h[n]
    <3>1. CASE n = 0
      BY <1>7, <3>1
    <3>2. CASE n # 0
      <4>1. n - 1 \in Nat
        BY <3>2
      <4>2. g[n - 1] = list[n - 1][n - 1] /\ g[n] = list[n][n]
        BY <4>1
      <4>3. QED
        BY <1>6, <3>2, <4>2
    <3>3. QED
      BY <3>1, <3>2
  <2>2. g = h
    BY <2>1
  <2>3. QED
    BY <2>2 DEF Powers
<1> QED
  BY <1>8, <1>9

-----------------------------------------------------------------------------
(* A sum is what its recursive definition says                             *)

Pick(T) == CHOOSE x \in T : TRUE

\* Finitely many amounts.
Amounts(f, S) == IsFiniteSet(S) /\ \A x \in S : f[x] \in Int

\* The equation that the fold over the subsets in D solves.
Solves(f, D, g) ==
    g = [T \in D |-> IF T = {} THEN 0 ELSE f[Pick(T)] + g[T \ {Pick(T)}]]

LEMMA SumsAreDefined ==
    ASSUME NEW S, NEW f, Amounts(f, S)
    PROVE  \E g \in [SUBSET S -> Int] : Solves(f, SUBSET S, g)
<1> DEFINE pick == [T \in SUBSET S |-> Pick(T)]
           op == [p \in S \X Int |-> f[p[1]] + p[2]]
<1>1. IsFiniteSet(S) /\ 0 \in Int /\ \A T \in SUBSET S : T # {} => pick[T] \in T /\ pick[T] = Pick(T)
  BY DEF Amounts, Pick
<1>2. op \in [S \X Int -> Int] /\ \A x \in S : \A v \in Int : op[<<x, v>>] = f[x] + v
  BY DEF Amounts
<1> HIDE DEF pick, op
<1>3. PICK g \in [SUBSET S -> Int] : Folds(SUBSET S, 0, pick, op, g)
  BY <1>1, <1>2, FoldsAreDefined
<1>4. ASSUME NEW T \in SUBSET S, T # {}
      PROVE  op[<<pick[T], g[T \ {pick[T]}]>>] = f[Pick(T)] + g[T \ {Pick(T)}]
  <2>1. Pick(T) \in S /\ g[T \ {Pick(T)}] \in Int /\ pick[T] = Pick(T)
    BY <1>1, <1>4
  <2>2. QED
    BY <1>2, <2>1
<1>5. Solves(f, SUBSET S, g)
  BY <1>3, <1>4 DEF Folds, Solves
<1> QED
  BY <1>5

\* What solves it on all subsets of S adds up what the sum over a subset adds up.
LEMMA SumIsTheSolution ==
    ASSUME NEW S, NEW f, Amounts(f, S),
           NEW g, Solves(f, SUBSET S, g)
    PROVE  \A T \in SUBSET S : SumFunctionOnSet(f, T) = g[T]
<1>1. SUFFICES ASSUME NEW R \in SUBSET S PROVE SumFunctionOnSet(f, R) = g[R]
  OBVIOUS
<1>2. IsFiniteSet(R) /\ Amounts(f, R)
  BY FS_Subset DEF Amounts
<1> DEFINE iter == CHOOSE iter : Solves(f, SUBSET R, iter)
<1>3. SumFunctionOnSet(f, R) = iter[R]
  BY DEF SumFunctionOnSet, FoldFunctionOnSet, MapThenFoldSet, Solves, Pick
<1>4. Solves(f, SUBSET R, iter)
  BY <1>2, SumsAreDefined
<1> HIDE DEF iter
<1> DEFINE G == {T \in SUBSET R : iter[T] = g[T]}
<1>5. ASSUME NEW T \in SUBSET R, \A U \in (SUBSET T) \ {T} : U \in G
      PROVE  T \in G
  <2>1. CASE T = {}
    BY <1>4, <2>1 DEF Solves
  <2>2. CASE T # {}
    <3>1. Pick(T) \in T
      BY <2>2 DEF Pick
    <3>2. T \ {Pick(T)} \in G
      BY <1>5, <3>1
    <3>3. iter[T] = f[Pick(T)] + iter[T \ {Pick(T)}]
      BY <1>4, <2>2 DEF Solves
    <3>4. g[T] = f[Pick(T)] + g[T \ {Pick(T)}]
      BY <2>2 DEF Solves
    <3>5. QED
      BY <3>2, <3>3, <3>4
  <2>3. QED
    BY <2>1, <2>2
<1>6. SUBSET R \subseteq G
  <2> HIDE DEF G
  <2>1. QED
    BY <1>2, <1>5, FiniteInduction
<1>7. QED
  BY <1>3, <1>6

-----------------------------------------------------------------------------
(* What sums do                                                            *)

SumOn(f, T) == SumFunctionOnSet(f, T)

LEMMA SumType ==
    ASSUME NEW S, NEW f, Amounts(f, S)
    PROVE  SumOn(f, S) \in Int
<1>1. PICK g \in [SUBSET S -> Int] : Solves(f, SUBSET S, g)
  BY SumsAreDefined
<1>2. QED
  BY <1>1, SumIsTheSolution DEF SumOn

\* So is the sum of a part.
LEMMA SumOfPart ==
    ASSUME NEW S, NEW f, Amounts(f, S), NEW T \in SUBSET S
    PROVE  Amounts(f, T) /\ SumOn(f, T) \in Int
<1>1. Amounts(f, T)
  BY FS_Subset DEF Amounts
<1>2. QED
  BY <1>1, SumType

LEMMA SumOfNone ==
    ASSUME NEW f
    PROVE  SumOn(f, {}) = 0
<1>1. Amounts(f, {})
  BY FS_EmptySet DEF Amounts
<1>2. PICK g \in [SUBSET {} -> Int] : Solves(f, SUBSET {}, g)
  BY <1>1, SumsAreDefined
<1>3. SumOn(f, {}) = g[{}]
  BY <1>1, <1>2, SumIsTheSolution DEF SumOn
<1>4. QED
  BY <1>2, <1>3 DEF Solves

LEMMA SumTakesOne ==
    ASSUME NEW S, NEW f, Amounts(f, S), S # {}
    PROVE  Pick(S) \in S /\ SumOn(f, S) = f[Pick(S)] + SumOn(f, S \ {Pick(S)})
<1>1. PICK g \in [SUBSET S -> Int] : Solves(f, SUBSET S, g)
  BY SumsAreDefined
<1>2. Pick(S) \in S
  BY DEF Pick
<1>3. SumOn(f, S) = g[S] /\ SumOn(f, S \ {Pick(S)}) = g[S \ {Pick(S)}]
  BY <1>1, SumIsTheSolution DEF SumOn
<1>4. QED
  BY <1>1, <1>2, <1>3 DEF Solves

\* Any entry can be taken off the sum.
LEMMA SumSplit ==
    ASSUME NEW S, NEW f, Amounts(f, S), NEW x \in S
    PROVE  SumOn(f, S) = f[x] + SumOn(f, S \ {x})
<1> DEFINE G == {T \in SUBSET S : \A y \in T : SumOn(f, T) = f[y] + SumOn(f, T \ {y})}
<1>0. \A T \in SUBSET S : Amounts(f, T) /\ SumOn(f, T) \in Int
  BY SumOfPart
<1>1. ASSUME NEW T \in SUBSET S, \A U \in (SUBSET T) \ {T} : U \in G, NEW y \in T
      PROVE  SumOn(f, T) = f[y] + SumOn(f, T \ {y})
  <2> DEFINE p == Pick(T)
  <2>1. p \in T /\ SumOn(f, T) = f[p] + SumOn(f, T \ {p})
    BY <1>0, SumTakesOne
  <2> HIDE DEF p
  <2>2. CASE p = y
    BY <2>1, <2>2
  <2>3. CASE p # y
    <3>1. T \ {p} \in G /\ T \ {y} \in G
      BY <1>1, <2>1
    <3>2. SumOn(f, T \ {p}) = f[y] + SumOn(f, (T \ {p}) \ {y})
      BY <2>3, <3>1
    <3>3. SumOn(f, T \ {y}) = f[p] + SumOn(f, (T \ {y}) \ {p})
      BY <2>1, <2>3, <3>1
    <3> DEFINE s == SumOn(f, (T \ {y}) \ {p})
    <3>4. /\ SumOn(f, T) = f[p] + (f[y] + s)
          /\ SumOn(f, T \ {y}) = f[p] + s
      <4>1. (T \ {p}) \ {y} = (T \ {y}) \ {p}
        OBVIOUS
      <4>2. QED
        BY <2>1, <3>2, <3>3, <4>1
    <3>5. s \in Int /\ f[p] \in Int /\ f[y] \in Int
      BY <1>0, <2>1 DEF Amounts
    <3> HIDE DEF s
    <3>6. QED
      BY <3>4, <3>5
  <2>4. QED
    BY <2>2, <2>3
<1>2. SUBSET S \subseteq G
  <2>1. \A T \in SUBSET S : (\A U \in (SUBSET T) \ {T} : U \in G) => T \in G
    BY <1>1
  <2>2. IsFiniteSet(S)
    BY DEF Amounts
  <2> HIDE DEF G
  <2>3. QED
    BY <2>1, <2>2, FiniteInduction
<1>3. QED
  BY <1>2

\* Off the sum of any part.
TakesOff(f, S) ==
    \A T \in SUBSET S : \A x \in T :
        /\ SumOn(f, T) = f[x] + SumOn(f, T \ {x})
        /\ f[x] \in Int /\ SumOn(f, T \ {x}) \in Int /\ SumOn(f, T) \in Int

LEMMA SumSplits ==
    ASSUME NEW S, NEW f, Amounts(f, S)
    PROVE  TakesOff(f, S)
<1>1. SUFFICES ASSUME NEW T \in SUBSET S, NEW x \in T
               PROVE  /\ SumOn(f, T) = f[x] + SumOn(f, T \ {x})
                      /\ f[x] \in Int /\ SumOn(f, T \ {x}) \in Int /\ SumOn(f, T) \in Int
  BY DEF TakesOff
<1>2. Amounts(f, T) /\ T \ {x} \in SUBSET S
  BY SumOfPart
<1>3. QED
  BY <1>2, SumOfPart, SumSplit DEF Amounts

\* What holds of no entry, and of one more when it holds of the others, holds of all.
LEMMA SumInduction ==
    ASSUME NEW S, IsFiniteSet(S), NEW G, {} \in G,
           \A T \in SUBSET S : \A x \in T : T \ {x} \in G => T \in G
    PROVE  S \in G
<1>1. ASSUME NEW T \in SUBSET S, \A U \in (SUBSET T) \ {T} : U \in G
      PROVE  T \in G
  <2>1. CASE T = {}
    BY <2>1
  <2>2. CASE T # {}
    <3>1. PICK x \in T : TRUE
      BY <2>2
    <3>2. T \ {x} \in (SUBSET T) \ {T}
      BY <3>1
    <3>3. T \ {x} \in G
      BY <1>1, <3>2
    <3>4. QED
      BY <3>1, <3>3
  <2>3. QED
    BY <2>1, <2>2
<1>2. QED
  BY <1>1, FiniteInduction

\* The same entries have the same sum.
LEMMA SumsAgree ==
    ASSUME NEW S, NEW f, Amounts(f, S), NEW g, \A x \in S : g[x] = f[x]
    PROVE  SumOn(g, S) = SumOn(f, S)
<1>1. PICK h \in [SUBSET S -> Int] : Solves(f, SUBSET S, h)
  BY SumsAreDefined
<1>2. Solves(g, SUBSET S, h) /\ Amounts(g, S)
  <2>1. \A T \in SUBSET S : T # {} => Pick(T) \in S
    BY DEF Pick
  <2>2. QED
    BY <1>1, <2>1 DEF Solves, Amounts
<1>3. SumOn(f, S) = h[S] /\ SumOn(g, S) = h[S]
  BY <1>1, <1>2, SumIsTheSolution DEF SumOn
<1>4. QED
  BY <1>3

\* Two functions are added entry by entry.
LEMMA SumsAdd ==
    ASSUME NEW S, NEW f, Amounts(f, S), NEW g, Amounts(g, S),
           NEW h, \A x \in S : h[x] = f[x] + g[x]
    PROVE  Amounts(h, S) /\ SumOn(h, S) = SumOn(f, S) + SumOn(g, S)
<1> DEFINE G == {T \in SUBSET S : SumOn(h, T) = SumOn(f, T) + SumOn(g, T)}
<1>1. Amounts(h, S) /\ IsFiniteSet(S)
  BY DEF Amounts
<1>2. TakesOff(f, S) /\ TakesOff(g, S) /\ TakesOff(h, S)
  BY <1>1, SumSplits
<1>3. {} \in G
  BY SumOfNone
<1>4. ASSUME NEW T \in SUBSET S, NEW x \in T, T \ {x} \in G
      PROVE  T \in G
  BY <1>2, <1>4 DEF TakesOff
<1>5. S \in G
  <2> HIDE DEF G
  <2>1. QED
    BY <1>1, <1>3, <1>4, SumInduction
<1>6. QED
  BY <1>1, <1>5

LEMMA Distributes == \A a, b, c \in Int : c * a + c * b = c * (a + b)
OBVIOUS

\* One factor for all.
LEMMA SumScales ==
    ASSUME NEW S, NEW f, Amounts(f, S), NEW c \in Int, NEW h, \A x \in S : h[x] = c * f[x]
    PROVE  Amounts(h, S) /\ SumOn(h, S) = c * SumOn(f, S)
<1> DEFINE G == {T \in SUBSET S : SumOn(h, T) = c * SumOn(f, T)}
<1>1. Amounts(h, S) /\ IsFiniteSet(S)
  BY DEF Amounts
<1>2. TakesOff(f, S) /\ TakesOff(h, S)
  BY <1>1, SumSplits
<1>3. {} \in G
  BY SumOfNone
<1>4. ASSUME NEW T \in SUBSET S, NEW x \in T, T \ {x} \in G
      PROVE  T \in G
  <2>1. /\ SumOn(f, T) = f[x] + SumOn(f, T \ {x})
        /\ f[x] \in Int /\ SumOn(f, T \ {x}) \in Int
    BY <1>2 DEF TakesOff
  <2>2. SumOn(h, T) = h[x] + SumOn(h, T \ {x})
    BY <1>2 DEF TakesOff
  <2>3. SumOn(h, T \ {x}) = c * SumOn(f, T \ {x}) /\ h[x] = c * f[x]
    BY <1>4
  <2>4. QED
    BY <2>1, <2>2, <2>3, Distributes
<1>5. S \in G
  <2> HIDE DEF G
  <2>1. QED
    BY <1>1, <1>3, <1>4, SumInduction
<1>6. QED
  BY <1>1, <1>5

\* Two sets without a common entry.
LEMMA SumOfUnion ==
    ASSUME NEW f, NEW A, Amounts(f, A), NEW B, Amounts(f, B), A \cap B = {}
    PROVE  /\ Amounts(f, A \cup B)
           /\ SumOn(f, A \cup B) = SumOn(f, A) + SumOn(f, B)
<1> DEFINE G == {T \in SUBSET A : SumOn(f, T \cup B) = SumOn(f, T) + SumOn(f, B)}
<1>1. Amounts(f, A \cup B) /\ IsFiniteSet(A) /\ SumOn(f, B) \in Int
  BY FS_Union, SumType DEF Amounts
<1>2. TakesOff(f, A) /\ TakesOff(f, A \cup B)
  BY <1>1, SumSplits
<1>3. {} \in G
  <2>1. {} \cup B = B
    OBVIOUS
  <2>2. QED
    BY <1>1, <2>1, SumOfNone
<1>4. ASSUME NEW T \in SUBSET A, NEW x \in T, T \ {x} \in G
      PROVE  T \in G
  <2>1. /\ SumOn(f, T) = f[x] + SumOn(f, T \ {x})
        /\ f[x] \in Int /\ SumOn(f, T \ {x}) \in Int
    BY <1>2 DEF TakesOff
  <2>2. (T \cup B) \ {x} = (T \ {x}) \cup B /\ x \in T \cup B /\ T \cup B \in SUBSET (A \cup B)
    OBVIOUS
  <2>3. SumOn(f, T \cup B) = f[x] + SumOn(f, (T \ {x}) \cup B)
    BY <1>2, <2>2 DEF TakesOff
  <2>4. SumOn(f, (T \ {x}) \cup B) = SumOn(f, T \ {x}) + SumOn(f, B)
    BY <1>4
  <2>5. QED
    BY <1>1, <2>1, <2>3, <2>4
<1>5. A \in G
  <2> HIDE DEF G
  <2>1. QED
    BY <1>1, <1>3, <1>4, SumInduction
<1>6. QED
  BY <1>1, <1>5

\* The same entries under other names.
LEMMA SumRenamed ==
    ASSUME NEW f, NEW T, Amounts(f, T), NEW S, NEW b \in Bijection(S, T),
           NEW h, \A x \in S : h[x] = f[b[x]]
    PROVE  Amounts(h, S) /\ IsFiniteSet(S) /\ SumOn(h, S) = SumOn(f, T)
<1> DEFINE Of(U) == {b[x] : x \in U}
           G == {U \in SUBSET S : SumOn(h, U) = SumOn(f, Of(U))}
<1>0. /\ b \in [S -> T] /\ \A x, y \in S : b[x] = b[y] => x = y
      /\ Of(S) = T
  BY DEF Bijection, Injection, Surjection, IsInjective
<1>1. Amounts(h, S) /\ IsFiniteSet(S)
  <2>1. IsFiniteSet(S)
    <3>1. b \in Injection(S, T) /\ IsFiniteSet(T)
      BY DEF Bijection, Amounts
    <3>2. QED
      BY <3>1, FS_Injection
  <2>2. QED
    BY <1>0, <2>1 DEF Amounts
<1>2. TakesOff(f, T) /\ TakesOff(h, S)
  BY <1>1, SumSplits
<1>3. {} \in G
  <2>1. Of({}) = {}
    OBVIOUS
  <2>2. QED
    BY <2>1, SumOfNone
<1>4. ASSUME NEW U \in SUBSET S, NEW x \in U, U \ {x} \in G
      PROVE  U \in G
  <2>1. Of(U) \ {b[x]} = Of(U \ {x}) /\ b[x] \in Of(U) /\ Of(U) \in SUBSET T
    BY <1>0
  <2>2. SumOn(h, U) = h[x] + SumOn(h, U \ {x}) /\ h[x] = f[b[x]]
    BY <1>2 DEF TakesOff
  <2>3. SumOn(h, U \ {x}) = SumOn(f, Of(U \ {x}))
    BY <1>4
  <2>4. SumOn(f, Of(U)) = f[b[x]] + SumOn(f, Of(U \ {x}))
    <3> DEFINE all == Of(U)
               rest == Of(U \ {x})
    <3>1. all \ {b[x]} = rest /\ b[x] \in all /\ all \in SUBSET T
      BY <2>1
    <3> HIDE DEF all, rest
    <3>2. SumOn(f, all) = f[b[x]] + SumOn(f, rest)
      BY <1>2, <3>1 DEF TakesOff
    <3>3. QED
      BY <3>2 DEF all, rest
  <2> HIDE DEF Of
  <2>5. QED
    BY <2>2, <2>3, <2>4 DEF G
<1>5. S \in G
  <2> HIDE DEF G
  <2>1. QED
    BY <1>1, <1>3, <1>4, SumInduction
<1>6. QED
  BY <1>0, <1>1, <1>5

\* Entries may be gathered by a key first.
LEMMA SumByKey ==
    ASSUME NEW f, NEW S, Amounts(f, S), NEW K, IsFiniteSet(K), NEW key, \A x \in S : key[x] \in K,
           NEW h, \A c \in K : h[c] = SumOn(f, {x \in S : key[x] = c})
    PROVE  Amounts(h, K) /\ SumOn(h, K) = SumOn(f, S)
<1> DEFINE With(C) == {x \in S : key[x] \in C}
           G == {C \in SUBSET K : SumOn(h, C) = SumOn(f, With(C))}
<1>1. \A T \in SUBSET S : Amounts(f, T) /\ SumOn(f, T) \in Int
  BY SumOfPart
<1>2. Amounts(h, K)
  BY <1>1 DEF Amounts
<1>3. TakesOff(h, K)
  BY <1>2, SumSplits
<1>4. {} \in G
  <2>1. With({}) = {}
    OBVIOUS
  <2>2. QED
    BY <2>1, SumOfNone
<1>5. ASSUME NEW C \in SUBSET K, NEW c \in C, C \ {c} \in G
      PROVE  C \in G
  <2> DEFINE A == With(C \ {c})
             B == {x \in S : key[x] = c}
  <2>1. With(C) = A \cup B /\ A \cap B = {} /\ A \in SUBSET S /\ B \in SUBSET S
    OBVIOUS
  <2>2. SumOn(h, C) = h[c] + SumOn(h, C \ {c})
    BY <1>3 DEF TakesOff
  <2>3. SumOn(h, C \ {c}) = SumOn(f, A) /\ h[c] = SumOn(f, B)
    BY <1>5
  <2>4. /\ SumOn(f, A \cup B) = SumOn(f, A) + SumOn(f, B)
        /\ SumOn(f, A) \in Int /\ SumOn(f, B) \in Int
    <3> HIDE DEF A, B
    <3>1. QED
      BY <1>1, <2>1, SumOfUnion
  <2>5. SumOn(f, With(C)) = SumOn(f, A \cup B)
    BY <2>1
  <2> HIDE DEF A, B, With
  <2>6. SumOn(h, C) = SumOn(f, With(C))
    BY <2>2, <2>3, <2>4, <2>5
  <2>7. QED
    BY <2>6
<1>6. K \in G
  <2> HIDE DEF G
  <2>1. QED
    BY <1>4, <1>5, SumInduction
<1>7. With(K) = S
  OBVIOUS
<1>8. QED
  BY <1>2, <1>6, <1>7

\* Larger entries have a larger sum.
LEMMA SumsCompare ==
    ASSUME NEW S, NEW f, Amounts(f, S), NEW g, Amounts(g, S), \A x \in S : f[x] <= g[x]
    PROVE  SumOn(f, S) <= SumOn(g, S)
<1> DEFINE G == {T \in SUBSET S : SumOn(f, T) <= SumOn(g, T)}
<1>1. TakesOff(f, S) /\ TakesOff(g, S) /\ IsFiniteSet(S)
  BY SumSplits DEF Amounts
<1>2. {} \in G
  BY SumOfNone
<1>3. ASSUME NEW T \in SUBSET S, NEW x \in T, T \ {x} \in G
      PROVE  T \in G
  <2>1. f[x] <= g[x] /\ SumOn(f, T \ {x}) <= SumOn(g, T \ {x})
    BY <1>3
  <2>2. QED
    BY <1>1, <2>1 DEF TakesOff
<1>4. S \in G
  <2> HIDE DEF G
  <2>1. QED
    BY <1>1, <1>2, <1>3, SumInduction
<1>5. QED
  BY <1>4

\* A sum of zeros is zero.
LEMMA SumOfZeros ==
    ASSUME NEW S, IsFiniteSet(S), NEW f, \A x \in S : f[x] = 0
    PROVE  Amounts(f, S) /\ SumOn(f, S) = 0
<1> DEFINE G == {T \in SUBSET S : SumOn(f, T) = 0}
<1>1. Amounts(f, S)
  BY DEF Amounts
<1>2. TakesOff(f, S)
  BY <1>1, SumSplits
<1>3. {} \in G
  BY SumOfNone
<1>4. ASSUME NEW T \in SUBSET S, NEW x \in T, T \ {x} \in G
      PROVE  T \in G
  BY <1>2, <1>4 DEF TakesOff
<1>5. S \in G
  <2> HIDE DEF G
  <2>1. QED
    BY <1>3, <1>4, SumInduction
<1>6. QED
  BY <1>1, <1>5

\* A sum of naturals is a natural, and no entry is above it.
LEMMA SumOfNaturals ==
    ASSUME NEW S, IsFiniteSet(S), NEW f, \A x \in S : f[x] \in Nat
    PROVE  /\ Amounts(f, S) /\ SumOn(f, S) \in Nat
           /\ \A x \in S : f[x] <= SumOn(f, S)
<1>1. Amounts(f, S)
  BY DEF Amounts
<1>2. ASSUME NEW T \in SUBSET S PROVE SumOn(f, T) \in Nat
  <2> DEFINE none == [x \in T |-> 0]
  <2>1. Amounts(f, T) /\ IsFiniteSet(T) /\ SumOn(f, T) \in Int
    BY <1>1, SumOfPart DEF Amounts
  <2>2. \A x \in T : none[x] = 0 /\ none[x] <= f[x]
    OBVIOUS
  <2> HIDE DEF none
  <2>3. Amounts(none, T) /\ SumOn(none, T) = 0
    BY <2>1, <2>2, SumOfZeros
  <2>4. SumOn(none, T) <= SumOn(f, T)
    BY <2>1, <2>2, <2>3, SumsCompare
  <2>5. QED
    BY <2>1, <2>3, <2>4
<1>3. ASSUME NEW x \in S PROVE f[x] <= SumOn(f, S)
  <2>1. SumOn(f, S) = f[x] + SumOn(f, S \ {x})
    BY <1>1, SumSplit
  <2>2. SumOn(f, S \ {x}) \in Nat /\ f[x] \in Nat
    BY <1>2
  <2>3. QED
    BY <2>1, <2>2
<1>4. QED
  BY <1>1, <1>2, <1>3

\* What is zero elsewhere is summed over a part.
LEMMA SumOverPart ==
    ASSUME NEW S, NEW f, Amounts(f, S), NEW A \in SUBSET S, \A x \in S \ A : f[x] = 0
    PROVE  SumOn(f, S) = SumOn(f, A)
<1> DEFINE B == S \ A
<1>1. Amounts(f, A) /\ Amounts(f, B) /\ SumOn(f, A) \in Int
  BY SumOfPart
<1>2. A \cap B = {} /\ A \cup B = S /\ \A x \in B : f[x] = 0
  OBVIOUS
<1> HIDE DEF B
<1>3. SumOn(f, B) = 0
  BY <1>1, <1>2, SumOfZeros DEF Amounts
<1>4. SumOn(f, A \cup B) = SumOn(f, A) + SumOn(f, B)
  BY <1>1, <1>2, SumOfUnion
<1>5. QED
  BY <1>1, <1>2, <1>3, <1>4

\* Ones count.
LEMMA SumOfOnes ==
    ASSUME NEW S, IsFiniteSet(S), NEW f, \A x \in S : f[x] = 1
    PROVE  Amounts(f, S) /\ SumOn(f, S) = Cardinality(S)
<1> DEFINE G == {T \in SUBSET S : SumOn(f, T) = Cardinality(T)}
<1>1. Amounts(f, S)
  BY DEF Amounts
<1>2. TakesOff(f, S)
  BY <1>1, SumSplits
<1>3. {} \in G
  BY SumOfNone, FS_EmptySet
<1>4. ASSUME NEW T \in SUBSET S, NEW x \in T, T \ {x} \in G
      PROVE  T \in G
  <2>1. IsFiniteSet(T) /\ Cardinality(T) \in Nat
    BY FS_Subset, FS_CardinalityType
  <2>2. Cardinality(T \ {x}) = Cardinality(T) - 1
    BY <2>1, FS_RemoveElement
  <2>3. SumOn(f, T) = f[x] + SumOn(f, T \ {x}) /\ f[x] = 1
    BY <1>2 DEF TakesOff
  <2>4. QED
    BY <1>4, <2>1, <2>2, <2>3
<1>5. S \in G
  <2> HIDE DEF G
  <2>1. QED
    BY <1>3, <1>4, SumInduction
<1>6. QED
  BY <1>1, <1>5

-----------------------------------------------------------------------------
(* Lists in an order                                                       *)

\* A list of all of S in which the pairs are in the order R.
Lists(s, S, R) ==
    /\ s \in [1..Cardinality(S) -> S]
    /\ \A j, k \in 1..Cardinality(S) : j < k => <<s[j], s[k]>> \in R

\* R orders the elements of S strictly, one after the other.
Ranks(R, S) ==
    /\ \A x \in S : <<x, x>> \notin R
    /\ \A x, y \in S : x # y => <<x, y>> \in R \/ <<y, x>> \in R
    /\ \A x, y, z \in S : <<x, y>> \in R /\ <<y, z>> \in R => <<x, z>> \in R

\* A set that is not empty has a first element.
LEMMA FirstOfAll ==
    ASSUME NEW S, IsFiniteSet(S), S # {}, NEW R, Ranks(R, S)
    PROVE  \E x \in S : \A y \in S \ {x} : <<x, y>> \in R
<1> DEFINE First(T) == \E x \in T : \A y \in T \ {x} : <<x, y>> \in R
           G == {T \in SUBSET S : T # {} => First(T)}
<1>1. {} \in G
  OBVIOUS
<1>2. ASSUME NEW T \in SUBSET S, NEW x \in T, T \ {x} \in G
      PROVE  T \in G
  <2>1. CASE T = {x}
    BY <2>1
  <2>2. CASE T # {x}
    <3>1. First(T \ {x})
      BY <1>2, <2>2
    <3>2. PICK m \in T \ {x} : \A y \in (T \ {x}) \ {m} : <<m, y>> \in R
      BY <3>1
    <3>3. CASE <<m, x>> \in R
      <4>1. \A y \in T \ {m} : <<m, y>> \in R
        BY <3>2, <3>3
      <4>2. QED
        BY <4>1
    <3>4. CASE <<x, m>> \in R
      <4>1. \A y \in T \ {x} : <<x, y>> \in R
        BY <3>2, <3>4 DEF Ranks
      <4>2. QED
        BY <4>1
    <3>5. QED
      BY <3>2, <3>3, <3>4 DEF Ranks
  <2>3. QED
    BY <2>1, <2>2
<1>3. S \in G
  <2> HIDE DEF G
  <2>1. QED
    BY <1>1, <1>2, SumInduction
<1>4. QED
  BY <1>3

\* Every finite set can be listed in order.
LEMMA SetsAreListed ==
    ASSUME NEW S, IsFiniteSet(S), NEW R, Ranks(R, S)
    PROVE  \E s : Lists(s, S, R)
<1> DEFINE G == {T \in SUBSET S : \E s : Lists(s, T, R)}
<1>1. ASSUME NEW T \in SUBSET S, \A U \in (SUBSET T) \ {T} : U \in G
      PROVE  T \in G
  <2>0. IsFiniteSet(T) /\ Cardinality(T) \in Nat
    BY FS_Subset, FS_CardinalityType
  <2>1. CASE T = {}
    <3>1. Cardinality(T) = 0
      BY <2>1, FS_EmptySet
    <3>2. 1..0 = {}
      OBVIOUS
    <3>3. Lists([k \in {} |-> 0], T, R)
      BY <3>1, <3>2 DEF Lists
    <3>4. QED
      BY <3>3
  <2>2. CASE T # {}
    <3>1. Ranks(R, T)
      BY DEF Ranks
    <3>2. PICK x \in T : \A y \in T \ {x} : <<x, y>> \in R
      BY <2>0, <2>2, <3>1, FirstOfAll
    <3> DEFINE U == T \ {x}
               n == Cardinality(T)
    <3>3. Cardinality(U) = n - 1 /\ n \in Nat /\ n - 1 \in Nat
      <4>1. IsFiniteSet(U) /\ Cardinality(U) = n - 1
        BY <2>0, FS_RemoveElement
      <4>2. QED
        BY <2>0, <4>1, FS_CardinalityType
    <3>4. U \in (SUBSET T) \ {T}
      BY <3>2
    <3>5. PICK s : Lists(s, U, R)
      BY <1>1, <3>4
    <3>6. /\ s \in [1..(n - 1) -> U]
          /\ \A j, k \in 1..(n - 1) : j < k => <<s[j], s[k]>> \in R
      BY <3>3, <3>5 DEF Lists
    <3> HIDE DEF n
    <3> DEFINE longer == [k \in 1..n |-> IF k = 1 THEN x ELSE s[k - 1]]
    <3>7. \A k \in 1..n : k # 1 => k - 1 \in 1..(n - 1)
      BY <3>3
    <3>8. longer \in [1..n -> T]
      BY <3>6, <3>7
    <3>9. ASSUME NEW j \in 1..n, NEW k \in 1..n, j < k PROVE <<longer[j], longer[k]>> \in R
      <4>1. k # 1 /\ longer[k] = s[k - 1] /\ k - 1 \in 1..(n - 1) /\ s[k - 1] \in U
        BY <3>3, <3>6, <3>7, <3>9
      <4>2. CASE j = 1
        BY <3>2, <4>1, <4>2
      <4>3. CASE j # 1
        <5>1. j - 1 \in 1..(n - 1) /\ longer[j] = s[j - 1] /\ j - 1 < k - 1
          BY <3>7, <3>9, <4>3
        <5>2. QED
          BY <3>6, <4>1, <5>1
      <4>4. QED
        BY <4>2, <4>3
    <3>10. Lists(longer, T, R)
      <4> HIDE DEF longer
      <4>1. QED
        BY <3>8, <3>9 DEF Lists, n
    <3>11. QED
      BY <3>10
  <2>3. QED
    BY <2>1, <2>2
<1>2. SUBSET S \subseteq G
  <2> HIDE DEF G
  <2>1. QED
    BY <1>1, FiniteInduction
<1>3. QED
  BY <1>2

\* A list in order names every element once.
LEMMA ListsAreBijections ==
    ASSUME NEW S, IsFiniteSet(S), NEW R, Ranks(R, S), NEW s, Lists(s, S, R)
    PROVE  /\ s \in Bijection(1..Cardinality(S), S)
           /\ Cardinality(S) \in Nat
<1>1. Cardinality(S) \in Nat /\ Cardinality(1..Cardinality(S)) = Cardinality(S)
      /\ IsFiniteSet(1..Cardinality(S))
  BY FS_CardinalityType, FS_Interval, SMTT(30)
<1> DEFINE I == 1..Cardinality(S)
<1>2. ASSUME NEW j \in I, NEW k \in I, s[j] = s[k] PROVE j = k
  <2>1. s[j] \in S /\ s[k] \in S
    BY DEF Lists
  <2>2. ~ (j < k) /\ ~ (k < j)
    BY <1>2, <2>1 DEF Lists, Ranks
  <2>3. QED
    BY <1>1, <2>2
<1>3. s \in Injection(I, S)
  BY <1>2 DEF Lists, Injection, IsInjective
<1>4. s \in Surjection(I, S)
  <2> HIDE DEF I
  <2>1. Cardinality(I) = Cardinality(S) /\ IsFiniteSet(I)
    BY <1>1 DEF I
  <2>2. QED
    BY <1>3, <2>1, FS_Injection
<1>5. QED
  BY <1>1, <1>3, <1>4 DEF Bijection
=============================================================================
