--------------------------- MODULE Messages_proofs ---------------------------
(***************************************************************************)
(* Lemmas about the operators of Messages, for logs of any length: sorting *)
(* rearranges a log and orders it, whichever of the two sorts is used;     *)
(* filtering and batches pick messages of it, each at most once; sums over *)
(* finite sets; and from these what the two selections of messages for the *)
(* model's context promise.                                                *)
(*                                                                         *)
(* That s picks from t means that each element of s is the element of t at *)
(* a position of its own.  Sorting by nested loops is a recursive function *)
(* of the number of comparisons made: what it keeps and what it achieves   *)
(* is an induction, made on sets of natural numbers (Induct).              *)
(***************************************************************************)
EXTENDS Messages, FiniteSetTheorems, WellFoundedInduction, TLAPS

\* Induction over the natural numbers, for a set of them.
LEMMA Induct ==
    ASSUME NEW S \in SUBSET Nat, 0 \in S, \A n \in S : n + 1 \in S
    PROVE  S = Nat
  <1> SUFFICES ASSUME Nat \ S # {} PROVE FALSE
    OBVIOUS
  <1>1. PICK x \in Nat \ S : \A y \in Nat \ S : ~ (<<y, x>> \in OpToRel(<, Nat))
    BY WFMin, NatLessThanWellFounded
  <1>2. x \in Nat /\ x \notin S /\ x # 0
    BY <1>1
  <1>3. x - 1 \in Nat /\ (x - 1) + 1 = x /\ x - 1 < x
    BY <1>2
  <1>4. x - 1 \notin S
    BY <1>2, <1>3
  <1>5. <<x - 1, x>> \in OpToRel(<, Nat)
    BY <1>2, <1>3 DEF OpToRel
  <1> QED
    BY <1>1, <1>3, <1>4, <1>5

\* A set of numbers none of which is greater than N has a greatest one.
LEMMA GreatestExists ==
    ASSUME NEW N \in Nat, NEW S \in SUBSET (0..N), S # {}
    PROVE  /\ Max(S) \in S
           /\ \A y \in S : Max(S) >= y
  <1> DEFINE T == {n \in Nat : \A R \in SUBSET (0..n) :
                                 R # {} => \E x \in R : \A y \in R : x >= y}
  <1>1. 0 \in T
    <2>1. \A y \in 0..0 : y = 0
      OBVIOUS
    <2>2. ASSUME NEW R \in SUBSET (0..0), R # {}
          PROVE  \E x \in R : \A y \in R : x >= y
      <3>1. PICK x \in R : TRUE
        BY <2>2
      <3>2. \A y \in R : x = 0 /\ y = 0
        BY <2>1
      <3> QED
        BY <3>1, <3>2
    <2> QED
      BY <2>2
  <1>2. ASSUME NEW n \in T PROVE n + 1 \in T
    <2>1. n \in Nat /\ n + 1 \in Nat
      BY <1>2
    <2>2. ASSUME NEW R \in SUBSET (0..(n + 1)), R # {}
          PROVE  \E x \in R : \A y \in R : x >= y
      <3>1. CASE n + 1 \in R
        <4>1. \A y \in R : n + 1 >= y
          BY <2>1
        <4> QED
          BY <3>1, <4>1
      <3>2. CASE n + 1 \notin R
        <4>1. R \in SUBSET (0..n)
          BY <2>1, <3>2
        <4> QED
          BY <2>2, <4>1, <1>2
      <3> QED
        BY <3>1, <3>2
    <2> QED
      BY <2>1, <2>2
  <1>3. T = Nat
    <2> HIDE DEF T
    <2>1. T \in SUBSET Nat
      BY DEF T
    <2> QED
      BY <2>1, <1>1, <1>2, Induct
  <1>4. \E x \in S : \A y \in S : x >= y
    BY <1>3
  <1> QED
    BY <1>4 DEF Max

\* Among the numbers f[1], ..., f[n] there is a least one.
LEMMA LeastExists ==
    ASSUME NEW n \in Nat \ {0}, NEW f \in [1..n -> Int]
    PROVE  LET S == {f[i] : i \in 1..n}
           IN /\ Min(S) \in S
              /\ \A i \in 1..n : Min(S) <= f[i]
  <1> DEFINE T == {k \in Nat : k < n => \E i \in 1..(k + 1) : \A j \in 1..(k + 1) : f[i] <= f[j]}
             S == {f[i] : i \in 1..n}
  <1>1. 0 \in T
    OBVIOUS
  <1>2. ASSUME NEW k \in T PROVE k + 1 \in T
    <2>1. k \in Nat
      BY <1>2
    <2>2. ASSUME k + 1 < n
          PROVE \E i \in 1..(k + 2) : \A j \in 1..(k + 2) : f[i] <= f[j]
      <3>1. PICK i \in 1..(k + 1) : \A j \in 1..(k + 1) : f[i] <= f[j]
        BY <1>2, <2>1, <2>2
      <3>2. f[i] \in Int /\ f[k + 2] \in Int /\ k + 2 \in 1..(k + 2) /\ i \in 1..(k + 2)
        BY <2>1, <2>2
      <3>3. \A j \in 1..(k + 2) : j \in 1..(k + 1) \/ j = k + 2
        BY <2>1
      <3>4. \A j \in 1..(k + 2) : f[j] \in Int
        BY <2>1, <2>2
      <3>5. CASE f[i] <= f[k + 2]
        BY <3>1, <3>2, <3>3, <3>5
      <3>6. CASE f[k + 2] <= f[i]
        <4>1. ASSUME NEW j \in 1..(k + 2) PROVE f[k + 2] <= f[j]
          <5>1. CASE j \in 1..(k + 1)
            <6>1. f[i] <= f[j] /\ f[j] \in Int
              BY <3>1, <3>4, <5>1
            <6> QED
              BY <6>1, <3>2, <3>6
          <5>2. CASE j = k + 2
            BY <3>2, <5>2
          <5> QED
            BY <3>3, <5>1, <5>2
        <4> QED
          BY <3>2, <4>1
      <3> QED
        BY <3>2, <3>5, <3>6
    <2>3. (k + 1) + 1 = k + 2 /\ k + 1 \in Nat
      BY <2>1
    <2> QED
      BY <2>2, <2>3
  <1>3. T = Nat
    <2> HIDE DEF T
    <2>1. T \in SUBSET Nat
      BY DEF T
    <2> QED
      BY <2>1, <1>1, <1>2, Induct
  <1>4. n - 1 \in T /\ (n - 1) + 1 = n /\ n - 1 < n
    <2>1. n - 1 \in Nat /\ (n - 1) + 1 = n /\ n - 1 < n
      OBVIOUS
    <2> HIDE DEF T
    <2> QED
      BY <1>3, <2>1
  <1>5. \E i \in 1..n : \A j \in 1..n : f[i] <= f[j]
    BY <1>4
  <1>6. \E x \in S : \A y \in S : x <= y
    BY <1>5
  <1> HIDE DEF S
  <1>7. Min(S) \in S /\ \A y \in S : Min(S) <= y
    BY <1>6 DEF Min
  <1>8. \A i \in 1..n : f[i] \in S
    BY DEF S
  <1> QED
    BY <1>7, <1>8 DEF S

-----------------------------------------------------------------------------
(***************************************************************************)
(* Sums                                                                    *)
(***************************************************************************)

\* The sum of the values of f on S.
Total(f, S) == MapThenSumSet(LAMBDA x : f[x], S)

\* A function that has the sum of each part of S.
IsSum(sum, f, S) ==
    \A s \in SUBSET S :
        sum[s] = IF s = {} THEN 0
                 ELSE LET x == CHOOSE x \in s : TRUE IN f[x] + sum[s \ {x}]

\* One element less.
LEMMA Removed ==
    ASSUME NEW s, IsFiniteSet(s), NEW a \in s
    PROVE  /\ IsFiniteSet(s \ {a})
           /\ Cardinality(s \ {a}) = Cardinality(s) - 1
           /\ Cardinality(s) \in Nat \ {0}
  <1>1. Cardinality(s) \in Nat /\ Cardinality(s) # 0
    BY FS_CardinalityType, FS_EmptySet
  <1> QED
    BY <1>1, FS_RemoveElement

LEMMA SumsExist ==
    ASSUME NEW S, IsFiniteSet(S), NEW f, \A x \in S : f[x] \in Int
    PROVE  \E sum \in [SUBSET S -> Int] : IsSum(sum, f, S)
  <1> DEFINE Small(n) == {s \in SUBSET S : Cardinality(s) <= n}
             Next(sum, s) == IF s = {} THEN 0
                             ELSE LET x == CHOOSE x \in s : TRUE IN f[x] + sum[s \ {x}]
             Good(sum, n) == /\ sum \in [Small(n) -> Int]
                             /\ \A s \in Small(n) : sum[s] = Next(sum, s)
             T == {n \in Nat : \E sum \in [Small(n) -> Int] : Good(sum, n)}
  <1>1. \A s \in SUBSET S : IsFiniteSet(s) /\ Cardinality(s) \in Nat /\ Cardinality(s) <= Cardinality(S)
    BY FS_Subset, FS_CardinalityType
  <1>2. ASSUME NEW s \in SUBSET S, s # {}
        PROVE  LET x == CHOOSE x \in s : TRUE
               IN /\ x \in s /\ f[x] \in Int /\ s \ {x} \in SUBSET S
                  /\ Cardinality(s \ {x}) = Cardinality(s) - 1
    <2>1. (CHOOSE x \in s : TRUE) \in s
      BY <1>2
    <2> QED
      BY <1>1, <2>1, Removed
  <1>3. 0 \in T
    <2> DEFINE sum == [s \in Small(0) |-> 0]
    <2>1. \A s \in Small(0) : s = {}
      <3> TAKE s \in Small(0)
      <3>1. s \in SUBSET S /\ Cardinality(s) <= 0
        OBVIOUS
      <3>2. Cardinality(s) = 0
        BY <1>1, <3>1
      <3> QED
        BY <1>1, <3>2, FS_EmptySet
    <2>2. \A s \in Small(0) : sum[s] = Next(sum, s)
      BY <2>1
    <2>3. sum \in [Small(0) -> Int]
      OBVIOUS
    <2> HIDE DEF sum, Next, Small
    <2> QED
      BY <2>2, <2>3
  <1>4. ASSUME NEW n \in T PROVE n + 1 \in T
    <2>1. PICK sum \in [Small(n) -> Int] : Good(sum, n)
      OBVIOUS
    <2> DEFINE more == [s \in Small(n + 1) |-> Next(sum, s)]
    <2>2. n \in Nat
      OBVIOUS
    <2>3. ASSUME NEW s \in Small(n + 1), s # {}
          PROVE  LET x == CHOOSE x \in s : TRUE
                 IN x \in s /\ f[x] \in Int /\ s \ {x} \in Small(n) /\ s \ {x} \in Small(n + 1)
      <3>1. s \in SUBSET S /\ Cardinality(s) <= n + 1
        OBVIOUS
      <3>2. LET x == CHOOSE x \in s : TRUE
            IN /\ x \in s /\ f[x] \in Int /\ s \ {x} \in SUBSET S
               /\ Cardinality(s \ {x}) = Cardinality(s) - 1
        BY <1>2, <2>3, <3>1
      <3>3. Cardinality(s) \in Nat
        BY <1>1, <3>1
      <3> QED
        BY <2>2, <3>1, <3>2, <3>3
    <2>4. more \in [Small(n + 1) -> Int]
      <3> SUFFICES ASSUME NEW s \in Small(n + 1) PROVE Next(sum, s) \in Int
        OBVIOUS
      <3>1. CASE s = {}
        BY <3>1
      <3>2. CASE s # {}
        <4> DEFINE x == CHOOSE x \in s : TRUE
        <4>1. Next(sum, s) = f[x] + sum[s \ {x}]
          BY <3>2
        <4>2. f[x] \in Int /\ s \ {x} \in Small(n)
          BY <2>3, <3>2
        <4>3. sum[s \ {x}] \in Int
          BY <2>1, <4>2
        <4> HIDE DEF x, Small, Next
        <4> QED
          BY <4>1, <4>2, <4>3
      <3> QED
        BY <3>1, <3>2
    <2>5. \A s \in Small(n) : s \in Small(n + 1) /\ more[s] = sum[s]
      <3> TAKE s \in Small(n)
      <3>1. s \in Small(n + 1)
        BY <1>1, <2>2
      <3> QED
        BY <2>1, <3>1
    <2>6. \A s \in Small(n + 1) : more[s] = Next(more, s)
      <3> TAKE s \in Small(n + 1)
      <3>1. CASE s = {}
        BY <3>1
      <3>2. CASE s # {}
        <4> DEFINE x == CHOOSE x \in s : TRUE
        <4>1. more[s] = f[x] + sum[s \ {x}]
          BY <3>2
        <4>2. s \ {x} \in Small(n)
          BY <2>3, <3>2
        <4>3. more[s \ {x}] = sum[s \ {x}]
          BY <2>5, <4>2
        <4> HIDE DEF more, Small
        <4>4. Next(more, s) = f[x] + more[s \ {x}]
          BY <3>2
        <4> HIDE DEF Next, x
        <4> QED
          BY <4>1, <4>3, <4>4
      <3> QED
        BY <3>1, <3>2
    <2> HIDE DEF more, Small, Next
    <2>7. n + 1 \in Nat
      BY <2>2
    <2>8. Good(more, n + 1)
      BY <2>4, <2>6
    <2> QED
      BY <2>4, <2>7, <2>8
  <1>5. T = Nat
    <2> HIDE DEF Good
    <2>1. T \in SUBSET Nat
      OBVIOUS
    <2> HIDE DEF T
    <2> QED
      BY <1>3, <1>4, <2>1, Induct
  <1>6. Cardinality(S) \in T
    BY <1>5, FS_CardinalityType
  <1>7. Small(Cardinality(S)) = SUBSET S
    BY <1>1
  <1>8. PICK sum \in [SUBSET S -> Int] : Good(sum, Cardinality(S))
    <2> HIDE DEF Good, Small
    <2> QED
      BY <1>6, <1>7
  <1>9. IsSum(sum, f, S)
    BY <1>7, <1>8 DEF IsSum
  <1> QED
    BY <1>9

\* What such a function has for s does not depend on the element taken first.
LEMMA SumAnyhow ==
    ASSUME NEW S, IsFiniteSet(S), NEW f, \A x \in S : f[x] \in Int,
           NEW sum, \A s \in SUBSET S : sum[s] \in Int, IsSum(sum, f, S),
           NEW s \in SUBSET S, NEW a \in s
    PROVE  sum[s] = f[a] + sum[s \ {a}]
  <1> DEFINE Claim(t, b) == sum[t] = f[b] + sum[t \ {b}]
             T == {n \in Nat : \A t \in SUBSET S : Cardinality(t) = n => \A b \in t : Claim(t, b)}
  <1>1. \A t \in SUBSET S : IsFiniteSet(t) /\ Cardinality(t) \in Nat
    BY FS_Subset, FS_CardinalityType
  <1>2. 0 \in T
    <2>1. \A t \in SUBSET S : Cardinality(t) = 0 => t = {}
      BY <1>1, FS_EmptySet
    <2> HIDE DEF Claim
    <2> QED
      BY <2>1
  <1>3. ASSUME NEW n \in T PROVE n + 1 \in T
    <2> SUFFICES ASSUME NEW t \in SUBSET S, Cardinality(t) = n + 1, NEW b \in t
                 PROVE  Claim(t, b)
      OBVIOUS
    <2> DEFINE x == CHOOSE x \in t : TRUE
    <2>1. x \in t
      OBVIOUS
    <2>2. sum[t] = f[x] + sum[t \ {x}]
      BY DEF IsSum
    <2> HIDE DEF x
    <2>3. CASE b = x
      BY <2>2, <2>3
    <2>4. CASE b # x
      <3> DEFINE u == t \ {x}
                 v == t \ {b}
                 w == t \ {x, b}
      <3>1. u \in SUBSET S /\ v \in SUBSET S /\ w \in SUBSET S
        OBVIOUS
      <3>2. Cardinality(u) = n /\ Cardinality(v) = n
        <4>1. n \in Nat
          OBVIOUS
        <4>2. IsFiniteSet(t)
          BY <1>1
        <4> HIDE DEF T
        <4> QED
          BY <2>1, <4>1, <4>2, Removed
      <3>3. b \in u /\ x \in v /\ u \ {b} = w /\ v \ {x} = w
        BY <2>1, <2>4
      <3>4. Claim(u, b) /\ Claim(v, x)
        <4> HIDE DEF Claim, u, v, w
        <4> QED
          BY <3>1, <3>2, <3>3
      <3>5. sum[u] = f[b] + sum[w] /\ sum[v] = f[x] + sum[w]
        BY <3>3, <3>4
      <3>6. sum[u] \in Int /\ sum[v] \in Int /\ sum[w] \in Int /\ f[b] \in Int /\ f[x] \in Int
        BY <2>1, <3>1
      <3>7. sum[t] = f[x] + sum[u]
        BY <2>2
      <3> HIDE DEF u, w
      <3>8. sum[t] = f[b] + sum[v]
        <4> HIDE DEF v
        <4> QED
          BY <3>5, <3>6, <3>7
      <3> QED
        BY <3>8
    <2> QED
      BY <2>3, <2>4
  <1>4. T = Nat
    <2>1. T \in SUBSET Nat
      OBVIOUS
    <2> HIDE DEF T
    <2> QED
      BY <1>2, <1>3, <2>1, Induct
  <1>5. Cardinality(s) \in T
    BY <1>1, <1>4
  <1> QED
    BY <1>5

\* There is one such function, and Total is its value.
LEMMA SumsAgree ==
    ASSUME NEW S, IsFiniteSet(S), NEW f, NEW sum, IsSum(sum, f, S),
           NEW more, IsSum(more, f, S), NEW s \in SUBSET S
    PROVE  sum[s] = more[s]
  <1> DEFINE T == {n \in Nat : \A t \in SUBSET S : Cardinality(t) = n => sum[t] = more[t]}
  <1>1. \A t \in SUBSET S : IsFiniteSet(t) /\ Cardinality(t) \in Nat
    BY FS_Subset, FS_CardinalityType
  <1>2. 0 \in T
    <2>1. \A t \in SUBSET S : Cardinality(t) = 0 => t = {}
      BY <1>1, FS_EmptySet
    <2> QED
      BY <2>1 DEF IsSum
  <1>3. ASSUME NEW n \in T PROVE n + 1 \in T
    <2> SUFFICES ASSUME NEW t \in SUBSET S, Cardinality(t) = n + 1
                 PROVE  sum[t] = more[t]
      OBVIOUS
    <2> DEFINE x == CHOOSE x \in t : TRUE
    <2>0. n \in Nat /\ IsFiniteSet(t)
      BY <1>1
    <2>1. t # {}
      BY <2>0, FS_EmptySet
    <2>2. x \in t
      BY <2>1
    <2>3. sum[t] = f[x] + sum[t \ {x}] /\ more[t] = f[x] + more[t \ {x}]
      BY <2>1 DEF IsSum
    <2> HIDE DEF x
    <2>4. Cardinality(t \ {x}) = n
      <3> HIDE DEF T
      <3> QED
        BY <2>0, <2>2, Removed
    <2> QED
      BY <2>3, <2>4
  <1>4. T = Nat
    <2>1. T \in SUBSET Nat
      OBVIOUS
    <2> HIDE DEF T
    <2> QED
      BY <1>2, <1>3, <2>1, Induct
  <1>5. Cardinality(s) \in T
    BY <1>1, <1>4
  <1> QED
    BY <1>5

LEMMA TotalIs ==
    ASSUME NEW S, IsFiniteSet(S), NEW f, \A x \in S : f[x] \in Int,
           NEW sum, IsSum(sum, f, S)
    PROVE  Total(f, S) = sum[S]
  <1> DEFINE iter == CHOOSE iter :
                iter = [s \in SUBSET S |->
                          IF s = {} THEN 0
                          ELSE LET x == CHOOSE x \in s : TRUE IN f[x] + iter[s \ {x}]]
  <1>1. Total(f, S) = iter[S]
    BY DEF Total, MapThenSumSet, MapThenFoldSet
  <1>2. PICK own \in [SUBSET S -> Int] : IsSum(own, f, S)
    BY SumsExist
  <1>3. own = [s \in SUBSET S |->
                 IF s = {} THEN 0
                 ELSE LET x == CHOOSE x \in s : TRUE IN f[x] + own[s \ {x}]]
    BY <1>2 DEF IsSum
  <1>4. iter = [s \in SUBSET S |->
                  IF s = {} THEN 0
                  ELSE LET x == CHOOSE x \in s : TRUE IN f[x] + iter[s \ {x}]]
    BY <1>3
  <1> HIDE DEF iter
  <1>5. IsSum(iter, f, S)
    BY <1>4 DEF IsSum
  <1> QED
    BY <1>1, <1>5, SumsAgree

\* The sum of nothing, and of one element more.
LEMMA TotalType ==
    ASSUME NEW S, IsFiniteSet(S), NEW f, \A x \in S : f[x] \in Int
    PROVE  Total(f, S) \in Int
  <1>1. PICK sum \in [SUBSET S -> Int] : IsSum(sum, f, S)
    BY SumsExist
  <1>2. Total(f, S) = sum[S]
    BY <1>1, TotalIs
  <1> QED
    BY <1>1, <1>2

LEMMA TotalOfNone ==
    ASSUME NEW f
    PROVE  Total(f, {}) = 0
  <1>1. IsFiniteSet({})
    BY FS_EmptySet
  <1>2. PICK sum \in [SUBSET {} -> Int] : IsSum(sum, f, {})
    BY <1>1, SumsExist
  <1>3. sum[{}] = 0
    BY <1>2 DEF IsSum
  <1> QED
    BY <1>1, <1>2, <1>3, TotalIs

LEMMA TotalOfMore ==
    ASSUME NEW S, IsFiniteSet(S), NEW a, a \notin S,
           NEW f, \A x \in S \cup {a} : f[x] \in Int
    PROVE  Total(f, S \cup {a}) = Total(f, S) + f[a]
  <1> DEFINE all == S \cup {a}
  <1>1. IsFiniteSet(all)
    BY FS_AddElement
  <1>2. PICK sum \in [SUBSET all -> Int] : IsSum(sum, f, all)
    BY <1>1, SumsExist
  <1>3. Total(f, all) = sum[all]
    BY <1>1, <1>2, TotalIs
  <1>4. IsSum(sum, f, S)
    BY <1>2 DEF IsSum
  <1>5. Total(f, S) = sum[S]
    BY <1>4, TotalIs
  <1>6. all \ {a} = S /\ a \in all /\ all \in SUBSET all /\ \A s \in SUBSET all : sum[s] \in Int
    BY <1>2
  <1>7. S \in SUBSET all /\ sum[S] \in Int /\ f[a] \in Int
    BY <1>6
  <1>8. sum[all] = f[a] + sum[all \ {a}]
    <2>1. \A x \in all : f[x] \in Int
      OBVIOUS
    <2> HIDE DEF all
    <2> QED
      BY <1>1, <1>2, <1>6, <2>1, SumAnyhow
  <1>9. Total(f, all) = f[a] + Total(f, S)
    BY <1>3, <1>5, <1>6, <1>8
  <1>10. Total(f, S) \in Int /\ f[a] \in Int
    BY <1>5, <1>7
  <1> HIDE DEF all
  <1>11. Total(f, all) = Total(f, S) + f[a]
    BY <1>9, <1>10
  <1> QED
    BY <1>11 DEF all

\* Induction over the subsets of a finite set, element by element.
LEMMA InductOverSubsets ==
    ASSUME NEW S, IsFiniteSet(S), NEW P \in SUBSET SUBSET S, {} \in P,
           \A s \in P : \A a \in S \ s : s \cup {a} \in P
    PROVE  S \in P
  <1> DEFINE T == {n \in Nat : \A t \in SUBSET S : Cardinality(t) = n => t \in P}
  <1>1. \A t \in SUBSET S : IsFiniteSet(t) /\ Cardinality(t) \in Nat
    BY FS_Subset, FS_CardinalityType
  <1>2. 0 \in T
    <2>1. \A t \in SUBSET S : Cardinality(t) = 0 => t = {}
      BY <1>1, FS_EmptySet
    <2> QED
      BY <2>1
  <1>3. ASSUME NEW n \in T PROVE n + 1 \in T
    <2> SUFFICES ASSUME NEW t \in SUBSET S, Cardinality(t) = n + 1
                 PROVE  t \in P
      OBVIOUS
    <2>0. n \in Nat /\ IsFiniteSet(t)
      BY <1>1
    <2>1. t # {}
      BY <2>0, FS_EmptySet
    <2>2. PICK a \in t : TRUE
      BY <2>1
    <2> DEFINE u == t \ {a}
    <2>3. Cardinality(u) = n
      <3> HIDE DEF T
      <3> QED
        BY <2>0, Removed
    <2>4. u \in SUBSET S /\ a \in S \ u /\ u \cup {a} = t
      OBVIOUS
    <2>5. u \in P
      BY <2>3, <2>4
    <2> QED
      BY <2>4, <2>5
  <1>4. T = Nat
    <2>1. T \in SUBSET Nat
      OBVIOUS
    <2> HIDE DEF T
    <2> QED
      BY <1>2, <1>3, <2>1, Induct
  <1>5. Cardinality(S) \in T
    BY <1>1, <1>4
  <1> QED
    BY <1>5

\* What is summed may be renamed.
LEMMA TotalOfImage ==
    ASSUME NEW S, IsFiniteSet(S), NEW f, \A x \in S : f[x] \in Int,
           NEW h, \A x, y \in S : h[x] = h[y] => x = y,
           NEW g, \A x \in S : g[h[x]] = f[x]
    PROVE  /\ Total(g, {h[x] : x \in S}) = Total(f, S)
           /\ IsFiniteSet({h[x] : x \in S})
  <1> DEFINE image(s) == {h[x] : x \in s}
             P == {s \in SUBSET S : IsFiniteSet(image(s)) /\ Total(g, image(s)) = Total(f, s)}
  <1>1. {} \in P
    <2>1. image({}) = {}
      OBVIOUS
    <2> HIDE DEF image
    <2> QED
      BY <2>1, TotalOfNone, FS_EmptySet
  <1>2. ASSUME NEW s \in P, NEW a \in S \ s
        PROVE  s \cup {a} \in P
    <2> DEFINE new == image(s \cup {a})
               old == image(s)
    <2>1. new = old \cup {h[a]} /\ h[a] \notin old
      OBVIOUS
    <2>2. \A y \in new : g[y] \in Int
      OBVIOUS
    <2>3. \A x \in s \cup {a} : f[x] \in Int
      OBVIOUS
    <2>4. g[h[a]] = f[a]
      OBVIOUS
    <2>5. IsFiniteSet(old) /\ Total(g, old) = Total(f, s) /\ IsFiniteSet(s) /\ a \notin s
      BY FS_Subset
    <2>6. s \cup {a} \in SUBSET S
      OBVIOUS
    <2> HIDE DEF old
    <2>7. IsFiniteSet(new)
      <3> HIDE DEF new
      <3> QED
        BY <2>1, <2>5, FS_AddElement
    <2>8. Total(g, new) = Total(g, old) + g[h[a]]
      <3> DEFINE b == h[a]
      <3>1. b \notin old /\ \A y \in old \cup {b} : g[y] \in Int
        BY <2>1, <2>2
      <3>2. IsFiniteSet(old)
        BY <2>5
      <3> HIDE DEF new, b, P
      <3>3. Total(g, old \cup {b}) = Total(g, old) + g[b]
        BY <3>1, <3>2, TotalOfMore
      <3> QED
        BY <2>1, <3>3 DEF b
    <2>9. Total(f, s \cup {a}) = Total(f, s) + f[a]
      BY <2>3, <2>5, TotalOfMore
    <2>10. Total(g, new) = Total(f, s \cup {a})
      BY <2>4, <2>5, <2>8, <2>9
    <2> QED
      BY <2>6, <2>7, <2>10
  <1>3. S \in P
    <2>1. P \in SUBSET SUBSET S
      OBVIOUS
    <2> HIDE DEF P
    <2> QED
      BY <1>1, <1>2, <2>1, InductOverSubsets
  <1> QED
    BY <1>3

\* A sum over two parts, and over a smaller part.
LEMMA TotalOfParts ==
    ASSUME NEW S, IsFiniteSet(S), NEW T, IsFiniteSet(T), S \cap T = {},
           NEW f, \A x \in S \cup T : f[x] \in Int
    PROVE  Total(f, S \cup T) = Total(f, S) + Total(f, T)
  <1> DEFINE P == {s \in SUBSET T : Total(f, S \cup s) = Total(f, S) + Total(f, s)}
  <1>0. Total(f, S) \in Int
    BY TotalType
  <1>1. {} \in P
    <2>1. S \cup {} = S
      OBVIOUS
    <2> QED
      BY <1>0, <2>1, TotalOfNone
  <1>2. ASSUME NEW s \in P, NEW a \in T \ s
        PROVE  s \cup {a} \in P
    <2> DEFINE u == S \cup s
    <2>1. IsFiniteSet(s) /\ s \in SUBSET T
      BY FS_Subset
    <2>2. IsFiniteSet(u)
      BY <2>1, FS_Union
    <2>3. a \notin u /\ a \notin s /\ S \cup (s \cup {a}) = u \cup {a}
      BY <2>1
    <2>4. (\A x \in u \cup {a} : f[x] \in Int) /\ (\A x \in s \cup {a} : f[x] \in Int)
      BY <2>1
    <2>5. Total(f, u) = Total(f, S) + Total(f, s)
      OBVIOUS
    <2> HIDE DEF u
    <2>6. Total(f, u \cup {a}) = Total(f, u) + f[a]
      BY <2>2, <2>3, <2>4, TotalOfMore
    <2>7. Total(f, s \cup {a}) = Total(f, s) + f[a]
      BY <2>1, <2>3, <2>4, TotalOfMore
    <2>8. Total(f, s) \in Int /\ f[a] \in Int
      BY <2>1, <2>4, TotalType
    <2>9. s \cup {a} \in SUBSET T
      BY <2>1
    <2>10. Total(f, u \cup {a}) = Total(f, S) + Total(f, s \cup {a})
      BY <1>0, <2>5, <2>6, <2>7, <2>8
    <2> QED
      BY <2>3, <2>9, <2>10
  <1>3. T \in P
    <2>1. P \in SUBSET SUBSET T
      OBVIOUS
    <2> HIDE DEF P
    <2> QED
      BY <1>1, <1>2, <2>1, InductOverSubsets
  <1> QED
    BY <1>3

LEMMA TotalOfNats ==
    ASSUME NEW S, IsFiniteSet(S), NEW f, \A x \in S : f[x] \in Nat
    PROVE  Total(f, S) \in Nat
  <1> DEFINE P == {s \in SUBSET S : Total(f, s) \in Nat}
  <1>1. {} \in P
    BY TotalOfNone
  <1>2. ASSUME NEW s \in P, NEW a \in S \ s
        PROVE  s \cup {a} \in P
    <2>1. IsFiniteSet(s) /\ s \in SUBSET S /\ a \notin s /\ Total(f, s) \in Nat
      BY FS_Subset
    <2>2. \A x \in s \cup {a} : f[x] \in Nat /\ f[x] \in Int
      BY <2>1
    <2>3. Total(f, s \cup {a}) = Total(f, s) + f[a]
      BY <2>1, <2>2, TotalOfMore
    <2> QED
      BY <2>1, <2>2, <2>3
  <1>3. S \in P
    <2>1. P \in SUBSET SUBSET S
      OBVIOUS
    <2> HIDE DEF P
    <2> QED
      BY <1>1, <1>2, <2>1, InductOverSubsets
  <1> QED
    BY <1>3

LEMMA TotalOfFewer ==
    ASSUME NEW S, IsFiniteSet(S), NEW f, \A x \in S : f[x] \in Nat,
           NEW T \in SUBSET S
    PROVE  Total(f, T) <= Total(f, S)
  <1> DEFINE U == S \ T
  <1>1. IsFiniteSet(T) /\ IsFiniteSet(U) /\ T \cap U = {} /\ T \cup U = S
    BY FS_Subset
  <1>2. \A x \in S : f[x] \in Int
    OBVIOUS
  <1>3. \A x \in U : f[x] \in Nat
    OBVIOUS
  <1> HIDE DEF U
  <1>4. Total(f, S) = Total(f, T) + Total(f, U)
    BY <1>1, <1>2, TotalOfParts
  <1>5. Total(f, T) \in Nat /\ Total(f, U) \in Nat
    BY <1>1, <1>3, TotalOfNats
  <1> QED
    BY <1>4, <1>5

-----------------------------------------------------------------------------
(***************************************************************************)
(* Sequences made of elements of another                                   *)
(***************************************************************************)

\* t is made of elements of s, from different positions.
Picks(t, s) ==
    \E f \in [DOMAIN t -> DOMAIN s] :
        /\ \A a, b \in DOMAIN t : f[a] = f[b] => a = b
        /\ \A a \in DOMAIN t : t[a] = s[f[a]]

LEMMA PicksUnique ==
    ASSUME NEW s, NEW t, Picks(t, s), Unique(s)
    PROVE  Unique(t)
  <1>1. PICK f \in [DOMAIN t -> DOMAIN s] :
            /\ \A a, b \in DOMAIN t : f[a] = f[b] => a = b
            /\ \A a \in DOMAIN t : t[a] = s[f[a]]
    BY DEF Picks
  <1>2. \A i, k \in DOMAIN s : s[i].id = s[k].id => i = k
    BY DEF Unique, IsInjective
  <1>3. ASSUME NEW a \in DOMAIN t, NEW b \in DOMAIN t, t[a].id = t[b].id
        PROVE  a = b
    <2>1. f[a] \in DOMAIN s /\ f[b] \in DOMAIN s /\ s[f[a]].id = s[f[b]].id
      BY <1>1, <1>3
    <2> QED
      BY <1>1, <1>2, <2>1
  <1> QED
    BY <1>3 DEF Unique, IsInjective

LEMMA PicksTransitive ==
    ASSUME NEW s, NEW t, NEW u, Picks(t, s), Picks(u, t)
    PROVE  Picks(u, s)
  <1>1. PICK f \in [DOMAIN t -> DOMAIN s] :
            /\ \A a, b \in DOMAIN t : f[a] = f[b] => a = b
            /\ \A a \in DOMAIN t : t[a] = s[f[a]]
    BY DEF Picks
  <1>2. PICK g \in [DOMAIN u -> DOMAIN t] :
            /\ \A a, b \in DOMAIN u : g[a] = g[b] => a = b
            /\ \A a \in DOMAIN u : u[a] = t[g[a]]
    BY DEF Picks
  <1> DEFINE h == [a \in DOMAIN u |-> f[g[a]]]
  <1>3. h \in [DOMAIN u -> DOMAIN s]
    BY <1>1, <1>2
  <1>4. \A a, b \in DOMAIN u : h[a] = h[b] => a = b
    BY <1>1, <1>2
  <1>5. \A a \in DOMAIN u : u[a] = s[h[a]]
    BY <1>1, <1>2
  <1> HIDE DEF h
  <1> QED
    BY <1>3, <1>4, <1>5 DEF Picks

-----------------------------------------------------------------------------
\* What Take returns.
LEMMA TakeFacts ==
    ASSUME NEW S, NEW s \in Seq(S), NEW n \in Nat
    PROVE  /\ Take(s, n) \in Seq(S)
           /\ Len(Take(s, n)) = IF n < Len(s) THEN n ELSE Len(s)
           /\ \A i \in 1..Len(Take(s, n)) : i \in 1..Len(s) /\ Take(s, n)[i] = s[i]
           /\ Picks(Take(s, n), s)
  <1> DEFINE l == IF n < Len(s) THEN n ELSE Len(s)
             t == Take(s, n)
  <1>1. l \in 0..Len(s) /\ Len(s) \in Nat
    OBVIOUS
  <1>2. t = SubSeq(s, 1, l)
    BY DEF Take
  <1>3. t \in Seq(S) /\ Len(t) = l /\ \A i \in 1..l : t[i] = s[i]
    <2> HIDE DEF l, t
    <2> QED
      BY <1>1, <1>2
  <1>4. DOMAIN t = 1..l /\ DOMAIN s = 1..Len(s)
    <2> HIDE DEF l, t
    <2> QED
      BY <1>3
  <1>5. Picks(t, s)
    <2> DEFINE f == [i \in DOMAIN t |-> i]
    <2>1. f \in [DOMAIN t -> DOMAIN s]
      <3> HIDE DEF l, t
      <3> QED
        BY <1>1, <1>4
    <2>2. \A a, b \in DOMAIN t : f[a] = f[b] => a = b
      OBVIOUS
    <2>3. \A a \in DOMAIN t : t[a] = s[f[a]]
      <3> HIDE DEF l, t
      <3> QED
        BY <1>3, <1>4
    <2> HIDE DEF f, t
    <2> QED
      BY <2>1, <2>2, <2>3 DEF Picks
  <1> HIDE DEF t
  <1>6. \A i \in 1..l : i \in 1..Len(s)
    BY <1>1
  <1> HIDE DEF l
  <1>7. /\ t \in Seq(S)
        /\ Len(t) = l
        /\ \A i \in 1..Len(t) : i \in 1..Len(s) /\ t[i] = s[i]
        /\ Picks(t, s)
    BY <1>1, <1>3, <1>5, <1>6
  <1> QED
    BY <1>7 DEF t, l

\* Two sequences of one length with the same elements are equal.
LEMMA SameElements ==
    ASSUME NEW S, NEW s \in Seq(S), NEW t \in Seq(S), Len(s) = Len(t),
           \A i \in 1..Len(s) : s[i] = t[i]
    PROVE  s = t
  OBVIOUS

\* The beginning of a beginning.
LEMMA TakeTake ==
    ASSUME NEW S, NEW s \in Seq(S), NEW m \in Nat, NEW n \in Nat
    PROVE  Take(Take(s, m), n) = Take(s, IF n < m THEN n ELSE m)
  <1> DEFINE k == IF n < m THEN n ELSE m
             t == Take(s, m)
             u == Take(t, n)
             v == Take(s, k)
  <1>1. k \in Nat /\ Len(s) \in Nat
    OBVIOUS
  <1> HIDE DEF t, u, v
  <1>2. /\ t \in Seq(S)
        /\ Len(t) = IF m < Len(s) THEN m ELSE Len(s)
        /\ \A i \in 1..Len(t) : t[i] = s[i]
    BY TakeFacts DEF t
  <1>3. /\ u \in Seq(S)
        /\ Len(u) = IF n < Len(t) THEN n ELSE Len(t)
        /\ \A i \in 1..Len(u) : i \in 1..Len(t) /\ u[i] = t[i]
    BY <1>2, TakeFacts DEF u
  <1>4. Len(u) = IF k < Len(s) THEN k ELSE Len(s)
    BY <1>1, <1>2, <1>3
  <1> HIDE DEF k
  <1>5. /\ v \in Seq(S)
        /\ Len(v) = IF k < Len(s) THEN k ELSE Len(s)
        /\ \A i \in 1..Len(v) : v[i] = s[i]
    BY <1>1, TakeFacts DEF v
  <1>6. Len(u) = Len(v) /\ \A i \in 1..Len(u) : u[i] = v[i]
    BY <1>2, <1>3, <1>4, <1>5
  <1>7. u = v
    BY <1>3, <1>5, <1>6, SameElements
  <1> QED
    BY <1>7 DEF u, v, t, k

\* A sequence is its own beginning.
LEMMA TakeAll ==
    ASSUME NEW S, NEW s \in Seq(S), NEW n \in Nat, n >= Len(s)
    PROVE  Take(s, n) = s
  <1> DEFINE t == Take(s, n)
  <1> HIDE DEF t
  <1>1. /\ t \in Seq(S)
        /\ Len(t) = IF n < Len(s) THEN n ELSE Len(s)
        /\ \A i \in 1..Len(t) : t[i] = s[i]
    BY TakeFacts DEF t
  <1>2. Len(t) = Len(s)
    BY <1>1
  <1>3. t = s
    BY <1>1, <1>2, SameElements
  <1> QED
    BY <1>3 DEF t

-----------------------------------------------------------------------------
(***************************************************************************)
(* Orders                                                                  *)
(***************************************************************************)

\* If each element of I has a set of elements of I that are not behind it, and
\* of two elements one is behind the other, then the sizes of these sets number
\* the elements from 1 on.
LEMMA RankIsBijection ==
    ASSUME NEW I, IsFiniteSet(I), NEW down \in [I -> SUBSET I],
           \A i \in I : i \in down[i],
           \A i, k \in I : i # k => \/ down[i] \subseteq down[k] /\ k \notin down[i]
                                    \/ down[k] \subseteq down[i] /\ i \notin down[k]
    PROVE  LET rank == [i \in I |-> Cardinality(down[i])]
           IN /\ rank \in [I -> 1..Cardinality(I)]
              /\ \A i, k \in I : rank[i] = rank[k] => i = k
              /\ \A n \in 1..Cardinality(I) : \E i \in I : rank[i] = n
              /\ \A i, k \in I : down[i] \subseteq down[k] /\ k \notin down[i] => rank[i] < rank[k]
  <1> DEFINE rank == [i \in I |-> Cardinality(down[i])]
             N == 1..Cardinality(I)
  <1>1. Cardinality(I) \in Nat
    BY FS_CardinalityType
  <1>2. \A i \in I : /\ IsFiniteSet(down[i])
                     /\ Cardinality(down[i]) \in Nat
                     /\ Cardinality(down[i]) <= Cardinality(I)
                     /\ Cardinality(down[i]) # 0
    <2> TAKE i \in I
    <2>1. IsFiniteSet(down[i]) /\ Cardinality(down[i]) <= Cardinality(I)
      BY FS_Subset
    <2>2. Cardinality(down[i]) \in Nat
      BY <2>1, FS_CardinalityType
    <2>3. Cardinality(down[i]) # 0
      BY <2>1, FS_EmptySet
    <2> QED
      BY <2>1, <2>2, <2>3
  <1>3. rank \in [I -> N]
    <2>1. \A i \in I : Cardinality(down[i]) \in N
      BY <1>1, <1>2
    <2> QED
      BY <2>1
  <1>4. ASSUME NEW i \in I, NEW k \in I, down[i] \subseteq down[k], k \notin down[i]
        PROVE  Cardinality(down[i]) < Cardinality(down[k])
    <2>1. IsFiniteSet(down[k]) /\ down[i] \in SUBSET down[k] /\ down[i] # down[k]
      BY <1>2, <1>4
    <2>2. Cardinality(down[i]) <= Cardinality(down[k]) /\ Cardinality(down[i]) # Cardinality(down[k])
      BY <2>1, FS_Subset
    <2> QED
      BY <1>2, <2>2
  <1>5. \A i, k \in I : rank[i] = rank[k] => i = k
    <2> SUFFICES ASSUME NEW i \in I, NEW k \in I, i # k
                 PROVE  Cardinality(down[i]) # Cardinality(down[k])
      OBVIOUS
    <2>1. CASE down[i] \subseteq down[k] /\ k \notin down[i]
      BY <1>2, <1>4, <2>1
    <2>2. CASE down[k] \subseteq down[i] /\ i \notin down[k]
      BY <1>2, <1>4, <2>2
    <2> QED
      BY <2>1, <2>2
  <1>10. \A i, k \in I : down[i] \subseteq down[k] /\ k \notin down[i] => rank[i] < rank[k]
    BY <1>4
  <1> HIDE DEF rank, N
  <1>6. rank \in Injection(I, N)
    BY <1>3, <1>5 DEF Injection, IsInjective
  <1>7. IsFiniteSet(N) /\ Cardinality(N) = Cardinality(I)
    <2>1. 1 \in Int /\ Cardinality(I) \in Int
      BY <1>1
    <2>2. IsFiniteSet(N) /\ Cardinality(N) = IF 1 > Cardinality(I) THEN 0 ELSE Cardinality(I) - 1 + 1
      BY <2>1, FS_Interval DEF N
    <2> QED
      BY <1>1, <2>2
  <1>8. rank \in Surjection(I, N)
    BY <1>6, <1>7, FS_Injection
  <1>9. \A n \in N : \E i \in I : rank[i] = n
    BY <1>8 DEF Surjection
  <1> QED
    BY <1>3, <1>5, <1>9, <1>10 DEF rank, N

\* Elements that are given the places 1, 2, ... make a sequence of them.
LEMMA ArrangedFacts ==
    ASSUME NEW S, NEW s \in Seq(S), NEW I \in SUBSET DOMAIN s, NEW place,
           place \in [I -> 1..Cardinality(I)], Cardinality(I) \in Nat,
           \A i, k \in I : place[i] = place[k] => i = k,
           \A n \in 1..Cardinality(I) : \E i \in I : place[i] = n
    PROVE  /\ Arranged(s, place) \in Seq(S)
           /\ Len(Arranged(s, place)) = Cardinality(I)
           /\ Picks(Arranged(s, place), s)
           /\ \A i \in I : Arranged(s, place)[place[i]] = s[i]
           /\ \A n \in 1..Cardinality(I) :
                \E i \in I : place[i] = n /\ Arranged(s, place)[n] = s[i]
  <1> DEFINE c == Cardinality(I)
             f == [n \in 1..c |-> CHOOSE i \in I : place[i] = n]
             t == Arranged(s, place)
  <1>1. DOMAIN place = I
    OBVIOUS
  <1>2. t = [n \in 1..c |-> s[f[n]]]
    BY <1>1 DEF Arranged
  <1>3. \A n \in 1..c : f[n] \in I /\ place[f[n]] = n
    OBVIOUS
  <1> HIDE DEF f, t, c
  <1>4. c \in Nat /\ \A n \in 1..c : s[f[n]] \in S
    BY <1>3 DEF c
  <1>5. t \in Seq(S) /\ Len(t) = c /\ DOMAIN t = 1..c
    BY <1>2, <1>4
  <1>6. Picks(t, s)
    <2>1. f \in [DOMAIN t -> DOMAIN s]
      <3>1. f = [n \in 1..c |-> f[n]]
        BY DEF f
      <3> QED
        BY <1>3, <1>5, <3>1
    <2>2. \A a, b \in DOMAIN t : f[a] = f[b] => a = b
      BY <1>3, <1>5
    <2>3. \A a \in DOMAIN t : t[a] = s[f[a]]
      BY <1>2, <1>5
    <2> QED
      BY <2>1, <2>2, <2>3 DEF Picks
  <1>7. \A i \in I : t[place[i]] = s[i]
    <2> TAKE i \in I
    <2>1. place[i] \in 1..c
      BY DEF c
    <2>2. f[place[i]] = i
      BY <1>3, <2>1
    <2> QED
      BY <1>2, <2>1, <2>2
  <1>8. \A n \in 1..c : f[n] \in I /\ place[f[n]] = n /\ t[n] = s[f[n]]
    BY <1>2, <1>3
  <1> QED
    BY <1>5, <1>6, <1>7, <1>8 DEF t, c

\* What Only returns: the elements of s at the positions in I.
LEMMA OnlyFacts ==
    ASSUME NEW S, NEW s \in Seq(S), NEW I \in SUBSET DOMAIN s
    PROVE  /\ Only(s, I) \in Seq(S)
           /\ Picks(Only(s, I), s)
           /\ \A n \in DOMAIN Only(s, I) : \E i \in I : Only(s, I)[n] = s[i]
           /\ \A i \in I : \E n \in DOMAIN Only(s, I) : Only(s, I)[n] = s[i]
           /\ \A a, b \in DOMAIN Only(s, I) : a < b =>
                \E i, k \in I : i < k /\ Only(s, I)[a] = s[i] /\ Only(s, I)[b] = s[k]
  <1> DEFINE down == [i \in I |-> {k \in I : k <= i}]
             rank == [i \in I |-> Cardinality(down[i])]
  <1>1. IsFiniteSet(I) /\ \A i \in I : i \in Nat
    <2>1. Len(s) \in Int /\ 1 \in Int /\ DOMAIN s = 1..Len(s)
      OBVIOUS
    <2>2. IsFiniteSet(DOMAIN s)
      BY <2>1, FS_Interval
    <2> QED
      BY <2>1, <2>2, FS_Subset
  <1>2. down \in [I -> SUBSET I]
    OBVIOUS
  <1>3. \A i \in I : i \in down[i]
    BY <1>1
  <1>4. \A i, k \in I : i # k => \/ down[i] \subseteq down[k] /\ k \notin down[i]
                                 \/ down[k] \subseteq down[i] /\ i \notin down[k]
    <2> TAKE i, k \in I
    <2>1. i < k => down[i] \subseteq down[k] /\ k \notin down[i]
      BY <1>1
    <2>2. k < i => down[k] \subseteq down[i] /\ i \notin down[k]
      BY <1>1
    <2>3. i # k => i < k \/ k < i
      BY <1>1
    <2> QED
      BY <2>1, <2>2, <2>3
  <1>5. rank = [i \in I |-> Cardinality({k \in I : k <= i})]
    OBVIOUS
  <1>6. Only(s, I) = Arranged(s, rank)
    BY <1>5 DEF Only
  <1>7. Cardinality(I) \in Nat
    BY <1>1, FS_CardinalityType
  <1>12. \A i, k \in I : k < i => down[k] \subseteq down[i] /\ i \notin down[k]
    BY <1>1
  <1> HIDE DEF down
  <1>8. /\ rank \in [I -> 1..Cardinality(I)]
        /\ \A i, k \in I : rank[i] = rank[k] => i = k
        /\ \A n \in 1..Cardinality(I) : \E i \in I : rank[i] = n
        /\ \A i, k \in I : down[i] \subseteq down[k] /\ k \notin down[i] => rank[i] < rank[k]
    BY <1>1, <1>2, <1>3, <1>4, RankIsBijection
  <1> HIDE DEF rank
  <1> DEFINE t == Arranged(s, rank)
  <1>9. /\ t \in Seq(S)
        /\ Len(t) = Cardinality(I)
        /\ Picks(t, s)
        /\ \A i \in I : t[rank[i]] = s[i]
        /\ \A n \in 1..Cardinality(I) : \E i \in I : rank[i] = n /\ t[n] = s[i]
    BY <1>7, <1>8, ArrangedFacts
  <1> HIDE DEF t
  <1>10. DOMAIN t = 1..Cardinality(I)
    BY <1>9
  <1>11. \A i \in I : rank[i] \in DOMAIN t
    BY <1>8, <1>10
  <1>13. ASSUME NEW a \in DOMAIN t, NEW b \in DOMAIN t, a < b
         PROVE  \E i, k \in I : i < k /\ t[a] = s[i] /\ t[b] = s[k]
    <2>1. PICK i \in I : rank[i] = a /\ t[a] = s[i]
      BY <1>9, <1>10
    <2>2. PICK k \in I : rank[k] = b /\ t[b] = s[k]
      BY <1>9, <1>10
    <2>3. k < i => rank[k] < rank[i]
      BY <1>8, <1>12
    <2>4. a \in Nat /\ b \in Nat
      BY <1>7, <1>10
    <2>5. i < k
      BY <1>1, <1>13, <2>1, <2>2, <2>3, <2>4
    <2> QED
      BY <2>1, <2>2, <2>5
  <1> QED
    BY <1>6, <1>9, <1>10, <1>11, <1>13 DEF t

-----------------------------------------------------------------------------
(***************************************************************************)
(* Sorting                                                                 *)
(***************************************************************************)

\* No element comes before one that precedes it in s.
Ordered(order, s) == \A a, b \in DOMAIN s : a < b => ~Before(order, s[b], s[a])

\* ORDER BY returns the messages of the log, in order.
LEMMA SortByFacts ==
    ASSUME NEW S, \A m \in S : m.ts \in Int, NEW s \in Seq(S), NEW order
    PROVE  /\ SortBy(order, s) \in Seq(S)
           /\ Len(SortBy(order, s)) = Len(s)
           /\ Picks(SortBy(order, s), s)
           /\ Ordered(order, SortBy(order, s))
  <1> DEFINE I == DOMAIN s
             Ahead(k, i) == Before(order, s[k], s[i])
             ahead(i) == {k \in I : Ahead(k, i) \/ (k <= i /\ ~Ahead(i, k))}
             down == [i \in I |-> ahead(i)]
             rank == [i \in I |-> Cardinality(down[i])]
  <1>1. I = 1..Len(s) /\ Len(s) \in Nat
    OBVIOUS
  <1>2. IsFiniteSet(I) /\ Cardinality(I) = Len(s)
    <2>1. Len(s) \in Int /\ 1 \in Int
      OBVIOUS
    <2>2. IsFiniteSet(I) /\ Cardinality(I) = IF 1 > Len(s) THEN 0 ELSE Len(s) - 1 + 1
      BY <1>1, <2>1, FS_Interval
    <2> QED
      BY <1>1, <2>2
  <1>3. \A i \in I : i \in Nat /\ s[i].ts \in Int
    <2>1. \A i \in I : i \in Nat /\ s[i] \in S
      OBVIOUS
    <2> QED
      BY <2>1
  <1>4. \A i, k \in I : \/ /\ order = "newest"
                           /\ Ahead(i, k) <=> s[i].ts > s[k].ts
                        \/ /\ order # "newest"
                           /\ Ahead(i, k) <=> s[i].ts < s[k].ts
    BY DEF Before, Newer, Older
  <1> HIDE DEF Ahead
  <1>5. /\ \A i \in I : ~Ahead(i, i)
        /\ \A i, k \in I : ~(Ahead(i, k) /\ Ahead(k, i))
        /\ \A i, j, k \in I : Ahead(i, j) /\ ~Ahead(k, j) => Ahead(i, k)
        /\ \A i, j, k \in I : ~Ahead(i, j) /\ Ahead(k, j) => Ahead(k, i)
    <2>1. CASE order = "newest"
      <3>1. \A i, k \in I : Ahead(i, k) <=> s[i].ts > s[k].ts
        BY <1>4, <2>1
      <3> HIDE DEF I
      <3>2. \A i \in I : s[i].ts \in Int
        BY <1>3
      <3>3. ASSUME NEW i \in I, NEW j \in I, NEW k \in I
            PROVE  /\ ~Ahead(i, i)
                   /\ ~(Ahead(i, k) /\ Ahead(k, i))
                   /\ Ahead(i, j) /\ ~Ahead(k, j) => Ahead(i, k)
                   /\ ~Ahead(i, j) /\ Ahead(k, j) => Ahead(k, i)
        <4>1. s[i].ts \in Int /\ s[j].ts \in Int /\ s[k].ts \in Int
          BY <3>2
        <4> QED
          BY <3>1, <4>1
      <3> QED
        BY <3>3
    <2>2. CASE order # "newest"
      <3>1. \A i, k \in I : Ahead(i, k) <=> s[i].ts < s[k].ts
        BY <1>4, <2>2
      <3> HIDE DEF I
      <3>2. \A i \in I : s[i].ts \in Int
        BY <1>3
      <3>3. ASSUME NEW i \in I, NEW j \in I, NEW k \in I
            PROVE  /\ ~Ahead(i, i)
                   /\ ~(Ahead(i, k) /\ Ahead(k, i))
                   /\ Ahead(i, j) /\ ~Ahead(k, j) => Ahead(i, k)
                   /\ ~Ahead(i, j) /\ Ahead(k, j) => Ahead(k, i)
        <4>1. s[i].ts \in Int /\ s[j].ts \in Int /\ s[k].ts \in Int
          BY <3>2
        <4> QED
          BY <3>1, <4>1
      <3> QED
        BY <3>3
    <2> QED
      BY <2>1, <2>2
  <1>6. down \in [I -> SUBSET I]
    OBVIOUS
  <1>7. \A i \in I : i \in down[i]
    BY <1>3, <1>5
  <1>8. \A i, k \in I : i # k => \/ down[i] \subseteq down[k] /\ k \notin down[i]
                                 \/ down[k] \subseteq down[i] /\ i \notin down[k]
    <2>1. ASSUME NEW i \in I, NEW k \in I, i \in down[k], i # k
          PROVE  down[i] \subseteq down[k] /\ k \notin down[i]
      <3>1. Ahead(i, k) \/ (i <= k /\ ~Ahead(k, i))
        BY <2>1
      <3>2. k \notin down[i]
        BY <1>3, <1>5, <2>1, <3>1
      <3>3. ASSUME NEW j \in down[i] PROVE j \in down[k]
        <4>1. j \in I /\ (Ahead(j, i) \/ (j <= i /\ ~Ahead(i, j)))
          BY <3>3
        <4>2. CASE Ahead(j, i) /\ Ahead(i, k)
          BY <1>5, <4>1, <4>2
        <4>3. CASE Ahead(j, i) /\ ~Ahead(k, i)
          BY <1>5, <4>1, <4>3
        <4>4. CASE ~Ahead(i, j) /\ Ahead(i, k)
          BY <1>5, <4>1, <4>4
        <4>5. CASE j <= i /\ ~Ahead(i, j) /\ i <= k /\ ~Ahead(k, i)
          <5>1. j <= k
            BY <1>3, <4>1, <4>5
          <5>2. ~Ahead(k, j)
            BY <1>5, <4>1, <4>5
          <5> QED
            BY <4>1, <5>1, <5>2
        <4> QED
          BY <3>1, <4>1, <4>2, <4>3, <4>4, <4>5
      <3> QED
        BY <3>2, <3>3
    <2>2. ASSUME NEW i \in I, NEW k \in I, i # k
          PROVE  i \in down[k] \/ k \in down[i]
      BY <1>3, <1>5, <2>2
    <2> HIDE DEF down
    <2> QED
      BY <2>1, <2>2
  <1>9. SortBy(order, s) = Arranged(s, rank)
    BY DEF SortBy, Ahead
  <1>15. \A i, k \in I : Ahead(k, i) => k \in down[i]
    OBVIOUS
  <1> HIDE DEF I, down
  <1>16. \A i, k \in I : k \in down[i] /\ k # i => down[k] \subseteq down[i] /\ i \notin down[k]
    BY <1>7, <1>8
  <1>10. /\ rank \in [I -> 1..Cardinality(I)]
         /\ \A i, k \in I : rank[i] = rank[k] => i = k
         /\ \A n \in 1..Cardinality(I) : \E i \in I : rank[i] = n
         /\ \A i, k \in I : down[i] \subseteq down[k] /\ k \notin down[i] => rank[i] < rank[k]
    BY <1>2, <1>6, <1>7, <1>8, RankIsBijection
  <1> HIDE DEF rank
  <1>11. I \in SUBSET DOMAIN s
    BY DEF I
  <1>12. Cardinality(I) \in Nat
    BY <1>1, <1>2
  <1> DEFINE t == Arranged(s, rank)
  <1>13. /\ t \in Seq(S) /\ Len(t) = Cardinality(I) /\ Picks(t, s)
         /\ \A n \in 1..Cardinality(I) : \E i \in I : rank[i] = n /\ t[n] = s[i]
    BY <1>10, <1>11, <1>12, ArrangedFacts
  <1> HIDE DEF t
  <1>14. t \in Seq(S) /\ Len(t) = Len(s) /\ Picks(t, s)
    BY <1>2, <1>13
  <1>17. Ordered(order, t)
    <2> SUFFICES ASSUME NEW a \in DOMAIN t, NEW b \in DOMAIN t, a < b,
                        Before(order, t[b], t[a])
                 PROVE  FALSE
      BY DEF Ordered
    <2>1. a \in 1..Cardinality(I) /\ b \in 1..Cardinality(I) /\ a \in Nat /\ b \in Nat
      BY <1>12, <1>13
    <2>2. PICK i \in I : rank[i] = a /\ t[a] = s[i]
      BY <1>13, <2>1
    <2>3. PICK k \in I : rank[k] = b /\ t[b] = s[k]
      BY <1>13, <2>1
    <2>4. Ahead(k, i)
      BY <2>2, <2>3 DEF Ahead
    <2>5. k # i
      BY <1>5, <2>4
    <2>6. rank[k] < rank[i]
      BY <1>10, <1>15, <1>16, <2>4, <2>5
    <2> QED
      BY <2>1, <2>2, <2>3, <2>6
  <1> QED
    BY <1>9, <1>14, <1>17 DEF t

\* An exchange in the nested loops keeps the messages.
LEMMA ExchangedFacts ==
    ASSUME NEW S, NEW s \in Seq(S), NEW order,
           NEW i \in Nat \ {0}, NEW k \in 1..Len(s)
    PROVE  /\ Exchanged(order, s, i, k) \in Seq(S)
           /\ Len(Exchanged(order, s, i, k)) = Len(s)
           /\ Picks(Exchanged(order, s, i, k), s)
  <1> DEFINE f == [n \in DOMAIN s |-> IF n = i THEN k ELSE IF n = k THEN i ELSE n]
             id == [n \in DOMAIN s |-> n]
             t == [n \in DOMAIN s |-> s[f[n]]]
  <1>1. CASE i < k /\ Before(order, s[k], s[i])
    <2>1. t = Exchanged(order, s, i, k)
      BY <1>1 DEF Exchanged
    <2>2. DOMAIN s = 1..Len(s) /\ i \in DOMAIN s /\ k \in DOMAIN s /\ Len(s) \in Nat
      BY <1>1
    <2>3. \A n \in DOMAIN s : f[n] \in DOMAIN s /\ s[f[n]] \in S
      BY <2>2
    <2>4. \A a, b \in DOMAIN s : f[a] = f[b] => a = b
      BY <2>2
    <2>5. f = [n \in DOMAIN s |-> f[n]]
      OBVIOUS
    <2> HIDE DEF f
    <2>6. t \in Seq(S) /\ Len(t) = Len(s) /\ DOMAIN t = DOMAIN s
      BY <2>2, <2>3
    <2>7. f \in [DOMAIN t -> DOMAIN s] /\ \A a \in DOMAIN t : t[a] = s[f[a]]
      BY <2>3, <2>5, <2>6
    <2>8. Picks(t, s)
      <3> HIDE DEF t
      <3> QED
        BY <2>4, <2>6, <2>7 DEF Picks
    <2> QED
      BY <2>1, <2>6, <2>8
  <1>2. CASE ~(i < k /\ Before(order, s[k], s[i]))
    <2>1. Exchanged(order, s, i, k) = s
      BY <1>2 DEF Exchanged
    <2>2. id \in [DOMAIN s -> DOMAIN s] /\ \A a \in DOMAIN s : s[a] = s[id[a]]
      OBVIOUS
    <2>3. \A a, b \in DOMAIN s : id[a] = id[b] => a = b
      OBVIOUS
    <2>4. Picks(s, s)
      <3> HIDE DEF id
      <3> QED
        BY <2>2, <2>3 DEF Picks
    <2> QED
      BY <2>1, <2>4
  <1> QED
    BY <1>1, <1>2

\* The positions the nested loops look at: steps t of a loop of n in a loop of n.
LEMMA LoopPositions ==
    ASSUME NEW n \in Nat \ {0}, NEW t \in Nat \ {0}
    PROVE  /\ 1 + ((t - 1) \div n) \in Nat \ {0}
           /\ 1 + ((t - 1) % n) \in 1..n
  <1>1. t - 1 \in Nat
    OBVIOUS
  <1>2. (t - 1) % n \in 0..(n - 1)
    BY <1>1
  <1>3. (t - 1) \div n \in Nat
    BY <1>1
  <1> QED
    BY <1>2, <1>3

\* The nested loops begin with the log and go on with what they have.
LEMMA ExchangesSteps ==
    ASSUME NEW order, NEW s, Len(s) \in Nat
    PROVE  LET n == Len(s)
               F == Exchanges(order, s)
           IN /\ F[0] = s
              /\ \A t \in 1..(n * n) :
                    F[t] = Exchanged(order, F[t - 1], 1 + ((t - 1) \div n), 1 + ((t - 1) % n))
  <1> DEFINE n == Len(s)
             N == n * n
             Step(x, t) == Exchanged(order, x, 1 + ((t - 1) \div n), 1 + ((t - 1) % n))
             Goes(f, m) == f = [t \in 0..m |-> IF t = 0 THEN s ELSE Step(f[t - 1], t)]
             T == {m \in Nat : \E f : Goes(f, m)}
             F == CHOOSE f : Goes(f, N)
  <1>1. Exchanges(order, s) = F
    BY DEF Exchanges
  <1>2. N \in Nat
    OBVIOUS
  <1> HIDE DEF Step, N
  <1>3. 0 \in T
    <2> DEFINE f == [t \in 0..0 |-> s]
    <2>1. \A t \in 0..0 : t = 0
      OBVIOUS
    <2>2. f = [t \in 0..0 |-> IF t = 0 THEN s ELSE Step(f[t - 1], t)]
      BY <2>1
    <2> HIDE DEF f
    <2> QED
      BY <2>2
  <1>4. ASSUME NEW m \in T PROVE m + 1 \in T
    <2>1. m \in Nat
      BY <1>4
    <2>2. PICK f : Goes(f, m)
      BY <1>4
    <2> DEFINE g == [t \in 0..(m + 1) |-> IF t = m + 1 THEN Step(f[m], m + 1) ELSE f[t]]
    <2>3. \A t \in 0..(m + 1) : \/ t = 0
                                \/ t \in 1..m /\ t - 1 \in 0..m
                                \/ t = m + 1 /\ t # 0 /\ t - 1 = m
      BY <2>1
    <2>4. \A t \in 0..m : t \in 0..(m + 1) /\ t # m + 1
      BY <2>1
    <2>5. \A t \in 0..m : g[t] = f[t]
      BY <2>4
    <2>6. m \in 0..m /\ 0 \in 0..m /\ m + 1 \in 0..(m + 1) /\ \A t \in 1..m : t \in 0..m /\ t # 0
      BY <2>1
    <2>7. g[0] = s
      BY <2>2, <2>5, <2>6
    <2>8. \A t \in 1..m : g[t] = Step(f[t - 1], t)
      BY <2>2, <2>5, <2>6
    <2>9. g[m + 1] = Step(f[m], m + 1)
      BY <2>6
    <2>10. \A t \in 0..(m + 1) : g[t] = IF t = 0 THEN s ELSE Step(g[t - 1], t)
      <3> TAKE t \in 0..(m + 1)
      <3>1. CASE t = 0
        BY <2>7, <3>1
      <3>2. CASE t \in 1..m /\ t - 1 \in 0..m
        <4>1. t # 0 /\ g[t] = Step(f[t - 1], t) /\ g[t - 1] = f[t - 1]
          BY <2>5, <2>6, <2>8, <3>2
        <4> HIDE DEF g
        <4> QED
          BY <4>1
      <3>3. CASE t = m + 1 /\ t # 0 /\ t - 1 = m
        BY <2>5, <2>6, <2>9, <3>3
      <3> QED
        BY <2>3, <3>1, <3>2, <3>3
    <2>11. g = [t \in 0..(m + 1) |-> g[t]]
      OBVIOUS
    <2> HIDE DEF g
    <2>12. g = [t \in 0..(m + 1) |-> IF t = 0 THEN s ELSE Step(g[t - 1], t)]
      BY <2>10, <2>11
    <2>13. m + 1 \in Nat
      BY <2>1
    <2> QED
      BY <2>12, <2>13
  <1>5. T = Nat
    <2> HIDE DEF T
    <2>1. T \in SUBSET Nat
      BY DEF T
    <2> QED
      BY <2>1, <1>3, <1>4, Induct
  <1>6. \E f : Goes(f, N)
    BY <1>2, <1>5
  <1>7. Goes(F, N)
    <2> HIDE DEF Goes
    <2> QED
      BY <1>6
  <1> HIDE DEF F
  <1>8. F[0] = s
    <2>1. 0 \in 0..N
      BY <1>2
    <2> QED
      BY <1>7, <2>1
  <1>9. \A t \in 1..N : F[t] = Step(F[t - 1], t)
    <2>1. \A t \in 1..N : t \in 0..N /\ t # 0
      BY <1>2
    <2> QED
      BY <1>7, <2>1
  <1> QED
    BY <1>1, <1>8, <1>9 DEF Step, N

\* The nested loops return the messages of the log.
LEMMA ExchangeSortFacts ==
    ASSUME NEW S, NEW s \in Seq(S), NEW order
    PROVE  /\ ExchangeSort(order, s) \in Seq(S)
           /\ Len(ExchangeSort(order, s)) = Len(s)
           /\ Picks(ExchangeSort(order, s), s)
  <1> DEFINE n == Len(s)
             N == n * n
             F == Exchanges(order, s)
             Good(t) == t \in Seq(S) /\ Len(t) = n /\ Picks(t, s)
             T == {t \in Nat : t <= N => Good(F[t])}
  <1>1. n \in Nat /\ N \in Nat
    OBVIOUS
  <1>2. /\ F[0] = s
        /\ \A t \in 1..N :
              F[t] = Exchanged(order, F[t - 1], 1 + ((t - 1) \div n), 1 + ((t - 1) % n))
    BY <1>1, ExchangesSteps
  <1>3. N # 0 => n # 0
    OBVIOUS
  <1> HIDE DEF N, F
  <1>4. 0 \in T
    <2> DEFINE id == [a \in DOMAIN s |-> a]
    <2>1. id \in [DOMAIN s -> DOMAIN s] /\ \A a \in DOMAIN s : s[a] = s[id[a]]
      OBVIOUS
    <2>2. \A a, b \in DOMAIN s : id[a] = id[b] => a = b
      OBVIOUS
    <2> HIDE DEF id
    <2>3. Picks(s, s)
      BY <2>1, <2>2 DEF Picks
    <2> QED
      BY <1>2, <2>3
  <1>5. ASSUME NEW t \in T PROVE t + 1 \in T
    <2>1. t \in Nat /\ t + 1 \in Nat /\ (t + 1) - 1 = t /\ t + 1 \in Nat \ {0}
      BY <1>5
    <2>2. SUFFICES ASSUME t + 1 <= N PROVE Good(F[t + 1])
      BY <2>1
    <2>3. t <= N /\ t + 1 \in 1..N /\ n \in Nat \ {0}
      BY <1>1, <1>3, <2>1, <2>2
    <2> DEFINE i == 1 + (((t + 1) - 1) \div n)
               k == 1 + (((t + 1) - 1) % n)
    <2>4. i \in Nat \ {0} /\ k \in 1..n
      BY <2>1, <2>3, LoopPositions
    <2>5. F[t + 1] = Exchanged(order, F[t], i, k)
      <3>1. F[t + 1] = Exchanged(order, F[(t + 1) - 1], i, k)
        BY <1>2, <2>3
      <3> QED
        BY <2>1, <3>1
    <2> HIDE DEF i, k
    <2>6. Good(F[t])
      BY <1>5, <2>3
    <2> DEFINE x == F[t]
               y == Exchanged(order, x, i, k)
    <2>7. x \in Seq(S) /\ Len(x) = n /\ Picks(x, s)
      BY <2>6
    <2> HIDE DEF x
    <2>8. y \in Seq(S) /\ Len(y) = Len(x) /\ Picks(y, x)
      BY <2>4, <2>7, ExchangedFacts
    <2> HIDE DEF y
    <2>9. Picks(y, s)
      BY <2>7, <2>8, PicksTransitive
    <2>10. F[t + 1] = y
      BY <2>5 DEF x, y
    <2> QED
      BY <2>7, <2>8, <2>9, <2>10
  <1>6. T = Nat
    <2> HIDE DEF T
    <2>1. T \in SUBSET Nat
      BY DEF T
    <2> QED
      BY <2>1, <1>4, <1>5, Induct
  <1>7. Good(F[N])
    BY <1>1, <1>6
  <1> QED
    BY <1>7 DEF N, F, ExchangeSort

\* Either storage returns the messages of the log.
LEMMA SortedFacts ==
    ASSUME NEW S, \A m \in S : m.ts \in Int, NEW s \in Seq(S), NEW order, NEW b
    PROVE  /\ Sorted(b, order, s) \in Seq(S)
           /\ Len(Sorted(b, order, s)) = Len(s)
           /\ Picks(Sorted(b, order, s), s)
  <1>1. CASE b = "db"
    BY <1>1, SortByFacts DEF Sorted
  <1>2. CASE b # "db"
    BY <1>2, ExchangeSortFacts DEF Sorted
  <1> QED
    BY <1>1, <1>2

\* Coming before is a strict order on timestamps.
LEMMA BeforeIsOrder ==
    ASSUME NEW S, \A m \in S : m.ts \in Int, NEW order
    PROVE  \A x, y, z \in S :
             /\ ~Before(order, x, x)
             /\ Before(order, x, y) => ~Before(order, y, x)
             /\ Before(order, x, y) /\ Before(order, y, z) => Before(order, x, z)
             /\ ~Before(order, x, y) /\ ~Before(order, y, z) => ~Before(order, x, z)
  <1> TAKE x, y, z \in S
  <1>1. x.ts \in Int /\ y.ts \in Int /\ z.ts \in Int
    OBVIOUS
  <1>2. CASE order = "newest"
    BY <1>1, <1>2 DEF Before, Newer
  <1>3. CASE order # "newest"
    BY <1>1, <1>3 DEF Before, Older
  <1> QED
    BY <1>2, <1>3

\* The comparisons are made row by row.
LEMMA RowByRow ==
    ASSUME NEW n \in Nat \ {0}, NEW t \in Nat, NEW a \in 1..n, NEW b \in 1..n
    PROVE  LET i == 1 + (t \div n)
               k == 1 + (t % n)
           IN /\ (a - 1) * n + b <= t + 1 <=> a < i \/ (a = i /\ b <= k)
              /\ (a - 1) * n + b <= t <=> a < i \/ (a = i /\ b < k)
  <1> DEFINE q == t \div n
             r == t % n
  <1>1. q \in Nat /\ r \in 0..(n - 1) /\ t = q * n + r
    OBVIOUS
  <1> HIDE DEF q, r
  <1>2. CASE a < 1 + q
    <2>1. PICK d \in Nat : q = (a - 1) + 1 + d
      <3>1. q - a \in Nat /\ q = (a - 1) + 1 + (q - a)
        BY <1>1, <1>2
      <3> QED
        BY <3>1
    <2>2. q * n = (a - 1) * n + n + d * n
      BY <2>1
    <2>3. d * n \in Nat /\ (a - 1) * n \in Nat
      OBVIOUS
    <2> DEFINE u == (a - 1) * n
               v == d * n
               w == q * n
    <2>4. w = u + n + v /\ u \in Nat /\ v \in Nat /\ t = w + r
      BY <1>1, <2>2, <2>3
    <2> HIDE DEF u, v, w
    <2>5. u + b <= t + 1 /\ u + b <= t
      BY <1>1, <2>4
    <2> QED
      BY <1>2, <2>5 DEF u, q
  <1>3. CASE a = 1 + q
    <2> DEFINE w == q * n
    <2>1. (a - 1) * n = w /\ w \in Nat /\ t = w + r
      BY <1>1, <1>3
    <2> HIDE DEF w
    <2>2. /\ (a - 1) * n + b <= t + 1 <=> b <= 1 + r
          /\ (a - 1) * n + b <= t <=> b < 1 + r
      BY <1>1, <2>1
    <2> QED
      BY <1>1, <1>3, <2>2 DEF q, r
  <1>4. CASE a > 1 + q
    <2>1. PICK d \in Nat : a - 1 = q + 1 + d
      <3>1. a - 2 - q \in Nat /\ a - 1 = q + 1 + (a - 2 - q)
        BY <1>1, <1>4
      <3> QED
        BY <3>1
    <2>2. (a - 1) * n = q * n + n + d * n
      BY <1>1, <2>1
    <2>3. d * n \in Nat /\ q * n \in Nat
      BY <1>1
    <2> DEFINE u == (a - 1) * n
               v == d * n
               w == q * n
    <2>4. u = w + n + v /\ w \in Nat /\ v \in Nat /\ t = w + r
      BY <1>1, <2>2, <2>3
    <2> HIDE DEF u, v, w
    <2>5. ~(u + b <= t + 1) /\ ~(u + b <= t)
      BY <1>1, <2>4
    <2>6. ~(a < 1 + q) /\ a # 1 + q
      BY <1>1, <1>4
    <2> QED
      BY <2>5, <2>6 DEF u, q
  <1> QED
    BY <1>1, <1>2, <1>3, <1>4

\* One comparison extends what is in order by one pair.
LEMMA ExchangedOrders ==
    ASSUME NEW S, \A m \in S : m.ts \in Int, NEW x \in Seq(S), NEW order,
           NEW i \in Nat \ {0}, NEW k \in 1..Len(x),
           \A a, b \in 1..Len(x) :
              a < b /\ (a < i \/ (a = i /\ b < k)) => ~Before(order, x[b], x[a])
    PROVE  LET y == Exchanged(order, x, i, k)
           IN \A a, b \in 1..Len(x) :
                a < b /\ (a < i \/ (a = i /\ b <= k)) => ~Before(order, y[b], y[a])
  <1> DEFINE n == Len(x)
             y == Exchanged(order, x, i, k)
  <1>1. n \in Nat /\ DOMAIN x = 1..n /\ \A a \in 1..n : a \in Nat /\ x[a] \in S
    OBVIOUS
  <1>2. /\ \A u, v \in S : Before(order, u, v) => ~Before(order, v, u)
        /\ \A u, v, w \in S : Before(order, u, v) /\ Before(order, v, w) => Before(order, u, w)
        /\ \A u, v, w \in S : ~Before(order, u, v) /\ ~Before(order, v, w) => ~Before(order, u, w)
    BY BeforeIsOrder
  <1> DEFINE B(u, v) == Before(order, u, v)
  <1>3. \A u, v, w \in S : B(u, v) /\ ~B(w, v) => ~B(w, u)
    BY <1>2
  <1>4. CASE i < k /\ B(x[k], x[i])
    <2>1. y = [a \in DOMAIN x |-> x[IF a = i THEN k ELSE IF a = k THEN i ELSE a]]
      BY <1>4 DEF Exchanged
    <2>2. i \in 1..n /\ k \in 1..n /\ i # k
      BY <1>1, <1>4
    <2>3. /\ y[i] = x[k]
          /\ y[k] = x[i]
          /\ \A a \in 1..n : a # i /\ a # k => y[a] = x[a]
      BY <1>1, <2>1, <2>2
    <2> HIDE DEF y, n, B
    <2> SUFFICES ASSUME NEW a \in 1..n, NEW b \in 1..n, a < b, a < i \/ (a = i /\ b <= k)
                 PROVE  ~B(y[b], y[a])
      BY DEF y, n, B
    <2>4. \A c, d \in 1..n : c < d /\ (c < i \/ (c = i /\ d < k)) => ~B(x[d], x[c])
      BY DEF n, B
    <2>5. a \in Nat /\ b \in Nat /\ k \in Nat /\ i \in Nat
      BY <1>1
    <2>6. CASE a < i
      <3>1. a < k /\ a # i /\ a # k
        BY <1>4, <2>5, <2>6
      <3>2. ~B(x[b], x[a]) /\ ~B(x[i], x[a]) /\ ~B(x[k], x[a])
        BY <2>2, <2>4, <2>6, <3>1
      <3>3. y[a] = x[a] /\ y[b] \in {x[b], x[i], x[k]}
        BY <2>3, <3>1
      <3> QED
        BY <3>2, <3>3
    <2>7. CASE a = i /\ b < k
      <3>1. b # i /\ b # k
        BY <2>5, <2>7
      <3>2. y[b] = x[b] /\ y[a] = x[k]
        BY <2>3, <2>7, <3>1
      <3>3. ~B(x[b], x[i])
        BY <2>4, <2>7
      <3>4. x[b] \in S /\ x[i] \in S /\ x[k] \in S
        BY <1>1, <2>2
      <3> QED
        BY <1>3, <1>4, <3>2, <3>3, <3>4
    <2>8. CASE a = i /\ b = k
      <3>1. y[b] = x[i] /\ y[a] = x[k]
        BY <2>3, <2>8
      <3>2. x[i] \in S /\ x[k] \in S
        BY <1>1, <2>2
      <3>3. ~B(x[i], x[k])
        BY <1>2, <1>4, <3>2 DEF B
      <3> QED
        BY <3>1, <3>3
    <2> QED
      BY <2>5, <2>6, <2>7, <2>8
  <1>5. CASE ~(i < k /\ B(x[k], x[i]))
    <2>1. y = x
      BY <1>5 DEF Exchanged
    <2> HIDE DEF y, n, B
    <2> SUFFICES ASSUME NEW a \in 1..n, NEW b \in 1..n, a < b, a < i \/ (a = i /\ b <= k)
                 PROVE  ~B(x[b], x[a])
      BY <2>1 DEF y, n, B
    <2>2. CASE a < i \/ (a = i /\ b < k)
      BY <2>2 DEF n, B
    <2>3. CASE a = i /\ b = k
      BY <1>5, <2>3
    <2>4. a \in Nat /\ b \in Nat /\ k \in Nat
      BY <1>1
    <2> QED
      BY <2>2, <2>3, <2>4
  <1> QED
    BY <1>4, <1>5

\* The nested loops put the messages in order.
LEMMA ExchangeSortOrders ==
    ASSUME NEW S, \A m \in S : m.ts \in Int, NEW s \in Seq(S), NEW order
    PROVE  Ordered(order, ExchangeSort(order, s))
  <1> DEFINE n == Len(s)
             N == n * n
             F == Exchanges(order, s)
             Good(t) == /\ F[t] \in Seq(S) /\ Len(F[t]) = n
                        /\ \A a, b \in 1..n : a < b /\ (a - 1) * n + b <= t
                              => ~Before(order, F[t][b], F[t][a])
             T == {t \in Nat : t <= N => Good(t)}
  <1>1. n \in Nat /\ N \in Nat
    OBVIOUS
  <1>2. /\ F[0] = s
        /\ \A t \in 1..N :
              F[t] = Exchanged(order, F[t - 1], 1 + ((t - 1) \div n), 1 + ((t - 1) % n))
    BY <1>1, ExchangesSteps
  <1>3. N # 0 => n # 0
    OBVIOUS
  <1>4. \A a, b \in 1..n : (a - 1) * n + b <= N /\ ~((a - 1) * n + b <= 0)
    <2> TAKE a, b \in 1..n
    <2>1. PICK d \in Nat : n = (a - 1) + 1 + d
      <3>1. n - a \in Nat /\ n = (a - 1) + 1 + (n - a)
        OBVIOUS
      <3> QED
        BY <3>1
    <2>2. n * n = (a - 1) * n + n + d * n
      BY <2>1
    <2>3. d * n \in Nat /\ (a - 1) * n \in Nat
      OBVIOUS
    <2> DEFINE u == (a - 1) * n
               v == d * n
    <2>4. N = u + n + v /\ u \in Nat /\ v \in Nat /\ b \in 1..n
      BY <2>2, <2>3
    <2> HIDE DEF u, v, N, n
    <2>5. u + b <= N /\ ~(u + b <= 0)
      BY <1>1, <2>4
    <2> QED
      BY <2>5 DEF u
  <1> HIDE DEF N, F
  <1>5. 0 \in T
    BY <1>2, <1>4
  <1>6. ASSUME NEW t \in T PROVE t + 1 \in T
    <2>1. t \in Nat /\ t + 1 \in Nat /\ (t + 1) - 1 = t
      BY <1>6
    <2> SUFFICES ASSUME t + 1 <= N PROVE Good(t + 1)
      BY <2>1
    <2>2. t <= N /\ t + 1 \in 1..N /\ n \in Nat \ {0}
      BY <1>1, <1>3, <2>1
    <2> DEFINE i == 1 + (t \div n)
               k == 1 + (t % n)
               x == F[t]
               y == Exchanged(order, x, i, k)
    <2>3. i \in Nat \ {0} /\ k \in 1..n
      <3>1. t + 1 \in Nat \ {0}
        BY <2>1
      <3>2. 1 + (((t + 1) - 1) \div n) \in Nat \ {0} /\ 1 + (((t + 1) - 1) % n) \in 1..n
        BY <2>2, <3>1, LoopPositions
      <3> QED
        BY <2>1, <3>2
    <2>4. F[t + 1] = y
      <3>1. F[t + 1] = Exchanged(order, F[(t + 1) - 1], 1 + (((t + 1) - 1) \div n),
                                 1 + (((t + 1) - 1) % n))
        BY <1>2, <2>2
      <3> QED
        BY <2>1, <3>1
    <2>5. x \in Seq(S) /\ Len(x) = n
      BY <1>6, <2>2
    <2>6. \A a, b \in 1..n : a < b /\ (a - 1) * n + b <= t => ~Before(order, x[b], x[a])
      BY <1>6, <2>2
    <2>7. \A a, b \in 1..n : /\ (a - 1) * n + b <= t + 1 => a < i \/ (a = i /\ b <= k)
                             /\ a < i \/ (a = i /\ b < k) => (a - 1) * n + b <= t
      BY <2>1, <2>2, RowByRow
    <2> HIDE DEF i, k, x
    <2>8. y \in Seq(S) /\ Len(y) = n
      BY <2>3, <2>5, ExchangedFacts
    <2>9. \A a, b \in 1..n : a < b /\ (a < i \/ (a = i /\ b < k)) => ~Before(order, x[b], x[a])
      BY <2>6, <2>7
    <2>10. \A a, b \in 1..n : a < b /\ (a < i \/ (a = i /\ b <= k)) => ~Before(order, y[b], y[a])
      BY <2>3, <2>5, <2>9, ExchangedOrders
    <2> HIDE DEF y
    <2> QED
      BY <2>4, <2>7, <2>8, <2>10
  <1>7. T = Nat
    <2> HIDE DEF T
    <2>1. T \in SUBSET Nat
      BY DEF T
    <2> QED
      BY <2>1, <1>5, <1>6, Induct
  <1>8. Good(N)
    BY <1>1, <1>7
  <1> DEFINE z == F[N]
  <1>9. z \in Seq(S) /\ Len(z) = n
    BY <1>8
  <1>10. \A a, b \in 1..n : a < b => ~Before(order, z[b], z[a])
    BY <1>4, <1>8
  <1>11. ExchangeSort(order, s) = z
    BY DEF ExchangeSort, F, N
  <1> HIDE DEF z
  <1> QED
    BY <1>9, <1>10, <1>11 DEF Ordered

\* Either storage returns the messages in order.
LEMMA SortedOrders ==
    ASSUME NEW S, \A m \in S : m.ts \in Int, NEW s \in Seq(S), NEW order, NEW b
    PROVE  Ordered(order, Sorted(b, order, s))
  <1>1. CASE b = "db"
    BY <1>1, SortByFacts DEF Sorted
  <1>2. CASE b # "db"
    BY <1>2, ExchangeSortOrders DEF Sorted
  <1> QED
    BY <1>1, <1>2

-----------------------------------------------------------------------------
(***************************************************************************)
(* What is read from a log                                                 *)
(***************************************************************************)

\* Elements of s at different positions are elements of s.
LEMMA PicksAmong ==
    ASSUME NEW s, NEW t, Picks(t, s)
    PROVE  ToSet(t) \subseteq ToSet(s)
  BY DEF Picks, ToSet

LEMMA IdsOfSet ==
    ASSUME NEW s
    PROVE  Ids(s) = {m.id : m \in ToSet(s)}
  BY DEF Ids, ToSet

\* What summaries do not stand for is read in its order.
LEMMA FilterCompactedFacts ==
    ASSUME NEW S, NEW log \in Seq(S)
    PROVE  /\ FilterCompacted(log) \in Seq(S)
           /\ Picks(FilterCompacted(log), log)
           /\ ToSet(FilterCompacted(log)) =
                {m \in ToSet(log) : m.id \notin BuildSummarizedIDSet(log)}
  <1> DEFINE I == {i \in DOMAIN log : log[i].id \notin BuildSummarizedIDSet(log)}
             t == Only(log, I)
  <1>1. FilterCompacted(log) = t
    BY DEF FilterCompacted
  <1>2. I \in SUBSET DOMAIN log
    OBVIOUS
  <1> HIDE DEF I
  <1>3. /\ t \in Seq(S)
        /\ Picks(t, log)
        /\ \A n \in DOMAIN t : \E i \in I : t[n] = log[i]
        /\ \A i \in I : \E n \in DOMAIN t : t[n] = log[i]
    BY <1>2, OnlyFacts
  <1> HIDE DEF t
  <1>4. ToSet(t) = {log[i] : i \in I}
    BY <1>3 DEF ToSet
  <1>5. {log[i] : i \in I} = {m \in ToSet(log) : m.id \notin BuildSummarizedIDSet(log)}
    BY DEF I, ToSet
  <1> QED
    BY <1>1, <1>3, <1>4, <1>5

\* A batch is made of messages that are no summaries and are not covered.
LEMMA OldestNonSummaryFacts ==
    ASSUME NEW S, \A m \in S : m.ts \in Int, NEW log \in Seq(S), NEW b, NEW covered, NEW limit
    PROVE  LET batch == OldestNonSummary(b, log, covered, limit)
           IN /\ batch \in Seq(S)
              /\ Picks(batch, log)
              /\ \A m \in ToSet(batch) : ~m.summary /\ m.id \notin covered
  <1> DEFINE I == {i \in DOMAIN log : ~log[i].summary /\ log[i].id \notin covered}
             t == Only(log, I)
             u == Sorted(b, "oldest", t)
             N == {n \in 0..Len(u) : n <= 1 \/ Tokens(Take(u, n)) <= limit}
             v == Take(u, Max(N))
  <1>1. OldestNonSummary(b, log, covered, limit) = v
    BY DEF OldestNonSummary, LongestPrefix
  <1>2. I \in SUBSET DOMAIN log
    OBVIOUS
  <1> HIDE DEF I
  <1>3. /\ t \in Seq(S)
        /\ Picks(t, log)
        /\ \A n \in DOMAIN t : \E i \in I : t[n] = log[i]
    BY <1>2, OnlyFacts
  <1> HIDE DEF t
  <1>4. u \in Seq(S) /\ Picks(u, t)
    BY <1>3, SortedFacts
  <1> HIDE DEF u
  <1>5. Len(u) \in Nat
    BY <1>4
  <1>6. 0 \in N /\ N \in SUBSET (0..Len(u))
    <2>1. 0 \in 0..Len(u) /\ 0 <= 1
      BY <1>5
    <2> QED
      BY <2>1
  <1> HIDE DEF N
  <1>7. Max(N) \in Nat
    <2>1. Max(N) \in N
      BY <1>5, <1>6, GreatestExists
    <2>2. Max(N) \in 0..Len(u)
      BY <1>6, <2>1
    <2> QED
      BY <2>2
  <1>8. v \in Seq(S) /\ Picks(v, u)
    BY <1>4, <1>7, TakeFacts
  <1> HIDE DEF v
  <1>9. Picks(v, t)
    BY <1>4, <1>8, PicksTransitive
  <1>10. Picks(v, log)
    BY <1>3, <1>9, PicksTransitive
  <1>11. \A m \in ToSet(t) : ~m.summary /\ m.id \notin covered
    BY <1>3 DEF ToSet, I
  <1>12. ToSet(v) \subseteq ToSet(t)
    BY <1>9, PicksAmong
  <1> QED
    BY <1>1, <1>8, <1>10, <1>11, <1>12

-----------------------------------------------------------------------------
(***************************************************************************)
(* Elements and tokens of a sequence                                       *)
(***************************************************************************)

\* No message is in s twice.
Distinct(s) == \A a, b \in DOMAIN s : s[a] = s[b] => a = b

LEMMA PicksDistinct ==
    ASSUME NEW s, NEW t, Picks(t, s), Distinct(s)
    PROVE  Distinct(t)
  BY DEF Picks, Distinct

LEMMA UniqueDistinct ==
    ASSUME NEW s, Unique(s)
    PROVE  Distinct(s)
  BY DEF Unique, Distinct, IsInjective

\* A rearrangement has the same elements.
LEMMA PicksAll ==
    ASSUME NEW S, NEW s \in Seq(S), NEW t \in Seq(S), Picks(t, s), Len(t) = Len(s)
    PROVE  ToSet(t) = ToSet(s)
  <1> DEFINE D == 1..Len(s)
  <1>1. DOMAIN s = D /\ DOMAIN t = D /\ Len(s) \in Nat
    OBVIOUS
  <1>2. PICK f \in [D -> D] :
           /\ \A a, b \in D : f[a] = f[b] => a = b
           /\ \A a \in D : t[a] = s[f[a]]
    BY <1>1 DEF Picks
  <1>3. IsFiniteSet(D)
    <2>1. 1 \in Int /\ Len(s) \in Int
      BY <1>1
    <2> QED
      BY <2>1, FS_Interval
  <1> HIDE DEF D
  <1>4. f \in Injection(D, D)
    BY <1>2 DEF Injection, IsInjective
  <1>5. f \in Surjection(D, D)
    BY <1>3, <1>4, FS_Injection
  <1>6. \A a \in D : \E b \in D : s[a] = t[b]
    BY <1>2, <1>5 DEF Surjection
  <1>7. ToSet(t) = {t[a] : a \in D} /\ ToSet(s) = {s[a] : a \in D}
    BY <1>1 DEF ToSet
  <1>8. \A a \in D : \E b \in D : t[a] = s[b]
    BY <1>2
  <1> QED
    BY <1>6, <1>7, <1>8

\* The tokens of a message.
Tok(S) == [m \in S |-> m.tok]

\* The tokens of a sequence are those of its elements.
LEMMA TokensAre ==
    ASSUME NEW S, \A m \in S : m.tok \in Nat, NEW s \in Seq(S), Distinct(s)
    PROVE  /\ Tokens(s) = Total(Tok(S), ToSet(s))
           /\ IsFiniteSet(ToSet(s))
           /\ Tokens(s) \in Nat
  <1> DEFINE D == DOMAIN s
             f == [i \in D |-> s[i].tok]
             iter == CHOOSE iter :
                iter = [d \in SUBSET D |->
                          IF d = {} THEN 0
                          ELSE LET x == CHOOSE x \in d : TRUE IN s[x].tok + iter[d \ {x}]]
  <1>1. D = 1..Len(s) /\ Len(s) \in Nat /\ \A i \in D : s[i] \in S
    OBVIOUS
  <1>2. IsFiniteSet(D)
    <2>1. 1 \in Int /\ Len(s) \in Int
      BY <1>1
    <2> QED
      BY <1>1, <2>1, FS_Interval
  <1>3. Tokens(s) = iter[D]
    BY DEF Tokens, MapThenSumSet, MapThenFoldSet
  <1>4. \A i \in D : f[i] = s[i].tok /\ f[i] \in Nat /\ f[i] \in Int
    BY <1>1
  <1>5. PICK own \in [SUBSET D -> Int] : IsSum(own, f, D)
    <2> HIDE DEF f, D
    <2> QED
      BY <1>2, <1>4, SumsExist
  <1>6. own = [d \in SUBSET D |->
                  IF d = {} THEN 0
                  ELSE LET x == CHOOSE x \in d : TRUE IN s[x].tok + own[d \ {x}]]
    <2> HIDE DEF D
    <2>1. \A d \in SUBSET D : d # {} =>
             LET x == CHOOSE x \in d : TRUE IN f[x] + own[d \ {x}] = s[x].tok + own[d \ {x}]
      <3> TAKE d \in SUBSET D
      <3> HAVE d # {}
      <3> DEFINE x == CHOOSE x \in d : TRUE
      <3>1. x \in d
        OBVIOUS
      <3> HIDE DEF x, f
      <3>2. f[x] = s[x].tok
        BY <1>4, <3>1
      <3>3. f[x] + own[d \ {x}] = s[x].tok + own[d \ {x}]
        BY <3>2
      <3> QED
        BY <3>3 DEF x
    <2> HIDE DEF f
    <2> QED
      BY <1>5, <2>1 DEF IsSum
  <1>7. iter = [d \in SUBSET D |->
                  IF d = {} THEN 0
                  ELSE LET x == CHOOSE x \in d : TRUE IN s[x].tok + iter[d \ {x}]]
    BY <1>6
  <1> HIDE DEF iter, D
  <1>8. IsSum(iter, f, D)
    <2> SUFFICES ASSUME NEW d \in SUBSET D
                 PROVE  iter[d] = IF d = {} THEN 0
                           ELSE LET x == CHOOSE x \in d : TRUE IN f[x] + iter[d \ {x}]
      BY DEF IsSum
    <2>1. CASE d = {}
      BY <1>7, <2>1
    <2>2. CASE d # {}
      <3> DEFINE x == CHOOSE x \in d : TRUE
      <3>1. x \in d
        BY <2>2
      <3>2. iter[d] = s[x].tok + iter[d \ {x}]
        BY <1>7, <2>2
      <3> HIDE DEF x, f
      <3>3. f[x] = s[x].tok
        BY <1>4, <3>1
      <3>4. iter[d] = f[x] + iter[d \ {x}]
        BY <3>2, <3>3
      <3> QED
        BY <2>2, <3>4 DEF x
    <2> QED
      BY <2>1, <2>2
  <1> HIDE DEF f
  <1>9. Tokens(s) = Total(f, D)
    BY <1>2, <1>3, <1>4, <1>8, TotalIs
  <1>10. {s[x] : x \in D} = ToSet(s)
    BY DEF D, ToSet
  <1>11. \A x, y \in D : s[x] = s[y] => x = y
    BY DEF D, Distinct
  <1>12. \A x \in D : Tok(S)[s[x]] = f[x]
    BY <1>1, <1>4 DEF Tok
  <1>13. Total(Tok(S), {s[x] : x \in D}) = Total(f, D) /\ IsFiniteSet({s[x] : x \in D})
    BY <1>2, <1>4, <1>11, <1>12, TotalOfImage
  <1>14. Total(f, D) \in Nat
    BY <1>2, <1>4, TotalOfNats
  <1> QED
    BY <1>9, <1>10, <1>13, <1>14

\* Sequences of the same elements have the same length.
LEMMA LenOfElements ==
    ASSUME NEW S, NEW s \in Seq(S), Distinct(s)
    PROVE  Cardinality(ToSet(s)) = Len(s)
  <1> DEFINE D == 1..Len(s)
  <1>1. DOMAIN s = D /\ Len(s) \in Nat
    OBVIOUS
  <1>2. IsFiniteSet(D) /\ Cardinality(D) = Len(s)
    <2>1. 1 \in Int /\ Len(s) \in Int
      BY <1>1
    <2>2. IsFiniteSet(D) /\ Cardinality(D) = IF 1 > Len(s) THEN 0 ELSE Len(s) - 1 + 1
      BY <2>1, FS_Interval
    <2> QED
      BY <1>1, <2>2
  <1> HIDE DEF D
  <1> DEFINE f == [i \in D |-> s[i]]
  <1>3. f \in Bijection(D, ToSet(s))
    BY <1>1 DEF Bijection, Injection, Surjection, IsInjective, ToSet, Distinct
  <1>4. ExistsBijection(D, ToSet(s))
    BY <1>3 DEF ExistsBijection
  <1> QED
    BY <1>2, <1>4, FS_Bijection

\* The elements Only returns.
LEMMA OnlyElements ==
    ASSUME NEW S, NEW s \in Seq(S), NEW I \in SUBSET DOMAIN s
    PROVE  ToSet(Only(s, I)) = {s[i] : i \in I}
  <1> DEFINE t == Only(s, I)
  <1>1. /\ \A n \in DOMAIN t : \E i \in I : t[n] = s[i]
        /\ \A i \in I : \E n \in DOMAIN t : t[n] = s[i]
    BY OnlyFacts
  <1> HIDE DEF t
  <1>2. ToSet(t) = {s[i] : i \in I}
    BY <1>1 DEF ToSet
  <1> QED
    BY <1>2 DEF t

-----------------------------------------------------------------------------
(***************************************************************************)
(* Selections                                                              *)
(***************************************************************************)

\* The selection begins with the pinned messages and grows one by one.
LEMMA FilledSteps ==
    ASSUME NEW budget, NEW p, NEW o, Len(o) \in Nat
    PROVE  LET F == Filled(budget, p, o)
           IN /\ F[0] = p
              /\ \A n \in 1..Len(o) : F[n] = AddIfFits(budget, F[n - 1], o[n])
  <1> DEFINE N == Len(o)
             Step(x, n) == AddIfFits(budget, x, o[n])
             Goes(f, m) == f = [n \in 0..m |-> IF n = 0 THEN p ELSE Step(f[n - 1], n)]
             T == {m \in Nat : \E f : Goes(f, m)}
             F == CHOOSE f : Goes(f, N)
  <1>1. Filled(budget, p, o) = F
    BY DEF Filled
  <1>2. N \in Nat
    OBVIOUS
  <1> HIDE DEF Step, N
  <1>3. 0 \in T
    <2> DEFINE f == [n \in 0..0 |-> p]
    <2>1. \A n \in 0..0 : n = 0
      OBVIOUS
    <2>2. f = [n \in 0..0 |-> IF n = 0 THEN p ELSE Step(f[n - 1], n)]
      BY <2>1
    <2> HIDE DEF f
    <2> QED
      BY <2>2
  <1>4. ASSUME NEW m \in T PROVE m + 1 \in T
    <2>1. m \in Nat
      BY <1>4
    <2>2. PICK f : Goes(f, m)
      BY <1>4
    <2> DEFINE g == [n \in 0..(m + 1) |-> IF n = m + 1 THEN Step(f[m], m + 1) ELSE f[n]]
    <2>3. \A n \in 0..(m + 1) : \/ n = 0
                                \/ n \in 1..m /\ n - 1 \in 0..m
                                \/ n = m + 1 /\ n # 0 /\ n - 1 = m
      BY <2>1
    <2>4. \A n \in 0..m : n \in 0..(m + 1) /\ n # m + 1
      BY <2>1
    <2>5. \A n \in 0..m : g[n] = f[n]
      BY <2>4
    <2>6. m \in 0..m /\ 0 \in 0..m /\ m + 1 \in 0..(m + 1) /\ \A n \in 1..m : n \in 0..m /\ n # 0
      BY <2>1
    <2>7. g[0] = p
      BY <2>2, <2>5, <2>6
    <2>8. \A n \in 1..m : g[n] = Step(f[n - 1], n)
      BY <2>2, <2>5, <2>6
    <2>9. g[m + 1] = Step(f[m], m + 1)
      BY <2>6
    <2>10. \A n \in 0..(m + 1) : g[n] = IF n = 0 THEN p ELSE Step(g[n - 1], n)
      <3> TAKE n \in 0..(m + 1)
      <3>1. CASE n = 0
        BY <2>7, <3>1
      <3>2. CASE n \in 1..m /\ n - 1 \in 0..m
        <4>1. n # 0 /\ g[n] = Step(f[n - 1], n) /\ g[n - 1] = f[n - 1]
          BY <2>5, <2>6, <2>8, <3>2
        <4> HIDE DEF g
        <4> QED
          BY <4>1
      <3>3. CASE n = m + 1 /\ n # 0 /\ n - 1 = m
        BY <2>5, <2>6, <2>9, <3>3
      <3> QED
        BY <2>3, <3>1, <3>2, <3>3
    <2>11. g = [n \in 0..(m + 1) |-> g[n]]
      OBVIOUS
    <2> HIDE DEF g
    <2>12. g = [n \in 0..(m + 1) |-> IF n = 0 THEN p ELSE Step(g[n - 1], n)]
      BY <2>10, <2>11
    <2>13. m + 1 \in Nat
      BY <2>1
    <2> QED
      BY <2>12, <2>13
  <1>5. T = Nat
    <2> HIDE DEF T
    <2>1. T \in SUBSET Nat
      BY DEF T
    <2> QED
      BY <2>1, <1>3, <1>4, Induct
  <1>6. \E f : Goes(f, N)
    BY <1>2, <1>5
  <1>7. Goes(F, N)
    <2> HIDE DEF Goes
    <2> QED
      BY <1>6
  <1> HIDE DEF F
  <1>8. F[0] = p
    <2>1. 0 \in 0..N
      BY <1>2
    <2> QED
      BY <1>7, <2>1
  <1>9. \A n \in 1..N : F[n] = Step(F[n - 1], n)
    <2>1. \A n \in 1..N : n \in 0..N /\ n # 0
      BY <1>2
    <2> QED
      BY <1>7, <2>1
  <1> QED
    BY <1>1, <1>8, <1>9 DEF Step, N

\* What has been selected from p and the messages in seen: nothing of p is left
\* out, the others fit, and what is left out would not have fitted.
Selected(budget, p, seen, sel) ==
    /\ Distinct(sel)
    /\ ToSet(p) \subseteq ToSet(sel)
    /\ ToSet(sel) \subseteq ToSet(p) \cup seen
    /\ \A m \in seen \ ToSet(sel) : Tokens(sel) + m.tok > budget
    /\ Tokens(sel) <= budget \/ ToSet(sel) = ToSet(p)

LEMMA AddIfFitsSelects ==
    ASSUME NEW S, \A m \in S : m.tok \in Nat, NEW budget \in Int,
           NEW p, NEW seen \in SUBSET S, NEW sel \in Seq(S), Selected(budget, p, seen, sel),
           NEW m \in S, m \notin ToSet(p), m \notin seen
    PROVE  /\ AddIfFits(budget, sel, m) \in Seq(S)
           /\ Selected(budget, p, seen \cup {m}, AddIfFits(budget, sel, m))
  <1>1. Tokens(sel) = Total(Tok(S), ToSet(sel)) /\ IsFiniteSet(ToSet(sel)) /\ Tokens(sel) \in Nat
    BY TokensAre DEF Selected
  <1>2. m \notin ToSet(sel) /\ m.tok \in Nat
    BY DEF Selected
  <1>3. ToSet(sel) \subseteq S
    BY DEF ToSet
  <1>4. CASE Tokens(sel) + m.tok <= budget
    <2> DEFINE new == Append(sel, m)
    <2>1. AddIfFits(budget, sel, m) = new
      BY <1>4 DEF AddIfFits
    <2>2. /\ new \in Seq(S) /\ Len(new) = Len(sel) + 1 /\ DOMAIN new = 1..(Len(sel) + 1)
          /\ \A i \in 1..Len(sel) : new[i] = sel[i]
          /\ new[Len(sel) + 1] = m
          /\ Len(sel) \in Nat /\ DOMAIN sel = 1..Len(sel)
      OBVIOUS
    <2> HIDE DEF new
    <2>3. ToSet(new) = ToSet(sel) \cup {m}
      <3>1. \A i \in DOMAIN new : i \in DOMAIN sel \/ i = Len(sel) + 1
        BY <2>2
      <3>2. \A i \in DOMAIN sel : i \in DOMAIN new
        BY <2>2
      <3>3. Len(sel) + 1 \in DOMAIN new
        BY <2>2
      <3>4. \A i \in DOMAIN sel : new[i] = sel[i]
        BY <2>2
      <3> QED
        BY <2>2, <3>1, <3>2, <3>3, <3>4 DEF ToSet
    <2>4. Distinct(new)
      <3>1. \A i \in DOMAIN new : \/ i \in DOMAIN sel /\ new[i] = sel[i] /\ new[i] # m
                                  \/ i = Len(sel) + 1 /\ new[i] = m
        BY <1>2, <2>2 DEF ToSet
      <3> QED
        BY <3>1 DEF Distinct, Selected
    <2>5. Tokens(new) = Total(Tok(S), ToSet(sel) \cup {m})
      BY <2>2, <2>3, <2>4, TokensAre
    <2>6. \A x \in ToSet(sel) \cup {m} : Tok(S)[x] \in Int
      BY <1>3 DEF Tok
    <2>7. Tokens(new) = Tokens(sel) + m.tok
      BY <1>1, <1>2, <2>5, <2>6, TotalOfMore DEF Tok
    <2>8. \A x \in seen \ ToSet(sel) : Tokens(sel) + x.tok > budget
      BY DEF Selected
    <2>9. \A x \in (seen \cup {m}) \ ToSet(new) : Tokens(new) + x.tok > budget
      <3> TAKE x \in (seen \cup {m}) \ ToSet(new)
      <3>1. x \in seen \ ToSet(sel) /\ Tokens(sel) + x.tok > budget
        BY <2>3, <2>8
      <3>2. x.tok \in Nat
        BY <3>1
      <3> QED
        BY <1>1, <1>2, <2>7, <3>1, <3>2
    <2> QED
      BY <1>4, <2>1, <2>2, <2>3, <2>4, <2>7, <2>9 DEF Selected
  <1>5. CASE ~(Tokens(sel) + m.tok <= budget)
    <2>1. AddIfFits(budget, sel, m) = sel
      BY <1>5 DEF AddIfFits
    <2>2. Tokens(sel) + m.tok > budget
      BY <1>1, <1>2, <1>5
    <2> QED
      BY <2>1, <2>2 DEF Selected
  <1> QED
    BY <1>4, <1>5
LEMMA FilledSelects ==
    ASSUME NEW S, \A m \in S : m.tok \in Nat, NEW budget \in Int,
           NEW p \in Seq(S), Distinct(p), NEW o \in Seq(S), Distinct(o),
           ToSet(p) \cap ToSet(o) = {}
    PROVE  LET sel == Filled(budget, p, o)[Len(o)]
           IN sel \in Seq(S) /\ Selected(budget, p, ToSet(o), sel)
  <1> DEFINE N == Len(o)
             F == Filled(budget, p, o)
             Seen(n) == {o[i] : i \in 1..n}
             T == {n \in Nat : n <= N => F[n] \in Seq(S) /\ Selected(budget, p, Seen(n), F[n])}
  <1>1. N \in Nat /\ DOMAIN o = 1..N /\ \A i \in 1..N : o[i] \in S
    OBVIOUS
  <1>2. F[0] = p /\ \A n \in 1..N : F[n] = AddIfFits(budget, F[n - 1], o[n])
    BY <1>1, FilledSteps
  <1> HIDE DEF F
  <1>3. 0 \in T
    <2>1. Seen(0) = {}
      OBVIOUS
    <2> HIDE DEF Seen
    <2>2. Selected(budget, p, {}, p)
      BY DEF Selected
    <2> QED
      BY <1>2, <2>1, <2>2
  <1>4. ASSUME NEW n \in T PROVE n + 1 \in T
    <2>1. n \in Nat /\ n + 1 \in Nat /\ (n + 1) - 1 = n
      BY <1>4
    <2> SUFFICES ASSUME n + 1 <= N
                 PROVE  F[n + 1] \in Seq(S) /\ Selected(budget, p, Seen(n + 1), F[n + 1])
      BY <2>1
    <2> DEFINE sel == F[n]
               m == o[n + 1]
    <2>2. n <= N /\ n + 1 \in 1..N /\ \A i \in 1..n : i \in 1..N /\ i # n + 1
      BY <1>1, <2>1
    <2>3. sel \in Seq(S) /\ Selected(budget, p, Seen(n), sel)
      BY <1>4, <2>2
    <2>4. F[n + 1] = AddIfFits(budget, sel, m)
      <3>1. F[n + 1] = AddIfFits(budget, F[(n + 1) - 1], m)
        BY <1>2, <2>2
      <3> QED
        BY <2>1, <3>1
    <2>5. m \in S /\ m \notin ToSet(p)
      BY <1>1, <2>2 DEF ToSet
    <2>6. m \notin Seen(n) /\ Seen(n) \in SUBSET S
      BY <1>1, <2>2 DEF Distinct
    <2>7. Seen(n + 1) = Seen(n) \cup {m}
      <3>1. \A i \in 1..(n + 1) : i \in 1..n \/ i = n + 1
        BY <2>1
      <3>2. n + 1 \in 1..(n + 1) /\ \A i \in 1..n : i \in 1..(n + 1)
        BY <2>1
      <3> QED
        BY <3>1, <3>2
    <2> DEFINE seen == Seen(n)
               new == AddIfFits(budget, sel, m)
    <2> HIDE DEF sel, m, Seen, seen
    <2>8. seen \in SUBSET S /\ m \notin seen /\ Selected(budget, p, seen, sel)
      BY <2>3, <2>6 DEF seen
    <2>9. new \in Seq(S) /\ Selected(budget, p, seen \cup {m}, new)
      BY <2>3, <2>5, <2>8, AddIfFitsSelects
    <2>10. F[n + 1] = new /\ Seen(n + 1) = seen \cup {m}
      BY <2>4, <2>7 DEF seen
    <2> QED
      BY <2>9, <2>10
  <1>5. T = Nat
    <2> HIDE DEF T
    <2>1. T \in SUBSET Nat
      BY DEF T
    <2> QED
      BY <2>1, <1>3, <1>4, Induct
  <1>6. F[N] \in Seq(S) /\ Selected(budget, p, Seen(N), F[N])
    <2>1. N \in T
      <3> HIDE DEF T
      <3> QED
        BY <1>1, <1>5
    <2>2. N <= N
      BY <1>1
    <2> HIDE DEF Seen, N
    <2> QED
      BY <2>1, <2>2
  <1>7. Seen(N) = ToSet(o)
    BY <1>1 DEF ToSet
  <1> QED
    BY <1>6, <1>7 DEF F

\* Sequences of the same elements have the same tokens.
LEMMA TokensOfSame ==
    ASSUME NEW S, \A m \in S : m.tok \in Nat, NEW s \in Seq(S), Distinct(s),
           NEW t \in Seq(S), Distinct(t), ToSet(s) = ToSet(t)
    PROVE  Tokens(s) = Tokens(t)
  BY TokensAre

\* ByTokenBudget: all pinned messages, within the budget but for their sake,
\* and nothing left out that would have fitted; in order.
LEMMA ByTokenBudgetFacts ==
    ASSUME NEW S, \A m \in S : m.tok \in Nat /\ m.ts \in Int, NEW lg \in Seq(S), Distinct(lg),
           NEW b, NEW budget \in Int
    PROVE  LET selection == ByTokenBudget(b, lg, budget)
               visible == ToSet(FilterCompacted(lg))
               pinned == Pinned(selection)
           IN /\ selection \in Seq(S) /\ Distinct(selection)
              /\ ToSet(selection) \subseteq visible
              /\ Ordered("oldest", selection)
              /\ \A m \in visible \ ToSet(selection) :
                    ~m.pinned /\ Tokens(selection) + m.tok > budget
              /\ Tokens(selection) <= budget \/ Tokens(selection) = Tokens(pinned)
  <1> DEFINE v == FilterCompacted(lg)
             newest == Sorted(b, "newest", v)
             P == {i \in DOMAIN newest : newest[i].pinned}
             O == {i \in DOMAIN newest : ~newest[i].pinned}
             p == Only(newest, P)
             o == Only(newest, O)
             sel == Filled(budget, p, o)[Len(o)]
             selection == ExchangeSort("oldest", sel)
             Q == {i \in DOMAIN selection : selection[i].pinned}
             pinned == Only(selection, Q)
  <1>1. ByTokenBudget(b, lg, budget) = selection
    BY DEF ByTokenBudget, Pinned, Unpinned
  <1>2. v \in Seq(S) /\ Distinct(v)
    BY FilterCompactedFacts, PicksDistinct
  <1> HIDE DEF v
  <1>3. newest \in Seq(S) /\ Distinct(newest) /\ ToSet(newest) = ToSet(v)
    <2>1. newest \in Seq(S) /\ Len(newest) = Len(v) /\ Picks(newest, v)
      BY <1>2, SortedFacts
    <2> HIDE DEF newest
    <2> QED
      BY <1>2, <2>1, PicksAll, PicksDistinct
  <1> HIDE DEF newest
  <1>4. P \in SUBSET DOMAIN newest /\ O \in SUBSET DOMAIN newest
    OBVIOUS
  <1>5. /\ {newest[i] : i \in P} = {m \in ToSet(newest) : m.pinned}
        /\ {newest[i] : i \in O} = {m \in ToSet(newest) : ~m.pinned}
    BY DEF ToSet
  <1> HIDE DEF P, O
  <1>6. p \in Seq(S) /\ Distinct(p) /\ ToSet(p) = {m \in ToSet(v) : m.pinned}
    <2>1. p \in Seq(S) /\ Picks(p, newest) /\ ToSet(p) = {newest[i] : i \in P}
      BY <1>3, <1>4, OnlyFacts, OnlyElements
    <2> HIDE DEF p
    <2> QED
      BY <1>3, <1>5, <2>1, PicksDistinct
  <1>7. o \in Seq(S) /\ Distinct(o) /\ ToSet(o) = {m \in ToSet(v) : ~m.pinned}
    <2>1. o \in Seq(S) /\ Picks(o, newest) /\ ToSet(o) = {newest[i] : i \in O}
      BY <1>3, <1>4, OnlyFacts, OnlyElements
    <2> HIDE DEF o
    <2> QED
      BY <1>3, <1>5, <2>1, PicksDistinct
  <1> HIDE DEF p, o
  <1>8. ToSet(p) \cap ToSet(o) = {} /\ ToSet(p) \cup ToSet(o) = ToSet(v)
    BY <1>6, <1>7
  <1>9. sel \in Seq(S) /\ Selected(budget, p, ToSet(o), sel)
    BY <1>6, <1>7, <1>8, FilledSelects
  <1> HIDE DEF sel
  <1>10. selection \in Seq(S) /\ Distinct(selection) /\ ToSet(selection) = ToSet(sel)
    <2>1. selection \in Seq(S) /\ Len(selection) = Len(sel) /\ Picks(selection, sel)
      BY <1>9, ExchangeSortFacts
    <2> HIDE DEF selection
    <2> QED
      BY <1>9, <2>1, PicksAll, PicksDistinct DEF Selected
  <1>11. Ordered("oldest", selection)
    BY <1>9, ExchangeSortOrders
  <1> HIDE DEF selection
  <1>12. Tokens(selection) = Tokens(sel)
    BY <1>9, <1>10, TokensOfSame DEF Selected
  <1>13. ToSet(selection) \subseteq ToSet(v)
    BY <1>8, <1>9, <1>10 DEF Selected
  <1>14. \A m \in ToSet(v) \ ToSet(selection) : ~m.pinned /\ Tokens(selection) + m.tok > budget
    <2> TAKE m \in ToSet(v) \ ToSet(selection)
    <2>1. m \notin ToSet(p)
      BY <1>9, <1>10 DEF Selected
    <2>2. m \in ToSet(o) \ ToSet(sel)
      BY <1>8, <1>10, <2>1
    <2>3. Tokens(sel) + m.tok > budget
      BY <1>9, <2>2 DEF Selected
    <2>4. ~m.pinned
      BY <1>7, <2>2
    <2> QED
      BY <1>12, <2>3, <2>4
  <1>15. Tokens(selection) <= budget \/ Tokens(selection) = Tokens(pinned)
    <2>1. CASE Tokens(sel) <= budget
      BY <1>12, <2>1
    <2>2. CASE ToSet(sel) = ToSet(p)
      <3>1. \A i \in DOMAIN selection : selection[i].pinned
        BY <1>6, <1>10, <2>2 DEF ToSet
      <3>2. Q = DOMAIN selection
        BY <3>1
      <3>3. Q \in SUBSET DOMAIN selection /\ {selection[i] : i \in Q} = ToSet(selection)
        BY <3>2 DEF ToSet
      <3> HIDE DEF Q
      <3>4. pinned \in Seq(S) /\ Distinct(pinned) /\ ToSet(pinned) = ToSet(selection)
        BY <1>10, <3>3, OnlyFacts, OnlyElements, PicksDistinct
      <3> HIDE DEF pinned
      <3> QED
        BY <1>10, <3>4, TokensOfSame
    <2> QED
      BY <1>9, <2>1, <2>2 DEF Selected
  <1>16. Pinned(selection) = pinned
    BY DEF Pinned, pinned, Q
  <1> HIDE DEF pinned
  <1> QED
    BY <1>1, <1>10, <1>11, <1>13, <1>14, <1>15, <1>16 DEF v
\* The longest beginning within budget, or the least that is asked for.
LEMMA LongestPrefixFacts ==
    ASSUME NEW S, NEW s \in Seq(S), NEW least \in Nat, NEW budget
    PROVE  \E n \in 0..Len(s) :
             /\ LongestPrefix(s, least, budget) = Take(s, n)
             /\ n <= least \/ Tokens(Take(s, n)) <= budget
             /\ n < Len(s) => n >= least
  <1> DEFINE N == {n \in 0..Len(s) : n <= least \/ Tokens(Take(s, n)) <= budget}
             n == Max(N)
  <1>1. Len(s) \in Nat
    OBVIOUS
  <1>2. N \in SUBSET (0..Len(s)) /\ 0 \in N
    BY <1>1
  <1>3. LongestPrefix(s, least, budget) = Take(s, n)
    BY DEF LongestPrefix
  <1>4. \A k \in N : k \in 0..Len(s) /\ (k <= least \/ Tokens(Take(s, k)) <= budget)
    OBVIOUS
  <1>5. \A k \in 0..Len(s) : k <= least => k \in N
    OBVIOUS
  <1> HIDE DEF N
  <1>6. n \in N /\ \A y \in N : n >= y
    BY <1>1, <1>2, GreatestExists
  <1> HIDE DEF n
  <1>7. n \in 0..Len(s) /\ n \in Nat
    BY <1>1, <1>4, <1>6
  <1>8. ASSUME n < Len(s), n < least PROVE FALSE
    <2>1. n + 1 \in 0..Len(s) /\ n + 1 <= least
      BY <1>1, <1>7, <1>8
    <2>2. n + 1 \in N
      BY <1>5, <2>1
    <2> QED
      BY <1>6, <1>7, <2>2
  <1>9. n < Len(s) => n >= least
    BY <1>7, <1>8
  <1> QED
    BY <1>3, <1>4, <1>6, <1>7, <1>9

\* SelectMessages: the newest of some messages, oldest first.
LEMMA SelectMessagesFacts ==
    ASSUME NEW S, \A m \in S : m.tok \in Nat /\ m.ts \in Int, NEW s \in Seq(S), Distinct(s),
           NEW least \in Nat, NEW budget
    PROVE  LET selected == SelectMessages(s, least, budget)
           IN /\ selected \in Seq(S) /\ Distinct(selected)
              /\ ToSet(selected) \subseteq ToSet(s)
              /\ Ordered("oldest", selected)
              /\ Len(selected) <= least \/ Tokens(selected) <= budget
              /\ \A m \in ToSet(s) \ ToSet(selected) :
                    /\ Len(selected) >= least
                    /\ \A n \in ToSet(selected) : ~Newer(m, n)
  <1> DEFINE newest == SortBy("newest", s)
             selected == SelectMessages(s, least, budget)
  <1>1. newest \in Seq(S) /\ Distinct(newest) /\ ToSet(newest) = ToSet(s) /\ Ordered("newest", newest)
    <2>1. /\ newest \in Seq(S) /\ Len(newest) = Len(s) /\ Picks(newest, s)
          /\ Ordered("newest", newest)
      BY SortByFacts
    <2> HIDE DEF newest
    <2> QED
      BY <2>1, PicksAll, PicksDistinct
  <1>2. selected = Reverse(LongestPrefix(newest, least, budget))
    BY DEF SelectMessages
  <1> HIDE DEF newest, selected
  <1>3. PICK n \in 0..Len(newest) :
           /\ LongestPrefix(newest, least, budget) = Take(newest, n)
           /\ n <= least \/ Tokens(Take(newest, n)) <= budget
           /\ n < Len(newest) => n >= least
    BY <1>1, LongestPrefixFacts
  <1> DEFINE t == Take(newest, n)
  <1>4. n \in Nat /\ Len(newest) \in Nat /\ n <= Len(newest) /\ DOMAIN newest = 1..Len(newest)
    BY <1>1
  <1>5. /\ t \in Seq(S) /\ Distinct(t)
        /\ Len(t) = n
        /\ \A i \in 1..n : i \in 1..Len(newest) /\ t[i] = newest[i]
    <2>1. /\ t \in Seq(S) /\ Picks(t, newest)
          /\ Len(t) = IF n < Len(newest) THEN n ELSE Len(newest)
          /\ \A i \in 1..Len(t) : i \in 1..Len(newest) /\ t[i] = newest[i]
      BY <1>1, <1>4, TakeFacts
    <2> HIDE DEF t
    <2>2. Len(t) = n
      BY <1>4, <2>1
    <2> QED
      BY <1>1, <2>1, <2>2, PicksDistinct
  <1>6. selected = Reverse(t)
    BY <1>2, <1>3
  <1>7. n <= least \/ Tokens(t) <= budget
    BY <1>3
  <1> HIDE DEF t
  <1>8. DOMAIN t = 1..n
    BY <1>5
  <1>9. selected = [i \in 1..n |-> t[(n - i) + 1]]
    BY <1>5, <1>6 DEF Reverse
  <1>10. \A i \in 1..n : (n - i) + 1 \in 1..n /\ (n - ((n - i) + 1)) + 1 = i
    BY <1>4
  <1>11. selected \in Seq(S) /\ Len(selected) = n /\ DOMAIN selected = 1..n
    BY <1>4, <1>5, <1>8, <1>9, <1>10
  <1>12. \A i \in 1..n : selected[i] = t[(n - i) + 1] /\ t[i] = selected[(n - i) + 1]
    BY <1>9, <1>10
  <1>13. ToSet(selected) = ToSet(t)
    <2> DEFINE f == [i \in 1..n |-> (n - i) + 1]
    <2>1. \A i \in 1..n : f[i] \in 1..n /\ selected[i] = t[f[i]] /\ t[i] = selected[f[i]]
      BY <1>10, <1>12
    <2>2. ToSet(selected) = {selected[i] : i \in 1..n} /\ ToSet(t) = {t[i] : i \in 1..n}
      BY <1>8, <1>11 DEF ToSet
    <2> HIDE DEF f
    <2> QED
      BY <2>1, <2>2
  <1>14. Distinct(selected)
    <2> SUFFICES ASSUME NEW a \in 1..n, NEW b \in 1..n, selected[a] = selected[b]
                 PROVE  a = b
      BY <1>11 DEF Distinct
    <2> DEFINE i == (n - a) + 1
               k == (n - b) + 1
    <2>1. i \in DOMAIN t /\ k \in DOMAIN t /\ t[i] = t[k]
      BY <1>8, <1>10, <1>12
    <2>2. i = k => a = b
      BY <1>4
    <2> HIDE DEF i, k
    <2> QED
      BY <1>5, <2>1, <2>2 DEF Distinct
  <1>15. Ordered("oldest", selected)
    <2> SUFFICES ASSUME NEW a \in 1..n, NEW b \in 1..n, a < b
                 PROVE  ~Before("oldest", selected[b], selected[a])
      BY <1>11 DEF Ordered
    <2> DEFINE i == (n - b) + 1
               k == (n - a) + 1
    <2>1. i \in 1..n /\ k \in 1..n /\ i < k
      BY <1>4
    <2>2. selected[b] = t[i] /\ selected[a] = t[k]
      BY <1>12
    <2> HIDE DEF i, k
    <2>3. t[i] = newest[i] /\ t[k] = newest[k] /\ i \in DOMAIN newest /\ k \in DOMAIN newest
      BY <1>4, <1>5, <2>1
    <2>4. ~Before("newest", t[k], t[i])
      BY <1>1, <2>1, <2>3 DEF Ordered
    <2>5. t[i] \in S /\ t[k] \in S
      BY <1>5, <1>8, <2>1
    <2>6. t[i].ts \in Int /\ t[k].ts \in Int
      BY <2>5
    <2> QED
      BY <2>2, <2>4, <2>6 DEF Before, Newer, Older
  <1>16. Len(selected) <= least \/ Tokens(selected) <= budget
    BY <1>5, <1>7, <1>11, <1>13, <1>14, TokensOfSame
  <1>17. ASSUME NEW m \in ToSet(s) \ ToSet(selected)
         PROVE  Len(selected) >= least /\ \A l \in ToSet(selected) : ~Newer(m, l)
    <2>1. PICK k \in 1..Len(newest) : m = newest[k]
      BY <1>1, <1>4 DEF ToSet
    <2>2. k \notin 1..n
      BY <1>5, <1>8, <1>13, <2>1 DEF ToSet
    <2>3. k > n /\ n < Len(newest)
      BY <1>4, <2>2
    <2>4. ASSUME NEW l \in ToSet(selected) PROVE ~Newer(m, l)
      <3>1. PICK i \in 1..n : l = newest[i] /\ i \in 1..Len(newest)
        BY <1>5, <1>8, <1>13 DEF ToSet
      <3>2. i < k
        BY <1>4, <2>3, <3>1
      <3>3. ~Before("newest", m, l)
        BY <1>1, <1>4, <2>1, <3>1, <3>2 DEF Ordered
      <3> QED
        BY <3>3 DEF Before
    <2> QED
      BY <1>3, <1>11, <2>3, <2>4
  <1>18. ToSet(selected) \subseteq ToSet(s)
    BY <1>1, <1>4, <1>5, <1>8, <1>13 DEF ToSet
  <1> QED
    BY <1>11, <1>14, <1>15, <1>16, <1>17, <1>18 DEF selected
\* Two sequences without common messages, one after the other.
LEMMA Concatenated ==
    ASSUME NEW S, NEW s \in Seq(S), Distinct(s), NEW t \in Seq(S), Distinct(t),
           ToSet(s) \cap ToSet(t) = {}
    PROVE  /\ s \o t \in Seq(S)
           /\ Distinct(s \o t)
           /\ ToSet(s \o t) = ToSet(s) \cup ToSet(t)
  <1> DEFINE u == s \o t
             n == Len(s)
             l == Len(t)
  <1>1. n \in Nat /\ l \in Nat /\ DOMAIN s = 1..n /\ DOMAIN t = 1..l
    OBVIOUS
  <1>2. /\ u \in Seq(S) /\ DOMAIN u = 1..(n + l)
        /\ \A i \in 1..n : u[i] = s[i]
        /\ \A i \in 1..l : u[n + i] = t[i]
    OBVIOUS
  <1> HIDE DEF u, n, l
  <1>3. \A i \in 1..(n + l) : i \in 1..n \/ (i > n /\ i - n \in 1..l /\ n + (i - n) = i)
    BY <1>1
  <1>4. \A i \in 1..(n + l) : \/ i \in 1..n /\ u[i] = s[i] /\ u[i] \in ToSet(s)
                              \/ i > n /\ i - n \in 1..l /\ u[i] = t[i - n] /\ u[i] \in ToSet(t)
    <2> TAKE i \in 1..(n + l)
    <2>1. CASE i \in 1..n
      BY <1>1, <1>2, <2>1 DEF ToSet
    <2>2. CASE i > n /\ i - n \in 1..l /\ n + (i - n) = i
      <3> DEFINE k == i - n
      <3>1. k \in 1..l /\ n + k = i
        BY <2>2
      <3> HIDE DEF k
      <3>2. u[i] = t[k] /\ t[k] \in ToSet(t)
        BY <1>1, <1>2, <3>1 DEF ToSet
      <3> QED
        BY <2>2, <3>2 DEF k
    <2> QED
      BY <1>3, <2>1, <2>2
  <1>5. Distinct(u)
    <2> SUFFICES ASSUME NEW a \in 1..(n + l), NEW b \in 1..(n + l), u[a] = u[b]
                 PROVE  a = b
      BY <1>2 DEF Distinct
    <2>1. CASE a \in 1..n /\ u[a] = s[a] /\ u[a] \in ToSet(s)
      <3>1. b \in 1..n /\ u[b] = s[b]
        BY <1>4, <2>1
      <3> QED
        BY <1>1, <2>1, <3>1 DEF Distinct
    <2>2. CASE a > n /\ a - n \in 1..l /\ u[a] = t[a - n] /\ u[a] \in ToSet(t)
      <3>1. b > n /\ b - n \in 1..l /\ u[b] = t[b - n]
        BY <1>4, <2>2
      <3> DEFINE i == a - n
                 k == b - n
      <3>2. i \in DOMAIN t /\ k \in DOMAIN t /\ t[i] = t[k]
        BY <1>1, <2>2, <3>1
      <3>3. i = k => a = b
        BY <1>1
      <3> HIDE DEF i, k
      <3> QED
        BY <3>2, <3>3 DEF Distinct
    <2> QED
      BY <1>4, <2>1, <2>2
  <1>6. ToSet(u) = ToSet(s) \cup ToSet(t)
    <2>1. ToSet(u) = {u[i] : i \in 1..(n + l)} /\ ToSet(s) = {s[i] : i \in 1..n}
          /\ ToSet(t) = {t[i] : i \in 1..l}
      BY <1>1, <1>2 DEF ToSet
    <2>2. ToSet(u) \subseteq ToSet(s) \cup ToSet(t)
      BY <1>4, <2>1
    <2>3. ToSet(s) \subseteq ToSet(u)
      <3>1. \A i \in 1..n : i \in 1..(n + l)
        BY <1>1
      <3> QED
        BY <1>2, <2>1, <3>1
    <2>4. ToSet(t) \subseteq ToSet(u)
      <3> DEFINE f == [i \in 1..l |-> n + i]
      <3>1. \A i \in 1..l : f[i] \in 1..(n + l) /\ u[f[i]] = t[i]
        BY <1>1, <1>2
      <3> HIDE DEF f
      <3> QED
        BY <2>1, <3>1
    <2> QED
      BY <2>2, <2>3, <2>4
  <1> QED
    BY <1>2, <1>5, <1>6 DEF u

\* The messages Only returns are not returned twice.
LEMMA OnlyDistinct ==
    ASSUME NEW S, NEW s \in Seq(S), Distinct(s), NEW I \in SUBSET DOMAIN s
    PROVE  /\ Only(s, I) \in Seq(S)
           /\ Distinct(Only(s, I))
           /\ \A i \in I : s[i] \in ToSet(Only(s, I))
           /\ \A m \in ToSet(Only(s, I)) : \E i \in I : s[i] = m
  <1> DEFINE t == Only(s, I)
  <1>1. t \in Seq(S) /\ Picks(t, s) /\ ToSet(t) = {s[i] : i \in I}
    <2>1. t \in Seq(S) /\ Picks(t, s)
      BY OnlyFacts
    <2>2. ToSet(t) = {s[i] : i \in I}
      BY OnlyElements
    <2> QED
      BY <2>1, <2>2
  <1> HIDE DEF t
  <1>2. Distinct(t)
    BY <1>1, PicksDistinct
  <1>3. (\A i \in I : s[i] \in ToSet(t)) /\ (\A m \in ToSet(t) : \E i \in I : s[i] = m)
    BY <1>1
  <1> QED
    BY <1>1, <1>2, <1>3 DEF t

\* ContextWindow: of what the storage selects all error messages, and the
\* newest others; in order.
LEMMA ContextWindowFacts ==
    ASSUME NEW S, \A m \in S : m.tok \in Nat /\ m.ts \in Int, NEW lg \in Seq(S), Distinct(lg),
           NEW b, NEW least \in Nat, NEW budget \in Nat
    PROVE  LET window == ContextWindow(b, lg, least, budget)
               errors == ErrorMessages(window)
               regular == RegularMessages(window)
           IN /\ window \in Seq(S) /\ Distinct(window)
              /\ Ordered("oldest", window)
              /\ \A m \in ToSet(ByTokenBudget(b, lg, budget)) \ ToSet(window) :
                    /\ ~m.error
                    /\ Len(regular) >= least
                    /\ \A i \in DOMAIN regular : ~Newer(m, regular[i])
              /\ \/ Len(regular) <= least
                 \/ Tokens(window) <= budget
                 \/ Tokens(window) <= Tokens(errors)
              /\ Tokens(errors) \in Nat
  <1> DEFINE chosen == ByTokenBudget(b, lg, budget)
             E == {i \in DOMAIN chosen : chosen[i].error}
             R == {i \in DOMAIN chosen : ~chosen[i].error}
             errors == Only(chosen, E)
             regular == Only(chosen, R)
             rest == budget - Tokens(errors)
             given == IF rest < 0 THEN 0 ELSE rest
             selected == SelectMessages(regular, least, given)
             window == IF errors = <<>> THEN selected
                       ELSE ExchangeSort("oldest", selected \o errors)
             E2 == {i \in DOMAIN window : window[i].error}
             R2 == {i \in DOMAIN window : ~window[i].error}
             errors2 == Only(window, E2)
             regular2 == Only(window, R2)
  <1>1. ContextWindow(b, lg, least, budget) = window
    BY DEF ContextWindow, ErrorMessages, RegularMessages
  <1>2. chosen \in Seq(S) /\ Distinct(chosen)
    <2>1. budget \in Int /\ \A m \in S : m.tok \in Nat /\ m.ts \in Int
      OBVIOUS
    <2> QED
      BY <2>1, ByTokenBudgetFacts
  <1> HIDE DEF chosen
  <1>3. /\ E \in SUBSET DOMAIN chosen /\ {chosen[i] : i \in E} = {m \in ToSet(chosen) : m.error}
        /\ R \in SUBSET DOMAIN chosen /\ {chosen[i] : i \in R} = {m \in ToSet(chosen) : ~m.error}
    BY DEF ToSet
  <1> HIDE DEF E, R
  <1>4. errors \in Seq(S) /\ Distinct(errors) /\ ToSet(errors) = {m \in ToSet(chosen) : m.error}
    <2>1. /\ errors \in Seq(S) /\ Distinct(errors)
          /\ \A i \in E : chosen[i] \in ToSet(errors)
          /\ \A m \in ToSet(errors) : \E i \in E : chosen[i] = m
      BY <1>2, <1>3, OnlyDistinct
    <2> HIDE DEF errors
    <2>2. ToSet(errors) = {m \in ToSet(chosen) : m.error}
      BY <1>3, <2>1
    <2> QED
      BY <2>1, <2>2
  <1>5. regular \in Seq(S) /\ Distinct(regular) /\ ToSet(regular) = {m \in ToSet(chosen) : ~m.error}
    <2>1. /\ regular \in Seq(S) /\ Distinct(regular)
          /\ \A i \in R : chosen[i] \in ToSet(regular)
          /\ \A m \in ToSet(regular) : \E i \in R : chosen[i] = m
      BY <1>2, <1>3, OnlyDistinct
    <2> HIDE DEF regular
    <2>2. ToSet(regular) = {m \in ToSet(chosen) : ~m.error}
      BY <1>3, <2>1
    <2> QED
      BY <2>1, <2>2
  <1> HIDE DEF errors, regular
  <1>6. /\ Tokens(errors) = Total(Tok(S), ToSet(errors)) /\ IsFiniteSet(ToSet(errors))
        /\ Tokens(errors) \in Nat
    BY <1>4, TokensAre
  <1> HIDE DEF given
  <1>7. /\ selected \in Seq(S) /\ Distinct(selected)
        /\ ToSet(selected) \subseteq ToSet(regular)
        /\ Ordered("oldest", selected)
        /\ Len(selected) <= least \/ Tokens(selected) <= given
        /\ \A m \in ToSet(regular) \ ToSet(selected) :
              /\ Len(selected) >= least
              /\ \A n \in ToSet(selected) : ~Newer(m, n)
    BY <1>5, SelectMessagesFacts
  <1> HIDE DEF selected
  <1>8. ToSet(selected) \cap ToSet(errors) = {}
    BY <1>4, <1>5, <1>7
  <1>9. /\ window \in Seq(S) /\ Distinct(window)
        /\ ToSet(window) = ToSet(selected) \cup ToSet(errors)
        /\ Ordered("oldest", window)
    <2>1. CASE errors = <<>>
      <3>1. ToSet(errors) = {}
        BY <2>1 DEF ToSet
      <3> QED
        BY <1>7, <2>1, <3>1
    <2>2. CASE errors # <<>>
      <3> DEFINE u == selected \o errors
                 w == ExchangeSort("oldest", u)
      <3>1. u \in Seq(S) /\ Distinct(u) /\ ToSet(u) = ToSet(selected) \cup ToSet(errors)
        BY <1>4, <1>7, <1>8, Concatenated
      <3>2. window = w
        BY <2>2
      <3> HIDE DEF u
      <3>3. w \in Seq(S) /\ Len(w) = Len(u) /\ Picks(w, u)
        BY <3>1, ExchangeSortFacts
      <3>4. Ordered("oldest", w)
        BY <3>1, ExchangeSortOrders
      <3> HIDE DEF w
      <3>5. ToSet(w) = ToSet(u) /\ Distinct(w)
        BY <3>1, <3>3, PicksAll, PicksDistinct
      <3> QED
        BY <3>1, <3>2, <3>3, <3>4, <3>5
    <2> QED
      BY <2>1, <2>2
  <1> HIDE DEF window
  <1>10. /\ {m \in ToSet(window) : m.error} = ToSet(errors)
         /\ {m \in ToSet(window) : ~m.error} = ToSet(selected)
    BY <1>4, <1>5, <1>7, <1>9
  <1>11. /\ E2 \in SUBSET DOMAIN window
         /\ \A i \in E2 : window[i] \in ToSet(errors)
         /\ \A m \in ToSet(errors) : \E i \in E2 : window[i] = m
         /\ R2 \in SUBSET DOMAIN window
         /\ \A i \in R2 : window[i] \in ToSet(selected)
         /\ \A m \in ToSet(selected) : \E i \in R2 : window[i] = m
    <2>1. ToSet(window) = {window[i] : i \in DOMAIN window}
      BY DEF ToSet
    <2> QED
      BY <1>10, <2>1
  <1> HIDE DEF E2, R2
  <1>12. errors2 \in Seq(S) /\ Distinct(errors2) /\ ToSet(errors2) = ToSet(errors)
    <2>1. /\ errors2 \in Seq(S) /\ Distinct(errors2)
          /\ \A i \in E2 : window[i] \in ToSet(errors2)
          /\ \A m \in ToSet(errors2) : \E i \in E2 : window[i] = m
      BY <1>9, <1>11, OnlyDistinct
    <2> HIDE DEF errors2
    <2>2. \A m \in ToSet(errors2) : m \in ToSet(errors)
      BY <1>11, <2>1
    <2>3. \A m \in ToSet(errors) : m \in ToSet(errors2)
      BY <1>11, <2>1
    <2> QED
      BY <2>1, <2>2, <2>3
  <1>13. regular2 \in Seq(S) /\ Distinct(regular2) /\ ToSet(regular2) = ToSet(selected)
    <2>1. /\ regular2 \in Seq(S) /\ Distinct(regular2)
          /\ \A i \in R2 : window[i] \in ToSet(regular2)
          /\ \A m \in ToSet(regular2) : \E i \in R2 : window[i] = m
      BY <1>9, <1>11, OnlyDistinct
    <2> HIDE DEF regular2
    <2>2. \A m \in ToSet(regular2) : m \in ToSet(selected)
      BY <1>11, <2>1
    <2>3. \A m \in ToSet(selected) : m \in ToSet(regular2)
      BY <1>11, <2>1
    <2> QED
      BY <2>1, <2>2, <2>3
  <1> HIDE DEF errors2, regular2
  <1>14. Len(regular2) = Len(selected)
    BY <1>7, <1>13, LenOfElements
  <1>15. Tokens(errors2) = Tokens(errors)
    BY <1>4, <1>12, TokensOfSame
  <1>16. Tokens(window) = Tokens(selected) + Tokens(errors) /\ Tokens(selected) \in Nat
    <2>1. /\ Tokens(selected) = Total(Tok(S), ToSet(selected)) /\ IsFiniteSet(ToSet(selected))
          /\ Tokens(selected) \in Nat
      BY <1>7, TokensAre
    <2>2. Tokens(window) = Total(Tok(S), ToSet(selected) \cup ToSet(errors))
      BY <1>9, TokensAre
    <2>3. \A x \in ToSet(selected) \cup ToSet(errors) : Tok(S)[x] \in Int
      BY <1>4, <1>7 DEF Tok, ToSet
    <2>4. Total(Tok(S), ToSet(selected) \cup ToSet(errors)) =
             Total(Tok(S), ToSet(selected)) + Total(Tok(S), ToSet(errors))
      BY <1>6, <1>8, <2>1, <2>3, TotalOfParts
    <2> QED
      BY <1>6, <2>1, <2>2, <2>4
  <1>17. \/ Len(regular2) <= least
         \/ Tokens(window) <= budget
         \/ Tokens(window) <= Tokens(errors2)
    <2>1. given = rest \/ given = 0
      BY DEF given
    <2> QED
      BY <1>6, <1>7, <1>14, <1>15, <1>16, <2>1
  <1>18. ASSUME NEW m \in ToSet(chosen) \ ToSet(window)
         PROVE  /\ ~m.error
                /\ Len(regular2) >= least
                /\ \A i \in DOMAIN regular2 : ~Newer(m, regular2[i])
    <2>1. ~m.error
      BY <1>4, <1>9
    <2>2. m \in ToSet(regular) \ ToSet(selected)
      BY <1>5, <1>9, <2>1
    <2>3. \A i \in DOMAIN regular2 : regular2[i] \in ToSet(selected)
      BY <1>13 DEF ToSet
    <2> QED
      BY <1>7, <1>14, <2>1, <2>2, <2>3
  <1>19. ErrorMessages(window) = errors2 /\ RegularMessages(window) = regular2
    BY DEF ErrorMessages, RegularMessages, errors2, regular2, E2, R2
  <1> QED
    BY <1>1, <1>6, <1>9, <1>15, <1>17, <1>18, <1>19 DEF chosen

-----------------------------------------------------------------------------
(***************************************************************************)
(* Ends of sequences, and sequences of sequences                           *)
(***************************************************************************)

\* The positions p+1, ..., Len(s) give the end of s.
LEMMA OnlyEnd ==
    ASSUME NEW S, NEW s \in Seq(S), NEW p \in 0..Len(s)
    PROVE  Only(s, (p + 1)..Len(s)) = SubSeq(s, p + 1, Len(s))
  <1> DEFINE N == Len(s)
             I == (p + 1)..N
             rank == [i \in I |-> Cardinality({k \in I : k <= i})]
             t == [n \in 1..Cardinality(DOMAIN rank) |->
                      s[CHOOSE i \in DOMAIN rank : rank[i] = n]]
             u == SubSeq(s, p + 1, N)
  <1>1. N \in Nat /\ p \in Nat /\ p <= N
    OBVIOUS
  <1>2. Only(s, I) = t
    BY DEF Only, Arranged
  <1> HIDE DEF N
  <1>3. \A i \in I : rank[i] = i - p
    <2> TAKE i \in I
    <2>1. i \in Int /\ p + 1 <= i /\ i <= N
      BY <1>1
    <2>2. {k \in I : k <= i} = (p + 1)..i
      BY <1>1, <2>1
    <2>3. Cardinality((p + 1)..i) = i - (p + 1) + 1
      BY <1>1, <2>1, FS_Interval
    <2>4. rank[i] = Cardinality({k \in I : k <= i})
      OBVIOUS
    <2>5. rank[i] = Cardinality((p + 1)..i)
      BY <2>2, <2>4
    <2> HIDE DEF rank, I
    <2>6. i - (p + 1) + 1 = i - p
      BY <1>1, <2>1
    <2> QED
      BY <2>3, <2>5, <2>6
  <1>4. DOMAIN rank = I
    OBVIOUS
  <1>5. Cardinality(I) = N - p
    <2>1. Cardinality(I) = IF p + 1 > N THEN 0 ELSE N - (p + 1) + 1
      BY <1>1, FS_Interval
    <2> HIDE DEF I
    <2> QED
      BY <1>1, <2>1
  <1> HIDE DEF rank
  <1>6. t = [n \in 1..(N - p) |-> s[CHOOSE i \in I : rank[i] = n]]
    <2> HIDE DEF I
    <2> QED
      BY <1>4, <1>5
  <1>7. \A n \in 1..(N - p) : (CHOOSE i \in I : rank[i] = n) = p + n
    <2> TAKE n \in 1..(N - p)
    <2> DEFINE c == CHOOSE i \in I : rank[i] = n
    <2>1. p + n \in I /\ (p + n) - p = n
      BY <1>1
    <2>2. rank[p + n] = n
      BY <1>3, <2>1
    <2>3. c \in I /\ rank[c] = n
      BY <2>1, <2>2
    <2> HIDE DEF c
    <2>4. rank[c] = c - p /\ c \in Int
      BY <1>3, <2>3
    <2>5. c = p + n
      BY <1>1, <2>3, <2>4
    <2> QED
      BY <2>5 DEF c
  <1>8. t = [n \in 1..(N - p) |-> s[p + n]]
    <2> HIDE DEF I, t
    <2>1. \A n \in 1..(N - p) : s[CHOOSE i \in I : rank[i] = n] = s[p + n]
      BY <1>7
    <2> QED
      BY <1>6, <2>1
  <1> HIDE DEF t
  <1>9. u \in Seq(S) /\ Len(u) = N - p /\ \A n \in 1..(N - p) : u[n] = s[p + n]
    <2>1. u \in Seq(S)
      BY <1>1 DEF N
    <2>2. Len(u) = N - p
      BY <1>1 DEF N
    <2>3. ASSUME NEW n \in 1..(N - p) PROVE u[n] = s[p + n]
      <3>1. u[n] = s[(p + 1) + n - 1]
        BY <1>1, <2>3 DEF N
      <3>2. (p + 1) + n - 1 = p + n
        BY <1>1
      <3> QED
        BY <3>1, <3>2
    <2> QED
      BY <2>1, <2>2, <2>3
  <1> HIDE DEF u
  <1>10. u = [n \in 1..(N - p) |-> u[n]]
    BY <1>9
  <1>11. t = u
    BY <1>8, <1>9, <1>10
  <1> QED
    BY <1>2, <1>11 DEF u, I, N

\* What SubSeq returns from behind a position to the end.
LEMMA EndFacts ==
    ASSUME NEW S, NEW s \in Seq(S), NEW p \in 0..Len(s)
    PROVE  LET u == SubSeq(s, p + 1, Len(s))
           IN u \in Seq(S) /\ Len(u) = Len(s) - p /\ \A n \in 1..Len(u) : u[n] = s[p + n]
  <1> DEFINE u == SubSeq(s, p + 1, Len(s))
  <1>1. u \in Seq(S) /\ Len(u) = Len(s) - p
    OBVIOUS
  <1>2. ASSUME NEW n \in 1..Len(u) PROVE u[n] = s[p + n]
    <2>1. u[n] = s[(p + 1) + n - 1]
      BY <1>1, <1>2
    <2>2. (p + 1) + n - 1 = p + n
      BY <1>1
    <2> QED
      BY <2>1, <2>2
  <1> QED
    BY <1>1, <1>2

LEMMA EndFromStart ==
    ASSUME NEW S, NEW s \in Seq(S)
    PROVE  SubSeq(s, 0 + 1, Len(s)) = s
  <1> DEFINE u == SubSeq(s, 0 + 1, Len(s))
  <1>1. 0 \in 0..Len(s) /\ Len(s) - 0 = Len(s)
    OBVIOUS
  <1>2. u \in Seq(S) /\ Len(u) = Len(s) /\ \A n \in 1..Len(u) : u[n] = s[0 + n]
    BY <1>1, EndFacts
  <1>3. \A n \in 1..Len(u) : u[n] = s[n]
    BY <1>2
  <1> HIDE DEF u
  <1>4. u = s
    BY <1>2, <1>3, SameElements
  <1> QED
    BY <1>4 DEF u

\* The beginning of s and what follows it are a longer beginning.
LEMMA TakeOn ==
    ASSUME NEW S, NEW s \in Seq(S), NEW p \in Nat, NEW l \in Nat
    PROVE  Take(s, p) \o Take(SubSeq(s, p + 1, Len(s)), l) = Take(s, p + l)
  <1> DEFINE N == Len(s)
             t == Take(s, p)
             u == SubSeq(s, p + 1, N)
             v == Take(u, l)
             w == Take(s, p + l)
             x == t \o v
  <1>1. N \in Nat /\ p + l \in Nat
    OBVIOUS
  <1>2. /\ t \in Seq(S) /\ Len(t) = IF p < N THEN p ELSE N
        /\ \A i \in 1..Len(t) : t[i] = s[i]
    BY TakeFacts
  <1>3. /\ w \in Seq(S) /\ Len(w) = IF p + l < N THEN p + l ELSE N
        /\ \A i \in 1..Len(w) : w[i] = s[i]
    BY <1>1, TakeFacts
  <1>4. /\ u \in Seq(S) /\ Len(u) = IF p <= N THEN N - p ELSE 0
        /\ \A i \in 1..Len(u) : u[i] = s[p + i]
    <2>1. CASE p <= N
      <3>1. p \in 0..N
        BY <1>1, <2>1
      <3>2. u \in Seq(S) /\ Len(u) = N - p /\ \A i \in 1..Len(u) : u[i] = s[p + i]
        BY <3>1, EndFacts
      <3> HIDE DEF u
      <3> QED
        BY <2>1, <3>2
    <2>2. CASE ~(p <= N)
      <3>1. u \in Seq(S) /\ Len(u) = 0
        BY <1>1, <2>2
      <3> HIDE DEF u
      <3> QED
        BY <2>2, <3>1
    <2> QED
      BY <2>1, <2>2
  <1> HIDE DEF t, u, w, N
  <1>5. /\ v \in Seq(S) /\ Len(v) = IF l < Len(u) THEN l ELSE Len(u)
        /\ \A i \in 1..Len(v) : i \in 1..Len(u) /\ v[i] = u[i]
    BY <1>4, TakeFacts
  <1> HIDE DEF v
  <1>6. x \in Seq(S) /\ Len(x) = Len(t) + Len(v)
    <2>1. t \in Seq(S) /\ v \in Seq(S)
      BY <1>2, <1>5
    <2> QED
      BY <2>1
  <1>7. Len(x) = Len(w)
    BY <1>1, <1>2, <1>3, <1>4, <1>5, <1>6
  <1>8. ASSUME NEW i \in 1..Len(x) PROVE x[i] = w[i]
    <2>1. Len(t) \in Nat /\ Len(v) \in Nat
      BY <1>2, <1>5
    <2>2. CASE i \in 1..Len(t)
      <3>1. x[i] = t[i]
        BY <1>2, <1>5, <2>2
      <3>2. i \in 1..Len(w)
        BY <1>7, <1>8
      <3> QED
        BY <1>2, <1>3, <2>2, <3>1, <3>2
    <2>3. CASE i - Len(t) \in 1..Len(v)
      <3> DEFINE k == i - Len(t)
      <3>1. k \in 1..Len(v) /\ k \in Nat /\ i = Len(t) + k
        BY <2>1, <2>3, <1>8, <1>6
      <3> HIDE DEF k
      <3>2. x[i] = v[k]
        BY <1>2, <1>5, <2>1, <3>1
      <3>3. v[k] = s[p + k]
        BY <1>4, <1>5, <3>1
      <3>4. p + k = i
        <4>1. Len(u) >= 1
          BY <1>4, <1>5, <3>1
        <4>2. p < N
          BY <1>1, <1>4, <4>1
        <4> QED
          BY <1>2, <3>1, <4>2
      <3>5. i \in 1..Len(w)
        BY <1>7, <1>8
      <3> QED
        BY <1>3, <3>2, <3>3, <3>4, <3>5
    <2>4. i \in 1..Len(t) \/ i - Len(t) \in 1..Len(v)
      BY <1>6, <1>8, <2>1
    <2> QED
      BY <2>2, <2>3, <2>4
  <1> HIDE DEF x
  <1>9. x = w
    BY <1>3, <1>6, <1>7, <1>8, SameElements
  <1> QED
    BY <1>9 DEF x, t, v, u, w, N

\* FlattenSeq concatenates one sequence after the other.
LEMMA FlattenSteps ==
    ASSUME NEW ss, Len(ss) \in Nat \ {0}
    PROVE  \E F : /\ FlattenSeq(ss) = F[Len(ss)]
                  /\ F[1] = ss[1]
                  /\ \A n \in 2..Len(ss) : F[n] = F[n - 1] \o ss[n]
  <1> DEFINE N == Len(ss)
             Step(x, n) == x \o ss[n]
             Goes(f, m) == f = [n \in 1..m |-> IF n = 1 THEN ss[1] ELSE Step(f[n - 1], n)]
             T == {m \in Nat : \E f : Goes(f, m + 1)}
             F == CHOOSE f : f = [i \in 1..N |-> IF i = 1 THEN ss[i] ELSE f[i - 1] \o ss[i]]
  <1>1. FlattenSeq(ss) = F[N]
    <2>1. ~(N = 0)
      OBVIOUS
    <2> QED
      BY <2>1 DEF FlattenSeq
  <1>2. N \in Nat /\ N >= 1 /\ N - 1 \in Nat /\ (N - 1) + 1 = N
    OBVIOUS
  <1>3. F = CHOOSE f : Goes(f, N)
    <2>1. \A f : [i \in 1..N |-> IF i = 1 THEN ss[i] ELSE f[i - 1] \o ss[i]] =
                 [n \in 1..N |-> IF n = 1 THEN ss[1] ELSE Step(f[n - 1], n)]
      OBVIOUS
    <2> HIDE DEF N
    <2> QED
      BY <2>1
  <1> HIDE DEF Step, N, F
  <1>4. 0 \in T
    <2> DEFINE f == [n \in 1..1 |-> ss[1]]
    <2>1. \A n \in 1..1 : n = 1
      OBVIOUS
    <2>2. f = [n \in 1..1 |-> IF n = 1 THEN ss[1] ELSE Step(f[n - 1], n)]
      BY <2>1
    <2>3. 0 + 1 = 1
      OBVIOUS
    <2> HIDE DEF f
    <2>4. Goes(f, 0 + 1)
      BY <2>2, <2>3
    <2> QED
      BY <2>4
  <1>5. ASSUME NEW m \in T PROVE m + 1 \in T
    <2> DEFINE l == m + 1
    <2>1. m \in Nat /\ l \in Nat /\ l >= 1
      BY <1>5
    <2>2. PICK f : Goes(f, l)
      BY <1>5
    <2> HIDE DEF l
    <2> DEFINE g == [n \in 1..(l + 1) |-> IF n = l + 1 THEN Step(f[l], l + 1) ELSE f[n]]
    <2>3. \A n \in 1..(l + 1) : \/ n = 1
                                \/ n \in 2..l /\ n - 1 \in 1..l
                                \/ n = l + 1 /\ n # 1 /\ n - 1 = l
      BY <2>1
    <2>4. \A n \in 1..l : n \in 1..(l + 1) /\ n # l + 1
      BY <2>1
    <2>5. \A n \in 1..l : g[n] = f[n]
      BY <2>4
    <2>6. l \in 1..l /\ 1 \in 1..l /\ l + 1 \in 1..(l + 1) /\ \A n \in 2..l : n \in 1..l /\ n # 1
      BY <2>1
    <2>7. g[1] = ss[1]
      BY <2>2, <2>5, <2>6
    <2>8. \A n \in 2..l : g[n] = Step(f[n - 1], n)
      BY <2>2, <2>5, <2>6
    <2>9. g[l + 1] = Step(f[l], l + 1)
      BY <2>6
    <2>10. \A n \in 1..(l + 1) : g[n] = IF n = 1 THEN ss[1] ELSE Step(g[n - 1], n)
      <3> TAKE n \in 1..(l + 1)
      <3>1. CASE n = 1
        BY <2>7, <3>1
      <3>2. CASE n \in 2..l /\ n - 1 \in 1..l
        <4>1. n # 1 /\ g[n] = Step(f[n - 1], n) /\ g[n - 1] = f[n - 1]
          BY <2>5, <2>6, <2>8, <3>2
        <4> HIDE DEF g
        <4> QED
          BY <4>1
      <3>3. CASE n = l + 1 /\ n # 1 /\ n - 1 = l
        BY <2>5, <2>6, <2>9, <3>3
      <3> QED
        BY <2>3, <3>1, <3>2, <3>3
    <2>11. g = [n \in 1..(l + 1) |-> g[n]]
      OBVIOUS
    <2> HIDE DEF g
    <2>12. g = [n \in 1..(l + 1) |-> IF n = 1 THEN ss[1] ELSE Step(g[n - 1], n)]
      BY <2>10, <2>11
    <2>13. m + 1 \in Nat
      BY <2>1
    <2> QED
      BY <2>12, <2>13 DEF l
  <1>6. T = Nat
    <2> HIDE DEF T
    <2>1. T \in SUBSET Nat
      BY DEF T
    <2> QED
      BY <2>1, <1>4, <1>5, Induct
  <1>7. \E f : Goes(f, N)
    <2>1. N - 1 \in T
      <3> HIDE DEF T
      <3> QED
        BY <1>2, <1>6
    <2>2. \E f : Goes(f, (N - 1) + 1)
      <3> HIDE DEF Goes
      <3> QED
        BY <2>1
    <2> HIDE DEF Goes
    <2> QED
      BY <1>2, <2>2
  <1>8. Goes(F, N)
    <2> HIDE DEF Goes
    <2> QED
      BY <1>3, <1>7
  <1>9. F[1] = ss[1]
    <2>1. 1 \in 1..N
      BY <1>2
    <2> QED
      BY <1>8, <2>1
  <1>10. \A n \in 2..N : F[n] = Step(F[n - 1], n)
    <2>1. \A n \in 2..N : n \in 1..N /\ n # 1
      BY <1>2
    <2> QED
      BY <1>8, <2>1
  <1> QED
    BY <1>1, <1>9, <1>10 DEF Step, N

\* One sequence alone, and one more.
LEMMA FlattenOne ==
    ASSUME NEW ss, Len(ss) = 1
    PROVE  FlattenSeq(ss) = ss[1]
  <1>1. Len(ss) \in Nat \ {0}
    OBVIOUS
  <1>2. PICK F : FlattenSeq(ss) = F[Len(ss)] /\ F[1] = ss[1]
    BY <1>1, FlattenSteps
  <1> QED
    BY <1>2

LEMMA FlattenMore ==
    ASSUME NEW S, NEW ss \in Seq(Seq(S)), ss # <<>>, NEW s \in Seq(S)
    PROVE  FlattenSeq(Append(ss, s)) = FlattenSeq(ss) \o s
  <1> DEFINE N == Len(ss)
             tt == Append(ss, s)
  <1>1. N \in Nat /\ N >= 1 /\ N \in Nat \ {0}
    OBVIOUS
  <1>2. Len(tt) = N + 1 /\ tt[N + 1] = s /\ \A n \in 1..N : tt[n] = ss[n]
    OBVIOUS
  <1> HIDE DEF tt
  <1>3. PICK F : /\ FlattenSeq(ss) = F[Len(ss)]
                 /\ F[1] = ss[1]
                 /\ \A n \in 2..Len(ss) : F[n] = F[n - 1] \o ss[n]
    BY <1>1, FlattenSteps
  <1>4. Len(tt) \in Nat \ {0}
    BY <1>1, <1>2
  <1>5. PICK G : /\ FlattenSeq(tt) = G[Len(tt)]
                 /\ G[1] = tt[1]
                 /\ \A n \in 2..Len(tt) : G[n] = G[n - 1] \o tt[n]
    BY <1>4, FlattenSteps
  <1> HIDE DEF N
  <1> DEFINE T == {n \in Nat : n + 1 <= N => G[n + 1] = F[n + 1]}
  <1>6. 0 \in T
    <2>1. G[1] = F[1]
      BY <1>1, <1>2, <1>3, <1>5
    <2> QED
      BY <2>1
  <1>7. ASSUME NEW n \in T PROVE n + 1 \in T
    <2> SUFFICES ASSUME (n + 1) + 1 <= N
                 PROVE  G[(n + 1) + 1] = F[(n + 1) + 1]
      OBVIOUS
    <2> DEFINE k == (n + 1) + 1
    <2>1. n \in Nat /\ k \in 2..N /\ k \in 2..(N + 1) /\ k \in 1..N /\ k - 1 = n + 1 /\ n + 1 <= N
      BY <1>1, <1>7
    <2>2. G[n + 1] = F[n + 1]
      BY <1>7, <2>1
    <2> HIDE DEF k
    <2>3. G[k] = G[k - 1] \o tt[k] /\ F[k] = F[k - 1] \o ss[k] /\ tt[k] = ss[k]
      BY <1>2, <1>3, <1>5, <2>1 DEF N
    <2>4. G[k] = F[k]
      BY <2>1, <2>2, <2>3
    <2> QED
      BY <2>4 DEF k
  <1>8. T = Nat
    <2> HIDE DEF T
    <2>1. T \in SUBSET Nat
      BY DEF T
    <2> QED
      BY <2>1, <1>6, <1>7, Induct
  <1>9. G[N] = F[N]
    <2>1. N - 1 \in Nat /\ (N - 1) + 1 = N /\ (N - 1) + 1 <= N
      BY <1>1
    <2>2. N - 1 \in T
      <3> HIDE DEF T
      <3> QED
        BY <1>8, <2>1
    <2>3. (N - 1) + 1 <= N => G[(N - 1) + 1] = F[(N - 1) + 1]
      BY <2>2
    <2> HIDE DEF T
    <2> QED
      BY <2>1, <2>3
  <1>10. G[N + 1] = G[N] \o s
    <2>1. N + 1 \in 2..Len(tt) /\ (N + 1) - 1 = N
      BY <1>1, <1>2
    <2>2. G[N + 1] = G[(N + 1) - 1] \o tt[N + 1]
      BY <1>5, <2>1
    <2> QED
      BY <1>2, <2>1, <2>2
  <1> QED
    BY <1>2, <1>3, <1>5, <1>9, <1>10 DEF N, tt
=============================================================================
