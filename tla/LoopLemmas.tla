----------------------------- MODULE LoopLemmas -----------------------------
(***************************************************************************)
(* What proofs about loops need.  A loop over n items is a function p on   *)
(* 0 .. n, with p[i] what there is after the i-th item: these lemmas say   *)
(* that there is such a function, that what its steps keep holds at the    *)
(* end, and what becomes of sums.  The order a list is sorted in is that   *)
(* of the number of items before each.                                     *)
(***************************************************************************)
EXTENDS Integers, Sequences, Functions, FiniteSetTheorems, WellFoundedInduction, TLAPS

-----------------------------------------------------------------------------
LEMMA Smallest ==
  ASSUME NEW T \in SUBSET Nat, T # {}
  PROVE  \E x \in T : \A y \in T : x <= y
<1> DEFINE R == {ss \in Nat \X Nat : ss[1] < ss[2]}
<1>1. IsWellFoundedOn(R, Nat)
  BY NatLessThanWellFounded DEF OpToRel
<1>2. PICK x \in T : \A y \in T : ~ (<<y, x>> \in R)
  BY <1>1, WFMin
<1>3. ASSUME NEW y \in T PROVE x <= y
  <2>1. ~ (y < x)
    BY <1>2
  <2> QED BY <2>1
<1> QED BY <1>3

LEMMA Induct ==
  ASSUME NEW n \in Nat, NEW P, 0 \in P, \A i \in 1 .. n : i - 1 \in P => i \in P
  PROVE  \A i \in 0 .. n : i \in P
<1> DEFINE Bad == (0 .. n) \ P
<1>1. SUFFICES ASSUME Bad # {} PROVE FALSE
  OBVIOUS
<1>2. PICK k \in Bad : \A j \in Bad : k <= j
  <2>1. Bad \in SUBSET Nat
    OBVIOUS
  <2> HIDE DEF Bad
  <2> QED BY <1>1, <2>1, Smallest
<1>3. k \in 1 .. n /\ k \notin P
  BY <1>2
<1>4. k - 1 \notin Bad
  <2>1. ~(k <= k - 1)
    BY <1>3
  <2> HIDE DEF Bad
  <2> QED BY <1>2, <2>1
<1>5. k - 1 \in P
  BY <1>3, <1>4
<1> QED BY <1>3, <1>5

(* A loop does what its steps say, and what they keep holds at each turn. *)
Loop(f, n, x0, step) == f[0] = x0 /\ \A i \in 1 .. n : f[i] = step[i][f[i - 1]]

Leads(step, n, inv) == \A i \in 1 .. n : \A x \in inv[i - 1] : step[i][x] \in inv[i]
Within(f, n, inv) == \A i \in 0 .. n : f[i] \in inv[i]

LEMMA LoopExists ==
  ASSUME NEW n \in Nat, NEW X, NEW inv \in [0 .. n -> SUBSET X], NEW x0 \in inv[0],
         NEW step, Leads(step, n, inv)
  PROVE  \E f \in [0 .. n -> X] : Loop(f, n, x0, step) /\ Within(f, n, inv)
<1> DEFINE Is(f, k) == \A i \in 0 .. k : /\ f[i] = IF i = 0 THEN x0 ELSE step[i][f[i - 1]]
                                         /\ f[i] \in inv[i]
           P == {k \in 0 .. n : \E f \in [0 .. k -> X] : Is(f, k)}
<1>1. 0 \in P
  <2> DEFINE f == [i \in 0 .. 0 |-> x0]
  <2>1. x0 \in X
    OBVIOUS
  <2>2. f \in [0 .. 0 -> X] /\ Is(f, 0)
    BY <2>1
  <2> HIDE DEF f, Is
  <2> QED BY <2>2
<1>2. ASSUME NEW k \in 1 .. n, k - 1 \in P PROVE k \in P
  <2>1. PICK f \in [0 .. k - 1 -> X] : Is(f, k - 1)
    BY <1>2
  <2> DEFINE g == [i \in 0 .. k |-> IF i = k THEN step[k][f[k - 1]] ELSE f[i]]
  <2>2. f[k - 1] \in inv[k - 1]
    BY <2>1
  <2>3. step[k][f[k - 1]] \in inv[k] /\ inv[k] \subseteq X
    BY <2>2 DEF Leads
  <2>4. g \in [0 .. k -> X]
    BY <2>3
  <2>5. Is(g, k)
    BY <2>1, <2>3
  <2> HIDE DEF g, Is
  <2> QED BY <2>4, <2>5
<1>3. n \in P
  <2> HIDE DEF P
  <2>1. \A i \in 0 .. n : i \in P
    BY <1>1, <1>2, Induct
  <2> QED BY <2>1
<1>4. PICK f \in [0 .. n -> X] : Is(f, n)
  BY <1>3
<1> QED BY <1>4 DEF Loop, Within

LEMMA LoopKeeps ==
  ASSUME NEW n \in Nat, NEW inv, NEW f,
         f[0] \in inv[0], \A i \in 1 .. n : f[i - 1] \in inv[i - 1] => f[i] \in inv[i]
  PROVE  Within(f, n, inv)
<1> DEFINE P == {i \in 0 .. n : f[i] \in inv[i]}
<1>1. 0 \in P /\ \A i \in 1 .. n : i - 1 \in P => i \in P
  OBVIOUS
<1>2. \A i \in 0 .. n : i \in P
  <2> HIDE DEF P
  <2> QED BY <1>1, Induct
<1> QED BY <1>2 DEF Within

(* The same, when all the turns keep the same. *)
LEMMA Iterates ==
  ASSUME NEW n \in Nat, NEW X, NEW x0 \in X, NEW step \in [1 .. n -> [X -> X]]
  PROVE  \E f \in [0 .. n -> X] : Loop(f, n, x0, step)
<1> DEFINE inv == [i \in 0 .. n |-> X]
<1>1. /\ inv \in [0 .. n -> SUBSET X] /\ x0 \in inv[0]
      /\ Leads(step, n, inv)
  BY DEF Leads
<1> HIDE DEF inv
<1> QED BY <1>1, LoopExists

LEMMA StepsKeep ==
  ASSUME NEW n \in Nat, NEW X, NEW f, f[0] \in X, \A i \in 1 .. n : f[i - 1] \in X => f[i] \in X
  PROVE  \A i \in 0 .. n : f[i] \in X
<1> DEFINE inv == [i \in 0 .. n |-> X]
<1>1. f[0] \in inv[0] /\ \A i \in 1 .. n : f[i - 1] \in inv[i - 1] => f[i] \in inv[i]
  OBVIOUS
<1>2. Within(f, n, inv)
  <2> HIDE DEF inv
  <2> QED BY <1>1, LoopKeeps
<1> QED BY <1>2 DEF Within

-----------------------------------------------------------------------------
(* Sums                                                                    *)

Sums(p, n, v) == p[0] = 0 /\ \A i \in 1 .. n : p[i] = p[i - 1] + v[i]

(* There is a loop that adds up numbers, and what it counts is a number. *)
LEMMA SumsExist ==
  ASSUME NEW n \in Nat, NEW v, \A i \in 1 .. n : v[i] \in Nat
  PROVE  \E p \in [0 .. n -> Nat] : Sums(p, n, v)
<1> DEFINE step == [i \in 1 .. n |-> [x \in Nat |-> x + v[i]]]
<1>1. step \in [1 .. n -> [Nat -> Nat]]
  OBVIOUS
<1>2. PICK p \in [0 .. n -> Nat] : Loop(p, n, 0, step)
  <2> HIDE DEF step
  <2> QED BY <1>1, Iterates
<1>3. \A i \in 1 .. n : p[i - 1] \in Nat
  OBVIOUS
<1> QED BY <1>2, <1>3 DEF Loop, Sums

LEMMA SumsGrow ==
  ASSUME NEW n \in Nat, NEW v, \A i \in 1 .. n : v[i] \in Nat,
         NEW p \in [0 .. n -> Nat], Sums(p, n, v), NEW k \in 0 .. n
  PROVE  p[k] <= p[n]
<1> DEFINE P == {i \in 0 .. n : k <= i => p[k] <= p[i]}
<1>1. 0 \in P
  OBVIOUS
<1>2. ASSUME NEW i \in 1 .. n, i - 1 \in P PROVE i \in P
  <2>1. p[i] = p[i - 1] + v[i] /\ v[i] \in Nat /\ p[i - 1] \in Nat /\ p[k] \in Nat
    BY DEF Sums
  <2> QED BY <1>2, <2>1
<1>3. \A i \in 0 .. n : i \in P
  <2> HIDE DEF P
  <2> QED BY <1>1, <1>2, Induct
<1> QED BY <1>3

LEMMA SumsZero ==
  ASSUME NEW n \in Nat, NEW v, \A i \in 1 .. n : v[i] = 0, NEW p, Sums(p, n, v)
  PROVE  p[n] = 0
<1> DEFINE P == {i \in 0 .. n : p[i] = 0}
<1>1. 0 \in P /\ \A i \in 1 .. n : i - 1 \in P => i \in P
  BY DEF Sums
<1>2. \A i \in 0 .. n : i \in P
  <2> HIDE DEF P
  <2> QED BY <1>1, Induct
<1> QED BY <1>2

LEMMA SumsBounded ==
  ASSUME NEW n \in Nat, NEW b \in Nat, NEW v, \A i \in 1 .. n : v[i] \in 0 .. b,
         NEW p \in [0 .. n -> Nat], Sums(p, n, v)
  PROVE  p[n] <= n * b
<1> DEFINE P == {i \in 0 .. n : p[i] <= i * b}
<1>1. 0 \in P
  BY DEF Sums
<1>2. ASSUME NEW i \in 1 .. n, i - 1 \in P PROVE i \in P
  <2>1. p[i] = p[i - 1] + v[i] /\ v[i] \in 0 .. b /\ p[i - 1] \in Nat
    BY DEF Sums
  <2>2. p[i - 1] <= (i - 1) * b
    BY <1>2
  <2>3. i * b = (i - 1) * b + b
    OBVIOUS
  <2>4. p[i] <= i * b
    BY <2>1, <2>2, <2>3
  <2> QED BY <2>4
<1>3. \A i \in 0 .. n : i \in P
  <2> HIDE DEF P
  <2> QED BY <1>1, <1>2, Induct
<1> QED BY <1>3

(* Two sums of numbers of which only the k-th differ, by d. *)
DifferAt(k, d, n, v, w) ==
  \A i \in 1 .. n : v[i] \in Nat /\ w[i] = IF i = k THEN v[i] + d ELSE v[i]

IsMore(x, y, d) == x = y + d

LEMMA SumsDiffer ==
  ASSUME NEW n \in Nat, NEW v, NEW w, NEW k \in 1 .. n, NEW d \in Int,
         DifferAt(k, d, n, v, w),
         NEW p \in [0 .. n -> Nat], NEW q, Sums(p, n, v), Sums(q, n, w)
  PROVE  IsMore(q[n], p[n], d)
<1> DEFINE P == {i \in 0 .. n : q[i] = IF i < k THEN p[i] ELSE p[i] + d}
<1>1. 0 \in P
  BY DEF Sums
<1>2. ASSUME NEW i \in 1 .. n, i - 1 \in P PROVE i \in P
  <2>1. p[i] = p[i - 1] + v[i] /\ q[i] = q[i - 1] + w[i] /\ p[i - 1] \in Nat /\ v[i] \in Nat
    BY DEF Sums, DifferAt
  <2>2. CASE i < k
    BY <1>2, <2>1, <2>2 DEF DifferAt
  <2>3. CASE i = k
    BY <1>2, <2>1, <2>3 DEF DifferAt
  <2>4. CASE i > k
    BY <1>2, <2>1, <2>4 DEF DifferAt
  <2> QED BY <2>2, <2>3, <2>4
<1>3. \A i \in 0 .. n : i \in P
  <2> HIDE DEF P
  <2> QED BY <1>1, <1>2, Induct
<1> QED BY <1>3 DEF IsMore

-----------------------------------------------------------------------------
(* Sorted lists                                                            *)

Before(R, S, x) == {y \in S : <<y, x>> \in R}

(* Of a finite set in a strict total order, one has i - 1 items before it. *)
LEMMA Ranks ==
  ASSUME NEW S, IsFiniteSet(S), NEW R,
         \A x, y \in S : x = y \/ <<x, y>> \in R \/ <<y, x>> \in R,
         \A x \in S : <<x, x>> \notin R,
         \A x, y, z \in S : <<x, y>> \in R /\ <<y, z>> \in R => <<x, z>> \in R,
         NEW i \in 1 .. Cardinality(S)
  PROVE  \E x \in S : Cardinality(Before(R, S, x)) = i - 1
<1> DEFINE n == Cardinality(S)
           rank == [x \in S |-> Cardinality(Before(R, S, x))]
<1>1. n \in Nat
  BY FS_CardinalityType
<1>2. ASSUME NEW x \in S
      PROVE  IsFiniteSet(Before(R, S, x)) /\ rank[x] \in 0 .. n - 1
  <2>1. Before(R, S, x) \subseteq S \ {x}
    BY DEF Before
  <2>2. IsFiniteSet(S \ {x}) /\ Cardinality(S \ {x}) = n - 1
    BY FS_RemoveElement
  <2>3. IsFiniteSet(Before(R, S, x)) /\ Cardinality(Before(R, S, x)) <= n - 1
    BY <2>1, <2>2, FS_Subset
  <2> QED BY <1>1, <2>3, FS_CardinalityType
<1>3. ASSUME NEW x \in S, NEW y \in S, <<x, y>> \in R PROVE rank[x] < rank[y]
  <2>1. Before(R, S, x) \subseteq Before(R, S, y) \ {x} /\ x \in Before(R, S, y)
    BY <1>3 DEF Before
  <2>2. IsFiniteSet(Before(R, S, y) \ {x}) /\ Cardinality(Before(R, S, y) \ {x}) = rank[y] - 1
    BY <1>2, <2>1, FS_RemoveElement
  <2>3. rank[x] <= rank[y] - 1
    BY <2>1, <2>2, FS_Subset
  <2> QED BY <1>1, <1>2, <2>3
<1>4. rank \in Injection(S, 0 .. n - 1)
  <2>1. rank \in [S -> 0 .. n - 1]
    BY <1>2
  <2>2. ASSUME NEW x \in S, NEW y \in S, rank[x] = rank[y] PROVE x = y
    <3>1. rank[x] \in Int /\ rank[y] \in Int
      BY <1>1, <1>2
    <3>2. CASE <<x, y>> \in R
      BY <1>3, <2>2, <3>1, <3>2
    <3>3. CASE <<y, x>> \in R
      BY <1>3, <2>2, <3>1, <3>3
    <3> QED BY <3>2, <3>3
  <2> HIDE DEF rank
  <2> QED BY <2>1, <2>2 DEF Injection, IsInjective
<1>5. rank \in Surjection(S, 0 .. n - 1)
  <2>1. IsFiniteSet(0 .. n - 1) /\ Cardinality(0 .. n - 1) = n
    <3> HIDE DEF n
    <3> QED BY <1>1, FS_Interval
  <2> HIDE DEF rank
  <2> QED BY <1>4, <2>1, FS_Injection
<1>6. i - 1 \in 0 .. n - 1
  BY <1>1
<1>7. \E x \in S : rank[x] = i - 1
  <2> HIDE DEF rank
  <2> QED BY <1>5, <1>6 DEF Surjection
<1> QED BY <1>7

-----------------------------------------------------------------------------
(* Sums over finite sets: SumFunctionOnSet of the community modules.       *)

LEMMA Sizes ==
  ASSUME NEW S, IsFiniteSet(S), NEW s \in SUBSET S
  PROVE  /\ IsFiniteSet(s) /\ Cardinality(s) \in 0 .. Cardinality(S)
         /\ s = {} <=> Cardinality(s) = 0
         /\ \A x \in s : Cardinality(s \ {x}) = Cardinality(s) - 1 /\ s \ {x} \in SUBSET S
<1>1. IsFiniteSet(s) /\ Cardinality(s) <= Cardinality(S)
  BY FS_Subset
<1>2. Cardinality(s) \in Nat /\ Cardinality(S) \in Nat
  BY <1>1, FS_CardinalityType
<1>3. s = {} <=> Cardinality(s) = 0
  BY <1>1, FS_EmptySet
<1>4. ASSUME NEW x \in s PROVE Cardinality(s \ {x}) = Cardinality(s) - 1
  BY <1>1, FS_RemoveElement
<1> QED BY <1>1, <1>2, <1>3, <1>4

LEMMA SetInduct ==
  ASSUME NEW S, IsFiniteSet(S), NEW P, {} \in P,
         \A s \in SUBSET S : s # {} /\ (\A x \in s : s \ {x} \in P) => s \in P
  PROVE  \A s \in SUBSET S : s \in P
<1>1. PICK n \in Nat : n = Cardinality(S)
  BY FS_CardinalityType
<1> DEFINE Q == {i \in 0 .. n : \A s \in SUBSET S : Cardinality(s) = i => s \in P}
<1>2. 0 \in Q
  <2>1. \A s \in SUBSET S : Cardinality(s) = 0 => s \in P
    BY Sizes
  <2>2. 0 \in 0 .. n
    OBVIOUS
  <2> QED BY <2>1, <2>2
<1>3. ASSUME NEW i \in 1 .. n, i - 1 \in Q PROVE i \in Q
  <2> SUFFICES ASSUME NEW s \in SUBSET S, Cardinality(s) = i PROVE s \in P
    OBVIOUS
  <2>1. s # {}
    BY Sizes
  <2>2. \A x \in s : s \ {x} \in P
    <3> SUFFICES ASSUME NEW x \in s PROVE s \ {x} \in P
      OBVIOUS
    <3>1. Cardinality(s \ {x}) = i - 1 /\ s \ {x} \in SUBSET S
      BY Sizes
    <3> QED BY <1>3, <3>1
  <2> QED BY <2>1, <2>2
<1>4. \A i \in 0 .. n : i \in Q
  <2> HIDE DEF Q
  <2> QED BY <1>2, <1>3, Induct
<1> SUFFICES ASSUME NEW s \in SUBSET S PROVE s \in P
  OBVIOUS
<1>5. Cardinality(s) \in 0 .. n
  BY <1>1, Sizes
<1> QED BY <1>4, <1>5

Picked(s) == CHOOSE x \in s : TRUE

\* The sums over one element more.
Further(g, f, S) == [s \in SUBSET S |-> IF s = {} THEN 0
                                        ELSE f[Picked(s)] + g[s \ {Picked(s)}]]
IsIter(g, f, S) == g = Further(g, f, S)
Iter(f, S) == CHOOSE g : IsIter(g, f, S)

LEMMA SumIs ==
  ASSUME NEW f, NEW S
  PROVE  SumFunctionOnSet(f, S) = Iter(f, S)[S]
BY DEF SumFunctionOnSet, FoldFunctionOnSet, MapThenFoldSet, Iter, IsIter, Further, Picked

LEMMA PickedIs ==
  ASSUME NEW s, s # {}
  PROVE  Picked(s) \in s
BY DEF Picked

LEMMA TurnNone ==
  ASSUME NEW h, NEW g, NEW f, NEW S, h = Further(g, f, S)
  PROVE  h[{}] = 0
BY DEF Further

LEMMA TurnIs ==
  ASSUME NEW h, NEW g, NEW f, NEW S, h = Further(g, f, S), NEW s \in SUBSET S,
         NEW y \in s, y = Picked(s)
  PROVE  h[s] = f[y] + g[s \ {y}]
<1>1. s # {}
  OBVIOUS
<1> QED BY <1>1 DEF Further

Ints(f, S) == \A x \in S : f[x] \in Int

LEMMA FurtherInts ==
  ASSUME NEW S, NEW f, Ints(f, S), NEW g \in [SUBSET S -> Int]
  PROVE  Further(g, f, S) \in [SUBSET S -> Int]
<1> SUFFICES ASSUME NEW s \in SUBSET S, s # {}
             PROVE  f[Picked(s)] + g[s \ {Picked(s)}] \in Int
  BY DEF Further
<1>1. Picked(s) \in S /\ s \ {Picked(s)} \in SUBSET S
  BY PickedIs
<1> QED BY <1>1 DEF Ints

(* Each turn of a loop does the sums over one more element; what it has of *)
(* small sets no longer changes.                                           *)
LEMMA IterThere ==
  ASSUME NEW S, IsFiniteSet(S), NEW f, Ints(f, S)
  PROVE  \E g \in [SUBSET S -> Int] : IsIter(g, f, S)
<1>1. PICK n \in Nat : n = Cardinality(S)
  BY FS_CardinalityType
<1> DEFINE X == [SUBSET S -> Int]
           step == [i \in 1 .. n |-> [g \in X |-> Further(g, f, S)]]
           zero == [s \in SUBSET S |-> 0]
<1>2. zero \in X
  OBVIOUS
<1>3. step \in [1 .. n -> [X -> X]]
  BY FurtherInts
<1>4. PICK p \in [0 .. n -> X] : Loop(p, n, zero, step)
  <2> HIDE DEF step, X, zero
  <2> QED BY <1>2, <1>3, Iterates
<1>5. \A i \in 0 .. n : p[i] \in X
  OBVIOUS
<1>6. \A i \in 1 .. n : p[i] = Further(p[i - 1], f, S)
  <2> SUFFICES ASSUME NEW i \in 1 .. n PROVE p[i] = Further(p[i - 1], f, S)
    OBVIOUS
  <2>1. p[i - 1] \in X
    <3>1. i - 1 \in 0 .. n
      OBVIOUS
    <3> QED BY ONLY <1>5, <3>1
  <2>2. p[i] = step[i][p[i - 1]]
    BY <1>4 DEF Loop
  <2> HIDE DEF X
  <2> QED BY <2>1, <2>2
<1>7. p[0] = zero
  BY <1>4 DEF Loop
<1> DEFINE Same == {s \in SUBSET S : \A i \in 1 .. n : Cardinality(s) < i => p[i][s] = p[i - 1][s]}
<1> HIDE DEF X, step
<1>8. {} \in Same
  <2> SUFFICES ASSUME NEW i \in 1 .. n PROVE p[i][{}] = p[i - 1][{}]
    OBVIOUS
  <2>0. \A j \in 1 .. n : p[j][{}] = 0
    <3> SUFFICES ASSUME NEW j \in 1 .. n PROVE p[j][{}] = 0
      OBVIOUS
    <3>1. p[j] = Further(p[j - 1], f, S)
      BY <1>6
    <3> QED BY ONLY <3>1, TurnNone
  <2>1. p[i][{}] = 0
    BY <2>0
  <2>2. p[i - 1][{}] = 0
    <3>1. CASE i = 1
      BY <1>7, <3>1
    <3>2. CASE i # 1
      <4>1. i - 1 \in 1 .. n
        BY <3>2
      <4> QED BY <2>0, <4>1
    <3> QED BY <3>1, <3>2
  <2> QED BY <2>1, <2>2
<1>9. ASSUME NEW s \in SUBSET S, s # {}, \A x \in s : s \ {x} \in Same
      PROVE  s \in Same
  <2> SUFFICES ASSUME NEW i \in 1 .. n, Cardinality(s) < i PROVE p[i][s] = p[i - 1][s]
    OBVIOUS
  <2>1. PICK y \in s : y = Picked(s)
    BY <1>9, PickedIs
  <2>2. /\ Cardinality(s \ {y}) = Cardinality(s) - 1 /\ Cardinality(s) \in Nat
        /\ Cardinality(s) # 0 /\ s \ {y} \in SUBSET S
    BY <1>9, Sizes
  <2>3. i - 1 \in 1 .. n /\ Cardinality(s \ {y}) < i - 1
    BY <2>2
  <2>4. p[i - 1][s \ {y}] = p[(i - 1) - 1][s \ {y}]
    <3>1. s \ {y} \in Same
      BY <1>9
    <3> QED BY <2>3, <3>1
  <2>5. p[i][s] = f[y] + p[i - 1][s \ {y}]
    <3>1. p[i] = Further(p[i - 1], f, S)
      BY <1>6
    <3> QED BY ONLY <2>1, <3>1, TurnIs, s \in SUBSET S
  <2>6. p[i - 1][s] = f[y] + p[(i - 1) - 1][s \ {y}]
    <3>1. p[i - 1] = Further(p[(i - 1) - 1], f, S)
      BY <1>6, <2>3
    <3> QED BY ONLY <2>1, <3>1, TurnIs, s \in SUBSET S
  <2> QED BY <2>4, <2>5, <2>6
<1>10. \A s \in SUBSET S : s \in Same
  <2> HIDE DEF Same
  <2> QED BY <1>8, <1>9, SetInduct
<1>11. PICK g \in [SUBSET S -> Int] : g = p[n]
  <2>1. n \in 0 .. n
    OBVIOUS
  <2>2. p[n] \in X
    BY ONLY <1>5, <2>1
  <2> QED BY <2>2 DEF X
<1>12. ASSUME NEW s \in SUBSET S
       PROVE  g[s] = IF s = {} THEN 0 ELSE f[Picked(s)] + g[s \ {Picked(s)}]
  <2>1. CASE n = 0
    <3>1. Cardinality(s) \in 0 .. n
      BY <1>1, Sizes
    <3>2. s = {}
      BY <2>1, <3>1, Sizes
    <3> QED BY <1>7, <1>11, <2>1, <3>2
  <2>2. CASE n # 0
    <3>1. n \in 1 .. n
      BY <2>2
    <3>2. g = Further(p[n - 1], f, S)
      BY <1>6, <1>11, <3>1
    <3>3. CASE s = {}
      BY ONLY <3>2, <3>3, TurnNone
    <3>4. CASE s # {}
      <4>1. PICK y \in s : y = Picked(s)
        BY <3>4, PickedIs
      <4>2. Cardinality(s \ {y}) < n /\ s \ {y} \in SUBSET S
        <5>1. /\ Cardinality(s \ {y}) = Cardinality(s) - 1 /\ Cardinality(s) \in 0 .. n
              /\ s \ {y} \in SUBSET S
          BY <1>1, Sizes
        <5> QED BY <5>1
      <4>3. p[n][s \ {y}] = p[n - 1][s \ {y}]
        <5>1. s \ {y} \in Same
          BY ONLY <1>10, <4>2
        <5> QED BY <3>1, <4>2, <5>1
      <4>4. g[s] = f[y] + p[n - 1][s \ {y}]
        BY ONLY <3>2, <4>1, TurnIs, s \in SUBSET S
      <4> QED BY <1>11, <3>4, <4>1, <4>3, <4>4
    <3> QED BY <3>3, <3>4
  <2> QED BY <2>1, <2>2
<1>13. g = Further(g, f, S)
  BY <1>12 DEF Further
<1> QED BY <1>13 DEF IsIter

(* There is only one, over whatever larger set it is taken.                *)
LEMMA IterSame ==
  ASSUME NEW S, IsFiniteSet(S), NEW T, S \subseteq T, NEW f, NEW g, IsIter(g, f, S),
         NEW h, IsIter(h, f, T)
  PROVE  \A s \in SUBSET S : g[s] = h[s]
<1> DEFINE P == {s \in SUBSET S : g[s] = h[s]}
<1>1. g = Further(g, f, S) /\ h = Further(h, f, T)
  BY DEF IsIter
<1>2. {} \in P
  <2>1. {} \in SUBSET S /\ {} \in SUBSET T
    OBVIOUS
  <2>2. g[{}] = 0 /\ h[{}] = 0
    BY ONLY <1>1, TurnNone
  <2> QED BY <2>2
<1>3. ASSUME NEW s \in SUBSET S, s # {}, \A x \in s : s \ {x} \in P PROVE s \in P
  <2>1. PICK y \in s : y = Picked(s)
    BY <1>3, PickedIs
  <2>2. s \in SUBSET T /\ g[s \ {y}] = h[s \ {y}]
    BY <1>3
  <2>3. g[s] = f[y] + g[s \ {y}]
    BY ONLY <1>1, <2>1, TurnIs, s \in SUBSET S
  <2>4. h[s] = f[y] + h[s \ {y}]
    BY ONLY <1>1, <2>1, <2>2, TurnIs
  <2> QED BY <2>2, <2>3, <2>4
<1>4. \A s \in SUBSET S : s \in P
  <2> HIDE DEF P
  <2> QED BY <1>2, <1>3, SetInduct
<1> QED BY <1>4

(* All the sums over the parts of a set are in one function.               *)
HasSums(g, f, S) == IsIter(g, f, S) /\ \A s \in SUBSET S : SumFunctionOnSet(f, s) = g[s]

LEMMA SumParts ==
  ASSUME NEW S, IsFiniteSet(S), NEW f, Ints(f, S)
  PROVE  \E g \in [SUBSET S -> Int] : HasSums(g, f, S)
<1>1. PICK g \in [SUBSET S -> Int] : IsIter(g, f, S)
  BY IterThere
<1>2. ASSUME NEW s \in SUBSET S PROVE SumFunctionOnSet(f, s) = g[s]
  <2>1. IsFiniteSet(s) /\ Ints(f, s) /\ s \subseteq S
    BY Sizes DEF Ints
  <2>2. \E h : IsIter(h, f, s)
    BY <2>1, IterThere
  <2>3. PICK h : h = Iter(f, s) /\ IsIter(h, f, s)
    BY <2>2 DEF Iter
  <2>4. h[s] = g[s]
    <3>1. \A x \in SUBSET s : h[x] = g[x]
      BY ONLY <1>1, <2>1, <2>3, IterSame
    <3> QED BY <3>1
  <2>5. SumFunctionOnSet(f, s) = Iter(f, s)[s]
    BY SumIs
  <2> QED BY <2>3, <2>4, <2>5
<1> QED BY <1>1, <1>2 DEF HasSums

LEMMA SumInt ==
  ASSUME NEW S, IsFiniteSet(S), NEW f, Ints(f, S)
  PROVE  SumFunctionOnSet(f, S) \in Int
<1>1. PICK g \in [SUBSET S -> Int] : HasSums(g, f, S)
  BY SumParts
<1> QED BY <1>1 DEF HasSums

LEMMA SumNone ==
  ASSUME NEW f
  PROVE  SumFunctionOnSet(f, {}) = 0
<1>1. IsFiniteSet({}) /\ Ints(f, {})
  BY FS_EmptySet DEF Ints
<1>2. PICK g \in [SUBSET {} -> Int] : HasSums(g, f, {})
  BY <1>1, SumParts
<1>3. g = Further(g, f, {}) /\ SumFunctionOnSet(f, {}) = g[{}]
  BY <1>2 DEF HasSums, IsIter
<1>4. g[{}] = 0
  BY ONLY <1>3, TurnNone
<1> QED BY <1>3, <1>4

(* Whatever element is taken first. *)
LEMMA SumTake ==
  ASSUME NEW S, IsFiniteSet(S), NEW f, Ints(f, S), NEW x \in S
  PROVE  /\ SumFunctionOnSet(f, S) = f[x] + SumFunctionOnSet(f, S \ {x})
         /\ SumFunctionOnSet(f, S \ {x}) \in Int
<1>0. PICK g \in [SUBSET S -> Int] : HasSums(g, f, S)
  BY SumParts
<1>1. \A s \in SUBSET S : SumFunctionOnSet(f, s) = g[s]
  BY <1>0 DEF HasSums
<1>2. g = Further(g, f, S)
  BY <1>0 DEF HasSums, IsIter
<1> DEFINE P == {s \in SUBSET S : \A z \in s : g[s] = f[z] + g[s \ {z}]}
<1>3. {} \in P
  OBVIOUS
<1>4. ASSUME NEW s \in SUBSET S, s # {}, \A z \in s : s \ {z} \in P PROVE s \in P
  <2> SUFFICES ASSUME NEW z \in s PROVE g[s] = f[z] + g[s \ {z}]
    OBVIOUS
  <2>1. PICK y \in s : y = Picked(s)
    BY <1>4, PickedIs
  <2>2. g[s] = f[y] + g[s \ {y}]
    BY ONLY <1>2, <2>1, TurnIs, s \in SUBSET S
  <2>3. CASE z # y
    <3>1. PICK r : r = (s \ {y}) \ {z}
      OBVIOUS
    <3>2. (s \ {z}) \ {y} = r
      BY ONLY <3>1
    <3>6. r \in SUBSET S /\ z \in s \ {y} /\ y \in s \ {z}
      BY ONLY <2>1, <2>3, <3>1, s \in SUBSET S, z \in s
    <3>3. g[s \ {y}] = f[z] + g[r]
      <4>1. s \ {y} \in P
        BY <1>4
      <4>2. g[s \ {y}] = f[z] + g[(s \ {y}) \ {z}]
        BY ONLY <3>6, <4>1
      <4> QED BY ONLY <3>1, <4>2
    <3>4. g[s \ {z}] = f[y] + g[r]
      <4>1. s \ {z} \in P
        BY <1>4
      <4>2. g[s \ {z}] = f[y] + g[(s \ {z}) \ {y}]
        BY ONLY <3>6, <4>1
      <4> QED BY ONLY <3>2, <4>2
    <3>5. f[y] \in Int /\ f[z] \in Int /\ g[r] \in Int
      BY <3>6 DEF Ints
    <3> QED BY ONLY <2>2, <3>3, <3>4, <3>5
  <2> QED BY <2>2, <2>3
<1>5. \A s \in SUBSET S : s \in P
  <2> HIDE DEF P
  <2> QED BY <1>3, <1>4, SetInduct
<1>6. g[S] = f[x] + g[S \ {x}] /\ g[S \ {x}] \in Int
  <2>1. S \in P
    BY <1>5
  <2> QED BY <2>1
<1> QED BY <1>1, <1>6

(* What holds of one sum holds of the next: the form most proofs take.     *)
LEMMA SumSame ==
  ASSUME NEW S, IsFiniteSet(S), NEW f, Ints(f, S), NEW g, \A x \in S : g[x] = f[x]
  PROVE  SumFunctionOnSet(g, S) = SumFunctionOnSet(f, S)
<1> DEFINE P == {s \in SUBSET S : SumFunctionOnSet(g, s) = SumFunctionOnSet(f, s)}
<1>1. {} \in P
  BY SumNone
<1>2. ASSUME NEW s \in SUBSET S, s # {}, \A x \in s : s \ {x} \in P PROVE s \in P
  <2>1. PICK x \in s : TRUE
    BY <1>2
  <2>2. IsFiniteSet(s) /\ Ints(f, s) /\ Ints(g, s)
    BY Sizes DEF Ints
  <2>3. SumFunctionOnSet(f, s) = f[x] + SumFunctionOnSet(f, s \ {x})
    BY <2>2, SumTake
  <2>4. SumFunctionOnSet(g, s) = g[x] + SumFunctionOnSet(g, s \ {x})
    BY <2>2, SumTake
  <2>5. SumFunctionOnSet(g, s \ {x}) = SumFunctionOnSet(f, s \ {x}) /\ g[x] = f[x]
    BY <1>2
  <2> QED BY <2>3, <2>4, <2>5
<1>3. \A s \in SUBSET S : s \in P
  <2> HIDE DEF P
  <2> QED BY <1>1, <1>2, SetInduct
<1> QED BY <1>3

LEMMA SumPlus ==
  ASSUME NEW S, IsFiniteSet(S), NEW f, Ints(f, S), NEW g, Ints(g, S),
         NEW h, \A x \in S : h[x] = f[x] + g[x]
  PROVE  SumFunctionOnSet(h, S) = SumFunctionOnSet(f, S) + SumFunctionOnSet(g, S)
<1> DEFINE P == {s \in SUBSET S : SumFunctionOnSet(h, s)
                                    = SumFunctionOnSet(f, s) + SumFunctionOnSet(g, s)}
<1>1. {} \in P
  BY SumNone
<1>2. ASSUME NEW s \in SUBSET S, s # {}, \A x \in s : s \ {x} \in P PROVE s \in P
  <2>1. PICK x \in s : TRUE
    BY <1>2
  <2>2. IsFiniteSet(s) /\ Ints(f, s) /\ Ints(g, s) /\ Ints(h, s)
    BY Sizes DEF Ints
  <2>3. /\ SumFunctionOnSet(f, s) = f[x] + SumFunctionOnSet(f, s \ {x})
        /\ SumFunctionOnSet(f, s \ {x}) \in Int
    BY <2>2, SumTake
  <2>4. /\ SumFunctionOnSet(g, s) = g[x] + SumFunctionOnSet(g, s \ {x})
        /\ SumFunctionOnSet(g, s \ {x}) \in Int
    BY <2>2, SumTake
  <2>5. SumFunctionOnSet(h, s) = h[x] + SumFunctionOnSet(h, s \ {x})
    BY <2>2, SumTake
  <2>6. /\ SumFunctionOnSet(h, s \ {x})
             = SumFunctionOnSet(f, s \ {x}) + SumFunctionOnSet(g, s \ {x})
        /\ h[x] = f[x] + g[x] /\ f[x] \in Int /\ g[x] \in Int
    BY <1>2, <2>2 DEF Ints
  <2> QED BY <2>3, <2>4, <2>5, <2>6
<1>3. \A s \in SUBSET S : s \in P
  <2> HIDE DEF P
  <2> QED BY <1>1, <1>2, SetInduct
<1> QED BY <1>3

LEMMA SumTimes ==
  ASSUME NEW S, IsFiniteSet(S), NEW f, Ints(f, S), NEW k \in Int,
         NEW h, \A x \in S : h[x] = k * f[x]
  PROVE  SumFunctionOnSet(h, S) = k * SumFunctionOnSet(f, S)
<1> DEFINE P == {s \in SUBSET S : SumFunctionOnSet(h, s) = k * SumFunctionOnSet(f, s)}
<1>1. {} \in P
  BY SumNone
<1>2. ASSUME NEW s \in SUBSET S, s # {}, \A x \in s : s \ {x} \in P PROVE s \in P
  <2>1. PICK x \in s : TRUE
    BY <1>2
  <2>2. IsFiniteSet(s) /\ Ints(f, s) /\ Ints(h, s)
    BY Sizes DEF Ints
  <2>3. /\ SumFunctionOnSet(f, s) = f[x] + SumFunctionOnSet(f, s \ {x})
        /\ SumFunctionOnSet(f, s \ {x}) \in Int
    BY <2>2, SumTake
  <2>4. SumFunctionOnSet(h, s) = h[x] + SumFunctionOnSet(h, s \ {x})
    BY <2>2, SumTake
  <2>5. /\ SumFunctionOnSet(h, s \ {x}) = k * SumFunctionOnSet(f, s \ {x})
        /\ h[x] = k * f[x] /\ f[x] \in Int
    BY <1>2, <2>2 DEF Ints
  <2>6. \A a, b \in Int : k * (a + b) = k * a + k * b
    OBVIOUS
  <2> QED BY <2>3, <2>4, <2>5, <2>6
<1>3. \A s \in SUBSET S : s \in P
  <2> HIDE DEF P
  <2> QED BY <1>1, <1>2, SetInduct
<1> QED BY <1>3

LEMMA SumNat ==
  ASSUME NEW S, IsFiniteSet(S), NEW f, \A x \in S : f[x] \in Nat
  PROVE  SumFunctionOnSet(f, S) \in Nat /\ \A x \in S : f[x] <= SumFunctionOnSet(f, S)
<1> DEFINE P == {s \in SUBSET S : SumFunctionOnSet(f, s) \in Nat}
<1>0. \A s \in SUBSET S : IsFiniteSet(s) /\ Ints(f, s)
  BY Sizes DEF Ints
<1>1. {} \in P
  BY SumNone
<1>2. ASSUME NEW s \in SUBSET S, s # {}, \A x \in s : s \ {x} \in P PROVE s \in P
  <2>1. PICK x \in s : TRUE
    BY <1>2
  <2>2. SumFunctionOnSet(f, s) = f[x] + SumFunctionOnSet(f, s \ {x})
    BY <1>0, SumTake
  <2> QED BY <1>2, <2>2
<1>3. \A s \in SUBSET S : s \in P
  <2> HIDE DEF P
  <2> QED BY <1>1, <1>2, SetInduct
<1>4. ASSUME NEW x \in S PROVE f[x] <= SumFunctionOnSet(f, S)
  <2>1. SumFunctionOnSet(f, S) = f[x] + SumFunctionOnSet(f, S \ {x})
    BY <1>0, SumTake
  <2>2. SumFunctionOnSet(f, S \ {x}) \in Nat
    BY <1>3
  <2> QED BY <2>1, <2>2
<1> QED BY <1>3, <1>4

LEMMA SumZero ==
  ASSUME NEW S, IsFiniteSet(S), NEW f, \A x \in S : f[x] = 0
  PROVE  SumFunctionOnSet(f, S) = 0
<1> DEFINE P == {s \in SUBSET S : SumFunctionOnSet(f, s) = 0}
<1>1. {} \in P
  BY SumNone
<1>2. ASSUME NEW s \in SUBSET S, s # {}, \A x \in s : s \ {x} \in P PROVE s \in P
  <2>1. PICK x \in s : TRUE
    BY <1>2
  <2>2. IsFiniteSet(s) /\ Ints(f, s)
    BY Sizes DEF Ints
  <2>3. SumFunctionOnSet(f, s) = f[x] + SumFunctionOnSet(f, s \ {x})
    BY <2>2, SumTake
  <2> QED BY <1>2, <2>3
<1>3. \A s \in SUBSET S : s \in P
  <2> HIDE DEF P
  <2> QED BY <1>1, <1>2, SetInduct
<1> QED BY <1>3

(* Where all the others are 0, the sum is the value of the one.            *)
LEMMA SumOne ==
  ASSUME NEW S, IsFiniteSet(S), NEW x \in S, NEW f, f[x] \in Int,
         \A y \in S \ {x} : f[y] = 0
  PROVE  SumFunctionOnSet(f, S) = f[x]
<1>1. IsFiniteSet(S \ {x}) /\ Ints(f, S)
  BY FS_RemoveElement DEF Ints
<1>2. SumFunctionOnSet(f, S \ {x}) = 0
  BY <1>1, SumZero
<1>3. SumFunctionOnSet(f, S) = f[x] + SumFunctionOnSet(f, S \ {x})
  BY <1>1, SumTake
<1> QED BY <1>2, <1>3

LEMMA SumUnion ==
  ASSUME NEW S, IsFiniteSet(S), NEW T, IsFiniteSet(T), S \cap T = {}, NEW f, Ints(f, S \cup T)
  PROVE  SumFunctionOnSet(f, S \cup T) = SumFunctionOnSet(f, S) + SumFunctionOnSet(f, T)
<1>0. \A s \in SUBSET S : IsFiniteSet(s \cup T) /\ Ints(f, s \cup T)
  <2> SUFFICES ASSUME NEW s \in SUBSET S PROVE IsFiniteSet(s \cup T) /\ Ints(f, s \cup T)
    OBVIOUS
  <2>1. IsFiniteSet(s)
    BY Sizes
  <2> QED BY <2>1, FS_Union DEF Ints
<1>1. \A s \in SUBSET S : IsFiniteSet(s) /\ Ints(f, s)
  BY Sizes DEF Ints
<1>2. IsFiniteSet(T) /\ Ints(f, T)
  BY DEF Ints
<1>3. SumFunctionOnSet(f, T) \in Int
  BY <1>2, SumInt
<1> DEFINE P == {s \in SUBSET S : SumFunctionOnSet(f, s \cup T)
                                    = SumFunctionOnSet(f, s) + SumFunctionOnSet(f, T)}
<1>4. {} \in P
  <2>1. {} \cup T = T
    OBVIOUS
  <2> QED BY <1>3, <2>1, SumNone
<1>5. ASSUME NEW s \in SUBSET S, s # {}, \A x \in s : s \ {x} \in P PROVE s \in P
  <2>1. PICK x \in s : TRUE
    BY <1>5
  <2>2. x \in s \cup T /\ (s \cup T) \ {x} = (s \ {x}) \cup T
    OBVIOUS
  <2>3. SumFunctionOnSet(f, s \cup T) = f[x] + SumFunctionOnSet(f, (s \cup T) \ {x})
    BY ONLY <1>0, <2>2, SumTake, s \in SUBSET S
  <2>4. /\ SumFunctionOnSet(f, s) = f[x] + SumFunctionOnSet(f, s \ {x})
        /\ SumFunctionOnSet(f, s \ {x}) \in Int
    BY <1>1, SumTake
  <2>5. SumFunctionOnSet(f, (s \ {x}) \cup T)
          = SumFunctionOnSet(f, s \ {x}) + SumFunctionOnSet(f, T)
    BY <1>5
  <2>6. f[x] \in Int
    BY <2>4, <1>1 DEF Ints
  <2>7. SumFunctionOnSet(f, s \cup T) = SumFunctionOnSet(f, s) + SumFunctionOnSet(f, T)
    <3>1. PICK u : u = s \cup T
      OBVIOUS
    <3>2. SumFunctionOnSet(f, u) = f[x] + SumFunctionOnSet(f, (s \ {x}) \cup T)
      BY ONLY <2>2, <2>3, <3>1
    <3>3. SumFunctionOnSet(f, u) = SumFunctionOnSet(f, s) + SumFunctionOnSet(f, T)
      BY ONLY <1>3, <2>4, <2>5, <2>6, <3>2
    <3> QED BY ONLY <3>1, <3>3
  <2> QED BY <2>7
<1>6. \A s \in SUBSET S : s \in P
  <2> HIDE DEF P
  <2> QED BY <1>4, <1>5, SetInduct
<1> QED BY <1>6

(* Items of several classes, class after class.                            *)
OfClass(I, class, v, r) == [i \in I |-> IF class[i] = r THEN v[i] ELSE 0]
ClassSums(I, R, class, v) == [r \in R |-> SumFunctionOnSet(OfClass(I, class, v, r), I)]

LEMMA SumClasses ==
  ASSUME NEW I, IsFiniteSet(I), NEW R, IsFiniteSet(R), NEW class,
         \A i \in I : class[i] \in R, NEW v, Ints(v, I)
  PROVE  SumFunctionOnSet(v, I) = SumFunctionOnSet(ClassSums(I, R, class, v), R)
<1> DEFINE F(s) == [r \in R |-> SumFunctionOnSet(OfClass(I, class, v, r), s)]
           P == {s \in SUBSET I : SumFunctionOnSet(v, s) = SumFunctionOnSet(F(s), R)}
<1>0. ASSUME NEW s \in SUBSET I, NEW r \in R
      PROVE  IsFiniteSet(s) /\ Ints(v, s) /\ Ints(OfClass(I, class, v, r), s)
  <2>1. IsFiniteSet(s)
    BY Sizes
  <2> QED BY <2>1 DEF Ints, OfClass
<1>1. \A s \in SUBSET I : Ints(F(s), R)
  <2> SUFFICES ASSUME NEW s \in SUBSET I, NEW r \in R PROVE F(s)[r] \in Int
    BY DEF Ints
  <2>1. SumFunctionOnSet(OfClass(I, class, v, r), s) \in Int
    BY <1>0, SumInt
  <2> QED BY <2>1
<1>2. {} \in P
  <2>1. \A r \in R : F({})[r] = 0
    BY SumNone
  <2>2. SumFunctionOnSet(F({}), R) = 0
    <3> HIDE DEF F
    <3> QED BY <2>1, SumZero
  <2> QED BY <2>2, SumNone
<1>3. ASSUME NEW s \in SUBSET I, s # {}, \A x \in s : s \ {x} \in P PROVE s \in P
  <2>1. PICK x \in s : TRUE
    BY <1>3
  <2>2. PICK t : t = s \ {x}
    OBVIOUS
  <2>3. t \in SUBSET I /\ SumFunctionOnSet(v, t) = SumFunctionOnSet(F(t), R)
    BY <1>3, <2>2
  <2>4. SumFunctionOnSet(v, s) = v[x] + SumFunctionOnSet(v, t)
    <3>1. IsFiniteSet(s) /\ Ints(v, s)
      BY Sizes DEF Ints
    <3> QED BY ONLY <2>2, <3>1, SumTake, x \in s
  <2>5. ASSUME NEW r \in R
        PROVE  F(s)[r] = (IF r = class[x] THEN v[x] ELSE 0) + F(t)[r]
    <3>1. PICK o : o = OfClass(I, class, v, r)
      OBVIOUS
    <3>2. IsFiniteSet(s) /\ Ints(o, s)
      BY <1>0, <3>1
    <3>3. SumFunctionOnSet(o, s) = o[x] + SumFunctionOnSet(o, t)
      BY ONLY <2>2, <3>2, SumTake, x \in s
    <3>4. o[x] = IF r = class[x] THEN v[x] ELSE 0
      BY <3>1 DEF OfClass
    <3> QED BY <3>1, <3>3, <3>4
  <2>6. class[x] \in R /\ v[x] \in Int
    BY DEF Ints
  <2> DEFINE d == [r \in R |-> IF r = class[x] THEN v[x] ELSE 0]
  <2>7. Ints(d, R) /\ SumFunctionOnSet(d, R) = v[x]
    <3>1. Ints(d, R)
      BY <2>6 DEF Ints
    <3>2. d[class[x]] = v[x] /\ \A r \in R \ {class[x]} : d[r] = 0
      BY <2>6
    <3> HIDE DEF d
    <3>3. SumFunctionOnSet(d, R) = d[class[x]]
      BY <2>6, <3>2, SumOne
    <3> QED BY <3>1, <3>2, <3>3
  <2>8. SumFunctionOnSet(F(s), R) = SumFunctionOnSet(d, R) + SumFunctionOnSet(F(t), R)
    <3>1. PICK fs, ft : fs = F(s) /\ ft = F(t)
      OBVIOUS
    <3>2. \A r \in R : fs[r] = d[r] + ft[r]
      BY <2>5, <3>1
    <3>3. Ints(ft, R)
      BY <1>1, <2>3, <3>1
    <3> HIDE DEF d, F
    <3>4. SumFunctionOnSet(fs, R) = SumFunctionOnSet(d, R) + SumFunctionOnSet(ft, R)
      BY <2>7, <3>2, <3>3, SumPlus
    <3> QED BY <3>1, <3>4
  <2> HIDE DEF F, d
  <2> QED BY <2>3, <2>4, <2>7, <2>8
<1>4. I \in P
  <2>1. \A s \in SUBSET I : s \in P
    <3> HIDE DEF P
    <3> QED BY <1>2, <1>3, SetInduct
  <2> QED BY <2>1
<1>5. F(I) = ClassSums(I, R, class, v)
  BY DEF ClassSums
<1> QED BY <1>4, <1>5

(* The n-th smallest of a set of numbers.                                  *)
Below(S, x) == {y \in S : y < x}

LEMMA RankIs ==
  ASSUME NEW S \in SUBSET Int, IsFiniteSet(S)
  PROVE  /\ \A x \in S : Cardinality(Below(S, x)) + 1 \in 1 .. Cardinality(S)
         /\ \A x, y \in S : x < y => Cardinality(Below(S, x)) < Cardinality(Below(S, y))
         /\ \A i \in 1 .. Cardinality(S) : \E x \in S : Cardinality(Below(S, x)) = i - 1
<1> DEFINE n == Cardinality(S)
           R == {p \in S \X S : p[1] < p[2]}
<1>1. n \in Nat
  BY FS_CardinalityType
<1>2. ASSUME NEW x \in S
      PROVE  IsFiniteSet(Below(S, x)) /\ Cardinality(Below(S, x)) \in 0 .. n - 1
  <2>1. Below(S, x) \subseteq S \ {x}
    BY DEF Below
  <2>2. IsFiniteSet(S \ {x}) /\ Cardinality(S \ {x}) = n - 1
    BY FS_RemoveElement
  <2>3. IsFiniteSet(Below(S, x)) /\ Cardinality(Below(S, x)) <= n - 1
    BY <2>1, <2>2, FS_Subset
  <2> QED BY <1>1, <2>3, FS_CardinalityType
<1>3. ASSUME NEW x \in S, NEW y \in S, x < y
      PROVE  Cardinality(Below(S, x)) < Cardinality(Below(S, y))
  <2>1. Below(S, x) \subseteq Below(S, y) \ {x} /\ x \in Below(S, y)
    <3>1. x \in Int /\ y \in Int /\ \A z \in S : z \in Int
      OBVIOUS
    <3>2. ASSUME NEW z \in S, z < x PROVE z < y /\ z # x
      BY <1>3, <3>1, <3>2
    <3> QED BY <1>3, <3>2 DEF Below
  <2>2. IsFiniteSet(Below(S, y) \ {x}) /\ Cardinality(Below(S, y) \ {x}) = Cardinality(Below(S, y)) - 1
    BY <1>2, <2>1, FS_RemoveElement
  <2>3. Cardinality(Below(S, x)) <= Cardinality(Below(S, y)) - 1
    BY <2>1, <2>2, FS_Subset
  <2> QED BY <1>1, <1>2, <2>3
<1>4. ASSUME NEW i \in 1 .. n PROVE \E x \in S : Cardinality(Below(S, x)) = i - 1
  <2>1. \A x, y \in S : <<x, y>> \in R <=> x < y
    OBVIOUS
  <2>2. \A x \in S : Before(R, S, x) = Below(S, x)
    BY <2>1 DEF Before, Below
  <2>3. /\ \A x, y \in S : x = y \/ <<x, y>> \in R \/ <<y, x>> \in R
        /\ \A x \in S : <<x, x>> \notin R
        /\ \A x, y, z \in S : <<x, y>> \in R /\ <<y, z>> \in R => <<x, z>> \in R
    BY <2>1
  <2> HIDE DEF R
  <2>4. \E x \in S : Cardinality(Before(R, S, x)) = i - 1
    BY <2>3, Ranks, ZenonT(60)
  <2> QED BY <2>2, <2>4
<1>5. \A x \in S : Cardinality(Below(S, x)) + 1 \in 1 .. n
  BY <1>1, <1>2
<1> QED BY <1>3, <1>4, <1>5
=============================================================================
