------------------------- MODULE SlottedAlohaProofs -------------------------
(***************************************************************************)
(* The invariants of SlottedAloha for every number of terminals, slots,    *)
(* retries and losses.  IInv says of each terminal that                    *)
(*   - its three lists, what was acknowledged and what was given up share  *)
(*     the fragments stored so far (Apart): schedule only moves them;      *)
(*   - while no full fifo cut a burst, the id of a packet or of a copy of  *)
(*     it is the number of its burst (Named) and the ids on their way to   *)
(*     the terminal are those of fragments the NCC accepted (Told).        *)
(* First come the lists: what Those, SubSeq and RemoveAt keep of the       *)
(* fragments of a list, and that it holds each of them once.               *)
(***************************************************************************)
EXTENDS SlottedAloha, LoopLemmas, SequenceTheorems, TLAPS

-----------------------------------------------------------------------------
(* Lists                                                                   *)

(* r has the items of the first n of s that are in S: the k-th is s[h[k]]. *)
Selects(s, S, n, r, h) ==
  /\ h \in [1 .. Len(r) -> 1 .. n]
  /\ \A k \in 1 .. Len(r) : r[k] = s[h[k]] /\ s[h[k]] \in S
  /\ \A k, l \in 1 .. Len(r) : k < l => h[k] < h[l]
  /\ \A i \in 1 .. n : s[i] \in S => \E k \in 1 .. Len(r) : h[k] = i

LEMMA OneMoreIsSelected ==
  ASSUME NEW X, NEW s \in Seq(X), NEW S, NEW n \in 1 .. Len(s), NEW r \in Seq(X), NEW h,
         Selects(s, S, n - 1, r, h)
  PROVE  LET q == IF s[n] \in S THEN Append(r, s[n]) ELSE r
         IN q \in Seq(X) /\ \E g : Selects(s, S, n, q, g)
<1>1. CASE s[n] \in S
  <2> DEFINE q == Append(r, s[n])
             g == [k \in 1 .. Len(r) + 1 |-> IF k = Len(r) + 1 THEN n ELSE h[k]]
  <2>1. /\ q \in Seq(X) /\ Len(q) = Len(r) + 1 /\ q[Len(r) + 1] = s[n] /\ Len(r) \in Nat
        /\ \A k \in 1 .. Len(r) : q[k] = r[k]
    BY AppendProperties
  <2> HIDE DEF q
  <2>2. \A k \in 1 .. Len(r) : h[k] \in 1 .. n - 1 /\ g[k] = h[k] /\ k # Len(r) + 1
    <3> SUFFICES ASSUME NEW k \in 1 .. Len(r)
                 PROVE  h[k] \in 1 .. n - 1 /\ g[k] = h[k] /\ k # Len(r) + 1
      OBVIOUS
    <3>1. k # Len(r) + 1 /\ k \in 1 .. Len(r) + 1
      BY <2>1
    <3>2. h[k] \in 1 .. n - 1
      BY DEF Selects
    <3> QED BY <3>1, <3>2
  <2>3. g[Len(r) + 1] = n /\ DOMAIN g = 1 .. Len(r) + 1
    BY <2>1
  <2> HIDE DEF g
  <2>4. \A k \in 1 .. Len(q) : k \in 1 .. Len(r) \/ k = Len(r) + 1
    BY <2>1
  <2>5. g \in [1 .. Len(q) -> 1 .. n]
    <3>1. \A k \in 1 .. Len(q) : g[k] \in 1 .. n
      BY <2>1, <2>2, <2>3, <2>4
    <3>2. g = [k \in DOMAIN g |-> g[k]]
      BY DEF g
    <3> QED BY <2>1, <2>3, <3>1, <3>2
  <2>6. \A k \in 1 .. Len(q) : q[k] = s[g[k]] /\ s[g[k]] \in S
    BY <1>1, <2>1, <2>2, <2>3, <2>4 DEF Selects
  <2>7. \A k, l \in 1 .. Len(q) : k < l => g[k] < g[l]
    <3> SUFFICES ASSUME NEW k \in 1 .. Len(q), NEW l \in 1 .. Len(q), k < l PROVE g[k] < g[l]
      OBVIOUS
    <3>1. k \in 1 .. Len(r)
      BY <2>1
    <3>2. CASE l \in 1 .. Len(r)
      BY <2>2, <3>1, <3>2 DEF Selects
    <3>3. CASE l = Len(r) + 1
      BY <2>2, <2>3, <3>1, <3>3, SMTT(30)
    <3> QED BY <2>4, <3>2, <3>3
  <2>8. \A i \in 1 .. n : s[i] \in S => \E k \in 1 .. Len(q) : g[k] = i
    <3> SUFFICES ASSUME NEW i \in 1 .. n, s[i] \in S PROVE \E k \in 1 .. Len(q) : g[k] = i
      OBVIOUS
    <3>1. CASE i = n
      BY <2>1, <2>3, <3>1
    <3>2. CASE i # n
      <4>1. PICK k \in 1 .. Len(r) : h[k] = i
        BY <3>2 DEF Selects
      <4>2. k \in 1 .. Len(q) /\ g[k] = i
        BY <2>1, <2>2, <4>1
      <4> QED BY <4>2
    <3> QED BY <3>1, <3>2
  <2>9. Selects(s, S, n, q, g)
    BY <2>5, <2>6, <2>7, <2>8 DEF Selects
  <2> QED BY <1>1, <2>1, <2>9 DEF q
<1>2. CASE s[n] \notin S
  <2>1. Selects(s, S, n, r, h)
    <3>1. h \in [1 .. Len(r) -> 1 .. n]
      BY DEF Selects
    <3>2. \A i \in 1 .. n : s[i] \in S => i \in 1 .. n - 1
      BY <1>2
    <3> QED BY <3>1, <3>2 DEF Selects
  <2> QED BY <1>2, <2>1
<1> QED BY <1>1, <1>2

LEMMA ThoseAre ==
  ASSUME NEW X, NEW s \in Seq(X), NEW S
  PROVE  Those(s, S) \in Seq(X) /\ \E h : Selects(s, S, Len(s), Those(s, S), h)
<1> DEFINE n == Len(s)
           Add(i, x) == IF s[i] \in S THEN Append(x, s[i]) ELSE x
           step == [i \in 1 .. n |-> [x \in Seq(X) |-> Add(i, x)]]
           those[i \in 0 .. n] ==
             IF i = 0 THEN << >>
             ELSE IF s[i] \in S THEN Append(those[i - 1], s[i]) ELSE those[i - 1]
<1>1. n \in Nat /\ << >> \in Seq(X) /\ \A i \in 1 .. n : s[i] \in X
  BY EmptySeq
<1>2. step \in [1 .. n -> [Seq(X) -> Seq(X)]]
  BY <1>1, AppendProperties
<1>3. \A i \in 1 .. n : \A x \in Seq(X) : step[i][x] = Add(i, x)
  OBVIOUS
<1>4. PICK f \in [0 .. n -> Seq(X)] : Loop(f, n, << >>, step)
  <2> HIDE DEF step, n
  <2> QED BY <1>1, <1>2, Iterates
<1> HIDE DEF step
<1>5. f = [i \in 0 .. n |-> IF i = 0 THEN << >> ELSE Add(i, f[i - 1])]
  <2> HIDE DEF n, Add
  <2>1. ASSUME NEW i \in 0 .. n PROVE f[i] = IF i = 0 THEN << >> ELSE Add(i, f[i - 1])
    <3>1. CASE i = 0
      BY <1>4, <3>1 DEF Loop
    <3>2. CASE i # 0
      <4>1. i \in 1 .. n /\ i - 1 \in 0 .. n
        BY <1>1, <3>2
      <4>2. f[i] = step[i][f[i - 1]] /\ f[i - 1] \in Seq(X)
        BY <1>4, <4>1 DEF Loop
      <4> QED BY <1>3, <3>2, <4>1, <4>2
    <3> QED BY <3>1, <3>2
  <2> QED BY <2>1
<1>6. those = [i \in 0 .. n |-> IF i = 0 THEN << >> ELSE Add(i, those[i - 1])]
  BY <1>5
<1> HIDE DEF those
<1>7. those[0] = << >> /\ \A i \in 1 .. n : those[i] = Add(i, those[i - 1])
  <2> HIDE DEF n, Add
  <2>1. 0 \in 0 .. n /\ \A i \in 1 .. n : i \in 0 .. n /\ i # 0
    BY <1>1
  <2> QED BY <1>6, <2>1
<1> DEFINE Good(i) == those[i] \in Seq(X) /\ \E h : Selects(s, S, i, those[i], h)
           Q == {i \in 0 .. n : Good(i)}
<1>8. Good(0)
  <2>1. Selects(s, S, 0, << >>, << >>)
    BY DEF Selects
  <2> QED BY <1>1, <1>7, <2>1
<1>9. ASSUME NEW i \in 1 .. n, Good(i - 1) PROVE Good(i)
  <2>1. PICK h : Selects(s, S, i - 1, those[i - 1], h)
    BY <1>9
  <2>2. Add(i, those[i - 1]) \in Seq(X) /\ \E g : Selects(s, S, i, Add(i, those[i - 1]), g)
    BY <1>1, <1>9, <2>1, OneMoreIsSelected, ZenonT(60)
  <2> HIDE DEF Add
  <2> QED BY <1>7, <2>2
<1>10. Good(n)
  <2> HIDE DEF Good, n
  <2>1. 0 \in Q /\ \A i \in 1 .. n : i - 1 \in Q => i \in Q
    BY <1>1, <1>8, <1>9
  <2> HIDE DEF Q
  <2>2. \A i \in 0 .. n : i \in Q
    BY <1>1, <2>1, Induct
  <2>3. n \in Q
    BY <1>1, <2>2
  <2> QED BY <2>3 DEF Q
<1>11. Those(s, S) = those[n]
  BY DEF Those, those
<1> QED BY <1>10, <1>11

(* A function on 1 .. n is a list. *)
LEMMA IsList ==
  ASSUME NEW X, NEW n \in Nat, NEW f \in [1 .. n -> X]
  PROVE  f \in Seq(X) /\ Len(f) = n /\ DOMAIN f = 1 .. n
OBVIOUS

LEMMA ItemsOf ==
  ASSUME NEW X, NEW s \in Seq(X)
  PROVE  /\ DOMAIN s = 1 .. Len(s) /\ Len(s) \in Nat
         /\ ToSet(s) = {s[i] : i \in 1 .. Len(s)}
         /\ ToSet(s) \subseteq X
BY LenProperties DEF ToSet

(* What fragments a list holds, and that it holds none twice. *)
Once(s) == \A i, j \in 1 .. Len(s) : Fragment(s[i]) = Fragment(s[j]) => i = j
HasFragment(s, g) == \E i \in 1 .. Len(s) : Fragment(s[i]) = g

LEMMA FragmentsAre ==
  ASSUME NEW X, NEW s \in Seq(X), NEW g
  PROVE  g \in Fragments(s) <=> HasFragment(s, g)
<1>1. ToSet(s) = {s[i] : i \in 1 .. Len(s)}
  BY ItemsOf
<1> HIDE DEF ToSet
<1> QED BY <1>1 DEF Fragments, HasFragment

(* A list holds each fragment once just when its two parts do and have none *)
(* in common.                                                               *)
Halves(s, a, b) ==
  /\ Once(s) <=> Once(a) /\ Once(b) /\ Fragments(a) \cap Fragments(b) = {}
  /\ Fragments(s) = Fragments(a) \cup Fragments(b)

LEMMA TwoLists ==
  ASSUME NEW X, NEW a \in Seq(X), NEW b \in Seq(X)
  PROVE  a \o b \in Seq(X) /\ Halves(a \o b, a, b)
<1> DEFINE s == a \o b
           m == Len(a)
           n == Len(b)
<1>1. /\ s \in Seq(X) /\ Len(s) = m + n /\ m \in Nat /\ n \in Nat
      /\ \A i \in 1 .. m + n : s[i] = IF i <= m THEN a[i] ELSE b[i - m]
  BY ConcatProperties, LenProperties
<1>2. /\ \A i \in 1 .. m : i \in 1 .. Len(s) /\ s[i] = a[i]
      /\ \A j \in 1 .. n : m + j \in 1 .. Len(s) /\ s[m + j] = b[j]
  <2> HIDE DEF s, m, n
  <2>1. ASSUME NEW j \in 1 .. n PROVE m + j \in 1 .. Len(s) /\ s[m + j] = b[j]
    <3>1. m + j \in 1 .. m + n /\ ~(m + j <= m) /\ (m + j) - m = j
      BY <1>1
    <3> QED BY <1>1, <3>1
  <2> QED BY <1>1, <2>1
<1>3. \A i \in 1 .. Len(s) : i \in 1 .. m \/ \E j \in 1 .. n : i = m + j
  <2> HIDE DEF s, m, n
  <2>1. ASSUME NEW i \in 1 .. Len(s), i \notin 1 .. m PROVE \E j \in 1 .. n : i = m + j
    <3>1. i - m \in 1 .. n /\ i = m + (i - m)
      BY <1>1, <2>1
    <3> QED BY <3>1
  <2> QED BY <2>1
<1> HIDE DEF s
<1>4. \A g : HasFragment(s, g) <=> HasFragment(a, g) \/ HasFragment(b, g)
  <2> SUFFICES ASSUME NEW g PROVE HasFragment(s, g) <=> HasFragment(a, g) \/ HasFragment(b, g)
    OBVIOUS
  <2>1. ASSUME HasFragment(s, g) PROVE HasFragment(a, g) \/ HasFragment(b, g)
    <3>1. PICK i \in 1 .. Len(s) : Fragment(s[i]) = g
      BY <2>1 DEF HasFragment
    <3> QED BY <1>2, <1>3, <3>1 DEF HasFragment
  <2>2. ASSUME HasFragment(a, g) \/ HasFragment(b, g) PROVE HasFragment(s, g)
    BY <1>2, <2>2 DEF HasFragment
  <2> QED BY <2>1, <2>2
<1>5. /\ \A g : g \in Fragments(s) <=> HasFragment(s, g)
      /\ \A g : g \in Fragments(a) <=> HasFragment(a, g)
      /\ \A g : g \in Fragments(b) <=> HasFragment(b, g)
  BY <1>1, FragmentsAre
<1>6. Fragments(s) = Fragments(a) \cup Fragments(b)
  BY <1>4, <1>5
<1>7. ASSUME Once(s) PROVE Once(a) /\ Once(b) /\ Fragments(a) \cap Fragments(b) = {}
  <2> HIDE DEF m, n
  <2>1. Once(a)
    BY <1>2, <1>7 DEF Once, m
  <2>2. Once(b)
    <3> SUFFICES ASSUME NEW i \in 1 .. n, NEW j \in 1 .. n, Fragment(b[i]) = Fragment(b[j])
                 PROVE  i = j
      BY DEF Once, n
    <3>1. m + i = m + j
      BY <1>2, <1>7 DEF Once
    <3> QED BY <1>1, <3>1
  <2>3. ASSUME NEW g \in Fragments(a) \cap Fragments(b) PROVE FALSE
    <3>1. HasFragment(a, g) /\ HasFragment(b, g)
      BY <1>5
    <3>2. PICK i \in 1 .. m : Fragment(a[i]) = g
      BY <3>1 DEF HasFragment, m
    <3>3. PICK j \in 1 .. n : Fragment(b[j]) = g
      BY <3>1 DEF HasFragment, n
    <3>4. i = m + j
      BY <1>2, <1>7, <3>2, <3>3 DEF Once
    <3> QED BY <1>1, <3>4
  <2> QED BY <2>1, <2>2, <2>3
<1>8. ASSUME Once(a), Once(b), Fragments(a) \cap Fragments(b) = {} PROVE Once(s)
  <2> HIDE DEF m, n
  <2> SUFFICES ASSUME NEW i \in 1 .. Len(s), NEW j \in 1 .. Len(s),
                      Fragment(s[i]) = Fragment(s[j])
               PROVE  i = j
    BY DEF Once
  <2>0. \A k \in 1 .. m, l \in 1 .. n : Fragment(a[k]) # Fragment(b[l])
    <3> SUFFICES ASSUME NEW k \in 1 .. m, NEW l \in 1 .. n, Fragment(a[k]) = Fragment(b[l])
                 PROVE  FALSE
      OBVIOUS
    <3>1. HasFragment(a, Fragment(a[k])) /\ HasFragment(b, Fragment(a[k]))
      BY DEF HasFragment, m, n
    <3> QED BY <1>5, <1>8, <3>1
  <2>1. CASE i \in 1 .. m /\ j \in 1 .. m
    BY <1>2, <1>8, <2>1 DEF Once, m
  <2>2. CASE i \in 1 .. m /\ j \notin 1 .. m
    BY <1>2, <1>3, <2>0, <2>2
  <2>3. CASE i \notin 1 .. m /\ j \in 1 .. m
    BY <1>2, <1>3, <2>0, <2>3
  <2>4. CASE i \notin 1 .. m /\ j \notin 1 .. m
    <3>1. PICK k \in 1 .. n : i = m + k
      BY <1>3, <2>4
    <3>2. PICK l \in 1 .. n : j = m + l
      BY <1>3, <2>4
    <3>3. k = l
      BY <1>2, <1>8, <3>1, <3>2 DEF Once, n
    <3> QED BY <3>1, <3>2, <3>3
  <2> QED BY <2>1, <2>2, <2>3, <2>4
<1>9. Halves(s, a, b)
  BY <1>6, <1>7, <1>8 DEF Halves
<1> QED BY <1>1, <1>9 DEF s

LEMMA SplitAt ==
  ASSUME NEW X, NEW s \in Seq(X), NEW k \in 0 .. Len(s)
  PROVE  LET a == SubSeq(s, 1, k)
             b == SubSeq(s, k + 1, Len(s))
         IN a \in Seq(X) /\ b \in Seq(X) /\ a \o b = s /\ Halves(s, a, b)
<1> DEFINE a == SubSeq(s, 1, k)
           b == SubSeq(s, k + 1, Len(s))
<1>1. Len(s) \in Nat /\ k \in Nat /\ k <= Len(s) /\ \A i \in 1 .. Len(s) : s[i] \in X
  BY LenProperties
<1>2. a \in Seq(X)
  BY <1>1, SubSeqProperties
<1>3. b \in Seq(X)
  BY <1>1, SubSeqProperties
<1>4. a \o b = s
  <2>1. a \o b = SubSeq(s, 1, Len(s))
    <3>1. 1 \in 1 .. Len(s) + 1 /\ k \in 1 - 1 .. Len(s) /\ Len(s) \in k .. Len(s)
      BY <1>1
    <3> QED BY <3>1, ConcatAdjacentSubSeq
  <2> QED BY <2>1, SubSeqFull
<1> HIDE DEF a, b
<1>5. Halves(s, a, b)
  BY <1>2, <1>3, <1>4, TwoLists
<1> QED BY <1>2, <1>3, <1>4, <1>5 DEF a, b

LEMMA FirstOfTwo ==
  ASSUME NEW X, NEW a \in Seq(X), NEW b \in Seq(X), NEW n \in 0 .. Len(a) + Len(b)
  PROVE  SubSeq(a \o b, 1, n) = IF n <= Len(a) THEN SubSeq(a, 1, n)
                                ELSE a \o SubSeq(b, 1, n - Len(a))
<1> DEFINE s == a \o b
           r == SubSeq(s, 1, n)
           q == IF n <= Len(a) THEN SubSeq(a, 1, n) ELSE a \o SubSeq(b, 1, n - Len(a))
<1>1. /\ Len(a) \in Nat /\ Len(b) \in Nat /\ n \in Nat
      /\ \A i \in 1 .. Len(a) : a[i] \in X
      /\ \A i \in 1 .. Len(b) : b[i] \in X
      /\ s \in Seq(X) /\ Len(s) = Len(a) + Len(b)
      /\ \A i \in 1 .. Len(a) + Len(b) : s[i] = IF i <= Len(a) THEN a[i] ELSE b[i - Len(a)]
  BY LenProperties, ConcatProperties
<1> HIDE DEF s
<1>2. \A i \in 1 .. n : s[i] \in X /\ i \in 1 .. Len(a) + Len(b)
  <2>1. \A i \in 1 .. Len(s) : s[i] \in X
    BY <1>1, LenProperties
  <2> QED BY <1>1, <2>1
<1>3. r \in Seq(X) /\ Len(r) = n /\ \A i \in 1 .. n : r[i] = s[i]
  BY <1>1, <1>2, SubSeqProperties
<1>4. q \in Seq(X) /\ Len(q) = n /\ \A i \in 1 .. n : q[i] = s[i]
  <2>1. CASE n <= Len(a)
    <3> DEFINE u == SubSeq(a, 1, n)
    <3>0. \A i \in 1 .. n : a[i] \in X
      BY <1>1, <2>1
    <3>1. \A i \in 1 .. n : s[i] = a[i]
      BY <1>1, <2>1
    <3>2. u \in Seq(X) /\ Len(u) = n /\ \A i \in 1 .. n : u[i] = a[i]
      BY <1>1, <3>0, SubSeqProperties
    <3> HIDE DEF u
    <3>3. q = u
      BY <2>1 DEF u
    <3> QED BY <3>1, <3>2, <3>3
  <2>2. CASE ~(n <= Len(a))
    <3> DEFINE u == SubSeq(b, 1, n - Len(a))
    <3>0. n - Len(a) \in Nat /\ n - Len(a) <= Len(b) /\ n - Len(a) >= 1
      BY <1>1, <2>2
    <3>1. u \in Seq(X) /\ Len(u) = n - Len(a) /\ \A i \in 1 .. n - Len(a) : u[i] = b[i]
      BY <1>1, <3>0, SubSeqProperties
    <3> HIDE DEF u
    <3>2. /\ a \o u \in Seq(X) /\ Len(a \o u) = n
          /\ \A i \in 1 .. n : (a \o u)[i] = IF i <= Len(a) THEN a[i] ELSE u[i - Len(a)]
      BY <1>1, <3>0, <3>1, ConcatProperties
    <3>3. \A i \in 1 .. n : (a \o u)[i] = s[i]
      BY <1>1, <1>2, <3>0, <3>1, <3>2
    <3>4. q = a \o u
      BY <2>2 DEF u
    <3> HIDE DEF q
    <3> QED BY <3>2, <3>3, <3>4
  <2> QED BY <2>1, <2>2
<1> HIDE DEF r, q
<1>5. r = q
  BY <1>3, <1>4, SeqEqual
<1> QED BY <1>5 DEF r, q, s

(* Packets that are changed one by one, but not their fragments. *)
LEMMA SameFragments ==
  ASSUME NEW X, NEW s \in Seq(X), NEW Y, NEW r \in Seq(Y), Len(r) = Len(s),
         \A i \in 1 .. Len(s) : Fragment(r[i]) = Fragment(s[i])
  PROVE  (Once(r) <=> Once(s)) /\ Fragments(r) = Fragments(s)
<1>1. \A g : HasFragment(r, g) <=> HasFragment(s, g)
  BY DEF HasFragment
<1>2. /\ \A g : g \in Fragments(s) <=> HasFragment(s, g)
      /\ \A g : g \in Fragments(r) <=> HasFragment(r, g)
  BY FragmentsAre
<1>3. Fragments(r) = Fragments(s)
  BY <1>1, <1>2
<1> QED BY <1>3 DEF Once

(* What is chosen from a list. *)
LEMMA ThoseKeep ==
  ASSUME NEW X, NEW s \in Seq(X), NEW S
  PROVE  /\ Those(s, S) \in Seq(X \cap S)
         /\ Once(s) => Once(Those(s, S))
         /\ Fragments(Those(s, S)) = {Fragment(p) : p \in ToSet(s) \cap S}
<1> DEFINE r == Those(s, S)
<1>1. r \in Seq(X) /\ \E h : Selects(s, S, Len(s), r, h)
  BY ThoseAre
<1>2. PICK h : Selects(s, S, Len(s), r, h)
  BY <1>1
<1> HIDE DEF r
<1>3. \A k \in 1 .. Len(r) : r[k] = s[h[k]] /\ r[k] \in S /\ h[k] \in 1 .. Len(s)
  BY <1>2 DEF Selects
<1>4. r \in Seq(X \cap S)
  <2>1. Len(r) \in Nat /\ r \in [1 .. Len(r) -> X]
    BY <1>1, LenProperties
  <2>2. r \in [1 .. Len(r) -> X \cap S]
    BY <1>3, <2>1
  <2> QED BY <2>1, <2>2, IsList
<1>5. ASSUME Once(s) PROVE Once(r)
  <2> SUFFICES ASSUME NEW k \in 1 .. Len(r), NEW l \in 1 .. Len(r),
                      Fragment(r[k]) = Fragment(r[l])
               PROVE  k = l
    BY DEF Once
  <2>1. h[k] = h[l]
    BY <1>3, <1>5 DEF Once
  <2>2. (k < l => h[k] < h[l]) /\ (l < k => h[l] < h[k])
    BY <1>2 DEF Selects
  <2>3. Len(r) \in Nat /\ h[k] \in Nat
    BY <1>1, <1>3, LenProperties
  <2> QED BY <2>1, <2>2, <2>3
<1>6. \A g : HasFragment(r, g) <=> \E p \in ToSet(s) \cap S : Fragment(p) = g
  <2> SUFFICES ASSUME NEW g PROVE HasFragment(r, g) <=> \E p \in ToSet(s) \cap S : Fragment(p) = g
    OBVIOUS
  <2>0. ToSet(s) = {s[i] : i \in 1 .. Len(s)}
    BY ItemsOf
  <2>1. ASSUME HasFragment(r, g) PROVE \E p \in ToSet(s) \cap S : Fragment(p) = g
    <3>1. PICK k \in 1 .. Len(r) : Fragment(r[k]) = g
      BY <2>1 DEF HasFragment
    <3>2. r[k] \in ToSet(s) \cap S
      BY <1>3, <2>0
    <3> QED BY <3>1, <3>2
  <2>2. ASSUME NEW p \in ToSet(s) \cap S, Fragment(p) = g PROVE HasFragment(r, g)
    <3>1. PICK i \in 1 .. Len(s) : s[i] = p
      BY <2>0
    <3>2. PICK k \in 1 .. Len(r) : h[k] = i
      BY <1>2, <3>1 DEF Selects
    <3> QED BY <1>3, <2>2, <3>1, <3>2 DEF HasFragment
  <2> QED BY <2>1, <2>2
<1>7. Fragments(r) = {Fragment(p) : p \in ToSet(s) \cap S}
  <2>1. \A g : g \in Fragments(r) <=> HasFragment(r, g)
    BY <1>1, FragmentsAre
  <2> QED BY <1>6, <2>1
<1> QED BY <1>4, <1>5, <1>7 DEF r

(* Different packets of a list are different fragments. *)
LEMMA OnceApart ==
  ASSUME NEW X, NEW s \in Seq(X), Once(s), NEW p \in ToSet(s), NEW q \in ToSet(s),
         Fragment(p) = Fragment(q)
  PROVE  p = q
<1>1. ToSet(s) = {s[i] : i \in 1 .. Len(s)}
  BY ItemsOf
<1>2. PICK i \in 1 .. Len(s) : p = s[i]
  BY <1>1
<1>3. PICK j \in 1 .. Len(s) : q = s[j]
  BY <1>1
<1> QED BY <1>2, <1>3 DEF Once

(* A packet taken out of a list. *)
LEMMA TakenOut ==
  ASSUME NEW X, NEW s \in Seq(X), NEW i \in 1 .. Len(s)
  PROVE  /\ RemoveAt(s, i) \in Seq(X)
         /\ Once(s) => /\ Once(RemoveAt(s, i))
                       /\ Fragment(s[i]) \notin Fragments(RemoveAt(s, i))
         /\ Fragments(s) = Fragments(RemoveAt(s, i)) \cup {Fragment(s[i])}
<1> DEFINE a == SubSeq(s, 1, i - 1)
           b == SubSeq(s, i, Len(s))
           c == SubSeq(s, i + 1, Len(s))
           one == <<s[i]>>
<1>1. /\ Len(s) \in Nat /\ i - 1 \in 0 .. Len(s) /\ (i - 1) + 1 = i /\ s[i] \in X
  BY LenProperties
<1>2. a \in Seq(X) /\ b \in Seq(X) /\ Halves(s, a, b)
  BY <1>1, SplitAt
<1>3. one \in Seq(X) /\ Len(one) = 1 /\ one[1] = s[i]
  BY <1>1
<1>4. c \in Seq(X)
  BY <1>1, SplitAt
<1>5. b = one \o c
  BY <1>1, SubSeqRecursiveFirst
<1>6. RemoveAt(s, i) = a \o c
  BY DEF RemoveAt
<1> HIDE DEF a, b, c, one
<1>7. Halves(b, one, c)
  BY <1>3, <1>4, <1>5, TwoLists
<1>8. a \o c \in Seq(X) /\ Halves(a \o c, a, c)
  BY <1>2, <1>4, TwoLists
<1>9. Fragments(one) = {Fragment(s[i])}
  <2>1. \A g : g \in Fragments(one) <=> HasFragment(one, g)
    BY <1>3, FragmentsAre
  <2> QED BY <1>3, <2>1 DEF HasFragment
<1> QED BY <1>2, <1>6, <1>7, <1>8, <1>9 DEF Halves

-----------------------------------------------------------------------------
(* The inductive invariant                                                 *)

(* While no burst was cut, the id of a packet is the number of its burst.  *)
PacketOf(t) == {p \in Packet : ~cut[t] => p.id = p.nb}
CopyOf(t) == {c \in Copy : c.tal = t /\ (~cut[t] => c.id = c.nb)}
Sent == {c \in Copy : c \in CopyOf(c.tal)}

Named ==
  /\ \A t \in Terminals :
       /\ fifo[t] \in Seq(PacketOf(t))
       /\ packets_wait_ack[t] \in Seq(PacketOf(t))
       /\ retransmission_packets[t] \in Seq(PacketOf(t))
       /\ complete[t] \in Seq(Seq(CopyOf(t)))
       /\ up[t] \in Seq(Seq(CopyOf(t)))
  /\ slots \in [Slots -> Seq(Sent)]

(* What the terminal is told, and what it believes, the NCC accepted.      *)
Told(t) == /\ base_id[t] = bursts[t]
           /\ down[t] \in Seq(Seq(accepted[t]))
           /\ acked[t] \subseteq accepted[t]

(* The fragments of t are each in one of its lists, or left in one way.    *)
Given(t) == (0 .. bursts[t] - 1) \X (0 .. PduSize - 1)
Shared(f, w, r, a, d, all) ==
  /\ Once(f) /\ Once(w) /\ Once(r)
  /\ Fragments(f) \cap Fragments(w) = {} /\ Fragments(f) \cap Fragments(r) = {}
  /\ Fragments(w) \cap Fragments(r) = {}
  /\ (Fragments(f) \cup Fragments(w) \cup Fragments(r)) \cap (a \cup d) = {}
  /\ a \cap d = {}
  /\ Fragments(f) \cup Fragments(w) \cup Fragments(r) \cup a \cup d = all
Places(t, all) == Shared(fifo[t], packets_wait_ack[t], retransmission_packets[t],
                         acked[t], dropped[t], all)
Apart(t) == \E all \in SUBSET Given(t) : (~cut[t] => all = Given(t)) /\ Places(t, all)

IInv == /\ TypeOK /\ Named
        /\ \A t \in Terminals : (~cut[t] => Told(t)) /\ Apart(t)

LEMMA Parameters ==
  /\ PduSize \in Nat \ {0} /\ SlotsNumber \in Nat \ {0} /\ Replicas \in Nat \ {0}
  /\ SfPerSaf \in Nat \ {0} /\ FrameSize \in Nat \ {0} /\ Timeout \in Nat \ {0}
  /\ MaxFifo \in Nat /\ MaxRetries \in Nat /\ CwMax \in Nat /\ Multiple \in Nat
  /\ MaxLost \in Nat /\ MaxPackets \in Nat
BY SizesAssumption, PacketsAssumption

LEMMA EmptyFragments == Fragments(<< >>) = {} /\ Once(<< >>)
BY DEF Fragments, ToSet, Once

LEMMA InitInv == Init => IInv
<1> SUFFICES ASSUME Init PROVE IInv
  OBVIOUS
<1> USE DEF Init
<1>1. TypeOK
  <2>1. /\ << >> \in Seq(Packet) /\ << >> \in Seq(Seq(Copy)) /\ << >> \in Seq(Copy)
        /\ << >> \in Seq(Seq(Nat \X (0 .. PduSize - 1)))
    OBVIOUS
  <2>2. 0 \in 0 .. SfPerSaf - 1 /\ 0 \in 0 .. MaxLost
    BY Parameters
  <2>3. TalTypes
    BY <2>1, <2>2 DEF TalTypes
  <2>4. NccTypes
    BY <2>1, <2>2 DEF NccTypes
  <2>5. LinkTypes
    BY <2>1, <2>2 DEF LinkTypes
  <2> QED BY <2>3, <2>4, <2>5 DEF TypeOK
<1>2. Named
  BY DEF Named
<1>3. ASSUME NEW t \in Terminals PROVE (~cut[t] => Told(t)) /\ Apart(t)
  <2>1. Told(t)
    BY <1>3 DEF Told
  <2>2. Given(t) = {}
    BY <1>3 DEF Given
  <2>3. Places(t, {})
    BY <1>3, EmptyFragments DEF Places, Shared
  <2> QED BY <2>1, <2>2, <2>3 DEF Apart
<1> QED BY <1>1, <1>2, <1>3 DEF IInv

-----------------------------------------------------------------------------
(* The terminal                                                            *)

LEMMA PacketsKeep ==
  ASSUME NEW t, NEW p \in PacketOf(t)
  PROVE  /\ Aged(p) \in PacketOf(t) /\ Fragment(Aged(p)) = Fragment(p)
         /\ CanBeRetransmitted(p) => Again(p) \in PacketOf(t)
         /\ Fragment(Again(p)) = Fragment(p)
<1>1. /\ p \in Packet /\ (~cut[t] => p.id = p.nb)
      /\ p.timeout \in 0 .. Timeout /\ p.retries \in 0 .. MaxRetries
  BY DEF PacketOf, Packet
<1>2. Aged(p) \in Packet /\ Aged(p).id = p.id /\ Aged(p).nb = p.nb /\ Aged(p).seq = p.seq
  BY <1>1, Parameters DEF Packet, Aged
<1>3. Again(p).id = p.id /\ Again(p).nb = p.nb /\ Again(p).seq = p.seq
  BY <1>1 DEF Packet, Again
<1>4. ASSUME CanBeRetransmitted(p) PROVE Again(p) \in Packet
  <2>1. p.retries + 1 \in 0 .. MaxRetries /\ Timeout \in 0 .. Timeout
    BY <1>1, <1>4, Parameters DEF CanBeRetransmitted
  <2> QED BY <1>1, <2>1 DEF Packet, Again
<1> QED BY <1>1, <1>2, <1>3, <1>4 DEF PacketOf, Fragment

LEMMA QuotientIs ==
  ASSUME NEW a \in Nat, NEW b \in Nat \ {0}
  PROVE  a \div b \in Nat
OBVIOUS

LEMMA QuotientWithin ==
  ASSUME NEW n \in Nat, NEW b \in Nat \ {0}, NEW m \in Nat, m = n * b, NEW i \in 1 .. m
  PROVE  (i - 1) \div b + 1 \in 1 .. n
OBVIOUS

LEMMA CopiesAre ==
  ASSUME NEW t \in Terminals, NEW packets \in Seq(PacketOf(t)), NEW n \in Nat,
         n = Len(packets), NEW ts \in TimeSlots(n)
  PROVE  Copies(t, packets, ts) \in Seq(CopyOf(t))
<1>1. PICK m \in Nat : m = n * Replicas
  BY Parameters
<1>2. ts \in [1 .. m -> DrawnSlots] /\ Len(ts) = m /\ DOMAIN ts = 1 .. m
  <2>1. ts \in [1 .. m -> DrawnSlots]
    BY <1>1 DEF TimeSlots
  <2> QED BY <2>1, IsList
<1>3. ASSUME NEW i \in 1 .. m
      PROVE  [tal |-> t, id |-> packets[(i - 1) \div Replicas + 1].id,
              seq |-> packets[(i - 1) \div Replicas + 1].seq,
              nb |-> packets[(i - 1) \div Replicas + 1].nb, slot |-> ts[i]] \in CopyOf(t)
  <2>0. Replicas \in Nat \ {0}
    BY Parameters
  <2>1. PICK k \in 1 .. n : k = (i - 1) \div Replicas + 1
    BY <1>1, <2>0, QuotientWithin
  <2>2. k \in 1 .. Len(packets)
    OBVIOUS
  <2>3. packets[k] \in PacketOf(t)
    BY <2>2, ElementOfSeq
  <2>4. packets[k] \in Packet /\ (~cut[t] => packets[k].id = packets[k].nb)
    BY <2>3 DEF PacketOf
  <2>5. ts[i] \in DrawnSlots
    BY <1>2
  <2> QED BY <2>1, <2>4, <2>5 DEF CopyOf, Copy, Packet
<1>4. Copies(t, packets, ts) \in [1 .. m -> CopyOf(t)]
  BY <1>2, <1>3 DEF Copies
<1> QED BY <1>4, IsList

LEMMA FramesAre ==
  ASSUME NEW X, NEW copies \in Seq(X)
  PROVE  Frames(copies) \in Seq(Seq(X))
<1>1. PICK m \in Nat : m = Len(copies)
  BY LenProperties
<1>2. PICK n \in Nat : n = (m + FrameSize - 1) \div FrameSize
  BY Parameters
<1>3. ASSUME NEW k \in 1 .. n
      PROVE  SubSeq(copies, (k - 1) * FrameSize + 1,
                    IF k * FrameSize < m THEN k * FrameSize ELSE m) \in Seq(X)
  <2>1. PICK a \in Nat \ {0} : a = (k - 1) * FrameSize + 1
    <3>1. k - 1 \in Nat /\ FrameSize \in Nat
      BY Parameters
    <3>2. (k - 1) * FrameSize \in Nat
      BY <3>1
    <3> QED BY <3>2
  <2>2. PICK b \in Nat : b = (IF k * FrameSize < m THEN k * FrameSize ELSE m) /\ b <= m
    <3>1. PICK c \in Nat : c = k * FrameSize
      BY Parameters
    <3> QED BY <3>1
  <2>3. a >= 1 /\ b <= m
    BY <2>2
  <2>4. \A i \in a .. b : copies[i] \in X
    BY <1>1, <2>3, LenProperties
  <2> QED BY <2>1, <2>2, <2>4, SubSeqProperties
<1>4. Frames(copies) \in [1 .. n -> Seq(X)]
  BY <1>1, <1>2, <1>3 DEF Frames
<1> QED BY <1>4, IsList

LEMMA CollisionsType ==
  ASSUME NEW t \in Terminals, NEW n \in Nat, Collisions(t, n),
         cw \in [Terminals -> Nat], backoff \in [Terminals -> Nat]
  PROVE  cw' \in [Terminals -> Nat] /\ backoff' \in [Terminals -> Nat]
<1> DEFINE More(x) == IF x * Multiple < CwMax THEN x * Multiple ELSE CwMax
           step == [i \in 1 .. n |-> [x \in Nat |-> More(x)]]
           w[i \in 0 .. n] ==
             IF i = 0 THEN cw[t]
             ELSE IF w[i - 1] * Multiple < CwMax THEN w[i - 1] * Multiple ELSE CwMax
<1>1. cw[t] \in Nat /\ \A x \in Nat : More(x) \in Nat
  <2>1. CwMax \in Nat /\ Multiple \in Nat
    BY Parameters
  <2> QED BY <2>1
<1>2. PICK f \in [0 .. n -> Nat] : Loop(f, n, cw[t], step)
  <2>1. step \in [1 .. n -> [Nat -> Nat]]
    BY <1>1
  <2> HIDE DEF step
  <2> QED BY <1>1, <2>1, Iterates
<1>3. f = [i \in 0 .. n |-> IF i = 0 THEN cw[t] ELSE More(f[i - 1])]
  <2>1. ASSUME NEW i \in 0 .. n PROVE f[i] = IF i = 0 THEN cw[t] ELSE More(f[i - 1])
    <3>1. CASE i = 0
      BY <1>2, <3>1 DEF Loop
    <3>2. CASE i # 0
      <4>1. i \in 1 .. n /\ i - 1 \in 0 .. n
        BY <3>2
      <4>2. f[i] = step[i][f[i - 1]] /\ f[i - 1] \in Nat
        BY <1>2, <4>1 DEF Loop
      <4> HIDE DEF More
      <4> QED BY <3>2, <4>1, <4>2
    <3> QED BY <3>1, <3>2
  <2> HIDE DEF More
  <2> QED BY <2>1
<1>4. w = [i \in 0 .. n |-> IF i = 0 THEN cw[t] ELSE More(w[i - 1])]
  BY <1>3
<1> HIDE DEF w
<1>5. w[n] \in Nat
  <2>1. w[0] = cw[t] /\ \A i \in 1 .. n : w[i] = More(w[i - 1])
    <3> HIDE DEF More
    <3>1. 0 \in 0 .. n /\ \A i \in 1 .. n : i \in 0 .. n /\ i # 0
      OBVIOUS
    <3> QED BY <1>4, <3>1
  <2>2. \A i \in 1 .. n : w[i - 1] \in Nat => w[i] \in Nat
    <3> HIDE DEF More
    <3> QED BY <1>1, <2>1
  <2>3. \A i \in 0 .. n : w[i] \in Nat
    BY <1>1, <2>1, <2>2, StepsKeep
  <2> QED BY <2>3
<1>6. /\ cw' = [cw EXCEPT ![t] = w[n]]
      /\ IF n = 0 THEN backoff' = [backoff EXCEPT ![t] = 0]
         ELSE \E b \in Random(w[n]) : backoff' = [backoff EXCEPT ![t] = b]
  BY DEF Collisions, w
<1>7. \E b \in Nat : backoff' = [backoff EXCEPT ![t] = b]
  <2>1. Random(w[n]) \subseteq Nat
    BY <1>5 DEF Random
  <2> QED BY <1>6, <2>1
<1> QED BY <1>5, <1>6, <1>7

(* What a Slotted Aloha tick leaves of a terminal: the packets only change *)
(* places.                                                                 *)
Moves(t, f, w, r, d) ==
  \A all : Places(t, all) => Shared(f, w, r, acked[t], d, all)

Served(t, f, w, r, c, g) ==
  /\ fifo' = [fifo EXCEPT ![t] = f]
  /\ packets_wait_ack' = [packets_wait_ack EXCEPT ![t] = w]
  /\ retransmission_packets' = [retransmission_packets EXCEPT ![t] = r]
  /\ complete' = [complete EXCEPT ![t] = c]
  /\ dropped' = [dropped EXCEPT ![t] = @ \cup Fragments(g)]
  /\ Moves(t, f, w, r, dropped[t] \cup Fragments(g))

(* The packets that wait, those that are sent again and those given up.    *)
Sorts(s, A, B, C) ==
  /\ A \cup B \cup C = ToSet(s)
  /\ A \cap B = {} /\ A \cap C = {} /\ B \cap C = {}

LEMMA Sorted ==
  ASSUME NEW X, NEW s \in Seq(X), NEW A, NEW B, NEW C, Sorts(s, A, B, C)
  PROVE  LET a == Those(s, A)
             b == Those(s, B)
             c == Those(s, C)
         IN /\ a \in Seq(X \cap A) /\ b \in Seq(X \cap B) /\ c \in Seq(X \cap C)
            /\ Fragments(s) = Fragments(a) \cup Fragments(b) \cup Fragments(c)
            /\ Once(s) => /\ Once(a) /\ Once(b)
                          /\ Fragments(a) \cap Fragments(b) = {}
                          /\ Fragments(a) \cap Fragments(c) = {}
                          /\ Fragments(b) \cap Fragments(c) = {}
<1> DEFINE a == Those(s, A)
           b == Those(s, B)
           c == Those(s, C)
<1>1. /\ a \in Seq(X \cap A) /\ (Once(s) => Once(a))
      /\ Fragments(a) = {Fragment(p) : p \in ToSet(s) \cap A}
  BY ThoseKeep
<1>2. /\ b \in Seq(X \cap B) /\ (Once(s) => Once(b))
      /\ Fragments(b) = {Fragment(p) : p \in ToSet(s) \cap B}
  BY ThoseKeep
<1>3. /\ c \in Seq(X \cap C)
      /\ Fragments(c) = {Fragment(p) : p \in ToSet(s) \cap C}
  BY ThoseKeep
<1>4. Fragments(s) = {Fragment(p) : p \in ToSet(s)}
  BY DEF Fragments
<1>5. /\ \A p \in ToSet(s) : p \in A \/ p \in B \/ p \in C
      /\ A \cap B = {} /\ A \cap C = {} /\ B \cap C = {}
  BY DEF Sorts
<1> HIDE DEF a, b, c
<1>6. Fragments(s) = Fragments(a) \cup Fragments(b) \cup Fragments(c)
  BY <1>1, <1>2, <1>3, <1>4, <1>5
<1>7. ASSUME Once(s)
      PROVE  /\ Fragments(a) \cap Fragments(b) = {}
             /\ Fragments(a) \cap Fragments(c) = {}
             /\ Fragments(b) \cap Fragments(c) = {}
  <2>1. \A p, q \in ToSet(s) : Fragment(p) = Fragment(q) => p = q
    BY <1>7, OnceApart
  <2> QED BY <1>1, <1>2, <1>3, <1>5, <2>1
<1> QED BY <1>1, <1>2, <1>3, <1>6, <1>7 DEF a, b, c

LEMMA ScheduleMoves ==
  ASSUME NEW t \in Terminals, NEW aged \in Seq(PacketOf(t)),
         fifo[t] \in Seq(PacketOf(t)), retransmission_packets[t] \in Seq(PacketOf(t)),
         packets_wait_ack[t] \in Seq(PacketOf(t)),
         Once(aged) <=> Once(packets_wait_ack[t]),
         Fragments(aged) = Fragments(packets_wait_ack[t]),
         Schedule(t, aged)
  PROVE  /\ \E f, w, r, g \in Seq(PacketOf(t)), c \in Seq(Seq(CopyOf(t))) : Served(t, f, w, r, c, g)
         /\ \E n \in Nat : Collisions(t, n)
<1> DEFINE X == PacketOf(t)
           late == {p \in ToSet(aged) : IsTimeout(p)}
           wait == StillWaiting(aged)
           lateAgain == Those(aged, {p \in late : CanBeRetransmitted(p)})
           again == [i \in DOMAIN lateAgain |-> Again(lateAgain[i])]
           givenUp == Those(aged, {p \in late : ~CanBeRetransmitted(p)})
           retr == retransmission_packets[t]
           old == again \o retr
           all == old \o fifo[t]
           n == IF Len(all) < MaxPackets THEN Len(all) ELSE MaxPackets
           packets == SubSeq(all, 1, n)
           f == IF n <= Len(old) THEN fifo[t] ELSE SubSeq(fifo[t], n - Len(old) + 1, Len(fifo[t]))
           r == SubSeq(old, n + 1, Len(old))
           w == wait \o packets
<1>1. /\ wait \in Seq(X) /\ lateAgain \in Seq({p \in X : CanBeRetransmitted(p)})
      /\ givenUp \in Seq(X)
      /\ Fragments(aged) = Fragments(wait) \cup Fragments(lateAgain) \cup Fragments(givenUp)
      /\ Once(aged) => /\ Once(wait) /\ Once(lateAgain)
                       /\ Fragments(wait) \cap Fragments(lateAgain) = {}
                       /\ Fragments(wait) \cap Fragments(givenUp) = {}
                       /\ Fragments(lateAgain) \cap Fragments(givenUp) = {}
  <2> DEFINE A == {p \in ToSet(aged) : ~IsTimeout(p)}
             B == {p \in late : CanBeRetransmitted(p)}
             C == {p \in late : ~CanBeRetransmitted(p)}
  <2>1. Sorts(aged, A, B, C)
    BY DEF Sorts
  <2>2. wait = Those(aged, A) /\ lateAgain = Those(aged, B) /\ givenUp = Those(aged, C)
    BY DEF StillWaiting
  <2>3. /\ X \cap A \subseteq X /\ X \cap C \subseteq X
        /\ X \cap B \subseteq {p \in X : CanBeRetransmitted(p)}
    OBVIOUS
  <2> HIDE DEF A, B, C, wait, lateAgain, givenUp, X
  <2>4. aged \in Seq(X)
    BY DEF X
  <2>5. /\ wait \in Seq(X \cap A) /\ lateAgain \in Seq(X \cap B) /\ givenUp \in Seq(X \cap C)
        /\ Fragments(aged) = Fragments(wait) \cup Fragments(lateAgain) \cup Fragments(givenUp)
        /\ Once(aged) => /\ Once(wait) /\ Once(lateAgain)
                         /\ Fragments(wait) \cap Fragments(lateAgain) = {}
                         /\ Fragments(wait) \cap Fragments(givenUp) = {}
                         /\ Fragments(lateAgain) \cap Fragments(givenUp) = {}
    <3>1. /\ Those(aged, A) \in Seq(X \cap A) /\ Those(aged, B) \in Seq(X \cap B) /\ Those(aged, C) \in Seq(X \cap C)
          /\ Fragments(aged) = Fragments(Those(aged, A)) \cup Fragments(Those(aged, B)) \cup Fragments(Those(aged, C))
          /\ Once(aged) => /\ Once(Those(aged, A)) /\ Once(Those(aged, B))
                           /\ Fragments(Those(aged, A)) \cap Fragments(Those(aged, B)) = {}
                           /\ Fragments(Those(aged, A)) \cap Fragments(Those(aged, C)) = {}
                           /\ Fragments(Those(aged, B)) \cap Fragments(Those(aged, C)) = {}
      BY <2>1, <2>4, Sorted
    <3> QED BY <2>2, <3>1
  <2>6. wait \in Seq(X) /\ givenUp \in Seq(X)
    BY <2>3, <2>5, SeqMonotonic
  <2>7. lateAgain \in Seq({p \in X : CanBeRetransmitted(p)})
    BY <2>3, <2>5, SeqMonotonic
  <2> QED BY <2>5, <2>6, <2>7
<1> HIDE DEF wait, givenUp, lateAgain
<1>2. again \in Seq(X) /\ (Once(again) <=> Once(lateAgain)) /\ Fragments(again) = Fragments(lateAgain)
  <2>1. /\ DOMAIN lateAgain = 1 .. Len(lateAgain) /\ Len(lateAgain) \in Nat
        /\ \A i \in 1 .. Len(lateAgain) :
             lateAgain[i] \in PacketOf(t) /\ CanBeRetransmitted(lateAgain[i])
    BY <1>1, LenProperties
  <2>2. \A i \in 1 .. Len(lateAgain) : /\ Again(lateAgain[i]) \in X
                                       /\ Fragment(Again(lateAgain[i])) = Fragment(lateAgain[i])
    BY <2>1, PacketsKeep
  <2>3. again \in [1 .. Len(lateAgain) -> X]
    BY <2>1, <2>2
  <2>4. /\ again \in Seq(X) /\ Len(again) = Len(lateAgain)
        /\ \A i \in 1 .. Len(lateAgain) : Fragment(again[i]) = Fragment(lateAgain[i])
    BY <2>1, <2>2, <2>3, IsList
  <2> HIDE DEF again
  <2> QED BY <1>1, <2>4, SameFragments
<1> HIDE DEF again
<1>3. old \in Seq(X) /\ Halves(old, again, retr)
  BY <1>2, TwoLists
<1> HIDE DEF old
<1>4. /\ Len(old) \in Nat /\ Len(fifo[t]) \in Nat /\ n \in 0 .. Len(old) + Len(fifo[t])
  <2>1. Len(old) \in Nat /\ Len(fifo[t]) \in Nat /\ Len(all) = Len(old) + Len(fifo[t])
    BY <1>3, ConcatProperties, LenProperties
  <2>2. MaxPackets \in Nat
    BY Parameters
  <2> HIDE DEF all
  <2> QED BY <2>1, <2>2
<1>5. packets = IF n <= Len(old) THEN SubSeq(old, 1, n) ELSE old \o SubSeq(fifo[t], 1, n - Len(old))
  <2> HIDE DEF n, X
  <2>1. fifo[t] \in Seq(X)
    BY DEF X
  <2> QED BY <1>3, <1>4, <2>1, FirstOfTwo
<1> HIDE DEF n, all, packets
(* The packets sent and those left are those there were.                   *)
<1>6. /\ packets \in Seq(X) /\ r \in Seq(X) /\ f \in Seq(X)
      /\ Fragments(packets) \cup Fragments(r) \cup Fragments(f) = Fragments(old) \cup Fragments(fifo[t])
      /\ Once(old) /\ Once(fifo[t]) /\ Fragments(old) \cap Fragments(fifo[t]) = {}
         => /\ Once(packets) /\ Once(r) /\ Once(f)
            /\ Fragments(packets) \cap Fragments(r) = {}
            /\ Fragments(packets) \cap Fragments(f) = {}
            /\ Fragments(r) \cap Fragments(f) = {}
  <2>0. fifo[t] \in Seq(X)
    OBVIOUS
  <2>1. CASE n <= Len(old)
    <3>1. n \in 0 .. Len(old)
      BY <1>4, <2>1
    <3>2. packets \in Seq(X) /\ r \in Seq(X) /\ Halves(old, packets, r)
      BY <1>3, <1>5, <2>1, <3>1, SplitAt
    <3>3. f = fifo[t]
      BY <2>1
    <3> HIDE DEF r, f, X
    <3> QED BY <2>0, <3>2, <3>3 DEF Halves
  <2>2. CASE ~(n <= Len(old))
    <3> DEFINE pre == SubSeq(fifo[t], 1, n - Len(old))
    <3>1. n - Len(old) \in 0 .. Len(fifo[t])
      BY <1>4, <2>2
    <3>2. f = SubSeq(fifo[t], (n - Len(old)) + 1, Len(fifo[t]))
      BY <2>2
    <3>3. pre \in Seq(X) /\ f \in Seq(X) /\ Halves(fifo[t], pre, f)
      BY <2>0, <3>1, <3>2, SplitAt
    <3>4. packets = old \o pre
      BY <1>5, <2>2
    <3>5. r = << >>
      BY <1>4, <2>2, SubSeqEmpty
    <3>6. r \in Seq(X) /\ Fragments(r) = {} /\ Once(r)
      <4>1. << >> \in Seq(X)
        OBVIOUS
      <4> HIDE DEF r, X
      <4> QED BY <3>5, <4>1, EmptyFragments
    <3> HIDE DEF r, f, X, pre
    <3>7. packets \in Seq(X) /\ Halves(packets, old, pre)
      BY <1>3, <3>3, <3>4, TwoLists
    <3> QED BY <3>3, <3>6, <3>7 DEF Halves
  <2> QED BY <2>1, <2>2
<1>7. w \in Seq(X) /\ Halves(w, wait, packets)
  BY <1>1, <1>6, TwoLists
<1>8. PICK ts \in TimeSlots(n) : complete' = [complete EXCEPT ![t] = Frames(Copies(t, packets, ts))]
  BY DEF Schedule, packets, n, all, old, again, lateAgain
<1>9. Frames(Copies(t, packets, ts)) \in Seq(Seq(CopyOf(t)))
  <2>1. Len(packets) = n /\ n \in Nat
    <3>1. Len(all) \in Nat /\ all \in Seq(X) /\ n \in 0 .. Len(all)
      BY <1>3, <1>4, ConcatProperties DEF all
    <3>2. \A i \in 1 .. n : all[i] \in X
      BY <3>1, LenProperties
    <3> QED BY <3>1, <3>2, SubSeqProperties DEF packets
  <2>2. Copies(t, packets, ts) \in Seq(CopyOf(t))
    BY <1>6, <2>1, CopiesAre
  <2> QED BY <2>2, FramesAre
<1>10. /\ fifo' = [fifo EXCEPT ![t] = f]
       /\ packets_wait_ack' = [packets_wait_ack EXCEPT ![t] = w]
       /\ retransmission_packets' = [retransmission_packets EXCEPT ![t] = r]
       /\ dropped' = [dropped EXCEPT ![t] = @ \cup Fragments(givenUp)]
       /\ Collisions(t, Len(givenUp))
  BY DEF Schedule, packets, n, all, old, again, lateAgain, givenUp, wait
<1> HIDE DEF f, r, w, X
<1>11. Moves(t, f, w, r, dropped[t] \cup Fragments(givenUp))
  <2> SUFFICES ASSUME NEW a, Places(t, a)
               PROVE  Shared(f, w, r, acked[t], dropped[t] \cup Fragments(givenUp), a)
    BY DEF Moves
  <2>1. Once(aged) /\ Once(fifo[t]) /\ Once(retr)
    BY DEF Places, Shared
  <2>2. Once(old) /\ Fragments(old) \cap Fragments(fifo[t]) = {}
    BY <1>1, <1>2, <1>3, <2>1 DEF Halves, Places, Shared
  <2>3. Once(f) /\ Once(r) /\ Once(w)
    BY <1>1, <1>2, <1>3, <1>6, <1>7, <2>1, <2>2 DEF Halves, Places, Shared
  <2>4. /\ Fragments(f) \cap Fragments(w) = {} /\ Fragments(f) \cap Fragments(r) = {}
        /\ Fragments(w) \cap Fragments(r) = {}
    BY <1>1, <1>2, <1>3, <1>6, <1>7, <2>1, <2>2 DEF Halves, Places, Shared
  <2>5. /\ Fragments(w) = Fragments(wait) \cup Fragments(packets)
        /\ Fragments(packets) \cup Fragments(r) \cup Fragments(f)
             = Fragments(lateAgain) \cup Fragments(retr) \cup Fragments(fifo[t])
    BY <1>2, <1>3, <1>6, <1>7 DEF Halves
  <2>6. Fragments(f) \cup Fragments(w) \cup Fragments(r) \cup Fragments(givenUp)
          = Fragments(fifo[t]) \cup Fragments(packets_wait_ack[t]) \cup Fragments(retr)
    BY <1>1, <2>5
  <2>7. Fragments(givenUp) \cap (Fragments(f) \cup Fragments(w) \cup Fragments(r)) = {}
    BY <1>1, <2>1, <2>5 DEF Places, Shared
  <2>8. /\ (Fragments(fifo[t]) \cup Fragments(packets_wait_ack[t]) \cup Fragments(retr))
             \cap (acked[t] \cup dropped[t]) = {}
        /\ acked[t] \cap dropped[t] = {}
        /\ Fragments(fifo[t]) \cup Fragments(packets_wait_ack[t]) \cup Fragments(retr)
             \cup acked[t] \cup dropped[t] = a
    BY DEF Places, Shared
  <2> QED BY <2>3, <2>4, <2>6, <2>7, <2>8 DEF Shared
<1>12. Served(t, f, w, r, Frames(Copies(t, packets, ts)), givenUp)
  BY <1>8, <1>10, <1>11 DEF Served
<1>13. Len(givenUp) \in Nat
  BY <1>1, LenProperties
<1> QED BY <1>1, <1>6, <1>7, <1>9, <1>10, <1>12, <1>13 DEF X

LEMMA AgedPackets ==
  ASSUME NEW t, packets_wait_ack[t] \in Seq(PacketOf(t))
  PROVE  LET aged == [i \in DOMAIN packets_wait_ack[t] |-> Aged(packets_wait_ack[t][i])]
         IN /\ aged \in Seq(PacketOf(t))
            /\ Once(aged) <=> Once(packets_wait_ack[t])
            /\ Fragments(aged) = Fragments(packets_wait_ack[t])
<1> DEFINE w == packets_wait_ack[t]
           n == Len(w)
           aged == [i \in DOMAIN w |-> Aged(w[i])]
<1>1. DOMAIN w = 1 .. n /\ n \in Nat /\ \A i \in 1 .. n : w[i] \in PacketOf(t)
  BY LenProperties
<1>2. \A i \in 1 .. n : Aged(w[i]) \in PacketOf(t) /\ Fragment(Aged(w[i])) = Fragment(w[i])
  BY <1>1, PacketsKeep
<1>3. aged \in [1 .. n -> PacketOf(t)]
  BY <1>1, <1>2
<1>4. /\ aged \in Seq(PacketOf(t)) /\ Len(aged) = n
      /\ \A i \in 1 .. n : Fragment(aged[i]) = Fragment(w[i])
  BY <1>1, <1>2, <1>3, IsList
<1>5. (Once(aged) <=> Once(w)) /\ Fragments(aged) = Fragments(w)
  <2> HIDE DEF aged
  <2> QED BY <1>4, SameFragments
<1> QED BY <1>4, <1>5

(* Nothing is given up, and the packets that wait are the same fragments.  *)
LEMMA SameServed ==
  ASSUME NEW t \in Terminals, TalTypes, NEW w,
         packets_wait_ack' = [packets_wait_ack EXCEPT ![t] = w],
         Once(w) <=> Once(packets_wait_ack[t]),
         Fragments(w) = Fragments(packets_wait_ack[t]),
         complete' = [complete EXCEPT ![t] = << >>],
         UNCHANGED <<fifo, retransmission_packets, dropped>>
  PROVE  Served(t, fifo[t], w, retransmission_packets[t], << >>, << >>)
<1>1. dropped[t] \cup Fragments(<< >>) = dropped[t]
  BY EmptyFragments
<1>2. Moves(t, fifo[t], w, retransmission_packets[t], dropped[t])
  BY DEF Moves, Places, Shared
<1>3. /\ fifo' = [fifo EXCEPT ![t] = fifo[t]]
      /\ retransmission_packets' = [retransmission_packets EXCEPT ![t] = retransmission_packets[t]]
      /\ dropped' = [dropped EXCEPT ![t] = dropped[t]]
  BY DEF TalTypes
<1> QED BY <1>1, <1>2, <1>3 DEF Served

LEMMA SofServes ==
  ASSUME IInv, NEW t \in Terminals, Sof(t)
  PROVE  /\ \E f, w, r, g \in Seq(PacketOf(t)), c \in Seq(Seq(CopyOf(t))) : Served(t, f, w, r, c, g)
         /\ cw' \in [Terminals -> Nat] /\ backoff' \in [Terminals -> Nat]
<1> DEFINE aged == [i \in DOMAIN packets_wait_ack[t] |-> Aged(packets_wait_ack[t][i])]
           ticked == Ticked(backoff[t])
<1>1. /\ TalTypes /\ cw \in [Terminals -> Nat] /\ backoff \in [Terminals -> Nat]
      /\ fifo[t] \in Seq(PacketOf(t))
      /\ packets_wait_ack[t] \in Seq(PacketOf(t))
      /\ retransmission_packets[t] \in Seq(PacketOf(t))
  BY DEF IInv, Named, TypeOK, TalTypes
<1>2. << >> \in Seq(PacketOf(t)) /\ << >> \in Seq(Seq(CopyOf(t)))
  OBVIOUS
<1>3. /\ aged \in Seq(PacketOf(t))
      /\ Once(aged) <=> Once(packets_wait_ack[t])
      /\ Fragments(aged) = Fragments(packets_wait_ack[t])
  BY <1>1, AgedPackets
<1>4. CASE tal_sf'[t] # 0
  <2>1. /\ complete' = [complete EXCEPT ![t] = << >>]
        /\ UNCHANGED <<packets_wait_ack, retransmission_packets, fifo, backoff, cw, dropped>>
    BY <1>4 DEF Sof
  <2>2. packets_wait_ack' = [packets_wait_ack EXCEPT ![t] = packets_wait_ack[t]]
    BY <1>1, <2>1 DEF TalTypes
  <2>3. Served(t, fifo[t], packets_wait_ack[t], retransmission_packets[t], << >>, << >>)
    BY <1>1, <2>1, <2>2, SameServed
  <2> QED BY <1>1, <1>2, <2>1, <2>3
<1>5. CASE tal_sf'[t] = 0
  <2>0. Tick(t)
    BY <1>5 DEF Sof
  <2>1. CASE ticked > 0
    <3>1. /\ complete' = [complete EXCEPT ![t] = << >>]
          /\ packets_wait_ack' = [packets_wait_ack EXCEPT ![t] = aged]
          /\ backoff' = [backoff EXCEPT ![t] = ticked]
          /\ UNCHANGED <<cw, fifo, retransmission_packets, dropped>>
      BY <2>0, <2>1 DEF Tick
    <3>2. backoff' \in [Terminals -> Nat]
      <4>1. ticked \in Nat
        BY <1>1 DEF Ticked
      <4> HIDE DEF ticked
      <4> QED BY <1>1, <3>1, <4>1
    <3> HIDE DEF aged
    <3>3. Served(t, fifo[t], aged, retransmission_packets[t], << >>, << >>)
      BY <1>1, <1>3, <3>1, SameServed
    <3> QED BY <1>1, <1>2, <1>3, <3>1, <3>2, <3>3
  <2>2. CASE ~(ticked > 0)
    <3>1. Schedule(t, aged)
      BY <2>0, <2>2 DEF Tick
    <3> HIDE DEF aged
    <3>2. /\ \E f, w, r, g \in Seq(PacketOf(t)), c \in Seq(Seq(CopyOf(t))) : Served(t, f, w, r, c, g)
          /\ \E n \in Nat : Collisions(t, n)
      BY <1>1, <1>3, <3>1, ScheduleMoves
    <3> QED BY <1>1, <3>2, CollisionsType
  <2> QED BY <2>1, <2>2
<1> QED BY <1>4, <1>5

(* What a step leaves of the terminals it is not about.                    *)
LEMMA OtherPackets ==
  ASSUME cut' = cut
  PROVE  /\ \A u : PacketOf(u)' = PacketOf(u) /\ CopyOf(u)' = CopyOf(u)
         /\ Sent' = Sent
BY DEF PacketOf, CopyOf, Sent, Packet, Copy

LEMMA InvSof ==
  ASSUME IInv, NEW t \in Terminals, Sof(t)
  PROVE  IInv'
<1>1. PICK f, w, r, g \in Seq(PacketOf(t)), c \in Seq(Seq(CopyOf(t))) : Served(t, f, w, r, c, g)
  BY SofServes
<1>2. cw' \in [Terminals -> Nat] /\ backoff' \in [Terminals -> Nat]
  BY SofServes
<1>3. /\ up' = [up EXCEPT ![t] = @ \o complete[t]]
      /\ tal_sf' = [tal_sf EXCEPT ![t] = (@ + 1) % SfPerSaf]
      /\ UNCHANGED <<bursts, cut, base_id, acked, nccVars, down, lost>>
  BY DEF Sof
<1>4. TalTypes /\ NccTypes /\ LinkTypes /\ Named
  BY DEF IInv, TypeOK
<1>5. /\ \A u : PacketOf(u)' = PacketOf(u) /\ CopyOf(u)' = CopyOf(u)
      /\ Sent' = Sent
  BY <1>3, OtherPackets
<1>6. /\ PacketOf(t) \subseteq Packet /\ CopyOf(t) \subseteq Copy
      /\ \A p \in Packet : Fragment(p) \in Nat \X (0 .. PduSize - 1)
  BY DEF PacketOf, CopyOf, Packet, Fragment
<1>7. TalTypes'
  <2>1. /\ f \in Seq(Packet) /\ w \in Seq(Packet) /\ r \in Seq(Packet) /\ g \in Seq(Packet)
    BY <1>6, SeqMonotonic
  <2>2. c \in Seq(Seq(Copy))
    <3>1. Seq(CopyOf(t)) \subseteq Seq(Copy)
      BY <1>6, SeqMonotonic
    <3> QED BY <3>1, SeqMonotonic
  <2>3. Fragments(g) \subseteq Nat \X (0 .. PduSize - 1)
    BY <1>6, <2>1, ItemsOf DEF Fragments
  <2>4. tal_sf' \in [Terminals -> 0 .. SfPerSaf - 1]
    <3>1. (tal_sf[t] + 1) % SfPerSaf \in 0 .. SfPerSaf - 1
      BY <1>4, Parameters, SMTT(30) DEF TalTypes
    <3> QED BY <1>3, <1>4, <3>1 DEF TalTypes
  <2>5. dropped' \in [Terminals -> SUBSET (Nat \X (0 .. PduSize - 1))]
    <3>1. dropped[t] \cup Fragments(g) \in SUBSET (Nat \X (0 .. PduSize - 1))
      BY <1>4, <2>3 DEF TalTypes
    <3> QED BY <1>1, <1>4, <3>1 DEF TalTypes, Served
  <2> QED BY <1>1, <1>2, <1>3, <1>4, <2>1, <2>2, <2>4, <2>5 DEF TalTypes, Served
<1>8. NccTypes'
  BY <1>3, <1>4 DEF NccTypes, nccVars, Slots, Copy
<1>9. up[t] \o complete[t] \in Seq(Seq(CopyOf(t)))
  BY <1>4, ConcatProperties DEF Named
<1>10. LinkTypes'
  <2>1. up[t] \o complete[t] \in Seq(Seq(Copy))
    BY <1>4, ConcatProperties DEF LinkTypes, TalTypes
  <2> QED BY <1>3, <1>4, <2>1 DEF LinkTypes
<1>11. Named'
  <2>1. ASSUME NEW u \in Terminals
        PROVE  /\ fifo'[u] \in Seq(PacketOf(u))
               /\ packets_wait_ack'[u] \in Seq(PacketOf(u))
               /\ retransmission_packets'[u] \in Seq(PacketOf(u))
               /\ complete'[u] \in Seq(Seq(CopyOf(u)))
               /\ up'[u] \in Seq(Seq(CopyOf(u)))
    BY <1>1, <1>3, <1>4, <1>9 DEF Named, Served, TalTypes, LinkTypes
  <2>2. slots' \in [Slots -> Seq(Sent)]
    BY <1>3, <1>4 DEF Named, nccVars
  <2> QED BY <1>5, <2>1, <2>2 DEF Named
<1>12. ASSUME NEW u \in Terminals PROVE (~cut'[u] => Told(u)') /\ Apart(u)'
  <2>1. (~cut[u] => Told(u)) /\ Apart(u) /\ Told(u)' = Told(u) /\ Given(u)' = Given(u)
    BY <1>3 DEF IInv, Told, Given, nccVars
  <2>2. PICK all \in SUBSET Given(u) : (~cut[u] => all = Given(u)) /\ Places(u, all)
    BY <2>1 DEF Apart
  <2>3. Places(u, all)'
    <3>1. CASE u = t
      <4>1. Shared(f, w, r, acked[t], dropped[t] \cup Fragments(g), all)
        BY <1>1, <2>2, <3>1 DEF Served, Moves
      <4>2. /\ fifo'[t] = f /\ packets_wait_ack'[t] = w /\ retransmission_packets'[t] = r
            /\ acked'[t] = acked[t] /\ dropped'[t] = dropped[t] \cup Fragments(g)
        BY <1>1, <1>3, <1>4 DEF Served, TalTypes
      <4> QED BY <3>1, <4>1, <4>2 DEF Places
    <3>2. CASE u # t
      <4>1. /\ fifo'[u] = fifo[u] /\ packets_wait_ack'[u] = packets_wait_ack[u]
            /\ retransmission_packets'[u] = retransmission_packets[u]
            /\ acked'[u] = acked[u] /\ dropped'[u] = dropped[u]
        BY <1>1, <1>3, <1>4, <3>2 DEF Served, TalTypes
      <4> QED BY <2>2, <4>1 DEF Places
    <3> QED BY <3>1, <3>2
  <2> QED BY <1>3, <2>1, <2>2, <2>3 DEF Apart
<1> QED BY <1>7, <1>8, <1>10, <1>11, <1>12 DEF IInv, TypeOK

(* The first m fragments of the burst.                                     *)
LEMMA NewFragments ==
  ASSUME NEW t, NEW m \in Nat, NEW X, NEW new \in Seq(X), Len(new) = m,
         \A i \in 1 .. m : new[i] = NewPacket(t, i - 1)
  PROVE  /\ Once(new)
         /\ Fragments(new) = {bursts[t]} \X (0 .. m - 1)
<1>1. \A i \in 1 .. m : Fragment(new[i]) = <<bursts[t], i - 1>>
  BY DEF NewPacket, Fragment
<1>2. Once(new)
  BY <1>1 DEF Once
<1>3. \A g : HasFragment(new, g) <=> g \in {bursts[t]} \X (0 .. m - 1)
  <2>1. ASSUME NEW g, HasFragment(new, g) PROVE g \in {bursts[t]} \X (0 .. m - 1)
    <3>1. PICK i \in 1 .. m : Fragment(new[i]) = g
      BY <2>1 DEF HasFragment
    <3>2. i - 1 \in 0 .. m - 1
      OBVIOUS
    <3> QED BY <1>1, <3>1, <3>2
  <2>2. ASSUME NEW g \in {bursts[t]} \X (0 .. m - 1) PROVE HasFragment(new, g)
    <3>1. PICK k \in 0 .. m - 1 : g = <<bursts[t], k>>
      OBVIOUS
    <3>2. k + 1 \in 1 .. m /\ (k + 1) - 1 = k
      OBVIOUS
    <3> QED BY <1>1, <3>1, <3>2 DEF HasFragment
  <2> QED BY <2>1, <2>2
<1>4. \A g : g \in Fragments(new) <=> HasFragment(new, g)
  BY FragmentsAre
<1>5. Fragments(new) = {bursts[t]} \X (0 .. m - 1)
  BY <1>3, <1>4
<1> QED BY <1>2, <1>5

LEMMA InvBurst ==
  ASSUME IInv, NEW t \in Terminals, Burst(t)
  PROVE  IInv'
<1> DEFINE stored == LET free == MaxFifo - Len(fifo[t])
                     IN IF free < PduSize THEN free ELSE PduSize
           new == [i \in 1 .. stored |-> NewPacket(t, i - 1)]
<1>1. /\ bursts' = [bursts EXCEPT ![t] = @ + 1]
      /\ fifo' = [fifo EXCEPT ![t] = @ \o new]
      /\ base_id' = [base_id EXCEPT ![t] = IF stored >= PduSize - 1 THEN @ + 1 ELSE @]
      /\ cut' = [cut EXCEPT ![t] = @ \/ stored < PduSize]
      /\ UNCHANGED <<packets_wait_ack, retransmission_packets, backoff, cw, complete,
                     tal_sf, acked, dropped, nccVars, up, down, lost>>
  BY DEF Burst
<1>2. TalTypes /\ NccTypes /\ LinkTypes /\ Named
  BY DEF IInv, TypeOK
<1>3. stored \in Int /\ stored <= PduSize /\ PduSize \in Nat \ {0}
  <2>1. Len(fifo[t]) \in Nat
    BY <1>2, LenProperties DEF Named
  <2> QED BY <2>1, Parameters
<1> HIDE DEF stored
<1>4. PICK m \in 0 .. PduSize : 1 .. stored = 1 .. m /\ (stored >= PduSize => m = PduSize)
  <2>1. CASE stored >= 0
    BY <1>3, <2>1
  <2>2. CASE ~(stored >= 0)
    <3>1. 1 .. stored = 1 .. 0
      BY <1>3, <2>2
    <3>2. 0 \in 0 .. PduSize /\ ~(stored >= PduSize)
      BY <1>3, <2>2
    <3> QED BY <3>1, <3>2
  <2> QED BY <2>1, <2>2
<1>5. \A u \in Terminals : /\ cut[u] \in BOOLEAN /\ cut'[u] \in BOOLEAN
                           /\ cut[u] => cut'[u]
                           /\ u # t => cut'[u] = cut[u]
  BY <1>1, <1>2 DEF TalTypes
<1>6. ~cut'[t] => stored >= PduSize
  <2>1. cut'[t] = (cut[t] \/ stored < PduSize)
    BY <1>1, <1>2 DEF TalTypes
  <2>2. ~cut'[t] => ~(stored < PduSize)
    BY <2>1, Zenon
  <2> QED BY <1>3, <2>2
<1>7. /\ \A u \in Terminals : PacketOf(u) \subseteq PacketOf(u)' /\ CopyOf(u) \subseteq CopyOf(u)'
      /\ Sent \subseteq Sent'
  BY <1>5 DEF PacketOf, CopyOf, Sent, Packet, Copy
<1>8. \A i \in 1 .. m : NewPacket(t, i - 1) \in Packet /\ NewPacket(t, i - 1) \in PacketOf(t)'
  <2> SUFFICES ASSUME NEW i \in 1 .. m
               PROVE  NewPacket(t, i - 1) \in Packet /\ NewPacket(t, i - 1) \in PacketOf(t)'
    OBVIOUS
  <2>1. i - 1 \in 0 .. PduSize - 1 /\ Timeout \in 0 .. Timeout /\ 0 \in 0 .. MaxRetries
    BY Parameters
  <2>2. base_id[t] \in Nat /\ bursts[t] \in Nat
    BY <1>2 DEF TalTypes
  <2>3. NewPacket(t, i - 1) \in Packet
    BY <2>1, <2>2 DEF NewPacket, Packet
  <2>4. ~cut'[t] => base_id[t] = bursts[t]
    BY <1>5 DEF IInv, Told
  <2>5. NewPacket(t, i - 1).id = base_id[t] /\ NewPacket(t, i - 1).nb = bursts[t]
    BY DEF NewPacket
  <2> QED BY <2>3, <2>4, <2>5 DEF PacketOf, Packet
<1>9. /\ new \in Seq(Packet) /\ new \in Seq(PacketOf(t)') /\ Len(new) = m
      /\ \A i \in 1 .. m : new[i] = NewPacket(t, i - 1)
  <2>1. new = [i \in 1 .. m |-> NewPacket(t, i - 1)]
    BY <1>4
  <2>2. new \in [1 .. m -> Packet] /\ new \in [1 .. m -> PacketOf(t)']
    BY <1>8, <2>1
  <2>3. \A i \in 1 .. m : new[i] = NewPacket(t, i - 1)
    BY <2>1
  <2> HIDE DEF new
  <2> QED BY <2>2, <2>3, IsList
<1> HIDE DEF new
<1>10. TalTypes'
  <2>1. fifo[t] \o new \in Seq(Packet)
    BY <1>2, <1>9, ConcatProperties DEF TalTypes
  <2>2. fifo' \in [Terminals -> Seq(Packet)]
    BY <1>1, <1>2, <2>1 DEF TalTypes
  <2>3. bursts' \in [Terminals -> Nat]
    BY <1>1, <1>2 DEF TalTypes
  <2>4. base_id' \in [Terminals -> Nat]
    BY <1>1, <1>2 DEF TalTypes
  <2>5. cut' \in [Terminals -> BOOLEAN]
    BY <1>1, <1>2, <1>5 DEF TalTypes
  <2> QED BY <1>1, <1>2, <2>2, <2>3, <2>4, <2>5 DEF TalTypes
<1>11. NccTypes' /\ LinkTypes'
  BY <1>1, <1>2 DEF NccTypes, LinkTypes, nccVars
<1>12. Named'
  <2>1. ASSUME NEW u \in Terminals
        PROVE  /\ fifo'[u] \in Seq(PacketOf(u)')
               /\ packets_wait_ack'[u] \in Seq(PacketOf(u)')
               /\ retransmission_packets'[u] \in Seq(PacketOf(u)')
               /\ complete'[u] \in Seq(Seq(CopyOf(u)'))
               /\ up'[u] \in Seq(Seq(CopyOf(u)'))
    <3>1. PacketOf(u) \subseteq PacketOf(u)' /\ CopyOf(u) \subseteq CopyOf(u)'
      BY <1>7
    <3>2. /\ fifo[u] \in Seq(PacketOf(u)')
          /\ packets_wait_ack[u] \in Seq(PacketOf(u)')
          /\ retransmission_packets[u] \in Seq(PacketOf(u)')
      BY <1>2, <3>1, SeqMonotonic DEF Named
    <3>3. complete[u] \in Seq(Seq(CopyOf(u)')) /\ up[u] \in Seq(Seq(CopyOf(u)'))
      <4>1. Seq(CopyOf(u)) \subseteq Seq(CopyOf(u)')
        BY <3>1, SeqMonotonic
      <4> QED BY <1>2, <4>1, SeqMonotonic DEF Named
    <3>4. fifo'[u] \in Seq(PacketOf(u)')
      <4>1. CASE u = t
        <5>1. fifo[t] \o new \in Seq(PacketOf(t)')
          BY <1>9, <3>2, <4>1, ConcatProperties
        <5> QED BY <1>1, <1>2, <4>1, <5>1 DEF TalTypes
      <4>2. CASE u # t
        BY <1>1, <1>2, <3>2, <4>2 DEF TalTypes
      <4> QED BY <4>1, <4>2
    <3> QED BY <1>1, <3>2, <3>3, <3>4
  <2>2. slots' \in [Slots -> Seq(Sent')]
    <3>1. Seq(Sent) \subseteq Seq(Sent')
      BY <1>7, SeqMonotonic
    <3> QED BY <1>1, <1>2, <3>1 DEF Named, nccVars
  <2> QED BY <2>1, <2>2 DEF Named
<1>13. ASSUME NEW u \in Terminals PROVE (~cut'[u] => Told(u)') /\ Apart(u)'
  <2>1. CASE u # t
    <3>1. /\ fifo'[u] = fifo[u] /\ bursts'[u] = bursts[u] /\ cut'[u] = cut[u]
          /\ base_id'[u] = base_id[u]
      BY <1>1, <1>2, <2>1 DEF TalTypes
    <3> QED BY <1>1, <3>1 DEF IInv, Told, Apart, Given, Places, nccVars
  <2>2. CASE u = t
    <3>1. bursts'[t] = bursts[t] + 1 /\ bursts[t] \in Nat /\ fifo'[t] = fifo[t] \o new
      BY <1>1, <1>2 DEF TalTypes
    <3>2. ASSUME ~cut'[t] PROVE Told(t)'
      <4>1. Told(t) /\ stored >= PduSize - 1
        BY <1>3, <1>5, <1>6, <3>2 DEF IInv
      <4>2. base_id'[t] = base_id[t] + 1
        BY <1>1, <1>2, <4>1 DEF TalTypes
      <4> QED BY <1>1, <3>1, <4>1, <4>2 DEF Told, nccVars
    <3>3. PICK all \in SUBSET Given(t) : (~cut[t] => all = Given(t)) /\ Places(t, all)
      <4>1. Apart(t)
        BY DEF IInv
      <4> QED BY <4>1 DEF Apart
    <3>4. PICK more : more = Fragments(new)
      <4>1. Fragments(new) = Fragments(new)
        OBVIOUS
      <4> QED BY ONLY <4>1
    <3>5. Once(new) /\ more = {bursts[t]} \X (0 .. m - 1)
      <4>1. Once(new) /\ Fragments(new) = {bursts[t]} \X (0 .. m - 1)
        <5>1. /\ m \in Nat /\ new \in Seq(Packet) /\ Len(new) = m
              /\ \A i \in 1 .. m : new[i] = NewPacket(t, i - 1)
          BY <1>9
        <5> QED BY ONLY <5>1, NewFragments
      <4> QED BY <3>4, <4>1
    <3>6. Halves(fifo[t] \o new, fifo[t], new)
      <4>1. fifo[t] \in Seq(Packet)
        BY <1>2 DEF TalTypes
      <4> QED BY <1>9, <4>1, TwoLists
    <3>7. /\ more \cap Given(t) = {}
          /\ more \cup Given(t) \subseteq Given(t)'
          /\ ~cut'[t] => Given(t)' = Given(t) \cup more
      <4>1. Given(t)' = (0 .. bursts[t]) \X (0 .. PduSize - 1)
        BY <3>1 DEF Given
      <4>2. ASSUME ~cut'[t] PROVE Given(t)' = Given(t) \cup more
        <5>1. m = PduSize
          BY <1>4, <1>6, <4>2
        <5>2. 0 .. bursts[t] = (0 .. bursts[t] - 1) \cup {bursts[t]}
          BY <3>1
        <5> QED BY <3>5, <4>1, <5>1, <5>2 DEF Given
      <4>3. more \cap Given(t) = {} /\ more \cup Given(t) \subseteq Given(t)'
        BY <1>3, <3>1, <3>5, <4>1 DEF Given
      <4> QED BY <4>2, <4>3
    <3>8. Places(t, all \cup more)'
      <4>1. more \cap all = {}
        BY <3>7
      <4>2. Shared(fifo[t], packets_wait_ack[t], retransmission_packets[t], acked[t], dropped[t], all)
        BY <3>3 DEF Places
      <4>3. /\ Fragments(fifo[t] \o new) = Fragments(fifo[t]) \cup more
            /\ Fragments(fifo[t]) \subseteq all /\ Fragments(packets_wait_ack[t]) \subseteq all
            /\ Fragments(retransmission_packets[t]) \subseteq all
            /\ acked[t] \subseteq all /\ dropped[t] \subseteq all
        BY <3>4, <3>6, <4>2 DEF Shared, Halves
      <4>4. Once(fifo[t] \o new)
        BY <3>4, <3>5, <3>6, <4>1, <4>2, <4>3 DEF Shared, Halves
      <4>5. Shared(fifo[t] \o new, packets_wait_ack[t], retransmission_packets[t],
                   acked[t], dropped[t], all \cup more)
        BY <4>1, <4>2, <4>3, <4>4 DEF Shared
      <4> QED BY <1>1, <3>1, <4>5 DEF Places
    <3>9. Apart(t)'
      <4>1. all \cup more \in SUBSET Given(t)'
        BY <3>3, <3>7
      <4>2. ~cut'[t] => all \cup more = Given(t)'
        BY <1>5, <3>3, <3>7
      <4> QED BY <3>8, <4>1, <4>2 DEF Apart
    <3> QED BY <2>2, <3>2, <3>9
  <2> QED BY <2>1, <2>2
<1> QED BY <1>10, <1>11, <1>12, <1>13 DEF IInv, TypeOK

(* What an acknowledgement keeps.                                          *)
Acking(t, all) ==
  {st \in [wait : Seq(PacketOf(t)), acked : SUBSET (Nat \X (0 .. PduSize - 1))] :
     /\ ~cut[t] => st.acked \subseteq accepted[t]
     /\ Shared(fifo[t], st.wait, retransmission_packets[t], st.acked, dropped[t], all)}

LEMMA AcknowledgeKeeps ==
  ASSUME NEW t, NEW all, NEW st \in Acking(t, all), NEW id, ~cut[t] => id \in accepted[t]
  PROVE  Acknowledge(st, id) \in Acking(t, all)
<1> DEFINE found == {i \in DOMAIN st.wait : UniqueId(st.wait[i]) = id}
<1>1. /\ st.wait \in Seq(PacketOf(t))
      /\ st.acked \in SUBSET (Nat \X (0 .. PduSize - 1))
      /\ ~cut[t] => st.acked \subseteq accepted[t]
      /\ Shared(fifo[t], st.wait, retransmission_packets[t], st.acked, dropped[t], all)
  BY DEF Acking
<1>2. CASE found = {}
  BY <1>2 DEF Acknowledge
<1>3. CASE found # {}
  <2>1. DOMAIN st.wait = 1 .. Len(st.wait) /\ Len(st.wait) \in Nat
    BY <1>1, LenProperties
  <2>2. PICK i : i = Min(found)
    <3>1. Min(found) = Min(found)
      OBVIOUS
    <3> QED BY ONLY <3>1
  <2>3. i \in 1 .. Len(st.wait) /\ UniqueId(st.wait[i]) = id
    <3>1. found \in SUBSET Nat
      BY <2>1
    <3>2. i \in found
      <4> HIDE DEF found
      <4>1. \E x \in found : \A y \in found : x <= y
        BY <1>3, <3>1, Smallest
      <4> QED BY <2>2, <4>1 DEF Min
    <3> QED BY <2>1, <3>2
  <2>4. Acknowledge(st, id) = [wait |-> RemoveAt(st.wait, i),
                               acked |-> st.acked \cup {Fragment(st.wait[i])}]
    BY <1>3, <2>2 DEF Acknowledge
  <2> HIDE DEF found
  <2>5. /\ st.wait[i] \in Packet /\ (~cut[t] => st.wait[i].id = st.wait[i].nb)
    <3>1. st.wait[i] \in PacketOf(t)
      BY <1>1, <2>3, ElementOfSeq
    <3> QED BY <3>1 DEF PacketOf
  <2>6. PICK g : g = Fragment(st.wait[i])
    <3>1. Fragment(st.wait[i]) = Fragment(st.wait[i])
      OBVIOUS
    <3> QED BY ONLY <3>1
  <2>7. g \in Nat \X (0 .. PduSize - 1) /\ (~cut[t] => g = id)
    BY <2>3, <2>5, <2>6 DEF Fragment, UniqueId, Packet
  <2>8. PICK rest : rest = RemoveAt(st.wait, i)
    <3>1. RemoveAt(st.wait, i) = RemoveAt(st.wait, i)
      OBVIOUS
    <3> QED BY ONLY <3>1
  <2>9. /\ rest \in Seq(PacketOf(t))
        /\ Once(st.wait) => Once(rest) /\ g \notin Fragments(rest)
        /\ Fragments(st.wait) = Fragments(rest) \cup {g}
    BY <1>1, <2>3, <2>6, <2>8, TakenOut
  <2>10. Shared(fifo[t], rest, retransmission_packets[t], st.acked \cup {g}, dropped[t], all)
    BY <1>1, <2>9 DEF Shared
  <2>11. Acknowledge(st, id) = [wait |-> rest, acked |-> st.acked \cup {g}]
    BY <2>4, <2>6, <2>8
  <2>12. ~cut[t] => st.acked \cup {g} \subseteq accepted[t]
    BY <1>1, <2>7
  <2>13. st.acked \cup {g} \in SUBSET (Nat \X (0 .. PduSize - 1))
    BY <1>1, <2>7
  <2>14. PICK after : after = [wait |-> rest, acked |-> st.acked \cup {g}]
    OBVIOUS
  <2>15. after.wait = rest /\ after.acked = st.acked \cup {g}
    BY <2>14
  <2>16. after \in [wait : Seq(PacketOf(t)), acked : SUBSET (Nat \X (0 .. PduSize - 1))]
    BY <2>9, <2>13, <2>14
  <2>17. after \in Acking(t, all)
    BY <2>10, <2>12, <2>15, <2>16 DEF Acking
  <2> QED BY <2>11, <2>14, <2>17
<1> QED BY <1>2, <1>3

LEMMA AcksKeep ==
  ASSUME NEW t, NEW all, NEW before \in Acking(t, all), NEW ids, NEW n \in Nat, n = Len(ids),
         \A i \in 1 .. n : ~cut[t] => ids[i] \in accepted[t]
  PROVE  LET step[i \in 0 .. Len(ids)] ==
               IF i = 0 THEN before ELSE Acknowledge(step[i - 1], ids[i])
         IN step[Len(ids)] \in Acking(t, all)
<1> DEFINE X == Acking(t, all)
           turn == [i \in 1 .. n |-> [st \in X |-> Acknowledge(st, ids[i])]]
           step[i \in 0 .. Len(ids)] ==
             IF i = 0 THEN before ELSE Acknowledge(step[i - 1], ids[i])
<1>1. \A i \in 1 .. n : \A st \in X : Acknowledge(st, ids[i]) \in X
  BY AcknowledgeKeeps
<1>2. PICK f \in [0 .. n -> X] : Loop(f, n, before, turn)
  <2>1. turn \in [1 .. n -> [X -> X]]
    <3> HIDE DEF X
    <3> QED BY <1>1
  <2> HIDE DEF turn
  <2>2. before \in X
    OBVIOUS
  <2> HIDE DEF X
  <2> QED BY <2>1, <2>2, Iterates
<1> HIDE DEF X
<1>3. f = [i \in 0 .. n |-> IF i = 0 THEN before ELSE Acknowledge(f[i - 1], ids[i])]
  <2>1. ASSUME NEW i \in 0 .. n
        PROVE  f[i] = IF i = 0 THEN before ELSE Acknowledge(f[i - 1], ids[i])
    <3>1. CASE i = 0
      BY <1>2, <3>1 DEF Loop
    <3>2. CASE i # 0
      <4>1. i \in 1 .. n /\ i - 1 \in 0 .. n
        BY <3>2
      <4>2. f[i] = turn[i][f[i - 1]] /\ f[i - 1] \in X
        BY <1>2, <4>1 DEF Loop
      <4> QED BY <3>2, <4>1, <4>2
    <3> QED BY <3>1, <3>2
  <2> QED BY <2>1
<1>4. step = [i \in 0 .. n |-> IF i = 0 THEN before ELSE Acknowledge(step[i - 1], ids[i])]
  BY <1>3
<1> HIDE DEF step
<1>5. step[n] \in X
  <2>1. step[0] = before /\ \A i \in 1 .. n : step[i] = Acknowledge(step[i - 1], ids[i])
    <3>1. 0 \in 0 .. n /\ \A i \in 1 .. n : i \in 0 .. n /\ i # 0
      OBVIOUS
    <3> QED BY <1>4, <3>1
  <2>2. \A i \in 1 .. n : step[i - 1] \in X => step[i] \in X
    BY <1>1, <2>1
  <2>3. step[0] \in X
    BY <2>1 DEF X
  <2>4. \A i \in 0 .. n : step[i] \in X
    BY <2>2, <2>3, StepsKeep
  <2> QED BY <2>4
<1> QED BY <1>5 DEF step, X

LEMMA InvReceiveAcks ==
  ASSUME IInv, NEW t \in Terminals, ReceiveAcks(t)
  PROVE  IInv'
<1> DEFINE before == [wait |-> packets_wait_ack[t], acked |-> acked[t]]
           ids == Head(down[t])
           step[i \in 0 .. Len(ids)] ==
             IF i = 0 THEN before ELSE Acknowledge(step[i - 1], ids[i])
           after == step[Len(ids)]
<1>1. /\ down[t] # << >>
      /\ down' = [down EXCEPT ![t] = Tail(@)]
      /\ packets_wait_ack' = [packets_wait_ack EXCEPT ![t] = after.wait]
      /\ acked' = [acked EXCEPT ![t] = after.acked]
      /\ IF after = before
         THEN UNCHANGED <<cw, backoff>>
         ELSE /\ cw' = [cw EXCEPT ![t] = 1]
              /\ \E b \in Random(1) : backoff' = [backoff EXCEPT ![t] = b]
      /\ UNCHANGED <<bursts, cut, base_id, fifo, retransmission_packets, complete, tal_sf,
                     dropped, nccVars, up, lost>>
  BY DEF ReceiveAcks
<1>2. TalTypes /\ NccTypes /\ LinkTypes /\ Named /\ Apart(t) /\ (~cut[t] => Told(t))
  BY DEF IInv, TypeOK
<1>3. /\ ids \in Seq(Nat \X (0 .. PduSize - 1))
      /\ Tail(down[t]) \in Seq(Seq(Nat \X (0 .. PduSize - 1)))
      /\ ~cut[t] => ids \in Seq(accepted[t]) /\ Tail(down[t]) \in Seq(Seq(accepted[t]))
  BY <1>1, <1>2, HeadTailProperties DEF LinkTypes, Told
<1>4. PICK all \in SUBSET Given(t) : (~cut[t] => all = Given(t)) /\ Places(t, all)
  BY <1>2 DEF Apart
<1>5. before \in Acking(t, all)
  <2>1. before.wait = packets_wait_ack[t] /\ before.acked = acked[t]
    OBVIOUS
  <2>2. before \in [wait : Seq(PacketOf(t)), acked : SUBSET (Nat \X (0 .. PduSize - 1))]
    BY <1>2 DEF Named, TalTypes
  <2>3. ~cut[t] => acked[t] \subseteq accepted[t]
    BY <1>2 DEF Told
  <2> HIDE DEF before
  <2> QED BY <1>4, <2>1, <2>2, <2>3 DEF Acking, Places
<1>6. after \in Acking(t, all)
  <2> HIDE DEF before, ids
  <2>1. Len(ids) \in Nat /\ \A i \in 1 .. Len(ids) : ~cut[t] => ids[i] \in accepted[t]
    BY <1>3, LenProperties
  <2> QED BY <1>5, <2>1, AcksKeep
<1> HIDE DEF after, step, before, ids
<1>7. PICK w : w = after.wait
  <2>1. after.wait = after.wait
    OBVIOUS
  <2> QED BY ONLY <2>1
<1>8. PICK a : a = after.acked
  <2>1. after.acked = after.acked
    OBVIOUS
  <2> QED BY ONLY <2>1
<1>9. /\ w \in Seq(PacketOf(t)) /\ a \in SUBSET (Nat \X (0 .. PduSize - 1))
      /\ ~cut[t] => a \subseteq accepted[t]
      /\ Shared(fifo[t], w, retransmission_packets[t], a, dropped[t], all)
  BY <1>6, <1>7, <1>8 DEF Acking
<1>10. /\ packets_wait_ack' = [packets_wait_ack EXCEPT ![t] = w]
       /\ acked' = [acked EXCEPT ![t] = a]
  BY <1>1, <1>7, <1>8
<1>11. /\ \A u : PacketOf(u)' = PacketOf(u) /\ CopyOf(u)' = CopyOf(u)
       /\ Sent' = Sent
  BY <1>1, OtherPackets
<1>12. TalTypes'
  <2>1. w \in Seq(Packet)
    <3>1. PacketOf(t) \subseteq Packet
      BY DEF PacketOf
    <3> QED BY <1>9, <3>1, SeqMonotonic
  <2>2. packets_wait_ack' \in [Terminals -> Seq(Packet)]
    BY <1>2, <1>10, <2>1 DEF TalTypes
  <2>3. acked' \in [Terminals -> SUBSET (Nat \X (0 .. PduSize - 1))]
    BY <1>2, <1>9, <1>10 DEF TalTypes
  <2>4. cw' \in [Terminals -> Nat] /\ backoff' \in [Terminals -> Nat]
    <3>1. Random(1) \subseteq Nat /\ 1 \in Nat
      BY DEF Random
    <3>2. CASE after = before
      BY <1>1, <1>2, <3>2 DEF TalTypes
    <3>3. CASE after # before
      <4>1. cw' = [cw EXCEPT ![t] = 1] /\ \E b \in Random(1) : backoff' = [backoff EXCEPT ![t] = b]
        BY <1>1, <3>3
      <4> QED BY <1>2, <3>1, <4>1 DEF TalTypes
    <3> QED BY <3>2, <3>3
  <2> QED BY <1>1, <1>2, <2>2, <2>3, <2>4 DEF TalTypes
<1>13. NccTypes'
  BY <1>1, <1>2 DEF NccTypes, nccVars
<1>14. LinkTypes'
  BY <1>1, <1>2, <1>3 DEF LinkTypes
<1>15. Named'
  <2>1. ASSUME NEW u \in Terminals
        PROVE  /\ fifo'[u] \in Seq(PacketOf(u))
               /\ packets_wait_ack'[u] \in Seq(PacketOf(u))
               /\ retransmission_packets'[u] \in Seq(PacketOf(u))
               /\ complete'[u] \in Seq(Seq(CopyOf(u)))
               /\ up'[u] \in Seq(Seq(CopyOf(u)))
    BY <1>1, <1>2, <1>9, <1>10 DEF Named, TalTypes
  <2>2. slots' \in [Slots -> Seq(Sent)]
    BY <1>1, <1>2 DEF Named, nccVars
  <2> QED BY <1>11, <2>1, <2>2 DEF Named
<1>16. ASSUME NEW u \in Terminals PROVE (~cut'[u] => Told(u)') /\ Apart(u)'
  <2>0. cut' = cut /\ Given(u)' = Given(u) /\ accepted' = accepted
    BY <1>1 DEF Given, nccVars
  <2>1. CASE u = t
    <3>1. /\ packets_wait_ack'[t] = w /\ acked'[t] = a /\ down'[t] = Tail(down[t])
      BY <1>1, <1>2, <1>10 DEF TalTypes, LinkTypes
    <3>2. ASSUME ~cut'[t] PROVE Told(t)'
      BY <1>1, <1>2, <1>3, <1>9, <2>0, <3>1, <3>2 DEF Told
    <3>3. Places(t, all)'
      BY <1>1, <1>9, <3>1 DEF Places
    <3>4. Apart(t)'
      BY <1>4, <2>0, <2>1, <3>3 DEF Apart
    <3> QED BY <2>1, <3>2, <3>4
  <2>2. CASE u # t
    <3>1. /\ packets_wait_ack'[u] = packets_wait_ack[u] /\ acked'[u] = acked[u]
          /\ down'[u] = down[u]
      BY <1>1, <1>2, <1>10, <2>2 DEF TalTypes, LinkTypes
    <3>2. (~cut[u] => Told(u)) /\ Apart(u)
      BY DEF IInv
    <3>3. Told(u)' <=> Told(u)
      BY <1>1, <2>0, <3>1 DEF Told
    <3>4. Apart(u)'
      BY <1>1, <2>0, <3>1, <3>2 DEF Apart, Places
    <3> QED BY <2>0, <3>2, <3>3, <3>4
  <2> QED BY <2>1, <2>2
<1> QED BY <1>12, <1>13, <1>14, <1>15, <1>16 DEF IInv, TypeOK

-----------------------------------------------------------------------------
(* The NCC and the links                                                   *)

LEMMA AloneAre ==
  ASSUME NEW X, NEW received_slots \in [Slots -> Seq(X)], NEW noise
  PROVE  Alone(received_slots, noise) \in Seq(X)
<1> DEFINE alone == {i \in Slots \ noise : Len(received_slots[i]) = 1}
           packet(i) == Head(received_slots[i])
           same(i, j) == /\ packet(i).tal = packet(j).tal
                         /\ UniqueId(packet(i)) = UniqueId(packet(j))
           first == {i \in alone : ~\E j \in alone : j < i /\ same(i, j)}
           slot == [i \in 1 .. SlotsNumber |-> i - 1]
           order == Those(slot, first)
<1>1. slot \in Seq(Slots)
  <2>1. SlotsNumber \in Nat /\ slot \in [1 .. SlotsNumber -> Slots]
    BY Parameters DEF Slots
  <2> HIDE DEF slot
  <2> QED BY <2>1, IsList
<1>2. order \in Seq(Slots \cap first)
  <2> HIDE DEF slot, first
  <2> QED BY <1>1, ThoseKeep
<1>3. \A i \in first : packet(i) \in X
  <2> SUFFICES ASSUME NEW i \in first PROVE packet(i) \in X
    OBVIOUS
  <2>1. received_slots[i] \in Seq(X) /\ Len(received_slots[i]) = 1
    OBVIOUS
  <2>2. received_slots[i] # << >>
    <3>1. Len(<< >>) # 1
      BY EmptySeq
    <3> QED BY ONLY <2>1, <3>1
  <2> QED BY <2>1, <2>2, HeadTailProperties
<1> HIDE DEF order
<1>4. DOMAIN order = 1 .. Len(order) /\ Len(order) \in Nat /\ \A k \in 1 .. Len(order) : order[k] \in first
  BY <1>2, LenProperties
<1>5. [k \in DOMAIN order |-> packet(order[k])] \in [1 .. Len(order) -> X]
  BY <1>3, <1>4
<1>6. [k \in DOMAIN order |-> packet(order[k])] \in Seq(X)
  BY <1>4, <1>5, IsList
<1> QED BY <1>6 DEF Alone, order, slot, first

LEMMA FromAre ==
  ASSUME NEW t, NEW packets \in Seq(Sent)
  PROVE  From(t, packets) \in Seq(CopyOf(t))
<1> DEFINE S == {p \in ToSet(packets) : p.tal = t}
<1>1. From(t, packets) = Those(packets, S)
  BY DEF From
<1>2. Sent \cap S \subseteq CopyOf(t)
  BY DEF Sent, CopyOf
<1> HIDE DEF S
<1>3. Those(packets, S) \in Seq(Sent \cap S)
  BY ThoseKeep
<1> QED BY <1>1, <1>2, <1>3, SeqMonotonic

Context == [waiting : Seq(Copy), burst : Seq(Copy)]

LEMMA AddPacketType ==
  ASSUME NEW st \in Context, NEW p \in Copy
  PROVE  AddPacket(st, p) \in Context
<1>1. Append(st.waiting, p) \in Seq(Copy)
  BY AppendProperties DEF Context
<1>2. PduSize # Len(NoPackets)
  BY Parameters, EmptySeq DEF NoPackets
<1>3. AddPacket(st, p) = [st EXCEPT !.waiting = Append(st.waiting, p)]
  BY <1>2 DEF AddPacket
<1> QED BY <1>1, <1>3 DEF Context

LEMMA ContextType ==
  ASSUME NEW before \in Context, NEW new \in Seq(Copy)
  PROVE  LET step[i \in 0 .. Len(new)] ==
               IF i = 0 THEN before ELSE AddPacket(step[i - 1], new[i])
         IN step[Len(new)] \in Context
<1> DEFINE n == Len(new)
           turn == [i \in 1 .. n |-> [st \in Context |-> AddPacket(st, new[i])]]
           step[i \in 0 .. n] == IF i = 0 THEN before ELSE AddPacket(step[i - 1], new[i])
<1>1. n \in Nat /\ \A i \in 1 .. n : \A st \in Context : AddPacket(st, new[i]) \in Context
  BY LenProperties, AddPacketType
<1> HIDE DEF n
<1>2. PICK f \in [0 .. n -> Context] : Loop(f, n, before, turn)
  <2>1. turn \in [1 .. n -> [Context -> Context]]
    BY <1>1
  <2> HIDE DEF turn
  <2> QED BY <1>1, <2>1, Iterates
<1>3. f = [i \in 0 .. n |-> IF i = 0 THEN before ELSE AddPacket(f[i - 1], new[i])]
  <2>1. ASSUME NEW i \in 0 .. n
        PROVE  f[i] = IF i = 0 THEN before ELSE AddPacket(f[i - 1], new[i])
    <3>1. CASE i = 0
      BY <1>2, <3>1 DEF Loop
    <3>2. CASE i # 0
      <4>1. i \in 1 .. n /\ i - 1 \in 0 .. n
        BY <1>1, <3>2
      <4>2. f[i] = turn[i][f[i - 1]] /\ f[i - 1] \in Context
        BY <1>2, <4>1 DEF Loop
      <4> QED BY <3>2, <4>1, <4>2
    <3> QED BY <3>1, <3>2
  <2> QED BY <2>1
<1>4. step = [i \in 0 .. n |-> IF i = 0 THEN before ELSE AddPacket(step[i - 1], new[i])]
  BY <1>3
<1> HIDE DEF step
<1>5. step[n] \in Context
  <2>1. step[0] = before /\ \A i \in 1 .. n : step[i] = AddPacket(step[i - 1], new[i])
    <3>1. 0 \in 0 .. n /\ \A i \in 1 .. n : i \in 0 .. n /\ i # 0
      BY <1>1
    <3> QED BY <1>4, <3>1
  <2>2. \A i \in 0 .. n : step[i] \in Context
    BY <1>1, <2>1, StepsKeep
  <2> QED BY <1>1, <2>2
<1> QED BY <1>5 DEF step, n

(* The NCC only acknowledges what it accepts.                              *)
Gives(ids, new, X) == /\ \A t \in Terminals : accepted[t] \subseteq new[t]
                      /\ \A t \in Terminals : ids[t] \in Seq(Nat \X (0 .. PduSize - 1))
                      /\ \A t \in Terminals : ~cut[t] => ids[t] \in Seq(new[t])
                      /\ new \in [Terminals -> SUBSET X]

(* down' is down, or down with a list of acknowledgements more.            *)
Answers(ids) == \/ down' = down
                \/ down' = [t \in Terminals |-> IF ids[t] = << >> THEN down[t]
                                                ELSE Append(down[t], ids[t])]

LEMMA Accepts ==
  ASSUME NccTypes, NEW packets \in Seq(Sent)
  PROVE  /\ \A t \in Terminals : Fragments(From(t, packets)) \subseteq Nat \X (0 .. PduSize - 1)
         /\ \A t \in Terminals : LET new == From(t, packets)
                                     ids == [i \in DOMAIN new |-> UniqueId(new[i])]
                                 IN /\ ids \in Seq(Nat \X (0 .. PduSize - 1))
                                    /\ ~cut[t] => ids \in Seq(Fragments(new))
<1> SUFFICES ASSUME NEW t \in Terminals
             PROVE  LET new == From(t, packets)
                        ids == [i \in DOMAIN new |-> UniqueId(new[i])]
                    IN /\ Fragments(new) \subseteq Nat \X (0 .. PduSize - 1)
                       /\ ids \in Seq(Nat \X (0 .. PduSize - 1))
                       /\ ~cut[t] => ids \in Seq(Fragments(new))
  OBVIOUS
<1> DEFINE new == From(t, packets)
           n == Len(new)
           ids == [i \in DOMAIN new |-> UniqueId(new[i])]
<1>1. new \in Seq(CopyOf(t))
  BY FromAre
<1> HIDE DEF new
<1>2. /\ DOMAIN new = 1 .. n /\ n \in Nat /\ \A i \in 1 .. n : new[i] \in CopyOf(t)
      /\ ToSet(new) = {new[i] : i \in 1 .. n}
  BY <1>1, LenProperties, ItemsOf
<1>3. \A i \in 1 .. n : /\ UniqueId(new[i]) \in Nat \X (0 .. PduSize - 1)
                        /\ Fragment(new[i]) \in Nat \X (0 .. PduSize - 1)
                        /\ ~cut[t] => UniqueId(new[i]) = Fragment(new[i])
                        /\ Fragment(new[i]) \in Fragments(new)
  <2> SUFFICES ASSUME NEW i \in 1 .. n
               PROVE  /\ UniqueId(new[i]) \in Nat \X (0 .. PduSize - 1)
                      /\ Fragment(new[i]) \in Nat \X (0 .. PduSize - 1)
                      /\ ~cut[t] => UniqueId(new[i]) = Fragment(new[i])
                      /\ Fragment(new[i]) \in Fragments(new)
    OBVIOUS
  <2>1. new[i] \in Copy /\ (~cut[t] => new[i].id = new[i].nb)
    BY <1>2 DEF CopyOf
  <2>2. Fragment(new[i]) \in Fragments(new)
    BY <1>2 DEF Fragments
  <2> QED BY <2>1, <2>2 DEF Copy, UniqueId, Fragment
<1>4. Fragments(new) \subseteq Nat \X (0 .. PduSize - 1)
  BY <1>2, <1>3 DEF Fragments
<1>5. ids \in Seq(Nat \X (0 .. PduSize - 1))
  <2>1. ids \in [1 .. n -> Nat \X (0 .. PduSize - 1)]
    BY <1>2, <1>3
  <2> HIDE DEF ids
  <2> QED BY <1>2, <2>1, IsList
<1>6. ASSUME ~cut[t] PROVE ids \in Seq(Fragments(new))
  <2>1. ids \in [1 .. n -> Fragments(new)]
    BY <1>2, <1>3, <1>6
  <2> HIDE DEF ids
  <2> QED BY <1>2, <2>1, IsList
<1> QED BY <1>4, <1>5, <1>6 DEF new

LEMMA ResolveKeeps ==
  ASSUME NccTypes, NEW in_slots \in [Slots -> Seq(Sent)], NEW sent \in BOOLEAN,
         Resolve(in_slots, sent)
  PROVE  /\ slots' = [i \in Slots |-> << >>] /\ received' = FALSE
         /\ wait_propagation' \in [Terminals -> Seq(Copy)]
         /\ propagated' \in [Terminals -> Seq(Copy)]
         /\ answered' \in [Terminals -> SUBSET (Nat \X (0 .. PduSize - 1))]
         /\ \E ids : Gives(ids, accepted', Nat \X (0 .. PduSize - 1)) /\ Answers(ids)
<1>1. PICK noise \in {N \in SUBSET Slots : Cardinality(N) <= MaxNoise} :
        LET packets == Alone(in_slots, noise)
            context(t) ==
              LET new == From(t, packets)
                  step[i \in 0 .. Len(new)] ==
                    IF i = 0 THEN [waiting |-> wait_propagation[t], burst |-> << >>]
                    ELSE AddPacket(step[i - 1], new[i])
              IN step[Len(new)]
            ids(t) == LET new == From(t, packets) IN [i \in DOMAIN new |-> UniqueId(new[i])]
        IN /\ slots' = [i \in Slots |-> << >>]
           /\ received' = FALSE
           /\ accepted' = [t \in Terminals |-> accepted[t] \cup Fragments(From(t, packets))]
           /\ wait_propagation' = [t \in Terminals |-> context(t).waiting]
           /\ IF sent
              THEN /\ propagated' = [t \in Terminals |-> propagated[t] \o context(t).burst]
                   /\ answered' = [t \in Terminals |-> answered[t] \cup Fragments(From(t, packets))]
                   /\ down' = [t \in Terminals |-> IF ids(t) = << >> THEN down[t]
                                                   ELSE Append(down[t], ids(t))]
              ELSE UNCHANGED <<propagated, answered, down>>
  BY DEF Resolve
<1> DEFINE packets == Alone(in_slots, noise)
           before(t) == [waiting |-> wait_propagation[t], burst |-> << >>]
           context(t) ==
             LET new == From(t, packets)
                 step[i \in 0 .. Len(new)] ==
                   IF i = 0 THEN before(t) ELSE AddPacket(step[i - 1], new[i])
             IN step[Len(new)]
           acks(t) == LET new == From(t, packets) IN [i \in DOMAIN new |-> UniqueId(new[i])]
           ids == [t \in Terminals |-> acks(t)]
<1>2. /\ slots' = [i \in Slots |-> << >>]
      /\ received' = FALSE
      /\ accepted' = [t \in Terminals |-> accepted[t] \cup Fragments(From(t, packets))]
      /\ wait_propagation' = [t \in Terminals |-> context(t).waiting]
      /\ IF sent
         THEN /\ propagated' = [t \in Terminals |-> propagated[t] \o context(t).burst]
              /\ answered' = [t \in Terminals |-> answered[t] \cup Fragments(From(t, packets))]
              /\ down' = [t \in Terminals |-> IF acks(t) = << >> THEN down[t]
                                              ELSE Append(down[t], acks(t))]
         ELSE UNCHANGED <<propagated, answered, down>>
  BY <1>1
<1>3. packets \in Seq(Sent)
  BY AloneAre
<1> HIDE DEF packets
<1>4. ASSUME NEW t \in Terminals PROVE context(t) \in Context
  <2>1. before(t) \in Context
    BY DEF NccTypes, Context
  <2> HIDE DEF before
  <2>2. From(t, packets) \in Seq(Copy)
    <3>1. CopyOf(t) \subseteq Copy
      BY DEF CopyOf
    <3> QED BY <1>3, <3>1, FromAre, SeqMonotonic
  <2> QED BY <2>1, <2>2, ContextType
<1> HIDE DEF context
<1>5. wait_propagation' \in [Terminals -> Seq(Copy)]
  BY <1>2, <1>4 DEF Context
<1>6. propagated' \in [Terminals -> Seq(Copy)]
  <2>1. ASSUME NEW t \in Terminals PROVE propagated[t] \o context(t).burst \in Seq(Copy)
    BY <1>4, ConcatProperties DEF NccTypes, Context
  <2> QED BY <1>2, <2>1 DEF NccTypes
<1>7. \A t \in Terminals : /\ Fragments(From(t, packets)) \subseteq Nat \X (0 .. PduSize - 1)
                           /\ acks(t) \in Seq(Nat \X (0 .. PduSize - 1))
                           /\ ~cut[t] => acks(t) \in Seq(Fragments(From(t, packets)))
  BY <1>3, Accepts
<1>8. Answers(ids)
  <2> HIDE DEF acks
  <2>1. CASE sent
    <3>1. down' = [t \in Terminals |-> IF acks(t) = << >> THEN down[t] ELSE Append(down[t], acks(t))]
      BY <1>2, <2>1
    <3> QED BY <3>1 DEF Answers
  <2>2. CASE ~sent
    BY <1>2, <2>2 DEF Answers
  <2> QED BY <2>1, <2>2
<1> HIDE DEF acks
<1>9. answered' \in [Terminals -> SUBSET (Nat \X (0 .. PduSize - 1))]
  BY <1>2, <1>7 DEF NccTypes
<1>10. Gives(ids, accepted', Nat \X (0 .. PduSize - 1))
  <2>1. accepted' \in [Terminals -> SUBSET (Nat \X (0 .. PduSize - 1))]
    BY <1>2, <1>7 DEF NccTypes
  <2>2. \A t \in Terminals : /\ accepted[t] \subseteq accepted'[t]
                             /\ Fragments(From(t, packets)) \subseteq accepted'[t]
    BY <1>2
  <2>3. \A t \in Terminals : ids[t] = acks(t)
    OBVIOUS
  <2>4. ASSUME NEW t \in Terminals, ~cut[t] PROVE acks(t) \in Seq(accepted'[t])
    BY <1>7, <2>2, <2>4, SeqMonotonic
  <2> HIDE DEF ids
  <2> QED BY <1>7, <2>1, <2>2, <2>3, <2>4 DEF Gives
<1> QED BY <1>2, <1>5, <1>6, <1>8, <1>9, <1>10

(* A step of the NCC, which takes the first message of one terminal or not.*)
LEMMA NccKeeps ==
  ASSUME IInv, UNCHANGED talVars,
         NccTypes', slots' \in [Slots -> Seq(Sent)],
         up' = up \/ \E t \in Terminals : up[t] # << >> /\ up' = [up EXCEPT ![t] = Tail(@)],
         lost' \in 0 .. MaxLost,
         NEW ids, Gives(ids, accepted', Nat \X (0 .. PduSize - 1)),
         \/ Answers(ids)
         \/ \E t \in Terminals : down[t] # << >> /\ down' = [down EXCEPT ![t] = Tail(@)]
  PROVE  IInv'
<1>1. TalTypes /\ NccTypes /\ LinkTypes /\ Named
  BY DEF IInv, TypeOK
<1>2. /\ \A u : PacketOf(u)' = PacketOf(u) /\ CopyOf(u)' = CopyOf(u)
      /\ Sent' = Sent /\ cut' = cut
  BY OtherPackets DEF talVars
<1>3. TalTypes'
  BY <1>1 DEF TalTypes, talVars
<1>4. /\ up' \in [Terminals -> Seq(Seq(Copy))]
      /\ \A t \in Terminals : up'[t] \in Seq(Seq(CopyOf(t)))
  <2>1. CASE up' = up
    BY <1>1, <2>1 DEF LinkTypes, Named
  <2>2. ASSUME NEW t \in Terminals, up[t] # << >>, up' = [up EXCEPT ![t] = Tail(@)]
        PROVE  /\ up' \in [Terminals -> Seq(Seq(Copy))]
               /\ \A u \in Terminals : up'[u] \in Seq(Seq(CopyOf(u)))
    <3>1. Tail(up[t]) \in Seq(Seq(Copy)) /\ Tail(up[t]) \in Seq(Seq(CopyOf(t)))
      BY <1>1, <2>2, HeadTailProperties DEF LinkTypes, Named
    <3> QED BY <1>1, <2>2, <3>1 DEF LinkTypes, Named
  <2> QED BY <2>1, <2>2
<1>5. /\ down' \in [Terminals -> Seq(Seq(Nat \X (0 .. PduSize - 1)))]
      /\ \A t \in Terminals : ~cut[t] => down'[t] \in Seq(Seq(accepted'[t]))
  <2>1. ASSUME NEW t \in Terminals, ~cut[t]
        PROVE  down[t] \in Seq(Seq(accepted'[t])) /\ ids[t] \in Seq(accepted'[t])
    <3>1. down[t] \in Seq(Seq(accepted[t])) /\ accepted[t] \subseteq accepted'[t]
      BY <2>1 DEF IInv, Told, Gives
    <3>2. Seq(accepted[t]) \subseteq Seq(accepted'[t])
      BY <3>1, SeqMonotonic
    <3>3. down[t] \in Seq(Seq(accepted'[t]))
      BY <3>1, <3>2, SeqMonotonic
    <3> QED BY <2>1, <3>3 DEF Gives
  <2>2. ASSUME NEW t \in Terminals
        PROVE  /\ down[t] \in Seq(Seq(Nat \X (0 .. PduSize - 1)))
               /\ ids[t] \in Seq(Nat \X (0 .. PduSize - 1))
    BY <1>1 DEF LinkTypes, Gives
  <2>3. CASE down' = down
    BY <1>1, <2>1, <2>3 DEF LinkTypes
  <2>4. CASE down' = [t \in Terminals |-> IF ids[t] = << >> THEN down[t]
                                          ELSE Append(down[t], ids[t])]
    <3>1. ASSUME NEW t \in Terminals
          PROVE  /\ Append(down[t], ids[t]) \in Seq(Seq(Nat \X (0 .. PduSize - 1)))
                 /\ ~cut[t] => Append(down[t], ids[t]) \in Seq(Seq(accepted'[t]))
      BY <2>1, <2>2, AppendProperties
    <3> QED BY <2>1, <2>2, <2>4, <3>1
  <2>5. ASSUME NEW t \in Terminals, down[t] # << >>, down' = [down EXCEPT ![t] = Tail(@)]
        PROVE  /\ down' \in [Terminals -> Seq(Seq(Nat \X (0 .. PduSize - 1)))]
               /\ \A u \in Terminals : ~cut[u] => down'[u] \in Seq(Seq(accepted'[u]))
    <3>1. Tail(down[t]) \in Seq(Seq(Nat \X (0 .. PduSize - 1)))
      BY <2>2, <2>5, HeadTailProperties
    <3>2. ~cut[t] => Tail(down[t]) \in Seq(Seq(accepted'[t]))
      BY <2>1, <2>5, HeadTailProperties
    <3>3. down' \in [Terminals -> Seq(Seq(Nat \X (0 .. PduSize - 1)))]
      BY <1>1, <2>5, <3>1 DEF LinkTypes
    <3>4. \A u \in Terminals : down'[u] = IF u = t THEN Tail(down[t]) ELSE down[u]
      BY <1>1, <2>5 DEF LinkTypes
    <3> QED BY <2>1, <3>2, <3>3, <3>4
  <2> QED BY <2>3, <2>4, <2>5 DEF Answers
<1>6. LinkTypes'
  BY <1>4, <1>5 DEF LinkTypes
<1>7. Named'
  BY <1>1, <1>2, <1>4 DEF Named, talVars
<1>8. ASSUME NEW u \in Terminals PROVE (~cut'[u] => Told(u)') /\ Apart(u)'
  <2>1. (~cut[u] => Told(u)) /\ Apart(u)
    BY DEF IInv
  <2>2. ASSUME ~cut'[u] PROVE Told(u)'
    <3>1. Told(u) /\ accepted[u] \subseteq accepted'[u]
      BY <1>2, <2>1, <2>2 DEF Gives
    <3>2. down'[u] \in Seq(Seq(accepted'[u]))
      BY <1>2, <1>5, <2>2
    <3> QED BY <3>1, <3>2 DEF Told, talVars
  <2>3. Apart(u)'
    BY <2>1 DEF Apart, Given, Places, talVars
  <2> QED BY <2>2, <2>3
<1> QED BY <1>3, <1>6, <1>7, <1>8 DEF IInv, TypeOK

LEMMA NothingGiven ==
  ASSUME IInv, accepted' = accepted
  PROVE  \E ids : Gives(ids, accepted', Nat \X (0 .. PduSize - 1))
<1> DEFINE ids == [t \in Terminals |-> << >>]
<1>1. accepted \in [Terminals -> SUBSET (Nat \X (0 .. PduSize - 1))]
  BY DEF IInv, TypeOK, NccTypes
<1>2. \A t \in Terminals : ids[t] = << >>
  OBVIOUS
<1>3. Gives(ids, accepted, Nat \X (0 .. PduSize - 1))
  BY <1>1, <1>2 DEF Gives
<1> QED BY <1>3

LEMMA InvNccSof == IInv /\ NccSof => IInv'
<1> SUFFICES ASSUME IInv, NccSof PROVE IInv'
  OBVIOUS
<1>1. NccTypes /\ slots \in [Slots -> Seq(Sent)] /\ lost \in 0 .. MaxLost /\ Sent' = Sent
  <2>1. Sent' = Sent
    BY OtherPackets DEF NccSof, talVars
  <2> QED BY <2>1 DEF IInv, TypeOK, NccTypes, Named, LinkTypes
<1>2. /\ ncc_sf' \in 0 .. SfPerSaf - 1 /\ UNCHANGED <<talVars, up, lost>>
  <2>1. (ncc_sf + 1) % SfPerSaf \in 0 .. SfPerSaf - 1
    BY <1>1, Parameters DEF NccTypes
  <2> QED BY <2>1 DEF NccSof
<1>3. CASE ncc_sf' = 0 /\ received
  <2>1. Resolve(slots, TRUE)
    BY <1>3 DEF NccSof
  <2>2. /\ slots' = [i \in Slots |-> << >>] /\ received' = FALSE
        /\ wait_propagation' \in [Terminals -> Seq(Copy)]
        /\ propagated' \in [Terminals -> Seq(Copy)]
        /\ answered' \in [Terminals -> SUBSET (Nat \X (0 .. PduSize - 1))]
        /\ \E ids : Gives(ids, accepted', Nat \X (0 .. PduSize - 1)) /\ Answers(ids)
    BY <1>1, <2>1, ResolveKeeps
  <2>3. NccTypes' /\ slots' \in [Slots -> Seq(Sent)]
    <3>1. accepted' \in [Terminals -> SUBSET (Nat \X (0 .. PduSize - 1))]
      BY <2>2 DEF Gives
    <3>2. << >> \in Seq(Copy) /\ << >> \in Seq(Sent)
      OBVIOUS
    <3>3. slots' \in [Slots -> Seq(Copy)] /\ slots' \in [Slots -> Seq(Sent)]
      BY <2>2, <3>2
    <3> QED BY <1>2, <2>2, <3>1, <3>3 DEF NccTypes
  <2> QED BY <1>1, <1>2, <2>2, <2>3, NccKeeps
<1>4. CASE ~(ncc_sf' = 0 /\ received)
  <2>1. UNCHANGED <<slots, received, accepted, wait_propagation, propagated, answered, down>>
    BY <1>4 DEF NccSof
  <2>2. PICK ids : Gives(ids, accepted', Nat \X (0 .. PduSize - 1))
    BY <2>1, NothingGiven
  <2>3. Answers(ids)
    BY <2>1 DEF Answers
  <2>4. NccTypes' /\ slots' \in [Slots -> Seq(Sent)]
    BY <1>1, <1>2, <2>1 DEF NccTypes
  <2> QED BY <1>1, <1>2, <2>2, <2>3, <2>4, NccKeeps
<1> QED BY <1>3, <1>4

LEMMA InSlotsAre ==
  ASSUME slots \in [Slots -> Seq(Sent)], NEW frame \in Seq(Sent)
  PROVE  InSlots(frame) \in [Slots -> Seq(Sent)]
<1>1. ASSUME NEW i \in Slots
      PROVE  slots[i] \o Those(frame, {p \in ToSet(frame) : p.slot = i}) \in Seq(Sent)
  <2>1. Those(frame, {p \in ToSet(frame) : p.slot = i}) \in Seq(Sent)
    BY ThoseAre
  <2> QED BY <2>1, ConcatProperties
<1> QED BY <1>1 DEF InSlots

LEMMA InvReceive ==
  ASSUME IInv, NEW t \in Terminals, Receive(t)
  PROVE  IInv'
<1> DEFINE frame == Head(up[t])
           filled == InSlots(frame)
           any == received \/ \E p \in ToSet(frame) : p.slot \in Slots
<1>1. /\ up[t] # << >> /\ up' = [up EXCEPT ![t] = Tail(@)]
      /\ IF ncc_sf = 0 /\ any
         THEN Resolve(filled, FALSE)
         ELSE /\ slots' = filled
              /\ received' = any
              /\ UNCHANGED <<accepted, wait_propagation, propagated, answered, down>>
      /\ UNCHANGED <<talVars, ncc_sf, lost>>
  BY DEF Receive
<1>2. NccTypes /\ Named /\ LinkTypes /\ Sent' = Sent
  <2>1. Sent' = Sent
    BY <1>1, OtherPackets DEF talVars
  <2> QED BY <2>1 DEF IInv, TypeOK
<1>3. frame \in Seq(Sent)
  <2>1. frame \in Seq(CopyOf(t))
    BY <1>1, <1>2, HeadTailProperties DEF Named
  <2>2. CopyOf(t) \subseteq Sent
    BY DEF CopyOf, Sent
  <2> QED BY <2>1, <2>2, SeqMonotonic
<1> HIDE DEF frame
<1>4. filled \in [Slots -> Seq(Sent)]
  BY <1>2, <1>3, InSlotsAre DEF Named
<1>5. any \in BOOLEAN /\ lost' \in 0 .. MaxLost
  BY <1>1, <1>2 DEF NccTypes, LinkTypes
<1> HIDE DEF any, filled
<1>6. CASE ncc_sf = 0 /\ any
  <2>1. Resolve(filled, FALSE)
    BY <1>1, <1>6
  <2>2. /\ slots' = [i \in Slots |-> << >>] /\ received' = FALSE
        /\ wait_propagation' \in [Terminals -> Seq(Copy)]
        /\ propagated' \in [Terminals -> Seq(Copy)]
        /\ answered' \in [Terminals -> SUBSET (Nat \X (0 .. PduSize - 1))]
        /\ \E ids : Gives(ids, accepted', Nat \X (0 .. PduSize - 1)) /\ Answers(ids)
    BY <1>2, <1>4, <2>1, ResolveKeeps
  <2>3. NccTypes' /\ slots' \in [Slots -> Seq(Sent)]
    <3>1. accepted' \in [Terminals -> SUBSET (Nat \X (0 .. PduSize - 1))]
      BY <2>2 DEF Gives
    <3>2. << >> \in Seq(Copy) /\ << >> \in Seq(Sent)
      OBVIOUS
    <3>3. slots' \in [Slots -> Seq(Copy)] /\ slots' \in [Slots -> Seq(Sent)]
      BY <2>2, <3>2
    <3> QED BY <1>1, <1>2, <2>2, <3>1, <3>3 DEF NccTypes
  <2> QED BY <1>1, <1>5, <2>2, <2>3, NccKeeps
<1>7. CASE ~(ncc_sf = 0 /\ any)
  <2>1. /\ slots' = filled /\ received' = any
        /\ UNCHANGED <<accepted, wait_propagation, propagated, answered, down>>
    BY <1>1, <1>7
  <2>2. PICK ids : Gives(ids, accepted', Nat \X (0 .. PduSize - 1))
    BY <2>1, NothingGiven
  <2>3. Answers(ids)
    BY <2>1 DEF Answers
  <2>4. NccTypes' /\ slots' \in [Slots -> Seq(Sent)]
    <3>1. slots' \in [Slots -> Seq(Copy)]
      <4>1. Seq(Sent) \subseteq Seq(Copy)
        <5>1. Sent \subseteq Copy
          BY DEF Sent
        <5> QED BY <5>1, SeqMonotonic
      <4> QED BY <1>4, <2>1, <4>1
    <3> QED BY <1>1, <1>2, <1>4, <1>5, <2>1, <3>1 DEF NccTypes
  <2> QED BY <1>1, <1>5, <2>2, <2>3, <2>4, NccKeeps
<1> QED BY <1>6, <1>7

(* The link takes the first message of one terminal.                       *)
LEMMA InvLose ==
  ASSUME IInv, NEW t \in Terminals, LoseFrame(t) \/ LoseAcks(t)
  PROVE  IInv'
<1>1. /\ UNCHANGED <<talVars, nccVars>> /\ lost < MaxLost /\ lost' = lost + 1
      /\ \/ up[t] # << >> /\ up' = [up EXCEPT ![t] = Tail(@)] /\ down' = down
         \/ down[t] # << >> /\ down' = [down EXCEPT ![t] = Tail(@)] /\ up' = up
  BY DEF LoseFrame, LoseAcks
<1>2. NccTypes' /\ slots' \in [Slots -> Seq(Sent)] /\ lost' \in 0 .. MaxLost
  <2>1. lost' \in 0 .. MaxLost
    <3>1. lost \in 0 .. MaxLost /\ MaxLost \in Nat
      BY Parameters DEF IInv, TypeOK, LinkTypes
    <3> QED BY ONLY <1>1, <3>1
  <2>2. NccTypes'
    BY <1>1 DEF IInv, TypeOK, NccTypes, nccVars
  <2>3. slots' \in [Slots -> Seq(Sent)]
    BY <1>1 DEF IInv, Named, nccVars
  <2> QED BY <2>1, <2>2, <2>3
<1>3. PICK ids : Gives(ids, accepted', Nat \X (0 .. PduSize - 1))
  BY <1>1, NothingGiven DEF nccVars
<1>4. \/ Answers(ids)
      \/ \E u \in Terminals : down[u] # << >> /\ down' = [down EXCEPT ![u] = Tail(@)]
  BY <1>1 DEF Answers
<1>5. up' = up \/ \E u \in Terminals : up[u] # << >> /\ up' = [up EXCEPT ![u] = Tail(@)]
  BY <1>1
<1> QED BY <1>1, <1>2, <1>3, <1>4, <1>5, NccKeeps

LEMMA NextInv == IInv /\ [Next]_vars => IInv'
<1> SUFFICES ASSUME IInv, [Next]_vars PROVE IInv'
  OBVIOUS
<1>1. CASE NccSof
  BY <1>1, InvNccSof
<1>2. ASSUME NEW t \in Terminals, Burst(t) PROVE IInv'
  BY <1>2, InvBurst
<1>3. ASSUME NEW t \in Terminals, Sof(t) PROVE IInv'
  BY <1>3, InvSof
<1>4. ASSUME NEW t \in Terminals, ReceiveAcks(t) PROVE IInv'
  BY <1>4, InvReceiveAcks
<1>5. ASSUME NEW t \in Terminals, Receive(t) PROVE IInv'
  BY <1>5, InvReceive
<1>6. ASSUME NEW t \in Terminals, LoseFrame(t) \/ LoseAcks(t) PROVE IInv'
  BY <1>6, InvLose
<1>7. CASE UNCHANGED vars
  <2>1. /\ UNCHANGED <<talVars, nccVars, up, down, lost>>
    BY <1>7 DEF vars
  <2>2. PICK ids : Gives(ids, accepted', Nat \X (0 .. PduSize - 1))
    BY <2>1, NothingGiven DEF nccVars
  <2>3. Answers(ids)
    BY <2>1 DEF Answers
  <2>4. NccTypes' /\ slots' \in [Slots -> Seq(Sent)] /\ lost' \in 0 .. MaxLost
    BY <2>1 DEF IInv, TypeOK, NccTypes, LinkTypes, Named, nccVars
  <2> QED BY <2>1, <2>2, <2>3, <2>4, NccKeeps
<1> QED BY <1>1, <1>2, <1>3, <1>4, <1>5, <1>6, <1>7 DEF Next

-----------------------------------------------------------------------------
(* SlottedAlohaTal and SlottedAlohaNcc keep their counters, lists and slots *)
(* within their types.                                                      *)
THEOREM TypesAreKept == Spec => []TypeOK
<1>1. IInv => TypeOK
  BY DEF IInv
<1> QED BY <1>1, InitInv, NextInv, PTL DEF Spec

(* The lists of a terminal, one after the other.                           *)
LEMMA PlacesHold ==
  ASSUME NEW t \in Terminals, NEW all, Places(t, all),
         fifo[t] \in Seq(Packet), packets_wait_ack[t] \in Seq(Packet),
         retransmission_packets[t] \in Seq(Packet)
  PROVE  /\ Held(t) \in Seq(Packet) /\ Once(Held(t))
         /\ Fragments(Held(t)) \cap (acked[t] \cup dropped[t]) = {}
         /\ acked[t] \cap dropped[t] = {}
         /\ Fragments(Held(t)) \cup acked[t] \cup dropped[t] = all
<1> DEFINE a == fifo[t] \o packets_wait_ack[t]
<1>1. a \in Seq(Packet) /\ Halves(a, fifo[t], packets_wait_ack[t])
  BY TwoLists
<1>2. Held(t) \in Seq(Packet) /\ Halves(Held(t), a, retransmission_packets[t])
  BY <1>1, TwoLists DEF Held
<1> HIDE DEF a
<1> QED BY <1>1, <1>2 DEF Halves, Places, Shared

(* SlottedAlohaTal::schedule and onRcvFrame: however packets time out, are  *)
(* sent again, acknowledged or given up, each fragment of a stored burst is *)
(* in one place of one list of the terminal, or left it in one way.         *)
THEOREM EachFragmentIsHeldOnce == Spec => []HeldOnce
<1>1. IInv => HeldOnce
  <2> SUFFICES ASSUME IInv, NEW t \in Terminals
               PROVE  LET held == [i \in DOMAIN Held(t) |-> Fragment(Held(t)[i])]
                          left == acked[t] \cup dropped[t]
                      IN /\ \A i, j \in DOMAIN held : i # j => held[i] # held[j]
                         /\ ToSet(held) \cap left = {}
                         /\ acked[t] \cap dropped[t] = {}
                         /\ ~cut[t] => ToSet(held) \cup left
                                         = (0 .. bursts[t] - 1) \X (0 .. PduSize - 1)
    BY DEF HeldOnce
  <2> DEFINE held == [i \in DOMAIN Held(t) |-> Fragment(Held(t)[i])]
  <2>1. PICK all \in SUBSET Given(t) : (~cut[t] => all = Given(t)) /\ Places(t, all)
    <3>1. Apart(t)
      BY DEF IInv
    <3> QED BY <3>1 DEF Apart
  <2>2. /\ Held(t) \in Seq(Packet) /\ Once(Held(t))
        /\ Fragments(Held(t)) \cap (acked[t] \cup dropped[t]) = {}
        /\ acked[t] \cap dropped[t] = {}
        /\ Fragments(Held(t)) \cup acked[t] \cup dropped[t] = all
    BY <2>1, PlacesHold DEF IInv, TypeOK, TalTypes
  <2>3. PICK h : h = Held(t)
    <3>1. Held(t) = Held(t)
      OBVIOUS
    <3> QED BY ONLY <3>1
  <2>4. /\ DOMAIN h = 1 .. Len(h) /\ ToSet(h) = {h[i] : i \in 1 .. Len(h)}
    BY <2>2, <2>3, ItemsOf
  <2>5. held = [i \in 1 .. Len(h) |-> Fragment(h[i])]
    BY <2>3, <2>4
  <2>6. ToSet(held) = Fragments(h)
    <3>1. ToSet(held) = {Fragment(h[i]) : i \in 1 .. Len(h)}
      BY <2>5 DEF ToSet
    <3>2. Fragments(h) = {Fragment(h[i]) : i \in 1 .. Len(h)}
      BY <2>4 DEF Fragments
    <3> QED BY <3>1, <3>2
  <2>7. \A i, j \in DOMAIN held : i # j => held[i] # held[j]
    BY <2>2, <2>3, <2>5 DEF Once
  <2>8. /\ ToSet(held) \cap (acked[t] \cup dropped[t]) = {}
        /\ ~cut[t] => ToSet(held) \cup (acked[t] \cup dropped[t])
                        = (0 .. bursts[t] - 1) \X (0 .. PduSize - 1)
    <3> HIDE DEF held
    <3> QED BY <2>1, <2>2, <2>3, <2>6 DEF Given
  <2> QED BY <2>2, <2>7, <2>8
<1> QED BY <1>1, InitInv, NextInv, PTL DEF Spec

(* SlottedAlohaTal::onRcvFrame: while no full fifo cut a burst, the ids     *)
(* tell the fragments apart and an acknowledgement takes out what the NCC   *)
(* accepted.                                                                *)
THEOREM WhatIsAckedWasAccepted == Spec => []AckedWasAccepted
<1>1. IInv => AckedWasAccepted
  BY DEF IInv, Told, AckedWasAccepted
<1> QED BY <1>1, InitInv, NextInv, PTL DEF Spec
=============================================================================
