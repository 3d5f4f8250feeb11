------------------------- MODULE NccInterfaceProofs -------------------------
(***************************************************************************)
(* For any number of clients and whatever they send: the list of events of *)
(* the channel has the sockets of the open clients and no other, a request *)
(* of a PEP is never without a timer that will apply it, and commands of   *)
(* an SVNO wait for a later message only behind one that failed.           *)
(* For any carriers and any command: no carrier appears, and a category    *)
(* whose command succeeds has the rate asked for, and less than one        *)
(* carrier more.                                                           *)
(***************************************************************************)
EXTENDS NccInterface, LoopLemmas, SequenceTheorems, TLAPS

-----------------------------------------------------------------------------
(* Categories and their carriers                                           *)

GroupSeqs == Seq([rate : Rates, number : Nat])
Lists == UNION {[D -> Nat] : D \in SUBSET Rates}

\* A category: its groups have sizes that its list has.
Category ==
  {c \in [groups : GroupSeqs, list : Lists] :
     \A i \in DOMAIN c.groups : c.groups[i].rate \in DOMAIN c.list}

LEMMA Items ==
  ASSUME NEW X, NEW s \in Seq(X)
  PROVE  Len(s) \in Nat /\ DOMAIN s = 1 .. Len(s) /\ \A i \in 1 .. Len(s) : s[i] \in X
OBVIOUS

LEMMA RatesAre == IsFiniteSet(Rates) /\ Rates \in SUBSET (Nat \ {0})
<1> DEFINE F(c) == {Carriers[c][i].rate : i \in DOMAIN Carriers[c]}
<1>1. ASSUME NEW c \in Categories PROVE IsFiniteSet(F(c)) /\ F(c) \in SUBSET (Nat \ {0})
  <2>1. Carriers[c] \in Seq([rate : Nat \ {0}, ratio : Nat \ {0}])
    BY BandAssumption DEF BandAssumption
  <2>2. Len(Carriers[c]) \in Nat /\ DOMAIN Carriers[c] = 1 .. Len(Carriers[c])
        /\ \A i \in 1 .. Len(Carriers[c]) : Carriers[c][i] \in [rate : Nat \ {0}, ratio : Nat \ {0}]
    BY <2>1, Items
  <2>3. IsFiniteSet(1 .. Len(Carriers[c]))
    BY <2>2, FS_Interval
  <2>4. \A i \in 1 .. Len(Carriers[c]) : Carriers[c][i].rate \in Nat \ {0}
    BY <2>2
  <2>5. IsFiniteSet(F(c))
    <3> DEFINE f == [i \in 1 .. Len(Carriers[c]) |-> Carriers[c][i].rate]
    <3>1. f \in Surjection(1 .. Len(Carriers[c]), F(c))
      BY <2>2 DEF Surjection
    <3> HIDE DEF f, F
    <3> QED BY <2>3, <3>1, FS_Surjection
  <2> QED BY <2>2, <2>4, <2>5
<1>2. IsFiniteSet({F(c) : c \in Categories})
  <2> DEFINE f == [c \in Categories |-> F(c)]
             T == {F(c) : c \in Categories}
  <2>1. f \in Surjection(Categories, T)
    <3> HIDE DEF F
    <3> QED BY DEF Surjection
  <2> HIDE DEF f, T
  <2>2. IsFiniteSet(Categories)
    BY BandAssumption DEF BandAssumption
  <2>3. IsFiniteSet(T)
    BY <2>1, <2>2, FS_Surjection
  <2> QED BY <2>3 DEF T
<1>3. Rates = UNION {F(c) : c \in Categories}
  BY DEF Rates
<1>4. \A s \in {F(c) : c \in Categories} : IsFiniteSet(s) /\ s \in SUBSET (Nat \ {0})
  BY <1>1
<1> HIDE DEF F
<1>5. PICK T : T = {F(c) : c \in Categories}
  OBVIOUS
<1>6. IsFiniteSet(UNION T)
  BY <1>2, <1>4, <1>5, FS_UNION
<1>7. UNION T \in SUBSET (Nat \ {0})
  BY <1>4, <1>5
<1> QED BY <1>3, <1>5, <1>6, <1>7

-----------------------------------------------------------------------------
(* Sums over the groups of a category                                      *)

LEMMA GroupsAre ==
  ASSUME NEW g \in GroupSeqs
  PROVE  /\ Len(g) \in Nat /\ DOMAIN g = 1 .. Len(g) /\ IsFiniteSet(DOMAIN g)
         /\ \A i \in DOMAIN g : /\ g[i] = [rate |-> g[i].rate, number |-> g[i].number]
                                /\ g[i].rate \in Rates /\ g[i].rate \in Nat /\ g[i].number \in Nat
<1>1. Len(g) \in Nat /\ DOMAIN g = 1 .. Len(g)
  BY DEF GroupSeqs
<1>2. \A i \in 1 .. Len(g) : g[i] \in [rate : Rates, number : Nat]
  BY Items DEF GroupSeqs
<1>3. IsFiniteSet(1 .. Len(g))
  BY <1>1, FS_Interval
<1>4. \A i \in 1 .. Len(g) : /\ g[i] = [rate |-> g[i].rate, number |-> g[i].number]
                             /\ g[i].rate \in Rates /\ g[i].number \in Nat
  BY <1>2
<1> QED BY <1>1, <1>3, <1>4, RatesAre

LEMMA CarriedIs ==
  ASSUME NEW g \in GroupSeqs, NEW r
  PROVE  /\ DOMAIN Carried(g, r) = DOMAIN g
         /\ \A i \in DOMAIN g : /\ Carried(g, r)[i] = (IF g[i].rate = r THEN g[i].number ELSE 0)
                                /\ Carried(g, r)[i] \in Nat
         /\ NumberOf(g, r) = SumFunctionOnSet(Carried(g, r), DOMAIN g)
         /\ NumberOf(g, r) \in Nat
<1>1. /\ DOMAIN Carried(g, r) = DOMAIN g
      /\ \A i \in DOMAIN g : Carried(g, r)[i] = (IF g[i].rate = r THEN g[i].number ELSE 0)
  BY DEF Carried
<1>2. \A i \in DOMAIN g : Carried(g, r)[i] \in Nat
  BY <1>1, GroupsAre
<1>3. NumberOf(g, r) = SumFunctionOnSet(Carried(g, r), DOMAIN g)
  BY <1>1 DEF NumberOf, SumFunction
<1>4. IsFiniteSet(DOMAIN g)
  BY GroupsAre
<1>5. SumFunctionOnSet(Carried(g, r), DOMAIN g) \in Nat
  BY <1>2, <1>4, SumNat
<1> QED BY <1>1, <1>2, <1>3, <1>5

GroupsRate(g) == SumFunction([i \in DOMAIN g |-> g[i].rate * g[i].number])

\* What carriers of each size make.
Sum(n) == SumFunctionOnSet([r \in Rates |-> r * n[r]], Rates)

LEMMA SumAre ==
  ASSUME NEW n, \A r \in Rates : n[r] \in Int
  PROVE  /\ Ints([r \in Rates |-> r * n[r]], Rates) /\ Sum(n) \in Int
         /\ (\A r \in Rates : n[r] >= 0) => Sum(n) >= 0
<1> DEFINE v == [r \in Rates |-> r * n[r]]
<1>1. \A r \in Rates : v[r] \in Int /\ (n[r] >= 0 => v[r] \in Nat)
  <2> SUFFICES ASSUME NEW r \in Rates PROVE v[r] \in Int /\ (n[r] >= 0 => v[r] \in Nat)
    OBVIOUS
  <2>1. r \in Nat /\ n[r] \in Int
    BY RatesAre
  <2>2. \A a \in Nat, b \in Int : a * b \in Int /\ (b >= 0 => a * b \in Nat)
    OBVIOUS
  <2> QED BY <2>1, <2>2
<1>2. Ints(v, Rates) /\ IsFiniteSet(Rates)
  BY <1>1, RatesAre DEF Ints
<1>3. Sum(n) = SumFunctionOnSet(v, Rates)
  BY DEF Sum
<1> HIDE DEF v
<1>4. SumFunctionOnSet(v, Rates) \in Int
  BY <1>2, SumInt
<1>5. ASSUME \A r \in Rates : n[r] >= 0 PROVE SumFunctionOnSet(v, Rates) \in Nat
  BY <1>1, <1>2, <1>5, SumNat
<1> QED BY <1>2, <1>3, <1>4, <1>5 DEF v

LEMMA SumAdds ==
  ASSUME NEW n, \A r \in Rates : n[r] \in Int, NEW m, \A r \in Rates : m[r] \in Int,
         NEW k, \A r \in Rates : k[r] = n[r] + m[r]
  PROVE  Sum(k) = Sum(n) + Sum(m)
<1> DEFINE V(x) == [r \in Rates |-> r * x[r]]
<1>1. Ints(V(n), Rates) /\ Ints(V(m), Rates) /\ IsFiniteSet(Rates)
  BY SumAre, RatesAre
<1>2. \A r \in Rates : V(k)[r] = V(n)[r] + V(m)[r]
  <2> SUFFICES ASSUME NEW r \in Rates PROVE r * k[r] = r * n[r] + r * m[r]
    OBVIOUS
  <2>1. r \in Int
    BY RatesAre
  <2>2. \A a, b, c \in Int : a * (b + c) = a * b + a * c
    OBVIOUS
  <2> QED BY <2>1, <2>2
<1>3. Sum(k) = SumFunctionOnSet(V(k), Rates) /\ Sum(n) = SumFunctionOnSet(V(n), Rates)
      /\ Sum(m) = SumFunctionOnSet(V(m), Rates)
  BY DEF Sum
<1> HIDE DEF V
<1>4. SumFunctionOnSet(V(k), Rates) = SumFunctionOnSet(V(n), Rates) + SumFunctionOnSet(V(m), Rates)
  BY <1>1, <1>2, SumPlus
<1> QED BY <1>3, <1>4

(* The rate of a category, size after size. *)
LEMMA RateBySize ==
  ASSUME NEW g \in GroupSeqs
  PROVE  GroupsRate(g) = Sum([r \in Rates |-> NumberOf(g, r)])
<1> DEFINE v == [i \in DOMAIN g |-> g[i].rate * g[i].number]
           class == [i \in DOMAIN g |-> g[i].rate]
           n == [r \in Rates |-> NumberOf(g, r)]
           bySize == [r \in Rates |-> r * n[r]]
<1>1. GroupsRate(g) = SumFunctionOnSet(v, DOMAIN g)
  BY DEF GroupsRate, SumFunction
<1>2. Ints(v, DOMAIN g) /\ \A i \in DOMAIN g : class[i] \in Rates
  BY GroupsAre DEF Ints
<1>3. IsFiniteSet(DOMAIN g) /\ IsFiniteSet(Rates)
  BY GroupsAre, RatesAre
<1>4. SumFunctionOnSet(v, DOMAIN g) = SumFunctionOnSet(ClassSums(DOMAIN g, Rates, class, v), Rates)
  <2> HIDE DEF v, class
  <2> QED BY <1>2, <1>3, SumClasses
<1>5. ASSUME NEW r \in Rates PROVE ClassSums(DOMAIN g, Rates, class, v)[r] = bySize[r]
  <2> DEFINE o == OfClass(DOMAIN g, class, v, r)
  <2>1. \A i \in DOMAIN g : o[i] = r * Carried(g, r)[i]
    <3> SUFFICES ASSUME NEW i \in DOMAIN g PROVE o[i] = r * Carried(g, r)[i]
      OBVIOUS
    <3>1. o[i] = IF g[i].rate = r THEN g[i].rate * g[i].number ELSE 0
      BY DEF OfClass
    <3>2. Carried(g, r)[i] = IF g[i].rate = r THEN g[i].number ELSE 0
      BY CarriedIs
    <3>3. r \in Nat
      BY RatesAre
    <3> HIDE DEF o
    <3> QED BY <3>1, <3>2, <3>3
  <2>2. Ints(Carried(g, r), DOMAIN g)
    BY CarriedIs DEF Ints
  <2>3. r \in Int
    BY RatesAre
  <2>4. SumFunctionOnSet(o, DOMAIN g) = r * SumFunctionOnSet(Carried(g, r), DOMAIN g)
    <3> HIDE DEF o
    <3> QED BY <1>3, <2>1, <2>2, <2>3, SumTimes
  <2>5. ClassSums(DOMAIN g, Rates, class, v)[r] = SumFunctionOnSet(o, DOMAIN g)
    BY DEF ClassSums
  <2> QED BY <2>4, <2>5, CarriedIs
<1>6. Ints(bySize, Rates) /\ Sum(n) = SumFunctionOnSet(bySize, Rates)
  <2>1. \A r \in Rates : n[r] \in Int
    BY CarriedIs
  <2> QED BY <2>1, SumAre DEF Sum
<1> HIDE DEF bySize, class, v, n
<1>7. PICK c : c = ClassSums(DOMAIN g, Rates, class, v)
  OBVIOUS
<1>8. SumFunctionOnSet(c, Rates) = SumFunctionOnSet(bySize, Rates)
  BY <1>3, <1>5, <1>6, <1>7, SumSame
<1> QED BY <1>1, <1>4, <1>6, <1>7, <1>8 DEF n

LEMMA RateChanges ==
  ASSUME NEW g \in GroupSeqs, NEW h \in GroupSeqs, NEW d, \A r \in Rates : d[r] \in Int,
         \A r \in Rates : NumberOf(h, r) = NumberOf(g, r) + d[r]
  PROVE  GroupsRate(h) = GroupsRate(g) + Sum(d)
<1> DEFINE N(x) == [r \in Rates |-> NumberOf(x, r)]
<1>1. \A r \in Rates : N(g)[r] \in Int /\ N(h)[r] = N(g)[r] + d[r]
  BY CarriedIs
<1>2. GroupsRate(g) = Sum(N(g)) /\ GroupsRate(h) = Sum(N(h))
  BY RateBySize
<1> HIDE DEF N
<1> QED BY <1>1, <1>2, SumAdds

-----------------------------------------------------------------------------
(* deallocateCarriers                                                      *)

LEMMA SumPrefix ==
  ASSUME NEW f, NEW n \in Nat, \A j \in 1 .. n : f[j] \in Nat
  PROVE  /\ SumFunctionOnSet(f, 1 .. 0) = 0
         /\ \A i \in 0 .. n : SumFunctionOnSet(f, 1 .. i) \in Nat
         /\ \A i \in 1 .. n : SumFunctionOnSet(f, 1 .. i) = f[i] + SumFunctionOnSet(f, 1 .. i - 1)
<1>1. SumFunctionOnSet(f, 1 .. 0) = 0
  <2>1. 1 .. 0 = {}
    OBVIOUS
  <2> QED BY ONLY <2>1, SumNone
<1>2. ASSUME NEW i \in 0 .. n PROVE SumFunctionOnSet(f, 1 .. i) \in Nat
  <2>1. IsFiniteSet(1 .. i)
    BY FS_Interval
  <2>2. PICK S : S = 1 .. i
    OBVIOUS
  <2>3. \A j \in S : f[j] \in Nat
    BY <2>2
  <2> QED BY ONLY <2>1, <2>2, <2>3, SumNat
<1>3. ASSUME NEW i \in 1 .. n
      PROVE  SumFunctionOnSet(f, 1 .. i) = f[i] + SumFunctionOnSet(f, 1 .. i - 1)
  <2>1. PICK S : S = 1 .. i
    OBVIOUS
  <2>2. IsFiniteSet(S) /\ Ints(f, S) /\ i \in S
    BY <2>1, FS_Interval DEF Ints
  <2>3. S \ {i} = 1 .. i - 1
    BY <2>1
  <2>4. SumFunctionOnSet(f, S) = f[i] + SumFunctionOnSet(f, S \ {i})
    BY <2>2, SumTake
  <2> QED BY <2>1, <2>3, <2>4
<1> QED BY <1>1, <1>2, <1>3

\* k more of them, p before, c to be taken.
LEMMA TakenOf ==
  ASSUME NEW k \in Nat, NEW p \in Nat, NEW c \in Nat
  PROVE  /\ k - Least(k, Most(c - p, 0)) \in Nat
         /\ k - Least(k, Most(c - p, 0)) + Most(p - c, 0) = Most(k + p - c, 0)
BY DEF Least, Most

LEMMA Deallocated ==
  ASSUME NEW g \in GroupSeqs, NEW rates, NEW carriers, \A r \in rates : carriers[r] \in Nat
  PROVE  LET h == DeallocateCarriers(g, rates, carriers)
         IN /\ h \in GroupSeqs /\ DOMAIN h = DOMAIN g
            /\ \A i \in DOMAIN g : h[i].rate = g[i].rate
            /\ \A r \in Rates : NumberOf(h, r) = IF r \in rates THEN Most(NumberOf(g, r) - carriers[r], 0)
                                                  ELSE NumberOf(g, r)
<1> DEFINE h == DeallocateCarriers(g, rates, carriers)
           before(i) == SumFunctionOnSet(Carried(g, g[i].rate), 1 .. i - 1)
           n == Len(g)
<1>1. n \in Nat /\ DOMAIN g = 1 .. n
  BY GroupsAre
<1>2. \A i \in 1 .. n : /\ g[i] = [rate |-> g[i].rate, number |-> g[i].number]
                        /\ g[i].rate \in Rates /\ g[i].number \in Nat
  BY <1>1, GroupsAre
<1>3. ASSUME NEW r
      PROVE  /\ SumFunctionOnSet(Carried(g, r), 1 .. 0) = 0
             /\ \A i \in 0 .. n : SumFunctionOnSet(Carried(g, r), 1 .. i) \in Nat
             /\ \A i \in 1 .. n : SumFunctionOnSet(Carried(g, r), 1 .. i)
                                    = Carried(g, r)[i] + SumFunctionOnSet(Carried(g, r), 1 .. i - 1)
  <2>1. \A j \in 1 .. n : Carried(g, r)[j] \in Nat
    BY <1>1, CarriedIs
  <2> QED BY <1>1, <2>1, SumPrefix
<1>4. ASSUME NEW i \in 1 .. n
      PROVE  /\ before(i) \in Nat
             /\ h[i].rate = g[i].rate
             /\ h[i] = [rate |-> g[i].rate, number |-> h[i].number]
             /\ h[i].number = IF g[i].rate \in rates
                                 THEN g[i].number - Least(g[i].number, Most(carriers[g[i].rate] - before(i), 0))
                                 ELSE g[i].number
             /\ h[i].number \in Nat
  <2>1. before(i) \in Nat
    <3>1. i - 1 \in 0 .. n
      BY <1>1
    <3> QED BY <1>3, <3>1
  <2>2. h[i] = IF g[i].rate \in rates
                 THEN [g[i] EXCEPT !.number = @ - Taken(g, i, carriers[g[i].rate])] ELSE g[i]
    BY <1>1 DEF DeallocateCarriers
  <2>3. Taken(g, i, carriers[g[i].rate])
          = Least(g[i].number, Most(carriers[g[i].rate] - before(i), 0))
    BY DEF Taken
  <2> HIDE DEF h, before
  <2>4. h[i] = [rate |-> g[i].rate, number |-> h[i].number]
        /\ h[i].number = IF g[i].rate \in rates
                           THEN g[i].number - Least(g[i].number, Most(carriers[g[i].rate] - before(i), 0))
                           ELSE g[i].number
    BY <1>2, <2>2, <2>3
  <2>5. h[i].number \in Nat
    <3>1. CASE g[i].rate \in rates
      <4>1. PICK k \in Nat, p \in Nat, c \in Nat :
                   k = g[i].number /\ p = before(i) /\ c = carriers[g[i].rate]
        BY <1>2, <2>1, <3>1
      <4>2. h[i].number = k - Least(k, Most(c - p, 0))
        BY <2>4, <3>1, <4>1
      <4>3. k - Least(k, Most(c - p, 0)) \in Nat
        BY TakenOf
      <4> QED BY <4>2, <4>3
    <3>2. CASE g[i].rate \notin rates
      BY <1>2, <2>4, <3>2
    <3> QED BY <3>1, <3>2
  <2> QED BY <2>1, <2>4, <2>5
<1>5. DOMAIN h = 1 .. n /\ h = [i \in 1 .. n |-> h[i]]
  BY <1>1 DEF DeallocateCarriers
<1> HIDE DEF h, before
<1>6. h \in GroupSeqs
  <2> DEFINE X == [rate : Rates, number : Nat]
  <2>1. ASSUME NEW i \in 1 .. n PROVE h[i] \in X
    <3>1. /\ h[i] = [rate |-> g[i].rate, number |-> h[i].number]
          /\ g[i].rate \in Rates /\ h[i].number \in Nat
      BY <1>2, <1>4
    <3> QED BY ONLY <3>1 DEF X
  <2> HIDE DEF X, n
  <2>2. h \in Seq(X)
    BY <1>1, <1>5, <2>1
  <2> QED BY <2>2 DEF GroupSeqs, X
<1>7. ASSUME NEW r
      PROVE  /\ SumFunctionOnSet(Carried(h, r), 1 .. 0) = 0
             /\ \A i \in 0 .. n : SumFunctionOnSet(Carried(h, r), 1 .. i) \in Nat
             /\ \A i \in 1 .. n : SumFunctionOnSet(Carried(h, r), 1 .. i)
                                    = Carried(h, r)[i] + SumFunctionOnSet(Carried(h, r), 1 .. i - 1)
  <2>1. \A j \in 1 .. n : Carried(h, r)[j] \in Nat
    BY <1>5, <1>6, CarriedIs
  <2> QED BY <1>1, <2>1, SumPrefix
<1>8. ASSUME NEW r \in Rates, r \in rates
      PROVE  NumberOf(h, r) = Most(NumberOf(g, r) - carriers[r], 0)
  <2> DEFINE G(i) == SumFunctionOnSet(Carried(g, r), 1 .. i)
             H(i) == SumFunctionOnSet(Carried(h, r), 1 .. i)
             P == {i \in 0 .. n : H(i) = Most(G(i) - carriers[r], 0)}
  <2>1. 0 \in P
    <3>1. H(0) = 0 /\ G(0) = 0
      BY <1>3, <1>7
    <3> HIDE DEF G, H
    <3> QED BY <1>1, <1>8, <3>1 DEF Most
  <2>2. ASSUME NEW i \in 1 .. n, i - 1 \in P PROVE i \in P
    <3>1. /\ G(i) = Carried(g, r)[i] + G(i - 1) /\ H(i) = Carried(h, r)[i] + H(i - 1)
          /\ H(i - 1) = Most(G(i - 1) - carriers[r], 0) /\ carriers[r] \in Nat
      BY <1>3, <1>7, <1>8, <2>2
    <3>2. G(i - 1) \in Nat /\ i - 1 \in 0 .. n
      BY <1>1, <1>3
    <3>3. Carried(g, r)[i] = IF g[i].rate = r THEN g[i].number ELSE 0
      BY <1>1, CarriedIs
    <3>4. Carried(h, r)[i] = IF g[i].rate = r THEN h[i].number ELSE 0
      BY <1>4, <1>5, <1>6, CarriedIs
    <3>5. g[i].rate = r => before(i) = G(i - 1)
      BY DEF before
    <3>6. /\ g[i].number \in Nat
          /\ g[i].rate = r => h[i].number = g[i].number
                                            - Least(g[i].number, Most(carriers[r] - before(i), 0))
      BY <1>2, <1>4, <1>8
    <3> HIDE DEF G, H
    <3>7. H(i) = Most(G(i) - carriers[r], 0)
      <4>1. CASE g[i].rate = r
        <5>1. PICK k \in Nat, p \in Nat, c \in Nat :
                     k = g[i].number /\ p = G(i - 1) /\ c = carriers[r]
          BY <3>1, <3>2, <3>6
        <5>2. G(i) = k + p /\ H(i) = k - Least(k, Most(c - p, 0)) + Most(p - c, 0)
          BY <3>1, <3>3, <3>4, <3>5, <3>6, <4>1, <5>1
        <5>3. H(i) = Most(k + p - c, 0)
          BY ONLY <5>2, TakenOf, k \in Nat, p \in Nat, c \in Nat
        <5> QED BY <5>1, <5>2, <5>3
      <4>2. CASE g[i].rate # r
        BY <3>1, <3>2, <3>3, <3>4, <4>2 DEF Most
      <4> QED BY <4>1, <4>2
    <3> QED BY <3>7, <1>1
  <2>3. n \in P
    <3>1. \A i \in 0 .. n : i \in P
      <4> HIDE DEF P
      <4> QED BY <1>1, <2>1, <2>2, Induct
    <3> QED BY <1>1, <3>1
  <2>4. NumberOf(h, r) = H(n) /\ NumberOf(g, r) = G(n)
    BY <1>1, <1>5, <1>6, CarriedIs
  <2> HIDE DEF G, H
  <2> QED BY <2>3, <2>4
<1>9. ASSUME NEW r \in Rates, r \notin rates
      PROVE  NumberOf(h, r) = NumberOf(g, r)
  <2>1. \A i \in DOMAIN g : Carried(h, r)[i] = Carried(g, r)[i]
    <3> SUFFICES ASSUME NEW i \in DOMAIN g PROVE Carried(h, r)[i] = Carried(g, r)[i]
      OBVIOUS
    <3>1. Carried(g, r)[i] = IF g[i].rate = r THEN g[i].number ELSE 0
      BY CarriedIs
    <3>2. Carried(h, r)[i] = IF g[i].rate = r THEN h[i].number ELSE 0
      BY <1>1, <1>4, <1>5, <1>6, CarriedIs
    <3>3. g[i].rate = r => h[i].number = g[i].number
      BY <1>1, <1>4, <1>9
    <3> QED BY <3>1, <3>2, <3>3
  <2>2. Ints(Carried(g, r), DOMAIN g) /\ IsFiniteSet(DOMAIN g)
    BY CarriedIs, GroupsAre DEF Ints
  <2>3. SumFunctionOnSet(Carried(h, r), DOMAIN g) = SumFunctionOnSet(Carried(g, r), DOMAIN g)
    BY <2>1, <2>2, SumSame
  <2> QED BY <1>1, <1>5, <1>6, <2>3, CarriedIs
<1> QED BY <1>1, <1>4, <1>5, <1>6, <1>8, <1>9 DEF h

-----------------------------------------------------------------------------
(* The order of maps                                                       *)

LEMMA NthIs ==
  ASSUME NEW S \in SUBSET Int, IsFiniteSet(S), NEW i \in 1 .. Cardinality(S)
  PROVE  Nth(S, i) \in S /\ Cardinality(Below(S, Nth(S, i))) = i - 1
<1>1. \E x \in S : Cardinality(Below(S, x)) = i - 1
  BY RankIs
<1> QED BY <1>1 DEF Nth, Below

LEMMA AscendingIs ==
  ASSUME NEW S \in SUBSET Int, IsFiniteSet(S)
  PROVE  LET n == Cardinality(S)
             a == Ascending(S)
         IN /\ n \in Nat /\ a \in [1 .. n -> S]
            /\ \A i, j \in 1 .. n : a[i] = a[j] => i = j
            /\ \A x \in S : \E i \in 1 .. n : a[i] = x
<1> DEFINE n == Cardinality(S)
           a == Ascending(S)
<1>1. n \in Nat
  BY FS_CardinalityType
<1>2. ASSUME NEW i \in 1 .. n PROVE a[i] \in S /\ Cardinality(Below(S, a[i])) = i - 1
  <2>1. a[i] = Nth(S, i)
    BY DEF Ascending
  <2> QED BY <2>1, NthIs
<1>3. a \in [1 .. n -> S]
  <2>1. a = [i \in 1 .. n |-> Nth(S, i)]
    BY DEF Ascending
  <2>2. \A i \in 1 .. n : Nth(S, i) \in S
    BY NthIs
  <2> HIDE DEF a, n
  <2> QED BY <2>1, <2>2
<1> HIDE DEF a
<1>4. ASSUME NEW i \in 1 .. n, NEW j \in 1 .. n, a[i] = a[j] PROVE i = j
  <2>1. i - 1 = j - 1 /\ i \in Int /\ j \in Int
    BY <1>2, <1>4
  <2> QED BY <2>1
<1>5. ASSUME NEW x \in S PROVE \E i \in 1 .. n : a[i] = x
  <2>1. PICK i \in 1 .. n : i = Cardinality(Below(S, x)) + 1
    BY RankIs
  <2>2. a[i] \in S /\ Cardinality(Below(S, a[i])) = i - 1
    BY <1>2
  <2>3. PICK y \in S : y = a[i]
    BY <2>2
  <2>4. Cardinality(Below(S, x)) \in Nat
    <3>1. Below(S, x) \in SUBSET S
      BY DEF Below
    <3> QED BY <3>1, FS_Subset, FS_CardinalityType
  <2>5. Cardinality(Below(S, y)) = Cardinality(Below(S, x))
    BY <2>1, <2>2, <2>3, <2>4
  <2>6. ~(x < y) /\ ~(y < x)
    BY <2>4, <2>5, RankIs
  <2> QED BY <2>3, <2>6
<1> QED BY <1>1, <1>3, <1>4, <1>5 DEF a

LEMMA DescendingIs ==
  ASSUME NEW S \in SUBSET Int, IsFiniteSet(S)
  PROVE  LET n == Cardinality(S)
             d == Descending(S)
         IN /\ n \in Nat /\ Len(d) = n /\ d \in [1 .. n -> S]
            /\ \A i, j \in 1 .. n : i < j => d[j] < d[i]
<1> DEFINE n == Cardinality(S)
           d == Descending(S)
<1>1. n \in Nat
  BY FS_CardinalityType
<1>2. ASSUME NEW i \in 1 .. n PROVE d[i] \in S /\ Cardinality(Below(S, d[i])) = n - i
  <2>1. d[i] = Nth(S, n + 1 - i) /\ n + 1 - i \in 1 .. n
    BY <1>1 DEF Descending
  <2>2. Nth(S, n + 1 - i) \in S /\ Cardinality(Below(S, Nth(S, n + 1 - i))) = (n + 1 - i) - 1
    BY <2>1, NthIs
  <2>3. (n + 1 - i) - 1 = n - i
    BY <1>1
  <2> QED BY <2>1, <2>2, <2>3
<1>3. d = [i \in 1 .. n |-> d[i]]
  BY DEF Descending
<1> HIDE DEF d
<1>4. d \in [1 .. n -> S] /\ Len(d) = n
  <2> HIDE DEF n
  <2> QED BY <1>1, <1>2, <1>3
<1>5. ASSUME NEW i \in 1 .. n, NEW j \in 1 .. n, i < j PROVE d[j] < d[i]
  <2>1. Cardinality(Below(S, d[j])) < Cardinality(Below(S, d[i]))
    BY <1>1, <1>2, <1>5
  <2>2. PICK x \in S, y \in S : x = d[i] /\ y = d[j]
    BY <1>2
  <2>3. x # y /\ ~(x < y)
    <3>1. Cardinality(Below(S, x)) \in Int /\ Cardinality(Below(S, y)) \in Int
      BY <1>1, <1>2, <2>2
    <3>2. x < y => Cardinality(Below(S, x)) < Cardinality(Below(S, y))
      BY RankIs
    <3> QED BY <2>1, <2>2, <3>1, <3>2
  <2> QED BY <2>2, <2>3
<1> QED BY <1>1, <1>4, <1>5 DEF d

-----------------------------------------------------------------------------
(* addCarriersGroup                                                        *)

\* One of the items has d more.
LEMMA SumAt ==
  ASSUME NEW S, IsFiniteSet(S), NEW f, Ints(f, S), NEW x \in S, NEW d \in Int,
         NEW h, \A y \in S : h[y] = f[y] + IF y = x THEN d ELSE 0
  PROVE  SumFunctionOnSet(h, S) = SumFunctionOnSet(f, S) + d
<1>1. Ints(h, S)
  <2> SUFFICES ASSUME NEW y \in S PROVE h[y] \in Int
    BY DEF Ints
  <2>1. f[y] \in Int
    BY DEF Ints
  <2> QED BY <2>1
<1>2. PICK T : T = S \ {x}
  OBVIOUS
<1>3. IsFiniteSet(T) /\ Ints(f, T) /\ \A y \in T : h[y] = f[y]
  <2>1. IsFiniteSet(T)
    BY <1>2, FS_RemoveElement
  <2>2. ASSUME NEW y \in T PROVE f[y] \in Int /\ h[y] = f[y]
    <3>1. y \in S /\ y # x /\ f[y] \in Int
      BY <1>2 DEF Ints
    <3> QED BY <3>1
  <2> QED BY <2>1, <2>2 DEF Ints
<1>4. SumFunctionOnSet(h, T) = SumFunctionOnSet(f, T)
  BY <1>3, SumSame
<1>5. /\ SumFunctionOnSet(h, S) = h[x] + SumFunctionOnSet(h, T)
      /\ SumFunctionOnSet(f, S) = f[x] + SumFunctionOnSet(f, T)
      /\ SumFunctionOnSet(f, T) \in Int
  BY <1>1, <1>2, SumTake
<1>6. h[x] = f[x] + d /\ f[x] \in Int
  BY DEF Ints
<1> QED BY <1>4, <1>5, <1>6

LEMMA ConcatIs ==
  ASSUME NEW X, NEW s \in Seq(X), NEW t \in Seq(X)
  PROVE  s \o t = [i \in 1 .. Len(s) + Len(t) |-> IF i <= Len(s) THEN s[i] ELSE t[i - Len(s)]]
<1>1. s \o t \in Seq(X) /\ Len(s) \in Nat /\ Len(t) \in Nat /\ Len(s \o t) = Len(s) + Len(t)
  OBVIOUS
<1>2. \A i \in 1 .. Len(s) + Len(t) : (s \o t)[i] = IF i <= Len(s) THEN s[i] ELSE t[i - Len(s)]
  OBVIOUS
<1>3. PICK u \in Seq(X) : u = s \o t
  BY <1>1
<1>4. u = [i \in 1 .. Len(u) |-> u[i]]
  OBVIOUS
<1> QED BY <1>1, <1>2, <1>3, <1>4

SizesOf(g) == {g[i].rate : i \in DOMAIN g}

LEMMA CategoryIs ==
  ASSUME NEW c
  PROVE  c \in Category <=>
           /\ c = [groups |-> c.groups, list |-> c.list]
           /\ c.groups \in GroupSeqs
           /\ DOMAIN c.list \in SUBSET Rates
           /\ c.list = [r \in DOMAIN c.list |-> c.list[r]]
           /\ \A r \in DOMAIN c.list : c.list[r] \in Nat
           /\ \A i \in DOMAIN c.groups : c.groups[i].rate \in DOMAIN c.list
<1>1. ASSUME NEW l
      PROVE  l \in Lists <=> /\ DOMAIN l \in SUBSET Rates
                             /\ l = [r \in DOMAIN l |-> l[r]]
                             /\ \A r \in DOMAIN l : l[r] \in Nat
  <2>1. ASSUME l \in Lists
        PROVE  /\ DOMAIN l \in SUBSET Rates
               /\ l = [r \in DOMAIN l |-> l[r]]
               /\ \A r \in DOMAIN l : l[r] \in Nat
    <3>1. PICK D \in SUBSET Rates : l \in [D -> Nat]
      BY <2>1 DEF Lists
    <3> QED BY <3>1
  <2>2. ASSUME DOMAIN l \in SUBSET Rates, l = [r \in DOMAIN l |-> l[r]],
               \A r \in DOMAIN l : l[r] \in Nat
        PROVE  l \in Lists
    <3>1. l \in [DOMAIN l -> Nat]
      BY <2>2
    <3>2. \E D \in SUBSET Rates : l \in [D -> Nat]
      BY <2>2, <3>1
    <3> QED BY <3>2 DEF Lists
  <2> QED BY <2>1, <2>2
<1>2. c \in Category <=> /\ c = [groups |-> c.groups, list |-> c.list]
                         /\ c.groups \in GroupSeqs /\ c.list \in Lists
                         /\ \A i \in DOMAIN c.groups : c.groups[i].rate \in DOMAIN c.list
  <2>1. \A G, L : c \in [groups : G, list : L] <=>
                    c = [groups |-> c.groups, list |-> c.list] /\ c.groups \in G /\ c.list \in L
    OBVIOUS
  <2> QED BY <2>1 DEF Category
<1> QED BY <1>1, <1>2

\* The groups after carriers were added, as AddCarriers has them.
IsAdded(h, g, rates, carriers, news) ==
  /\ DOMAIN h = 1 .. Len(g) + Len(news) /\ h = [i \in DOMAIN h |-> h[i]]
  /\ \A i \in DOMAIN g :
       /\ h[i] = [rate |-> g[i].rate, number |-> h[i].number]
       /\ h[i].number = IF g[i].rate \in rates /\ i = Min({j \in DOMAIN g : g[j].rate = g[i].rate})
                           THEN Added(g[i].number, carriers[g[i].rate]) ELSE g[i].number
  /\ \A i \in 1 .. Len(news) :
       h[Len(g) + i] = [rate |-> news[i], number |-> carriers[news[i]]]

LEMMA AddedIs ==
  ASSUME NEW cat, cat.groups \in GroupSeqs, NEW rates \in SUBSET Rates, NEW carriers
  PROVE  LET news == Ascending(rates \ SizesOf(cat.groups))
         IN IsAdded(AddCarriers(cat, rates, carriers).groups, cat.groups, rates, carriers, news)
<1> DEFINE g == cat.groups
           news == Ascending(rates \ SizesOf(g))
           FirstOf(r) == Min({i \in DOMAIN g : g[i].rate = r})
           A == [i \in DOMAIN g |->
                   LET r == g[i].rate
                   IN IF r \in rates /\ i = FirstOf(r)
                        THEN [g[i] EXCEPT !.number = Added(@, carriers[r])]
                        ELSE g[i]]
           B == [i \in DOMAIN news |-> [rate |-> news[i], number |-> carriers[news[i]]]]
           h == AddCarriers(cat, rates, carriers).groups
<1>1. h = A \o B
  <2>1. SizesOf(g) = {x.rate : x \in Range(g)}
    BY DEF SizesOf, Range
  <2> QED BY <2>1 DEF AddCarriers
<1>2. Len(g) \in Nat /\ DOMAIN g = 1 .. Len(g)
      /\ \A i \in DOMAIN g : g[i] = [rate |-> g[i].rate, number |-> g[i].number]
  BY GroupsAre
<1>3. /\ Len(news) \in Nat /\ DOMAIN news = 1 .. Len(news)
  <2> DEFINE S == rates \ SizesOf(g)
  <2>1. S \in SUBSET Rates
    OBVIOUS
  <2> HIDE DEF S
  <2>3. IsFiniteSet(S)
    BY <2>1, RatesAre, FS_Subset
  <2>2. Cardinality(S) \in Nat
    BY <2>3, FS_CardinalityType
  <2>4. Len(Ascending(S)) = Cardinality(S) /\ DOMAIN Ascending(S) = 1 .. Cardinality(S)
    BY <2>2 DEF Ascending
  <2> QED BY <2>2, <2>4 DEF S, news
<1> HIDE DEF news
<1>4. A = [i \in 1 .. Len(g) |-> A[i]] /\ B = [i \in 1 .. Len(news) |-> B[i]]
  BY <1>2, <1>3
<1>5. \A i \in DOMAIN g :
       /\ A[i] = [rate |-> g[i].rate, number |-> A[i].number]
       /\ A[i].number = IF g[i].rate \in rates /\ i = FirstOf(g[i].rate)
                           THEN Added(g[i].number, carriers[g[i].rate]) ELSE g[i].number
  <2> SUFFICES ASSUME NEW i \in DOMAIN g
               PROVE  /\ A[i] = [rate |-> g[i].rate, number |-> A[i].number]
                      /\ A[i].number = IF g[i].rate \in rates /\ i = FirstOf(g[i].rate)
                                          THEN Added(g[i].number, carriers[g[i].rate]) ELSE g[i].number
    OBVIOUS
  <2>1. A[i] = IF g[i].rate \in rates /\ i = FirstOf(g[i].rate)
                 THEN [g[i] EXCEPT !.number = Added(@, carriers[g[i].rate])] ELSE g[i]
    OBVIOUS
  <2> HIDE DEF A, FirstOf
  <2> QED BY <1>2, <2>1
<1>6. \A i \in 1 .. Len(news) : B[i] = [rate |-> news[i], number |-> carriers[news[i]]]
  BY <1>3
<1> HIDE DEF A, B, h
<1>7. /\ DOMAIN (A \o B) = 1 .. Len(g) + Len(news) /\ A \o B = [i \in DOMAIN (A \o B) |-> (A \o B)[i]]
      /\ \A i \in 1 .. Len(g) : (A \o B)[i] = A[i]
      /\ \A i \in 1 .. Len(news) : (A \o B)[Len(g) + i] = B[i]
  <2>1. PICK n \in Nat, m \in Nat : n = Len(g) /\ m = Len(news)
    BY <1>2, <1>3
  <2>2. A = [i \in 1 .. n |-> A[i]] /\ B = [i \in 1 .. m |-> B[i]]
    BY <1>4, <2>1
  <2>3. Len(A) = n /\ Len(B) = m
    BY ONLY <2>2, n \in Nat, m \in Nat
  <2>4. A \o B = [i \in 1 .. n + m |-> IF i <= n THEN A[i] ELSE B[i - n]]
    <3> DEFINE X == {A[i] : i \in 1 .. n} \cup {B[i] : i \in 1 .. m}
    <3>1. (\A i \in 1 .. n : A[i] \in X) /\ (\A i \in 1 .. m : B[i] \in X)
      OBVIOUS
    <3> HIDE DEF X
    <3>2. A \in Seq(X) /\ B \in Seq(X)
      BY <2>2, <3>1
    <3>3. A \o B = [i \in 1 .. Len(A) + Len(B) |-> IF i <= Len(A) THEN A[i] ELSE B[i - Len(A)]]
      BY <3>2, ConcatIs
    <3> QED BY ONLY <2>3, <3>3, n \in Nat, m \in Nat
  <2> QED BY ONLY <2>1, <2>4, n \in Nat, m \in Nat
<1>8. IsAdded(h, g, rates, carriers, news)
  <2>1. DOMAIN h = 1 .. Len(g) + Len(news) /\ h = [i \in DOMAIN h |-> h[i]]
    BY <1>1, <1>7
  <2>2. \A i \in DOMAIN g : h[i] = A[i]
    BY <1>1, <1>2, <1>7
  <2>3. \A i \in 1 .. Len(news) : h[Len(g) + i] = B[i]
    BY <1>1, <1>7
  <2> QED BY <1>5, <1>6, <2>1, <2>2, <2>3 DEF IsAdded, FirstOf
<1> QED BY <1>8 DEF h, news

LEMMA MinIs ==
  ASSUME NEW S \in SUBSET Nat, S # {}
  PROVE  Min(S) \in S /\ \A y \in S : Min(S) <= y
BY Smallest DEF Min

LEMMA CarriersAdded ==
  ASSUME NEW cat \in Category, NEW rates \in SUBSET Rates, NEW carriers,
         \A r \in rates : carriers[r] \in Nat
  PROVE  LET c == AddCarriers(cat, rates, carriers)
         IN /\ c \in Category
            /\ \A r \in Rates : NumberOf(c.groups, r)
                                 = NumberOf(cat.groups, r) + IF r \in rates THEN carriers[r] ELSE 0
<1> DEFINE c == AddCarriers(cat, rates, carriers)
           g == cat.groups
           S == rates \ SizesOf(g)
           news == Ascending(S)
           h == c.groups
           n == Len(g)
           m == Len(news)
<1>1. g \in GroupSeqs
  BY CategoryIs
<1>2. /\ n \in Nat /\ DOMAIN g = 1 .. n /\ IsFiniteSet(DOMAIN g)
      /\ \A i \in 1 .. n : /\ g[i].rate \in Rates /\ g[i].number \in Nat
  BY <1>1, GroupsAre
<1>3. /\ m \in Nat /\ news \in [1 .. m -> S]
      /\ \A i, j \in 1 .. m : news[i] = news[j] => i = j
      /\ \A x \in S : \E i \in 1 .. m : news[i] = x
  <2>1. S \in SUBSET Rates
    OBVIOUS
  <2>2. S \in SUBSET Int /\ IsFiniteSet(S)
    <3>1. Rates \in SUBSET Int /\ IsFiniteSet(Rates)
      BY RatesAre
    <3> QED BY <2>1, <3>1, FS_Subset
  <2> HIDE DEF S
  <2> DEFINE k == Cardinality(S)
  <2>3. /\ k \in Nat /\ news \in [1 .. k -> S]
        /\ \A i, j \in 1 .. k : news[i] = news[j] => i = j
        /\ \A x \in S : \E i \in 1 .. k : news[i] = x
    BY <2>2, AscendingIs
  <2>4. m = k
    <3> HIDE DEF news, k
    <3> QED BY <2>3
  <2> QED BY <2>3, <2>4
<1>4. IsAdded(h, g, rates, carriers, news)
  BY <1>1, AddedIs
<1>5. DOMAIN h = 1 .. n + m /\ h = [i \in 1 .. n + m |-> h[i]]
  BY <1>4 DEF IsAdded
<1>6. \A i \in 1 .. n :
        /\ h[i] = [rate |-> g[i].rate, number |-> h[i].number]
        /\ h[i].number = IF g[i].rate \in rates /\ i = Min({j \in DOMAIN g : g[j].rate = g[i].rate})
                           THEN Added(g[i].number, carriers[g[i].rate]) ELSE g[i].number
  BY <1>2, <1>4 DEF IsAdded
<1>7. \A i \in 1 .. m : h[n + i] = [rate |-> news[i], number |-> carriers[news[i]]]
  BY <1>4 DEF IsAdded
<1>14. \A i \in 1 .. n : h[i].rate = g[i].rate
  <2> SUFFICES ASSUME NEW i \in 1 .. n PROVE h[i].rate = g[i].rate
    OBVIOUS
  <2>1. PICK x, y : h[i] = [rate |-> x, number |-> y] /\ x = g[i].rate
    BY <1>6
  <2> QED BY ONLY <2>1
<1>15. \A i \in 1 .. m : h[n + i].rate = news[i] /\ h[n + i].number = carriers[news[i]]
  <2> SUFFICES ASSUME NEW i \in 1 .. m
               PROVE  h[n + i].rate = news[i] /\ h[n + i].number = carriers[news[i]]
    OBVIOUS
  <2>1. PICK x, y, z : x = h[n + i] /\ x = [rate |-> y, number |-> z] /\ y = news[i] /\ z = carriers[news[i]]
    BY <1>7
  <2>2. x.rate = y /\ x.number = z
    BY ONLY <2>1
  <2> QED BY ONLY <2>1, <2>2
<1>16. n + 1 \in Int /\ n + m \in Int
  BY <1>2, <1>3
<1>8. /\ c = [groups |-> h, list |-> c.list]
      /\ c.list = [r \in DOMAIN cat.list \cup rates |->
                     IF r \in S
                       THEN carriers[r] + (IF r \in DOMAIN cat.list THEN cat.list[r] ELSE 0)
                       ELSE cat.list[r]]
  <2>1. SizesOf(g) = {x.rate : x \in Range(g)}
    BY DEF SizesOf, Range
  <2> QED BY <2>1 DEF AddCarriers
<1>9. /\ DOMAIN cat.list \in SUBSET Rates
      /\ \A r \in DOMAIN cat.list : cat.list[r] \in Nat
      /\ \A i \in 1 .. n : g[i].rate \in DOMAIN cat.list
  BY <1>2, CategoryIs
<1> HIDE DEF h, n, m, news, c
<1>10. \A i \in 1 .. n + m : /\ h[i] = [rate |-> h[i].rate, number |-> h[i].number]
                              /\ h[i].rate \in DOMAIN cat.list \cup rates /\ h[i].number \in Nat
  <2>1. ASSUME NEW i \in 1 .. n
        PROVE  /\ h[i] = [rate |-> g[i].rate, number |-> h[i].number]
               /\ h[i].number \in Nat
    <3>1. g[i].rate \in rates => Added(g[i].number, carriers[g[i].rate]) \in Nat
      BY <1>2 DEF Added
    <3> QED BY <1>2, <1>6, <3>1
  <2>2. ASSUME NEW i \in 1 .. m
        PROVE  /\ h[n + i] = [rate |-> news[i], number |-> carriers[news[i]]]
               /\ news[i] \in rates /\ carriers[news[i]] \in Nat
    BY <1>3, <1>7
  <2> SUFFICES ASSUME NEW i \in 1 .. n + m
               PROVE  /\ h[i] = [rate |-> h[i].rate, number |-> h[i].number]
                      /\ h[i].rate \in DOMAIN cat.list \cup rates /\ h[i].number \in Nat
    OBVIOUS
  <2>3. CASE i \in 1 .. n
    <3>1. h[i].rate = g[i].rate /\ h[i].number \in Nat /\ g[i].rate \in DOMAIN cat.list
      BY <1>9, <1>14, <2>1, <2>3
    <3> QED BY <2>1, <2>3, <3>1
  <2>4. CASE i \notin 1 .. n
    <3>1. PICK j \in 1 .. m : i = n + j
      <4>1. i - n \in 1 .. m /\ i = n + (i - n)
        BY <1>2, <1>3, <2>4
      <4> QED BY <4>1
    <3>2. h[i].rate = news[j] /\ h[i].number = carriers[news[j]]
      BY <1>15, <3>1
    <3> QED BY <2>2, <3>1, <3>2
  <2> QED BY <2>3, <2>4
<1>11. h \in GroupSeqs
  <2> DEFINE X == [rate : Rates, number : Nat]
  <2>1. ASSUME NEW i \in 1 .. n + m PROVE h[i] \in X
    <3>1. /\ h[i] = [rate |-> h[i].rate, number |-> h[i].number]
          /\ h[i].rate \in Rates /\ h[i].number \in Nat
      BY <1>9, <1>10
    <3> QED BY ONLY <3>1 DEF X
  <2> HIDE DEF X
  <2>2. h \in Seq(X)
    <3>1. n + m \in Nat
      BY <1>2, <1>3
    <3> QED BY ONLY <1>5, <2>1, <3>1
  <2> QED BY <2>2 DEF GroupSeqs, X
<1>12. c \in Category
  <2>1. DOMAIN c.list = DOMAIN cat.list \cup rates /\ c.list = [r \in DOMAIN c.list |-> c.list[r]]
    BY <1>8
  <2>2. \A r \in DOMAIN c.list : c.list[r] \in Nat
    <3> SUFFICES ASSUME NEW r \in DOMAIN cat.list \cup rates PROVE c.list[r] \in Nat
      BY <2>1
    <3>1. c.list[r] = IF r \in S
                       THEN carriers[r] + (IF r \in DOMAIN cat.list THEN cat.list[r] ELSE 0)
                       ELSE cat.list[r]
      BY <1>8
    <3>2. r \notin S => r \in DOMAIN cat.list
      <4>1. CASE r \in rates /\ r \in SizesOf(g)
        <5>1. PICK i \in 1 .. n : r = g[i].rate
          BY <1>2, <4>1 DEF SizesOf
        <5> QED BY <1>9, <5>1
      <4> QED BY <4>1
    <3>3. r \in S => carriers[r] \in Nat
      OBVIOUS
    <3>4. r \in DOMAIN cat.list => cat.list[r] \in Nat
      BY <1>9
    <3> HIDE DEF S
    <3> QED BY <3>1, <3>2, <3>3, <3>4
  <2>3. c.groups = h
    BY DEF h
  <2>4. \A i \in DOMAIN h : h[i].rate \in DOMAIN c.list
    BY <1>5, <1>10, <2>1
  <2>5. DOMAIN c.list \in SUBSET Rates
    BY <1>9, <2>1
  <2>6. c = [groups |-> c.groups, list |-> c.list]
    BY <1>8, <2>3
  <2> QED BY <1>11, <2>1, <2>2, <2>3, <2>4, <2>5, <2>6, CategoryIs
<1>13. ASSUME NEW r \in Rates
       PROVE  NumberOf(h, r) = NumberOf(g, r) + IF r \in rates THEN carriers[r] ELSE 0
  <2> DEFINE v == Carried(h, r)
             w == Carried(g, r)
             first == 1 .. n
             second == n + 1 .. n + m
             d == IF r \in rates /\ r \notin S THEN carriers[r] ELSE 0
             e == IF r \in S THEN carriers[r] ELSE 0
  <2>1. /\ \A i \in 1 .. n + m : v[i] = (IF h[i].rate = r THEN h[i].number ELSE 0) /\ v[i] \in Nat
        /\ NumberOf(h, r) = SumFunctionOnSet(v, 1 .. n + m)
    BY <1>5, <1>11, CarriedIs
  <2>2. /\ \A i \in first : w[i] = (IF g[i].rate = r THEN g[i].number ELSE 0) /\ w[i] \in Nat
        /\ NumberOf(g, r) = SumFunctionOnSet(w, first) /\ IsFiniteSet(first) /\ Ints(w, first)
    BY <1>1, <1>2, CarriedIs DEF Ints
  <2>3. SumFunctionOnSet(v, 1 .. n + m) = SumFunctionOnSet(v, first) + SumFunctionOnSet(v, second)
    <3>1. IsFiniteSet(second)
      BY <1>16, FS_Interval
    <3>2. first \cup second = 1 .. n + m /\ first \cap second = {}
      BY <1>2, <1>3
    <3>3. Ints(v, first \cup second)
      BY <2>1, <3>2 DEF Ints
    <3>4. IsFiniteSet(first)
      BY <2>2
    <3> HIDE DEF first, second, v
    <3>5. SumFunctionOnSet(v, first \cup second)
            = SumFunctionOnSet(v, first) + SumFunctionOnSet(v, second)
      BY <3>1, <3>2, <3>3, <3>4, SumUnion
    <3> QED BY <3>2, <3>5
  <2>4. SumFunctionOnSet(v, first) = SumFunctionOnSet(w, first) + d
    <3>1. CASE r \in rates /\ r \notin S
      <4> DEFINE T == {j \in DOMAIN g : g[j].rate = r}
      <4>1. PICK x \in first : x = Min(T) /\ g[x].rate = r
        <5>1. T \in SUBSET Nat /\ T # {}
          BY <1>2, <3>1 DEF SizesOf
        <5>2. Min(T) \in T
          <6> HIDE DEF T
          <6> QED BY <5>1, MinIs
        <5> QED BY <1>2, <5>2
      <4>2. ASSUME NEW i \in first PROVE v[i] = w[i] + IF i = x THEN carriers[r] ELSE 0
        <5>1. v[i] = IF h[i].rate = r THEN h[i].number ELSE 0
          BY <1>2, <1>3, <2>1
        <5>2. h[i].rate = g[i].rate
          BY <1>14
        <5>3. g[i].rate = r => h[i].number = IF i = x THEN g[i].number + carriers[r] ELSE g[i].number
          <6>1. ASSUME g[i].rate = r
                PROVE  h[i].number = IF i = Min(T) THEN Added(g[i].number, carriers[r]) ELSE g[i].number
            BY <1>6, <3>1, <6>1
          <6> QED BY <4>1, <6>1 DEF Added
        <5>4. w[i] = IF g[i].rate = r THEN g[i].number ELSE 0
          BY <2>2
        <5>5. g[i].number \in Nat /\ carriers[r] \in Nat
          BY <1>2, <3>1
        <5> HIDE DEF v, w, T
        <5> QED BY <4>1, <5>1, <5>2, <5>3, <5>4, <5>5
      <4>3. carriers[r] \in Int
        BY <3>1
      <4> HIDE DEF v, w, first
      <4>4. SumFunctionOnSet(v, first) = SumFunctionOnSet(w, first) + carriers[r]
        BY <2>2, <4>2, <4>3, SumAt
      <4> QED BY <3>1, <4>4
    <3>2. CASE ~(r \in rates /\ r \notin S)
      <4>1. ASSUME NEW i \in first PROVE v[i] = w[i]
        <5>1. v[i] = IF h[i].rate = r THEN h[i].number ELSE 0
          BY <1>2, <1>3, <2>1
        <5>2. w[i] = IF g[i].rate = r THEN g[i].number ELSE 0
          BY <2>2
        <5>3. h[i].rate = g[i].rate
          BY <1>14
        <5>4. g[i].rate = r => r \notin rates
          BY <1>2, <3>2 DEF SizesOf
        <5>5. g[i].rate = r => h[i].number = g[i].number
          BY <1>6, <5>4
        <5> HIDE DEF v, w
        <5> QED BY <5>1, <5>2, <5>3, <5>5
      <4>2. SumFunctionOnSet(w, first) \in Int
        BY <2>2, SumInt
      <4> HIDE DEF v, w, first
      <4>3. SumFunctionOnSet(v, first) = SumFunctionOnSet(w, first)
        BY <2>2, <4>1, SumSame
      <4> QED BY <3>2, <4>2, <4>3
    <3> QED BY <3>1, <3>2
  <2>5. SumFunctionOnSet(v, second) = e
    <3>1. IsFiniteSet(second)
      BY <1>16, FS_Interval
    <3>2. ASSUME NEW i \in second
          PROVE  i - n \in 1 .. m /\ v[i] = IF news[i - n] = r THEN carriers[r] ELSE 0
      <4>1. PICK j \in 1 .. m : i = n + j /\ j = i - n
        <5>1. i - n \in 1 .. m /\ i = n + (i - n)
          BY <1>2, <1>3
        <5> QED BY <5>1
      <4>2. v[i] = IF h[i].rate = r THEN h[i].number ELSE 0
        BY <1>2, <1>3, <2>1
      <4>3. h[i].rate = news[j] /\ h[i].number = carriers[news[j]]
        BY <1>15, <4>1
      <4> QED BY <4>1, <4>2, <4>3
    <3>3. CASE r \in S
      <4>1. PICK j \in 1 .. m : news[j] = r
        BY <1>3, <3>3
      <4>2. PICK x \in second : x = n + j /\ x - n = j
        <5>1. n + j \in second /\ (n + j) - n = j
          BY <1>2, <1>3
        <5> QED BY <5>1
      <4>3. v[x] = carriers[r] /\ v[x] \in Int
        <5>1. carriers[r] \in Nat
          BY <3>3
        <5> QED BY <3>2, <4>1, <4>2, <5>1
      <4>4. ASSUME NEW y \in second \ {x} PROVE v[y] = 0
        <5>1. y - n \in 1 .. m /\ y - n # j
          BY <1>2, <3>2, <4>2
        <5>2. news[y - n] # r
          BY <1>3, <4>1, <5>1
        <5> QED BY <3>2, <5>2
      <4> HIDE DEF v, second
      <4>5. SumFunctionOnSet(v, second) = v[x]
        BY <3>1, <4>3, <4>4, SumOne
      <4> QED BY <3>3, <4>3, <4>5
    <3>4. CASE r \notin S
      <4>1. ASSUME NEW i \in second PROVE v[i] = 0
        <5>1. news[i - n] \in S
          BY <1>3, <3>2
        <5> QED BY <3>2, <3>4, <5>1
      <4> HIDE DEF v, second
      <4>2. SumFunctionOnSet(v, second) = 0
        BY <3>1, <4>1, SumZero
      <4> QED BY <3>4, <4>2
    <3> QED BY <3>3, <3>4
  <2>6. d + e = IF r \in rates THEN carriers[r] ELSE 0
    <3>1. r \in rates => carriers[r] \in Nat
      OBVIOUS
    <3> QED BY <3>1
  <2>7. SumFunctionOnSet(w, first) \in Int /\ d \in Int /\ e \in Int
    <3>1. r \in rates => carriers[r] \in Nat
      OBVIOUS
    <3>2. SumFunctionOnSet(w, first) \in Int
      <4> HIDE DEF w, first
      <4> QED BY <2>2, SumInt
    <3> QED BY <3>1, <3>2
  <2> HIDE DEF v, w, first, second, d, e
  <2> QED BY <2>1, <2>2, <2>3, <2>4, <2>5, <2>6, <2>7
<1> QED BY <1>12, <1>13 DEF c, h

-----------------------------------------------------------------------------
(* carriersTransfer                                                        *)

IsTransfer(b, from, to, carriers, loss, gain, o) ==
  /\ o.band \in [Categories -> Category]
  /\ \A r \in Rates : loss[r] \in Nat /\ gain[r] \in Nat /\ gain[r] <= loss[r]
  /\ o.done => \A r \in Rates : /\ gain[r] = loss[r]
                               /\ gain[r] = IF r \in DOMAIN carriers THEN carriers[r] ELSE 0
  /\ \A c \in Categories : GroupsRate(o.band[c].groups)
                              = GroupsRate(b[c].groups) + (IF c = to THEN Sum(gain) ELSE 0)
                                                        - (IF c = from THEN Sum(loss) ELSE 0)

LEMMA GroupsRateInt ==
  ASSUME NEW g \in GroupSeqs
  PROVE  GroupsRate(g) \in Nat
<1> DEFINE n == [r \in Rates |-> NumberOf(g, r)]
<1>1. \A r \in Rates : n[r] \in Int /\ n[r] >= 0
  BY CarriedIs
<1>2. GroupsRate(g) = Sum(n)
  BY RateBySize
<1> HIDE DEF n
<1>3. Sum(n) \in Int /\ Sum(n) >= 0
  BY <1>1, SumAre
<1> QED BY <1>2, <1>3

LEMMA Transferred ==
  ASSUME NEW b \in [Categories -> Category], NEW from \in Categories, NEW to \in Categories,
         NEW carriers, DOMAIN carriers \in SUBSET Rates,
         \A r \in DOMAIN carriers : carriers[r] \in Nat
  PROVE  \E loss, gain : IsTransfer(b, from, to, carriers, loss, gain,
                                    CarriersTransfer(b, from, to, carriers))
<1> DEFINE g == b[from].groups
           lacking == {r \in DOMAIN carriers : carriers[r] > NumberOf(g, r)}
           moved == {r \in DOMAIN carriers : carriers[r] > 0 /\ \A l \in lacking : r < l}
           taken == moved \cup (IF lacking = {} THEN {} ELSE {Min(lacking)})
           h == DeallocateCarriers(g, taken, carriers)
           less == [b EXCEPT ![from].groups = h]
           o == CarriersTransfer(b, from, to, carriers)
           loss == [r \in Rates |-> NumberOf(g, r) - NumberOf(h, r)]
           gain == [r \in Rates |-> IF r \in moved THEN carriers[r] ELSE 0]
<1>1. o = [band |-> [less EXCEPT ![to] = AddCarriers(less[to], moved, carriers)],
           done |-> (lacking = {}), undefined |-> FALSE]
  BY DEF CarriersTransfer, Outcome
<1>2. b[from] \in Category /\ g \in GroupSeqs
  BY CategoryIs
<1>3. /\ moved \in SUBSET DOMAIN carriers /\ taken \in SUBSET DOMAIN carriers
      /\ moved \subseteq taken /\ (lacking = {} => taken = moved)
  <2>1. lacking \in SUBSET Nat
    BY RatesAre
  <2>2. lacking # {} => Min(lacking) \in lacking
    <3> HIDE DEF lacking
    <3> QED BY <2>1, MinIs
  <2> QED BY <2>2
<1>4. /\ h \in GroupSeqs /\ DOMAIN h = DOMAIN g
      /\ \A i \in DOMAIN g : h[i].rate = g[i].rate
      /\ \A r \in Rates : NumberOf(h, r) = IF r \in taken THEN Most(NumberOf(g, r) - carriers[r], 0)
                                            ELSE NumberOf(g, r)
  <2>1. \A r \in taken : carriers[r] \in Nat
    BY <1>3
  <2> HIDE DEF taken, g
  <2> QED BY <1>2, <2>1, Deallocated
<1>5. ASSUME NEW r \in Rates
      PROVE  /\ NumberOf(g, r) \in Nat /\ NumberOf(h, r) \in Nat
             /\ loss[r] = NumberOf(g, r) - NumberOf(h, r)
             /\ loss[r] \in Nat /\ gain[r] \in Nat /\ gain[r] <= loss[r]
             /\ lacking = {} => gain[r] = loss[r] /\ gain[r] = IF r \in DOMAIN carriers THEN carriers[r] ELSE 0
  <2>1. NumberOf(g, r) \in Nat /\ NumberOf(h, r) \in Nat
    BY <1>2, <1>4, CarriedIs
  <2>2. loss[r] = NumberOf(g, r) - NumberOf(h, r) /\ gain[r] = IF r \in moved THEN carriers[r] ELSE 0
    OBVIOUS
  <2>3. r \in DOMAIN carriers => carriers[r] \in Nat
    OBVIOUS
  <2>4. NumberOf(h, r) = IF r \in taken THEN Most(NumberOf(g, r) - carriers[r], 0) ELSE NumberOf(g, r)
    BY <1>4
  <2>5. r \in moved => r \in taken /\ r \in DOMAIN carriers /\ carriers[r] <= NumberOf(g, r)
    <3> SUFFICES ASSUME r \in moved PROVE r \in taken /\ r \in DOMAIN carriers /\ carriers[r] <= NumberOf(g, r)
      OBVIOUS
    <3>1. r \notin lacking
      <4>1. r \in Int
        BY RatesAre
      <4> QED BY <4>1
    <3>2. r \in DOMAIN carriers /\ ~(carriers[r] > NumberOf(g, r))
      BY <3>1
    <3>3. carriers[r] \in Nat
      BY <3>2
    <3> QED BY <1>3, <2>1, <3>2, <3>3
  <2>6. lacking = {} /\ r \in DOMAIN carriers /\ r \notin moved => carriers[r] = 0
    BY <2>3
  <2>7. taken \in SUBSET DOMAIN carriers /\ (lacking = {} => taken = moved)
    BY <1>3
  <2> HIDE DEF loss, gain, taken, moved, lacking, h, g
  <2>8. PICK N \in Nat, H \in Nat : N = NumberOf(g, r) /\ H = NumberOf(h, r)
    BY <2>1
  <2>9. r \in taken => r \in DOMAIN carriers
    BY <2>7
  <2>10. loss[r] \in Nat /\ gain[r] \in Nat /\ gain[r] <= loss[r]
    <3>1. CASE r \in moved
      BY <2>2, <2>3, <2>4, <2>5, <2>8, <3>1 DEF Most
    <3>2. CASE r \notin moved
      BY <2>2, <2>3, <2>4, <2>8, <2>9, <3>2 DEF Most
    <3> QED BY <3>1, <3>2
  <2>11. ASSUME lacking = {}
         PROVE  gain[r] = loss[r] /\ gain[r] = IF r \in DOMAIN carriers THEN carriers[r] ELSE 0
    <3>1. CASE r \in moved
      BY <2>2, <2>3, <2>4, <2>5, <2>8, <3>1 DEF Most
    <3>2. CASE r \notin moved
      <4>1. r \notin taken
        BY <2>7, <2>11, <3>2
      <4> QED BY <2>2, <2>4, <2>6, <2>8, <2>11, <3>2, <4>1
    <3> QED BY <3>1, <3>2
  <2> QED BY <2>1, <2>2, <2>10, <2>11
<1> HIDE DEF h, taken, o
<1>6. /\ less[from] = [groups |-> h, list |-> b[from].list]
      /\ less[from] \in Category
      /\ \A c \in Categories : c # from => less[c] = b[c]
      /\ DOMAIN less = Categories /\ less = [c \in Categories |-> less[c]]
  <2>1. less[from] = [groups |-> h, list |-> b[from].list]
    <3>1. PICK x : x = b[from] /\ x = [groups |-> x.groups, list |-> x.list]
      BY <1>2, CategoryIs
    <3>2. less[from] = [x EXCEPT !.groups = h]
      BY <3>1
    <3>3. [x EXCEPT !.groups = h] = [groups |-> h, list |-> x.list]
      BY ONLY <3>1
    <3> QED BY <3>1, <3>2, <3>3
  <2>2. less[from] \in Category
    <3>1. PICK x : x = less[from] /\ x = [groups |-> h, list |-> b[from].list]
      BY <2>1
    <3>2. x.groups = h /\ x.list = b[from].list
      BY ONLY <3>1
    <3>3. x \in Category
      <4>1. /\ DOMAIN b[from].list \in SUBSET Rates
            /\ b[from].list = [r \in DOMAIN b[from].list |-> b[from].list[r]]
            /\ \A r \in DOMAIN b[from].list : b[from].list[r] \in Nat
            /\ \A i \in DOMAIN g : g[i].rate \in DOMAIN b[from].list
        BY <1>2, CategoryIs
      <4>2. x = [groups |-> x.groups, list |-> x.list]
        BY <3>1, <3>2
      <4>3. \A i \in DOMAIN x.groups : x.groups[i].rate \in DOMAIN x.list
        BY <1>4, <3>2, <4>1
      <4> HIDE DEF less, g
      <4> QED BY <1>4, <3>2, <4>1, <4>2, <4>3, CategoryIs
    <3> QED BY <3>1, <3>3
  <2>3. \A c \in Categories : c # from => less[c] = b[c]
    OBVIOUS
  <2>4. DOMAIN less = Categories /\ less = [c \in Categories |-> less[c]]
    OBVIOUS
  <2> QED BY <2>1, <2>2, <2>3, <2>4
<1>7. \A c \in Categories : less[c] \in Category
  BY <1>6
<1>8. PICK a : a = AddCarriers(less[to], moved, carriers)
  OBVIOUS
<1>9. /\ a \in Category
      /\ \A r \in Rates : NumberOf(a.groups, r) = NumberOf(less[to].groups, r) + gain[r]
  <2>1. moved \in SUBSET Rates /\ \A r \in moved : carriers[r] \in Nat
    BY <1>3
  <2>2. PICK x \in Category : x = less[to]
    BY <1>7
  <2> HIDE DEF moved, less
  <2>3. /\ a \in Category
        /\ \A r \in Rates : NumberOf(a.groups, r)
                             = NumberOf(x.groups, r) + IF r \in moved THEN carriers[r] ELSE 0
    <3>1. a = AddCarriers(x, moved, carriers)
      BY <1>8, <2>2
    <3> QED BY <2>1, <3>1, CarriersAdded
  <2> QED BY <2>2, <2>3
<1>10. GroupsRate(g) = GroupsRate(h) + Sum(loss) /\ Sum(loss) \in Int
  <2>1. \A r \in Rates : loss[r] \in Int /\ NumberOf(g, r) = NumberOf(h, r) + loss[r]
    <3> SUFFICES ASSUME NEW r \in Rates PROVE loss[r] \in Int /\ NumberOf(g, r) = NumberOf(h, r) + loss[r]
      OBVIOUS
    <3>1. NumberOf(g, r) \in Nat /\ NumberOf(h, r) \in Nat /\ loss[r] = NumberOf(g, r) - NumberOf(h, r)
      BY <1>5
    <3> QED BY <3>1
  <2> HIDE DEF loss, g
  <2> QED BY <1>2, <1>4, <2>1, RateChanges, SumAre
<1>11. /\ GroupsRate(a.groups) = GroupsRate(less[to].groups) + Sum(gain) /\ Sum(gain) \in Int
  <2>1. \A r \in Rates : gain[r] \in Int
    BY <1>5
  <2>2. a.groups \in GroupSeqs /\ less[to].groups \in GroupSeqs
    BY <1>7, <1>9, CategoryIs
  <2> HIDE DEF gain, less
  <2> QED BY <1>9, <2>1, <2>2, RateChanges, SumAre
<1>12. /\ o.band = [less EXCEPT ![to] = a] /\ o.done = (lacking = {})
  BY <1>1, <1>8
<1>13. o.band \in [Categories -> Category] /\ o.band[to] = a
       /\ \A c \in Categories : c # to => o.band[c] = less[c]
  <2> HIDE DEF less
  <2> QED BY <1>6, <1>7, <1>9, <1>12
<1>14. ASSUME NEW c \in Categories
       PROVE  GroupsRate(o.band[c].groups)
                = GroupsRate(b[c].groups) + (IF c = to THEN Sum(gain) ELSE 0)
                                          - (IF c = from THEN Sum(loss) ELSE 0)
  <2>1. GroupsRate(less[c].groups) = GroupsRate(b[c].groups) - (IF c = from THEN Sum(loss) ELSE 0)
        /\ GroupsRate(b[c].groups) \in Int
    <3>1. GroupsRate(h) \in Int /\ GroupsRate(b[c].groups) \in Int
      <4>1. b[c].groups \in GroupSeqs
        BY CategoryIs
      <4>2. GroupsRate(h) \in Nat /\ GroupsRate(b[c].groups) \in Nat
        BY <1>4, <4>1, GroupsRateInt
      <4> QED BY <4>2
    <3>2. CASE c = from
      <4>1. less[c].groups = h /\ b[c].groups = g
        BY <1>6, <3>2
      <4> HIDE DEF g, less, loss
      <4> QED BY <1>10, <3>1, <3>2, <4>1
    <3>3. CASE c # from
      <4>1. less[c] = b[c]
        BY <1>6, <3>3
      <4> HIDE DEF less, loss
      <4> QED BY <3>1, <3>3, <4>1
    <3> QED BY <3>2, <3>3
  <2>2. GroupsRate(o.band[c].groups) = GroupsRate(less[c].groups) + (IF c = to THEN Sum(gain) ELSE 0)
    <3>1. GroupsRate(less[c].groups) \in Int
      <4> HIDE DEF less, loss
      <4> QED BY <1>10, <2>1
    <3>2. CASE c = to
      <4> HIDE DEF less, gain
      <4> QED BY <1>11, <1>13, <3>2
    <3>3. CASE c # to
      <4> HIDE DEF less, gain
      <4> QED BY <1>13, <3>1, <3>3
    <3> QED BY <3>2, <3>3
  <2> HIDE DEF less, gain, loss
  <2> QED BY <1>10, <1>11, <2>1, <2>2
<1>15. IsTransfer(b, from, to, carriers, loss, gain, o)
  <2>1. \A r \in Rates : loss[r] \in Nat /\ gain[r] \in Nat /\ gain[r] <= loss[r]
    BY <1>5
  <2>2. o.done => \A r \in Rates : /\ gain[r] = loss[r]
                                  /\ gain[r] = IF r \in DOMAIN carriers THEN carriers[r] ELSE 0
    BY <1>5, <1>12
  <2> HIDE DEF less, gain, loss, lacking
  <2> QED BY <1>13, <1>14, <2>1, <2>2 DEF IsTransfer
<1> HIDE DEF loss, gain
<1> QED BY <1>15 DEF o

-----------------------------------------------------------------------------
(* carriersTransferCalculation                                             *)

Counts(D) == UNION {[C -> Nat] : C \in SUBSET D}

LEMMA CountsAre ==
  ASSUME NEW D, NEW c
  PROVE  c \in Counts(D) <=> /\ DOMAIN c \in SUBSET D
                             /\ c = [r \in DOMAIN c |-> c[r]]
                             /\ \A r \in DOMAIN c : c[r] \in Nat
<1>1. ASSUME c \in Counts(D)
      PROVE  /\ DOMAIN c \in SUBSET D
             /\ c = [r \in DOMAIN c |-> c[r]]
             /\ \A r \in DOMAIN c : c[r] \in Nat
  <2>1. PICK C \in SUBSET D : c \in [C -> Nat]
    BY <1>1 DEF Counts
  <2> QED BY <2>1
<1>2. ASSUME DOMAIN c \in SUBSET D, c = [r \in DOMAIN c |-> c[r]],
             \A r \in DOMAIN c : c[r] \in Nat
      PROVE  c \in Counts(D)
  <2>1. c \in [DOMAIN c -> Nat]
    BY <1>2
  <2>2. \E C \in SUBSET D : c \in [C -> Nat]
    BY <1>2, <2>1
  <2> QED BY <2>2 DEF Counts
<1> QED BY <1>1, <1>2

FitStates(D) == [rate : Nat, list : [D -> Nat], carriers : Counts(D), spare : Nat]

Count(c) == [r \in Rates |-> IF r \in DOMAIN c THEN c[r] ELSE 0]

\* What the calculation has after the sizes P: what is left and what there is make
\* what was needed, and of the sizes smaller than the spare one as many are left as
\* were taken, so that what is given back of them is what they are.
Fit(a, D, needed, P) ==
  /\ a \in FitStates(D)
  /\ a.rate + Sum(Count(a.carriers)) = needed
  /\ a.spare = 0 \/ a.spare \in P
  /\ DOMAIN a.carriers \subseteq P
  /\ \A r \in DOMAIN a.carriers : r < a.spare => a.list[r] = a.carriers[r]

LEMMA FitStateIs ==
  ASSUME NEW D, NEW a
  PROVE  a \in FitStates(D) <=>
           /\ a = [rate |-> a.rate, list |-> a.list, carriers |-> a.carriers, spare |-> a.spare]
           /\ a.rate \in Nat /\ a.list \in [D -> Nat] /\ a.carriers \in Counts(D) /\ a.spare \in Nat
<1>1. \A L, C : a \in [rate : Nat, list : L, carriers : C, spare : Nat] <=>
           /\ a = [rate |-> a.rate, list |-> a.list, carriers |-> a.carriers, spare |-> a.spare]
           /\ a.rate \in Nat /\ a.list \in L /\ a.carriers \in C /\ a.spare \in Nat
  OBVIOUS
<1> QED BY <1>1 DEF FitStates

LEMMA CountIs ==
  ASSUME NEW D \in SUBSET Rates, NEW c \in Counts(D)
  PROVE  /\ \A r \in Rates : /\ Count(c)[r] = IF r \in DOMAIN c THEN c[r] ELSE 0
                             /\ Count(c)[r] \in Nat
         /\ Sum(Count(c)) \in Nat
<1>1. \A r \in Rates : /\ Count(c)[r] = IF r \in DOMAIN c THEN c[r] ELSE 0
                       /\ Count(c)[r] \in Nat
  <2>1. \A r \in DOMAIN c : c[r] \in Nat
    BY CountsAre
  <2>2. \A r \in Rates : Count(c)[r] = IF r \in DOMAIN c THEN c[r] ELSE 0
    BY DEF Count
  <2> QED BY <2>1, <2>2
<1>2. PICK k : k = Count(c)
  OBVIOUS
<1>3. \A r \in Rates : k[r] \in Int /\ k[r] >= 0
  BY <1>1, <1>2
<1>4. Sum(k) \in Int /\ Sum(k) >= 0
  BY <1>3, SumAre
<1> QED BY <1>1, <1>2, <1>4

LEMMA SumMore ==
  ASSUME NEW n, \A x \in Rates : n[x] \in Int, NEW r \in Rates, NEW d \in Int,
         NEW m, \A x \in Rates : m[x] = n[x] + IF x = r THEN d ELSE 0
  PROVE  Sum(m) = Sum(n) + r * d /\ r * d \in Int
<1> DEFINE V == [x \in Rates |-> x * n[x]]
           W == [x \in Rates |-> x * m[x]]
<1>1. Ints(V, Rates) /\ IsFiniteSet(Rates) /\ r \in Nat
  BY SumAre, RatesAre
<1>2. r * d \in Int
  BY <1>1
<1>3. ASSUME NEW x \in Rates PROVE W[x] = V[x] + IF x = r THEN r * d ELSE 0
  <2>1. x \in Int /\ n[x] \in Int /\ m[x] = n[x] + IF x = r THEN d ELSE 0
    BY RatesAre
  <2>2. \A a, b, c \in Int : a * (b + c) = a * b + a * c
    OBVIOUS
  <2>3. x * n[x] \in Int
    BY <2>1
  <2>4. CASE x = r
    <3>1. x * (n[x] + d) = x * n[x] + x * d
      BY <2>1, <2>2
    <3> QED BY <2>1, <2>4, <3>1
  <2>5. CASE x # r
    <3>1. m[x] = n[x]
      BY <2>1, <2>5
    <3> QED BY <2>3, <2>5, <3>1
  <2> QED BY <2>4, <2>5
<1>4. Sum(n) = SumFunctionOnSet(V, Rates) /\ Sum(m) = SumFunctionOnSet(W, Rates)
  BY DEF Sum
<1> HIDE DEF V, W
<1>5. SumFunctionOnSet(W, Rates) = SumFunctionOnSet(V, Rates) + r * d
  <2>1. PICK e \in Int : e = r * d
    BY <1>2
  <2>2. SumFunctionOnSet(W, Rates) = SumFunctionOnSet(V, Rates) + e
    BY <1>1, <1>3, <2>1, SumAt
  <2> QED BY <2>1, <2>2
<1> QED BY <1>2, <1>4, <1>5

\* As many as it fits, and there are.
LEMMA Quotient ==
  ASSUME NEW q \in Nat, NEW r \in Nat \ {0}, NEW k \in Nat
  PROVE  LET n == Least(q \div r, k)
         IN n \in Nat /\ n <= k /\ n * r \in Nat /\ r * n = n * r /\ q - n * r \in Nat
<1>1. PICK d \in Nat : d = q \div r /\ d * r <= q
  OBVIOUS
<1>2. PICK n \in Nat : n = Least(d, k) /\ n <= k /\ n <= d
  BY DEF Least
<1>3. n * r <= d * r
  BY <1>2
<1>4. n * r \in Nat /\ d * r \in Nat /\ r * n = n * r
  OBVIOUS
<1>5. q - n * r \in Nat
  BY <1>1, <1>3, <1>4
<1> QED BY <1>1, <1>2, <1>4, <1>5

LEMMA FittedKeeps ==
  ASSUME NEW D \in SUBSET Rates, NEW needed, NEW P \in SUBSET D, NEW a, Fit(a, D, needed, P),
         NEW r \in D, \A x \in P : r < x
  PROVE  Fit(Fitted(a, r), D, needed, P \cup {r})
<1> DEFINE z == Fitted(a, r)
<1>1. /\ a = [rate |-> a.rate, list |-> a.list, carriers |-> a.carriers, spare |-> a.spare]
      /\ a.rate \in Nat /\ a.list \in [D -> Nat] /\ a.carriers \in Counts(D) /\ a.spare \in Nat
  BY FitStateIs DEF Fit
<1>2. /\ a.rate + Sum(Count(a.carriers)) = needed
      /\ a.spare = 0 \/ a.spare \in P
      /\ DOMAIN a.carriers \subseteq P
      /\ \A x \in DOMAIN a.carriers : x < a.spare => a.list[x] = a.carriers[x]
  BY DEF Fit
<1>3. r \in Nat \ {0} /\ r \in Rates /\ \A x \in P : x \in Nat /\ r < x
  BY RatesAre
<1>4. CASE a.rate <= 0
  <2>1. Fitted(a, r) = a
    BY <1>4 DEF Fitted
  <2>2. Fit(a, D, needed, P \cup {r})
    BY <1>2 DEF Fit
  <2> QED BY <2>1, <2>2
<1>5. CASE a.rate > 0 /\ a.rate < r
  <2>1. z = [a EXCEPT !.spare = r]
    BY <1>1, <1>5 DEF Fitted
  <2>2. z = [rate |-> a.rate, list |-> a.list, carriers |-> a.carriers, spare |-> r]
    <3> HIDE DEF z
    <3> QED BY <1>1, <2>1
  <2>3. z.rate = a.rate /\ z.list = a.list /\ z.carriers = a.carriers /\ z.spare = r
    BY ONLY <2>2
  <2> HIDE DEF z
  <2>4. z \in FitStates(D)
    <3>1. z = [rate |-> z.rate, list |-> z.list, carriers |-> z.carriers, spare |-> z.spare]
      BY <2>2, <2>3
    <3>2. z.rate \in Nat /\ z.list \in [D -> Nat] /\ z.carriers \in Counts(D) /\ z.spare \in Nat
      BY <1>1, <1>3, <2>3
    <3> QED BY <3>1, <3>2, FitStateIs
  <2>5. ASSUME NEW x \in DOMAIN z.carriers, x < z.spare PROVE z.list[x] = z.carriers[x]
    <3>1. x \in P
      BY <1>2, <2>3
    <3>2. r \in Nat /\ x \in Nat /\ r < x /\ x < r
      BY <1>3, <2>3, <2>5, <3>1
    <3> QED BY ONLY <3>2
  <2>6. Fit(z, D, needed, P \cup {r})
    BY <1>2, <2>3, <2>4, <2>5 DEF Fit
  <2> QED BY <2>6 DEF z
<1>6. CASE a.rate >= r
  <2> DEFINE n == Least(a.rate \div r, a.list[r])
             taken == [x \in DOMAIN a.carriers \cup {r} |-> IF x = r THEN n ELSE a.carriers[x]]
             left == [a.list EXCEPT ![r] = @ - n]
             q == IF n # a.list[r] - n THEN r ELSE a.spare
  <2>1. ~(a.rate <= 0) /\ ~(a.rate < r)
    BY <1>1, <1>3, <1>6
  <2>2. z = [rate |-> a.rate - n * r, list |-> left, carriers |-> taken, spare |-> q]
    BY <2>1 DEF Fitted
  <2>3. z.rate = a.rate - n * r /\ z.list = left /\ z.carriers = taken /\ z.spare = q
    <3> HIDE DEF left, taken, q, n, z
    <3> QED BY ONLY <2>2
  <2>4. PICK k \in Nat : k = a.list[r]
    BY <1>1
  <2>5. n \in Nat /\ n <= k /\ n * r \in Nat /\ r * n = n * r /\ a.rate - n * r \in Nat
    <3>1. PICK e \in Nat : e = a.rate
      BY <1>1
    <3>2. PICK m : m = Least(e \div r, k)
      OBVIOUS
    <3>3. m \in Nat /\ m <= k /\ m * r \in Nat /\ r * m = m * r /\ e - m * r \in Nat
      BY <1>3, <3>2, Quotient
    <3> QED BY <2>4, <3>1, <3>2, <3>3
  <2> HIDE DEF n, z
  <2>6. left \in [D -> Nat] /\ left[r] = k - n /\ \A x \in D : x # r => left[x] = a.list[x]
    BY <1>1, <2>4, <2>5
  <2>7. taken \in Counts(D)
    <3>1. DOMAIN a.carriers \in SUBSET D /\ \A x \in DOMAIN a.carriers : a.carriers[x] \in Nat
      BY <1>1, CountsAre
    <3>2. DOMAIN taken \in SUBSET D /\ taken = [x \in DOMAIN taken |-> taken[x]]
          /\ \A x \in DOMAIN taken : taken[x] \in Nat
      BY <2>5, <3>1
    <3> HIDE DEF taken
    <3> QED BY <3>2, CountsAre
  <2>8. q \in Nat /\ (q = r \/ (q = a.spare /\ n = k - n))
    <3>1. q = IF n # k - n THEN r ELSE a.spare
      BY <2>4
    <3>2. a.spare \in Nat /\ r \in Nat
      BY <1>1, <1>3
    <3> QED BY ONLY <3>1, <3>2
  <2>9. r \notin DOMAIN a.carriers
    BY <1>2, <1>3
  <2>10. DOMAIN taken = DOMAIN a.carriers \cup {r} /\ taken[r] = n
         /\ \A x \in DOMAIN a.carriers : taken[x] = a.carriers[x]
    BY <2>9
  <2> HIDE DEF taken, left, q
  <2>11. z \in FitStates(D)
    BY <1>1, <2>2, <2>3, <2>5, <2>6, <2>7, <2>8, FitStateIs
  <2>12. Sum(Count(taken)) = Sum(Count(a.carriers)) + n * r
    <3>1. PICK s, t : s = Count(a.carriers) /\ t = Count(taken)
      OBVIOUS
    <3>2. \A x \in Rates : s[x] \in Int /\ s[x] = IF x \in DOMAIN a.carriers THEN a.carriers[x] ELSE 0
      BY <1>1, <3>1, CountIs
    <3>3. \A x \in Rates : t[x] = IF x \in DOMAIN taken THEN taken[x] ELSE 0
      BY <2>7, <3>1, CountIs
    <3>4. \A x \in Rates : t[x] = s[x] + IF x = r THEN n ELSE 0
      <4> SUFFICES ASSUME NEW x \in Rates PROVE t[x] = s[x] + IF x = r THEN n ELSE 0
        OBVIOUS
      <4>1. CASE x = r
        BY <2>5, <2>9, <2>10, <3>2, <3>3, <4>1
      <4>2. CASE x # r
        <5>1. t[x] = s[x]
          BY <2>10, <3>2, <3>3, <4>2
        <5> QED BY <3>2, <4>2, <5>1
      <4> QED BY <4>1, <4>2
    <3>5. n \in Int
      BY <2>5
    <3>6. Sum(t) = Sum(s) + r * n
      BY <1>3, <3>2, <3>4, <3>5, SumMore
    <3> QED BY <2>5, <3>1, <3>6
  <2>13. z.rate + Sum(Count(z.carriers)) = needed
    <3>1. Sum(Count(a.carriers)) \in Nat
      BY <1>1, CountIs
    <3>2. PICK e \in Nat, s \in Nat, m \in Nat : e = a.rate /\ s = Sum(Count(a.carriers)) /\ m = n * r
      BY <1>1, <2>5, <3>1
    <3> QED BY <1>2, <2>3, <2>12, <3>2
  <2>14. z.spare = 0 \/ z.spare \in P \cup {r}
    BY <1>2, <2>3, <2>8
  <2>15. DOMAIN z.carriers \subseteq P \cup {r}
    BY <1>2, <2>3, <2>10
  <2>16. ASSUME NEW x \in DOMAIN z.carriers, x < z.spare PROVE z.list[x] = z.carriers[x]
    <3>1. x \in DOMAIN a.carriers \/ x = r
      BY <2>3, <2>10, <2>16
    <3>2. z.spare = q
      BY <2>3
    <3>3. CASE q = r
      <4>1. x \in Nat /\ r \in Nat /\ r <= x
        <5>1. x \in P \/ x = r
          BY <1>2, <3>1
        <5>2. r \in Nat /\ (x \in P => x \in Nat /\ r < x)
          BY <1>3
        <5> QED BY ONLY <5>1, <5>2
      <4>2. x < r /\ r \in Nat
        BY <1>3, <2>16, <3>2, <3>3
      <4> QED BY ONLY <4>1, <4>2
    <3>4. CASE q = a.spare /\ n = k - n
      <4>1. CASE x = r
        BY <2>3, <2>6, <2>10, <3>4, <4>1
      <4>2. CASE x # r
        <5>1. x \in DOMAIN a.carriers /\ x \in D
          BY <1>2, <3>1, <4>2
        <5> QED BY <1>2, <2>3, <2>6, <2>10, <2>16, <3>2, <3>4, <4>2, <5>1
      <4> QED BY <4>1, <4>2
    <3> QED BY <2>8, <3>3, <3>4
  <2>17. Fit(z, D, needed, P \cup {r})
    BY <2>11, <2>13, <2>14, <2>15, <2>16 DEF Fit
  <2> QED BY <2>17 DEF z
<1> QED BY <1>1, <1>3, <1>4, <1>5, <1>6

LEMMA FitsIs ==
  ASSUME NEW D \in SUBSET Rates, NEW list \in [D -> Nat], NEW needed \in Nat
  PROVE  \E P \in SUBSET D : Fit(Fits(list, needed), D, needed, P)
<1> DEFINE d == Descending(DOMAIN list)
           n == Len(d)
           X == FitStates(D)
           x0 == [rate |-> needed, list |-> list, carriers |-> << >>, spare |-> 0]
           Seen(i) == {d[j] : j \in 1 .. i}
           inv == [i \in 0 .. n |-> {a \in X : Fit(a, D, needed, Seen(i))}]
           step == [i \in 1 .. n |-> [a \in X |-> Fitted(a, d[i])]]
           fits[i \in 0 .. n] == IF i = 0 THEN x0 ELSE Fitted(fits[i - 1], d[i])
<1>1. /\ n \in Nat /\ d \in [1 .. n -> D]
      /\ \A i, j \in 1 .. n : i < j => d[j] < d[i]
  <2>1. DOMAIN list \in SUBSET Int /\ IsFiniteSet(DOMAIN list) /\ DOMAIN list = D
    <3>1. D \in SUBSET Int
      BY RatesAre
    <3>2. IsFiniteSet(D)
      BY RatesAre, FS_Subset
    <3> QED BY <3>1, <3>2
  <2> HIDE DEF d
  <2>2. PICK E : E = DOMAIN list
    OBVIOUS
  <2>3. d = Descending(E)
    BY <2>2 DEF d
  <2>4. /\ Cardinality(E) \in Nat /\ Len(d) = Cardinality(E) /\ d \in [1 .. Cardinality(E) -> E]
        /\ \A i, j \in 1 .. Cardinality(E) : i < j => d[j] < d[i]
    BY <2>1, <2>2, <2>3, DescendingIs
  <2> QED BY <2>1, <2>2, <2>4
<1>2. x0 \in X /\ Fit(x0, D, needed, {})
  <2>1. x0.rate = needed /\ x0.list = list /\ x0.carriers = << >> /\ x0.spare = 0
    OBVIOUS
  <2>2. << >> \in Counts(D) /\ DOMAIN << >> = {}
    <3>1. DOMAIN << >> = {} /\ << >> = [r \in {} |-> << >>[r]]
      OBVIOUS
    <3>2. PICK e : e = << >>
      OBVIOUS
    <3>3. DOMAIN e = {} /\ e = [r \in DOMAIN e |-> e[r]]
      BY <3>1, <3>2
    <3>4. DOMAIN e \in SUBSET D /\ \A r \in DOMAIN e : e[r] \in Nat
      BY <3>3
    <3>5. e \in Counts(D)
      BY ONLY <3>3, <3>4, CountsAre
    <3> QED BY <3>2, <3>3, <3>5
  <2>3. Sum(Count(<< >>)) = 0
    <3>1. PICK k : k = Count(<< >>)
      OBVIOUS
    <3>2. \A r \in Rates : k[r] = 0
      BY <2>2, <3>1 DEF Count
    <3> DEFINE v == [r \in Rates |-> r * k[r]]
    <3>3. \A r \in Rates : v[r] = 0
      <4>1. \A r \in Rates : r * 0 = 0
        BY RatesAre
      <4> QED BY <3>2, <4>1
    <3> HIDE DEF v
    <3>4. SumFunctionOnSet(v, Rates) = 0
      BY <3>3, RatesAre, SumZero
    <3> QED BY <3>1, <3>4 DEF Sum, v
  <2>4. x0 = [rate |-> x0.rate, list |-> x0.list, carriers |-> x0.carriers, spare |-> x0.spare]
    BY <2>1
  <2> HIDE DEF x0
  <2>5. x0 \in FitStates(D)
    BY <2>1, <2>2, <2>4, FitStateIs
  <2> QED BY <2>1, <2>2, <2>3, <2>5 DEF Fit
<1>3. Seen(0) = {} /\ \A i \in 1 .. n : Seen(i) = Seen(i - 1) \cup {d[i]}
  <2> HIDE DEF d
  <2> QED BY <1>1
<1>4. \A i \in 0 .. n : Seen(i) \in SUBSET D
  <2> HIDE DEF d
  <2> QED BY <1>1
<1>5. ASSUME NEW i \in 1 .. n, NEW a, Fit(a, D, needed, Seen(i - 1))
      PROVE  Fit(Fitted(a, d[i]), D, needed, Seen(i))
  <2>1. d[i] \in D /\ \A x \in Seen(i - 1) : d[i] < x
    <3> HIDE DEF d
    <3> QED BY <1>1
  <2>2. Seen(i - 1) \in SUBSET D /\ Seen(i) = Seen(i - 1) \cup {d[i]}
    BY <1>1, <1>3, <1>4
  <2> HIDE DEF d, Seen
  <2> QED BY <1>5, <2>1, <2>2, FittedKeeps
<1> HIDE DEF d, n, x0, Seen
<1>6. Leads(step, n, inv) /\ inv \in [0 .. n -> SUBSET X] /\ x0 \in inv[0]
  <2>1. ASSUME NEW i \in 1 .. n, NEW a \in inv[i - 1] PROVE step[i][a] \in inv[i]
    <3>1. a \in X /\ Fit(a, D, needed, Seen(i - 1)) /\ step[i][a] = Fitted(a, d[i])
      BY <1>1
    <3>2. Fit(Fitted(a, d[i]), D, needed, Seen(i))
      BY <1>5, <3>1
    <3>3. Fitted(a, d[i]) \in X
      BY <3>2 DEF Fit
    <3> QED BY <1>1, <3>1, <3>2, <3>3
  <2>2. inv \in [0 .. n -> SUBSET X]
    <3>1. \A i \in 0 .. n : {a \in X : Fit(a, D, needed, Seen(i))} \in SUBSET X
      OBVIOUS
    <3> QED BY <3>1
  <2>3. x0 \in inv[0]
    <3>1. 0 \in 0 .. n
      BY <1>1
    <3>2. inv[0] = {a \in X : Fit(a, D, needed, Seen(0))}
      BY <3>1
    <3> QED BY <1>2, <1>3, <3>2
  <2> QED BY <2>1, <2>2, <2>3 DEF Leads
<1> HIDE DEF X
<1>7. PICK f \in [0 .. n -> X] : Loop(f, n, x0, step) /\ Within(f, n, inv)
  <2> HIDE DEF step, inv
  <2> QED BY <1>1, <1>6, LoopExists
<1>8. f = [i \in 0 .. n |-> IF i = 0 THEN x0 ELSE Fitted(f[i - 1], d[i])]
  <2>1. ASSUME NEW i \in 0 .. n PROVE f[i] = IF i = 0 THEN x0 ELSE Fitted(f[i - 1], d[i])
    <3>1. CASE i = 0
      BY <1>7, <3>1 DEF Loop
    <3>2. CASE i # 0
      <4>1. i \in 1 .. n /\ i - 1 \in 0 .. n
        BY <1>1, <3>2
      <4>2. f[i] = step[i][f[i - 1]] /\ f[i - 1] \in X
        BY <1>7, <4>1 DEF Loop
      <4> QED BY <3>2, <4>1, <4>2
    <3> QED BY <3>1, <3>2
  <2> QED BY <2>1
<1>9. fits = [i \in 0 .. n |-> IF i = 0 THEN x0 ELSE Fitted(fits[i - 1], d[i])]
  BY <1>8
<1>10. Fits(list, needed) = fits[n] /\ Fit(x0, D, needed, Seen(0))
  <2>1. Fits(list, needed) = fits[n]
    BY DEF Fits, fits, d, n, x0
  <2> QED BY <1>2, <1>3, <2>1
<1> HIDE DEF fits
<1>11. fits[0] = x0 /\ \A i \in 1 .. n : fits[i] = Fitted(fits[i - 1], d[i])
  <2>1. 0 \in 0 .. n /\ \A i \in 1 .. n : i \in 0 .. n /\ i # 0
    BY <1>1
  <2> QED BY <1>9, <2>1
<1> DEFINE Good(i) == Fit(fits[i], D, needed, Seen(i))
           Q == {i \in 0 .. n : Good(i)}
<1>12. Good(n)
  <2>1. 0 \in Q
    BY <1>1, <1>10, <1>11
  <2>2. \A i \in 1 .. n : i - 1 \in Q => i \in Q
    BY <1>1, <1>5, <1>11
  <2> HIDE DEF Q, Good
  <2>3. \A i \in 0 .. n : i \in Q
    BY <1>1, <2>1, <2>2, Induct
  <2> QED BY <1>1, <2>3 DEF Q
<1>13. Seen(n) \in SUBSET D
  BY <1>1, <1>4
<1> QED BY <1>10, <1>12, <1>13

\* What some of the sizes make.
LEMMA SumPart ==
  ASSUME NEW T \in SUBSET Rates, NEW k, \A x \in T : k[x] \in Nat,
         NEW w, \A x \in Rates : w[x] = IF x \in T THEN k[x] ELSE 0,
         NEW W, DOMAIN W = T, \A x \in T : W[x] = x * k[x]
  PROVE  SumFunction(W) = Sum(w) /\ Sum(w) \in Nat
<1> DEFINE v == [x \in Rates |-> x * w[x]]
<1>1. \A x \in Rates : w[x] \in Int /\ w[x] >= 0
  OBVIOUS
<1>2. Ints(v, Rates) /\ Sum(w) \in Nat /\ Sum(w) = SumFunctionOnSet(v, Rates)
  BY <1>1, SumAre DEF Sum
<1>3. /\ \A x \in T : v[x] = W[x]
      /\ \A x \in Rates \ T : v[x] = 0
  <2>1. \A x \in Rates : x * 0 = 0
    BY RatesAre
  <2> QED BY <2>1
<1> HIDE DEF v
<1>4. IsFiniteSet(T) /\ IsFiniteSet(Rates \ T) /\ T \cap (Rates \ T) = {}
  BY RatesAre, FS_Subset
<1>5. PICK U : U = Rates \ T
  OBVIOUS
<1>6. T \cup U = Rates /\ IsFiniteSet(U) /\ T \cap U = {}
  BY <1>4, <1>5
<1>7. SumFunctionOnSet(v, Rates) = SumFunctionOnSet(v, T) + SumFunctionOnSet(v, U)
  <2>1. Ints(v, T \cup U)
    BY <1>2, <1>6
  <2>2. SumFunctionOnSet(v, T \cup U) = SumFunctionOnSet(v, T) + SumFunctionOnSet(v, U)
    BY ONLY <1>4, <1>6, <2>1, SumUnion
  <2> QED BY <1>6, <2>2
<1>8. SumFunctionOnSet(v, U) = 0
  BY <1>3, <1>5, <1>6, SumZero
<1>9. Ints(v, T)
  BY <1>2 DEF Ints
<1>10. SumFunctionOnSet(W, T) = SumFunctionOnSet(v, T) /\ SumFunctionOnSet(v, T) \in Int
  <2>1. \A x \in T : W[x] = v[x]
    BY <1>3
  <2> QED BY <1>4, <1>9, <2>1, SumSame, SumInt
<1>11. SumFunction(W) = SumFunctionOnSet(W, T)
  BY DEF SumFunction
<1> QED BY <1>2, <1>7, <1>8, <1>10, <1>11

\* What is asked for, and no more than one carrier of the smallest size above it.
IsCalculated(c, D, needed) ==
  /\ c.carriers \in Counts(D)
  /\ c.rate \in Int /\ c.rate <= 0
  /\ c.rate + Sum(Count(c.carriers)) = needed
  /\ c.rate < 0 => \E q \in DOMAIN c.carriers : /\ \A r \in DOMAIN c.carriers : q <= r
                                               /\ c.carriers[q] >= 1 /\ 0 < c.rate + q

LEMMA CalculationIs ==
  ASSUME NEW D \in SUBSET Rates, NEW needed, NEW P \in SUBSET D, NEW a, Fit(a, D, needed, P),
         ~Undefined(a)
  PROVE  IsCalculated(Calculation(a), D, needed)
<1> DEFINE c == Calculation(a)
<1>1. /\ a.rate \in Nat /\ a.list \in [D -> Nat] /\ a.carriers \in Counts(D) /\ a.spare \in Nat
      /\ a.rate + Sum(Count(a.carriers)) = needed
      /\ a.spare = 0 \/ a.spare \in P
      /\ DOMAIN a.carriers \subseteq P
      /\ \A r \in DOMAIN a.carriers : r < a.spare => a.list[r] = a.carriers[r]
  BY FitStateIs DEF Fit
<1>2. CASE a.rate = 0
  <2>1. c = [rate |-> a.rate, carriers |-> a.carriers]
    BY <1>2 DEF Calculation
  <2>2. c.rate = 0 /\ c.carriers = a.carriers
    BY <1>2, <2>1
  <2> HIDE DEF c
  <2>3. IsCalculated(c, D, needed)
    BY <1>1, <1>2, <2>2 DEF IsCalculated
  <2> QED BY <2>3 DEF c
<1>3. CASE a.rate > 0
  <2> DEFINE q == a.spare
             k == a.carriers
             wasted == {r \in DOMAIN k : r < q}
             kept == {r \in DOMAIN k : r > q}
             W == [r \in wasted |-> r * a.list[r]]
             taken == [r \in kept \cup {q} |-> IF r \in kept THEN k[r]
                                               ELSE IF q \in DOMAIN k THEN k[q] + 1 ELSE 1]
             w == [x \in Rates |-> IF x \in wasted THEN k[x] ELSE 0]
  <2>1. c = [rate |-> a.rate - q + SumFunction(W), carriers |-> taken]
    BY <1>3 DEF Calculation, WithSpare
  <2>2. c.rate = a.rate - q + SumFunction(W) /\ c.carriers = taken
    <3> HIDE DEF W, taken, q, c
    <3> QED BY ONLY <2>1
  <2>3. q # 0 /\ ~(c.rate > 0)
    BY <1>3 DEF Undefined, Calculation
  <2>4. q \in D /\ q \in Rates /\ q \in Nat \ {0}
    BY <1>1, <2>3, RatesAre
  <2>5. DOMAIN k \in SUBSET D /\ \A x \in DOMAIN k : k[x] \in Nat /\ x \in Nat
    BY <1>1, CountsAre, RatesAre
  <2>6. SumFunction(W) = Sum(w) /\ Sum(w) \in Nat
    <3>1. wasted \in SUBSET Rates /\ \A x \in wasted : k[x] \in Nat /\ W[x] = x * k[x]
      BY <1>1, <2>5
    <3>2. DOMAIN W = wasted /\ \A x \in Rates : w[x] = IF x \in wasted THEN k[x] ELSE 0
      OBVIOUS
    <3> HIDE DEF wasted, W, w, k
    <3> QED BY <3>1, <3>2, SumPart
  <2>7. taken \in Counts(D)
    <3>1. /\ DOMAIN taken \in SUBSET D /\ taken = [x \in DOMAIN taken |-> taken[x]]
          /\ \A x \in DOMAIN taken : taken[x] \in Nat
      BY <2>4, <2>5
    <3> HIDE DEF taken
    <3> QED BY <3>1, CountsAre
  <2>8. Sum(Count(k)) + q = Sum(Count(taken)) + Sum(w)
    <3>1. PICK s, t : s = Count(k) /\ t = Count(taken)
      OBVIOUS
    <3>2. \A x \in Rates : s[x] \in Nat /\ s[x] = IF x \in DOMAIN k THEN k[x] ELSE 0
      BY <1>1, <3>1, CountIs
    <3>3. \A x \in Rates : t[x] \in Nat /\ t[x] = IF x \in DOMAIN taken THEN taken[x] ELSE 0
      BY <2>7, <3>1, CountIs
    <3>4. \A x \in Rates : w[x] \in Nat /\ w[x] = IF x \in wasted THEN k[x] ELSE 0
      BY <2>5
    <3>5. PICK m : m = [x \in Rates |-> t[x] + w[x]]
      OBVIOUS
    <3>6. ASSUME NEW x \in Rates PROVE m[x] = s[x] + IF x = q THEN 1 ELSE 0
      <4>1. m[x] = t[x] + w[x]
        BY <3>5
      <4>2. CASE x = q
        <5>1. x \notin kept /\ x \notin wasted /\ x \in DOMAIN taken
          BY <2>4, <4>2
        <5>2. t[x] = s[x] + 1
          <6>1. taken[x] = IF x \in DOMAIN k THEN k[x] + 1 ELSE 1
            BY <4>2, <5>1
          <6>2. t[x] = taken[x] /\ s[x] = IF x \in DOMAIN k THEN k[x] ELSE 0
            BY <3>2, <3>3, <5>1
          <6> HIDE DEF taken, k
          <6> QED BY <6>1, <6>2
        <5> QED BY <3>2, <3>4, <4>1, <4>2, <5>1, <5>2
      <4>3. CASE x # q
        <5>0. x \in Nat
          BY RatesAre
        <5>1. x \in DOMAIN k => x \in kept \/ x \in wasted
          BY <2>4, <4>3, <5>0
        <5>2. ~(x \in kept /\ x \in wasted)
          BY <2>4, <5>0
        <5>3. x \in DOMAIN taken <=> x \in kept
          BY <4>3
        <5>4. x \in kept => taken[x] = k[x] /\ x \in DOMAIN k
          OBVIOUS
        <5>5. x \in wasted => x \in DOMAIN k
          OBVIOUS
        <5>6. s[x] \in Nat /\ t[x] \in Nat /\ w[x] \in Nat
          BY <3>2, <3>3, <3>4
        <5>7. /\ s[x] = IF x \in DOMAIN k THEN k[x] ELSE 0
              /\ t[x] = IF x \in DOMAIN taken THEN taken[x] ELSE 0
              /\ w[x] = IF x \in wasted THEN k[x] ELSE 0
          BY <3>2, <3>3, <3>4
        <5> HIDE DEF w, taken, kept, wasted, k
        <5>8. m[x] = s[x]
          BY ONLY <4>1, <5>1, <5>2, <5>3, <5>4, <5>5, <5>6, <5>7
        <5> QED BY <4>3, <5>6, <5>8
      <4> QED BY <4>2, <4>3
    <3> HIDE DEF w, taken, kept, wasted, k, q
    <3>7. Sum(m) = Sum(t) + Sum(w)
      <4>1. /\ \A x \in Rates : t[x] \in Int
            /\ \A x \in Rates : w[x] \in Int
            /\ \A x \in Rates : m[x] = t[x] + w[x]
        BY <3>3, <3>4, <3>5
      <4> QED BY ONLY <4>1, SumAdds
    <3>8. Sum(m) = Sum(s) + q * 1
      <4>1. \A x \in Rates : s[x] \in Int
        BY <3>2
      <4>2. q \in Rates /\ 1 \in Int
        BY <2>4
      <4>3. \A x \in Rates : m[x] = s[x] + IF x = q THEN 1 ELSE 0
        BY <3>6
      <4> QED BY ONLY <4>1, <4>2, <4>3, SumMore
    <3> QED BY <2>4, <3>1, <3>7, <3>8
  <2>9. Sum(Count(k)) \in Nat /\ Sum(Count(taken)) \in Nat
    BY <1>1, <2>4, <2>7, CountIs
  <2>10. c.rate \in Int /\ c.rate <= 0 /\ c.rate + Sum(Count(taken)) = needed /\ 0 < c.rate + q
    <3>1. PICK e \in Nat, s \in Nat, t \in Nat, v \in Nat, p \in Nat :
                 e = a.rate /\ s = Sum(Count(k)) /\ t = Sum(Count(taken)) /\ v = Sum(w) /\ p = q
      BY <1>1, <2>4, <2>6, <2>9
    <3>2. c.rate = e - p + v /\ s + p = t + v /\ e + s = needed /\ e > 0 /\ ~(c.rate > 0)
      BY <1>1, <1>3, <2>2, <2>3, <2>6, <2>8, <3>1
    <3>3. c.rate \in Int /\ c.rate <= 0 /\ c.rate + t = needed /\ 0 < c.rate + p
      BY ONLY <3>2, e \in Nat, s \in Nat, t \in Nat, v \in Nat, p \in Nat
    <3> QED BY <3>1, <3>3
  <2>11. /\ q \in DOMAIN taken /\ \A r \in DOMAIN taken : q <= r
         /\ taken[q] >= 1
    <3>1. \A r \in kept : q <= r
      BY <2>4, <2>5
    <3>2. q \notin kept
      BY <2>4
    <3>3. q <= q
      BY <2>4
    <3>4. q \in DOMAIN k => k[q] \in Nat
      BY <2>5
    <3> HIDE DEF kept, k, q
    <3> QED BY <3>1, <3>2, <3>3, <3>4
  <2> HIDE DEF c, taken, q
  <2>12. IsCalculated(c, D, needed)
    BY <2>2, <2>7, <2>10, <2>11 DEF IsCalculated
  <2> QED BY <2>12 DEF c
<1> QED BY <1>1, <1>2, <1>3

-----------------------------------------------------------------------------
(* What a command does                                                     *)

\* The rate of all the carriers of the spot.
SpotChanges(b, o) ==
  SpotRate(o.band) = SpotRate(b) \/ (SpotRate(o.band) < SpotRate(b) /\ ~o.done)

LEMMA SpotSum ==
  ASSUME NEW b \in [Categories -> Category]
  PROVE  /\ \A c \in Categories : /\ TotalSymbolRate(b[c]) = GroupsRate(b[c].groups)
                                  /\ TotalSymbolRate(b[c]) \in Nat
         /\ SpotRate(b) = SumFunctionOnSet([c \in Categories |-> TotalSymbolRate(b[c])], Categories)
         /\ Ints([c \in Categories |-> TotalSymbolRate(b[c])], Categories)
         /\ SpotRate(b) \in Int
<1>1. ASSUME NEW c \in Categories
      PROVE  TotalSymbolRate(b[c]) = GroupsRate(b[c].groups) /\ TotalSymbolRate(b[c]) \in Nat
  <2>1. TotalSymbolRate(b[c]) = GroupsRate(b[c].groups)
    BY DEF TotalSymbolRate, GroupsRate
  <2>2. b[c].groups \in GroupSeqs
    BY CategoryIs
  <2> QED BY <2>1, <2>2, GroupsRateInt
<1> DEFINE v == [c \in Categories |-> TotalSymbolRate(b[c])]
<1>2. DOMAIN v = Categories /\ \A c \in Categories : v[c] = TotalSymbolRate(b[c])
  OBVIOUS
<1>3. SpotRate(b) = SumFunctionOnSet(v, Categories)
  BY DEF SpotRate, SumFunction
<1> HIDE DEF v
<1>4. Ints(v, Categories) /\ IsFiniteSet(Categories)
  BY <1>1, <1>2, BandAssumption DEF Ints, BandAssumption
<1>5. SumFunctionOnSet(v, Categories) \in Int
  BY <1>4, SumInt
<1> QED BY <1>1, <1>3, <1>4, <1>5 DEF v

LEMMA SpotAfter ==
  ASSUME NEW b \in [Categories -> Category], NEW from \in Categories, NEW to \in Categories,
         NEW carriers, NEW loss, NEW gain, NEW o, IsTransfer(b, from, to, carriers, loss, gain, o)
  PROVE  /\ Sum(loss) \in Nat /\ Sum(gain) \in Nat
         /\ \A c \in Categories : TotalSymbolRate(o.band[c])
                                    = TotalSymbolRate(b[c]) + (IF c = to THEN Sum(gain) ELSE 0)
                                                            - (IF c = from THEN Sum(loss) ELSE 0)
         /\ SpotChanges(b, o)
<1>1. /\ \A r \in Rates : loss[r] \in Int /\ loss[r] >= 0
      /\ \A r \in Rates : gain[r] \in Int /\ gain[r] >= 0
      /\ \A r \in Rates : gain[r] <= loss[r]
  BY DEF IsTransfer
<1>2. Sum(loss) \in Nat /\ Sum(gain) \in Nat
  <2>1. Sum(loss) \in Int /\ Sum(loss) >= 0
    BY <1>1, SumAre
  <2>2. Sum(gain) \in Int /\ Sum(gain) >= 0
    BY <1>1, SumAre
  <2> QED BY <2>1, <2>2
<1>3. Sum(gain) <= Sum(loss)
  <2>1. PICK d : d = [r \in Rates |-> loss[r] - gain[r]]
    OBVIOUS
  <2>2. \A r \in Rates : d[r] \in Int /\ d[r] >= 0 /\ loss[r] = gain[r] + d[r]
    <3> SUFFICES ASSUME NEW r \in Rates PROVE d[r] \in Int /\ d[r] >= 0 /\ loss[r] = gain[r] + d[r]
      OBVIOUS
    <3>1. loss[r] \in Int /\ gain[r] \in Int /\ gain[r] <= loss[r] /\ d[r] = loss[r] - gain[r]
      BY <1>1, <2>1
    <3> QED BY ONLY <3>1
  <2>3. Sum(d) \in Int /\ Sum(d) >= 0
    BY <2>2, SumAre
  <2>4. Sum(loss) = Sum(gain) + Sum(d)
    BY <1>1, <2>2, SumAdds
  <2> QED BY <1>2, <2>3, <2>4
<1>4. o.done => Sum(gain) = Sum(loss)
  <2> SUFFICES ASSUME o.done PROVE Sum(gain) = Sum(loss)
    OBVIOUS
  <2>1. \A r \in Rates : gain[r] = loss[r]
    BY DEF IsTransfer
  <2>2. [r \in Rates |-> r * gain[r]] = [r \in Rates |-> r * loss[r]]
    BY <2>1
  <2> QED BY <2>2 DEF Sum
<1>5. o.band \in [Categories -> Category]
  BY DEF IsTransfer
<1>6. PICK d : d = o.band
  OBVIOUS
<1>7. /\ \A c \in Categories : TotalSymbolRate(b[c]) = GroupsRate(b[c].groups)
      /\ \A c \in Categories : TotalSymbolRate(b[c]) \in Nat
      /\ \A c \in Categories : TotalSymbolRate(d[c]) = GroupsRate(d[c].groups)
      /\ \A c \in Categories : TotalSymbolRate(d[c]) \in Nat
  BY <1>5, <1>6, SpotSum
<1>8. \A c \in Categories : TotalSymbolRate(d[c])
                             = TotalSymbolRate(b[c]) + (IF c = to THEN Sum(gain) ELSE 0)
                                                     - (IF c = from THEN Sum(loss) ELSE 0)
  <2>1. \A c \in Categories : GroupsRate(d[c].groups)
                              = GroupsRate(b[c].groups) + (IF c = to THEN Sum(gain) ELSE 0)
                                                        - (IF c = from THEN Sum(loss) ELSE 0)
    BY <1>6 DEF IsTransfer
  <2> QED BY <1>7, <2>1
<1>9. SpotRate(d) = SpotRate(b) + Sum(gain) - Sum(loss) /\ SpotRate(b) \in Int
  <2> DEFINE v == [c \in Categories |-> TotalSymbolRate(b[c])]
             h == [c \in Categories |-> TotalSymbolRate(d[c])]
             m == [c \in Categories |-> v[c] + IF c = to THEN Sum(gain) ELSE 0]
  <2>1. /\ SpotRate(b) = SumFunctionOnSet(v, Categories) /\ Ints(v, Categories)
        /\ SpotRate(d) = SumFunctionOnSet(h, Categories) /\ SpotRate(b) \in Int
    BY <1>5, <1>6, SpotSum
  <2>2. PICK G \in Nat, L \in Nat : G = Sum(gain) /\ L = Sum(loss)
    BY <1>2
  <2>3. IsFiniteSet(Categories)
    BY BandAssumption DEF BandAssumption
  <2>4. \A c \in Categories : v[c] \in Nat /\ m[c] = v[c] + IF c = to THEN G ELSE 0
    BY <1>7, <2>2
  <2>5. \A c \in Categories : h[c] = v[c] + (IF c = to THEN G ELSE 0) - (IF c = from THEN L ELSE 0)
    BY <1>8, <2>2
  <2> HIDE DEF v, h, m
  <2>6. \A c \in Categories : m[c] \in Int
    BY <2>4
  <2>7. SumFunctionOnSet(m, Categories) = SumFunctionOnSet(v, Categories) + G
    <3>1. G \in Int
      BY <2>2
    <3> QED BY <2>1, <2>3, <2>4, <3>1, SumAt
  <2>8. PICK k : k = -L
    OBVIOUS
  <2>9. \A c \in Categories : h[c] = m[c] + IF c = from THEN k ELSE 0
    <3> SUFFICES ASSUME NEW c \in Categories PROVE h[c] = m[c] + IF c = from THEN k ELSE 0
      OBVIOUS
    <3>1. /\ v[c] \in Nat /\ m[c] = v[c] + IF c = to THEN G ELSE 0
          /\ h[c] = v[c] + (IF c = to THEN G ELSE 0) - (IF c = from THEN L ELSE 0)
      BY <2>4, <2>5
    <3> QED BY ONLY <3>1, <2>8, G \in Nat, L \in Nat
  <2>10. SumFunctionOnSet(h, Categories) = SumFunctionOnSet(m, Categories) + k
    <3>1. k \in Int /\ Ints(m, Categories)
      BY <2>2, <2>6, <2>8 DEF Ints
    <3> QED BY <2>3, <2>9, <3>1, SumAt
  <2>11. PICK s : s = SpotRate(b) /\ s \in Int
    BY <2>1
  <2>12. SpotRate(d) = s + G + k
    BY <2>1, <2>7, <2>10, <2>11
  <2>13. s + G + k = s + G - L
    BY ONLY <2>8, <2>11, G \in Nat, L \in Nat
  <2> QED BY <2>1, <2>2, <2>11, <2>12, <2>13
<1>10. SpotChanges(b, o)
  <2>1. PICK s \in Int, G \in Nat, L \in Nat :
               s = SpotRate(b) /\ G = Sum(gain) /\ L = Sum(loss) /\ SpotRate(d) = s + G - L
    BY <1>2, <1>9
  <2>2. G <= L /\ (o.done => G = L)
    BY <1>3, <1>4, <2>1
  <2>3. s + G - L = s \/ (s + G - L < s /\ G # L)
    BY ONLY <2>2, s \in Int, G \in Nat, L \in Nat
  <2> QED BY <1>6, <2>1, <2>2, <2>3 DEF SpotChanges
<1> QED BY <1>2, <1>6, <1>8, <1>10

IsOutcome(b, from, to, carriers, o) ==
  /\ o.band \in [Categories -> Category]
  /\ SpotChanges(b, o)
  /\ o.done /\ from # to =>
       /\ TotalSymbolRate(o.band[to]) = TotalSymbolRate(b[to]) + Sum(Count(carriers))
       /\ TotalSymbolRate(o.band[from]) = TotalSymbolRate(b[from]) - Sum(Count(carriers))

LEMMA TransferIs ==
  ASSUME NEW b \in [Categories -> Category], NEW from \in Categories, NEW to \in Categories,
         NEW D \in SUBSET Rates, NEW a, NEW carriers, ~Undefined(a) => carriers \in Counts(D)
  PROVE  IsOutcome(b, from, to, carriers, Transfer(b, from, to, a, carriers))
         /\ (Transfer(b, from, to, a, carriers).done => ~Undefined(a))
<1> DEFINE o == Transfer(b, from, to, a, carriers)
<1>1. CASE Undefined(a)
  <2>1. o = [band |-> b, done |-> FALSE, undefined |-> TRUE]
    BY <1>1 DEF Transfer
  <2>2. o.band = b /\ ~o.done
    BY <2>1
  <2> HIDE DEF o
  <2>3. IsOutcome(b, from, to, carriers, o)
    BY <2>2 DEF IsOutcome, SpotChanges
  <2> QED BY <2>2, <2>3 DEF o
<1>2. CASE ~Undefined(a)
  <2>1. o = CarriersTransfer(b, from, to, carriers)
    BY <1>2 DEF Transfer
  <2> HIDE DEF o
  <2>2. DOMAIN carriers \in SUBSET Rates /\ \A r \in DOMAIN carriers : carriers[r] \in Nat
    BY <1>2, CountsAre
  <2>3. PICK loss, gain : IsTransfer(b, from, to, carriers, loss, gain, o)
    BY <2>1, <2>2, Transferred
  <2>4. /\ Sum(loss) \in Nat /\ Sum(gain) \in Nat
        /\ \A c \in Categories : TotalSymbolRate(o.band[c])
                                  = TotalSymbolRate(b[c]) + (IF c = to THEN Sum(gain) ELSE 0)
                                                          - (IF c = from THEN Sum(loss) ELSE 0)
        /\ SpotChanges(b, o)
    BY <2>3, SpotAfter
  <2>5. ASSUME o.done PROVE Sum(gain) = Sum(Count(carriers)) /\ Sum(loss) = Sum(Count(carriers))
    <3>1. \A r \in Rates : gain[r] = loss[r] /\ gain[r] = IF r \in DOMAIN carriers THEN carriers[r] ELSE 0
      BY <2>3, <2>5 DEF IsTransfer
    <3>2. \A r \in Rates : Count(carriers)[r] = gain[r] /\ Count(carriers)[r] = loss[r]
      BY <3>1 DEF Count
    <3>3. PICK k : k = Count(carriers)
      OBVIOUS
    <3>4. [r \in Rates |-> r * gain[r]] = [r \in Rates |-> r * k[r]]
          /\ [r \in Rates |-> r * loss[r]] = [r \in Rates |-> r * k[r]]
      BY <3>2, <3>3
    <3>5. Sum(gain) = Sum(k) /\ Sum(loss) = Sum(k)
      BY <3>4 DEF Sum
    <3> QED BY <3>3, <3>5
  <2>6. ASSUME o.done, from # to
        PROVE  /\ TotalSymbolRate(o.band[to]) = TotalSymbolRate(b[to]) + Sum(Count(carriers))
               /\ TotalSymbolRate(o.band[from]) = TotalSymbolRate(b[from]) - Sum(Count(carriers))
    <3>1. PICK s \in Nat, B \in Nat, A \in Nat :
                 s = Sum(Count(carriers)) /\ A = TotalSymbolRate(b[from]) /\ B = TotalSymbolRate(b[to])
      BY <2>4, <2>5, <2>6, SpotSum
    <3>2. Sum(gain) = s /\ Sum(loss) = s
      BY <2>5, <2>6, <3>1
    <3>3. TotalSymbolRate(o.band[to]) = B + s - 0 /\ TotalSymbolRate(o.band[from]) = A + 0 - s
      BY <2>4, <2>6, <3>1, <3>2
    <3> QED BY <3>1, <3>3
  <2>7. o.band \in [Categories -> Category]
    BY <2>3 DEF IsTransfer
  <2>8. IsOutcome(b, from, to, carriers, o)
    BY <2>4, <2>6, <2>7 DEF IsOutcome
  <2> QED BY <1>2, <2>8 DEF o
<1> QED BY <1>1, <1>2

LEMMA MaxIs ==
  /\ Rates # {} /\ Max(Rates) \in Rates /\ \A r \in Rates : r <= Max(Rates)
  /\ Max(Rates) \in Nat \ {0}
<1>1. Rates # {}
  <2>1. /\ Sno \in Categories /\ Carriers[Sno] # << >>
        /\ Carriers[Sno] \in Seq([rate : Nat \ {0}, ratio : Nat \ {0}])
    BY BandAssumption DEF BandAssumption
  <2>2. 1 \in DOMAIN Carriers[Sno]
    BY <2>1
  <2>3. Carriers[Sno][1].rate \in Rates
    BY <2>1, <2>2 DEF Rates
  <2> QED BY <2>3
<1>2. Rates \in SUBSET Int /\ IsFiniteSet(Rates)
  BY RatesAre
<1>3. \E x \in Rates : \A y \in Rates : x >= y
  <2> DEFINE n == Cardinality(Rates)
  <2>1. n \in Nat /\ n # 0
    BY <1>1, <1>2, FS_CardinalityType, FS_EmptySet
  <2>2. n \in 1 .. n
    BY <2>1
  <2>3. PICK x \in Rates : Cardinality(Below(Rates, x)) = n - 1
    BY <1>2, <2>2, RankIs
  <2>4. ASSUME NEW y \in Rates, x < y PROVE FALSE
    <3>1. Cardinality(Below(Rates, x)) < Cardinality(Below(Rates, y))
      BY <1>2, <2>4, RankIs
    <3>2. Cardinality(Below(Rates, y)) + 1 \in 1 .. n
      BY <1>2, RankIs
    <3>3. Cardinality(Below(Rates, y)) \in Nat
      <4>1. Below(Rates, y) \in SUBSET Rates
        BY DEF Below
      <4> QED BY <1>2, <4>1, FS_Subset, FS_CardinalityType
    <3> HIDE DEF n
    <3> QED BY <2>1, <2>3, <3>1, <3>2, <3>3
  <2>5. ASSUME NEW y \in Rates PROVE x >= y
    <3>1. x \in Int /\ y \in Int /\ ~(x < y)
      BY <1>2, <2>4
    <3> QED BY ONLY <3>1
  <2> QED BY <2>5
<1>4. PICK m \in Rates : m = Max(Rates) /\ \A y \in Rates : m >= y
  BY <1>3 DEF Max
<1>5. \A r \in Rates : r \in Nat \ {0}
  BY RatesAre
<1>6. ASSUME NEW r \in Rates PROVE r <= m
  <2>1. m >= r /\ r \in Nat /\ m \in Nat
    BY <1>4, <1>5
  <2> QED BY ONLY <2>1
<1> QED BY <1>1, <1>4, <1>5, <1>6

LEMMA KbitsAre ==
  ASSUME NEW cat \in Categories, NEW kb \in Nat
  PROVE  KbitsToSym(cat, kb) \in Nat
<1>1. PICK num \in Nat, den \in Nat \ {0} : num = SymNum[cat] /\ den = SymDen[cat]
  BY BandAssumption DEF BandAssumption
<1>2. kb * num \in Nat
  BY <1>1
<1>3. PICK x \in Nat : x = kb * num + den - 1
  BY <1>1, <1>2
<1>4. x \div den \in Nat
  BY <1>1
<1> QED BY <1>1, <1>3, <1>4 DEF KbitsToSym

\* No less than what was asked for, and less than one carrier more.
IsGranted(asked, rate) == asked <= rate /\ rate < asked + Max(Rates)

IsApplied(b, cat, kbps, o) ==
  /\ o.band \in [Categories -> Category]
  /\ SpotChanges(b, o)
  /\ o.done /\ cat # Sno => IsGranted(KbitsToSym(cat, kbps), TotalSymbolRate(o.band[cat]))

LEMMA RefusedIs ==
  ASSUME NEW b \in [Categories -> Category], NEW cat, NEW kbps, NEW o \in Refused(b)
  PROVE  IsApplied(b, cat, kbps, o)
<1>1. o = [band |-> b, done |-> FALSE, undefined |-> FALSE]
  BY DEF Refused, Outcome
<1>2. o.band = b /\ ~o.done
  BY <1>1
<1> QED BY <1>2 DEF IsApplied, SpotChanges

\* The calculation, for the list of a category.
LEMMA Calculated ==
  ASSUME NEW b \in [Categories -> Category], NEW cat \in Categories, NEW needed \in Nat,
         NEW a, a = Fits(b[cat].list, needed), ~Undefined(a)
  PROVE  IsCalculated(Calculation(a), DOMAIN b[cat].list, needed)
<1>1. PICK D, list : /\ D = DOMAIN b[cat].list /\ D \in SUBSET Rates
                     /\ list = b[cat].list /\ list \in [D -> Nat]
  <2>1. /\ DOMAIN b[cat].list \in SUBSET Rates
        /\ b[cat].list = [r \in DOMAIN b[cat].list |-> b[cat].list[r]]
        /\ \A r \in DOMAIN b[cat].list : b[cat].list[r] \in Nat
    BY CategoryIs
  <2>2. PICK l : l = b[cat].list
    OBVIOUS
  <2>3. DOMAIN l \in SUBSET Rates /\ l \in [DOMAIN l -> Nat]
    BY <2>1, <2>2
  <2> QED BY <2>2, <2>3
<1>2. PICK P \in SUBSET D : Fit(a, D, needed, P)
  BY <1>1, FitsIs
<1>3. IsCalculated(Calculation(a), D, needed)
  BY <1>1, <1>2, CalculationIs
<1> QED BY <1>1, <1>3

LEMMA Allocated ==
  ASSUME NEW b \in [Categories -> Category], NEW cat \in Categories, NEW kbps \in Nat,
         NEW o \in AllocateBand(b, cat, kbps)
  PROVE  IsApplied(b, cat, kbps, o)
<1>1. PICK K \in Nat, R \in Nat : K = KbitsToSym(cat, kbps) /\ R = TotalSymbolRate(b[cat])
  BY KbitsAre, SpotSum
<1>2. PICK needed : needed = K - R
  OBVIOUS
<1>3. Sno \in Categories
  BY BandAssumption DEF BandAssumption
<1>4. CASE needed <= 0 \/ TotalSymbolRate(b[Sno]) < needed
  <2>1. o \in Refused(b)
    BY <1>1, <1>2, <1>4 DEF AllocateBand
  <2> QED BY <2>1, RefusedIs
<1>5. CASE ~(needed <= 0 \/ TotalSymbolRate(b[Sno]) < needed)
  <2>1. needed \in Nat /\ needed > 0
    BY <1>1, <1>2, <1>5
  <2>2. PICK a : a = Fits(b[Sno].list, needed)
    OBVIOUS
  <2>3. o = Transfer(b, Sno, cat, a, Calculation(a).carriers)
    BY <1>1, <1>2, <1>5, <2>2 DEF AllocateBand
  <2>4. PICK c, D : c = Calculation(a) /\ D = DOMAIN b[Sno].list
    OBVIOUS
  <2>5. ~Undefined(a) => IsCalculated(c, D, needed)
    BY <1>3, <2>1, <2>2, <2>4, Calculated
  <2>6. D \in SUBSET Rates /\ (~Undefined(a) => c.carriers \in Counts(D))
    BY <1>3, <2>4, <2>5, CategoryIs DEF IsCalculated
  <2>7. IsOutcome(b, Sno, cat, c.carriers, o) /\ (o.done => ~Undefined(a))
    <3>1. o = Transfer(b, Sno, cat, a, c.carriers)
      BY <2>3, <2>4
    <3> QED BY <1>3, <2>6, <3>1, TransferIs
  <2>8. ASSUME o.done, cat # Sno PROVE IsGranted(K, TotalSymbolRate(o.band[cat]))
    <3>1. TotalSymbolRate(o.band[cat]) = R + Sum(Count(c.carriers))
      BY <1>1, <2>7, <2>8 DEF IsOutcome
    <3>2. IsCalculated(c, D, needed)
      BY <2>5, <2>7, <2>8
    <3>3. Sum(Count(c.carriers)) \in Nat
      BY <2>6, <2>7, <2>8, CountIs
    <3>4. PICK S \in Nat, e \in Int, M \in Nat \ {0} :
                 S = Sum(Count(c.carriers)) /\ e = c.rate /\ M = Max(Rates) /\ e <= 0 /\ e + S = needed
      BY <3>2, <3>3, MaxIs DEF IsCalculated
    <3>5. 0 < e + M
      <4>1. CASE e = 0
        BY <4>1, <3>4
      <4>2. CASE e # 0
        <5>1. PICK q \in DOMAIN c.carriers : 0 < e + q
          BY <3>2, <3>4, <4>2 DEF IsCalculated
        <5>2. q \in Rates
          BY <2>6, <2>7, <2>8, CountsAre
        <5>3. q \in Nat /\ q <= M
          BY <3>4, <5>2, MaxIs, RatesAre
        <5> QED BY ONLY <5>1, <5>3, e \in Int, M \in Nat \ {0}
      <4> QED BY <4>1, <4>2
    <3>6. K <= R + S /\ R + S < K + M
      BY ONLY <1>2, <3>4, <3>5, K \in Nat, R \in Nat, S \in Nat, e \in Int, M \in Nat \ {0}
    <3> QED BY <3>1, <3>4, <3>6 DEF IsGranted
  <2> QED BY <1>1, <2>7, <2>8 DEF IsApplied, IsOutcome
<1> QED BY <1>4, <1>5

\* What the calculation has too much is taken off.
LEMMA Surplus ==
  ASSUME NEW D \in SUBSET Rates, NEW needed \in Nat, NEW c, IsCalculated(c, D, needed)
  PROVE  /\ WithoutSurplus(c) \in Counts(D)
         /\ Sum(Count(WithoutSurplus(c))) \in Nat
         /\ Sum(Count(WithoutSurplus(c))) <= needed
         /\ needed < Sum(Count(WithoutSurplus(c))) + Max(Rates)
<1>1. /\ c.carriers \in Counts(D)
      /\ c.rate \in Int /\ c.rate <= 0
      /\ c.rate + Sum(Count(c.carriers)) = needed
      /\ c.rate < 0 => \E q \in DOMAIN c.carriers : /\ \A r \in DOMAIN c.carriers : q <= r
                                                   /\ c.carriers[q] >= 1 /\ 0 < c.rate + q
  BY DEF IsCalculated
<1>2. Sum(Count(c.carriers)) \in Nat /\ Max(Rates) \in Nat \ {0}
  BY <1>1, CountIs, MaxIs
<1>3. CASE ~(c.rate < 0)
  <2>1. WithoutSurplus(c) = c.carriers
    BY <1>3 DEF WithoutSurplus
  <2>2. PICK S \in Nat, e \in Int, M \in Nat \ {0} :
               S = Sum(Count(c.carriers)) /\ e = c.rate /\ M = Max(Rates)
    BY <1>1, <1>2
  <2>3. e = 0 /\ e + S = needed
    BY <1>1, <1>3, <2>2
  <2>4. S <= needed /\ needed < S + M
    BY ONLY <2>3, S \in Nat, M \in Nat \ {0}
  <2> QED BY <1>1, <1>2, <2>1, <2>2, <2>4
<1>4. CASE c.rate < 0
  <2>1. PICK q \in DOMAIN c.carriers : /\ \A r \in DOMAIN c.carriers : q <= r
                                      /\ c.carriers[q] >= 1 /\ 0 < c.rate + q
    BY <1>1, <1>4
  <2>2. DOMAIN c.carriers \in SUBSET D /\ \A r \in DOMAIN c.carriers : c.carriers[r] \in Nat
    BY <1>1, CountsAre
  <2>3. DOMAIN c.carriers \in SUBSET Nat /\ q \in Rates /\ q \in Nat \ {0}
    BY <2>2, RatesAre
  <2>4. Min(DOMAIN c.carriers) = q
    <3>1. PICK T : T = DOMAIN c.carriers
      OBVIOUS
    <3>2. PICK p : p = Min(T)
      OBVIOUS
    <3>3. p \in T /\ p <= q
      BY <2>1, <2>3, <3>1, <3>2, MinIs
    <3>4. q <= p
      BY <2>1, <3>1, <3>3
    <3>5. p \in Nat /\ q \in Nat
      BY <2>3, <3>1, <3>3
    <3>6. p = q
      BY ONLY <3>3, <3>4, <3>5
    <3> QED BY <3>1, <3>2, <3>6
  <2>5. PICK k : k = c.carriers
    OBVIOUS
  <2>6. PICK m : m = [k EXCEPT ![q] = @ - 1]
    OBVIOUS
  <2>7. WithoutSurplus(c) = m
    BY <1>4, <2>4, <2>5, <2>6 DEF WithoutSurplus
  <2>8. /\ DOMAIN m = DOMAIN k /\ m = [x \in DOMAIN m |-> m[x]]
        /\ m[q] = k[q] - 1
        /\ \A x \in DOMAIN k : x # q => m[x] = k[x]
    BY <2>1, <2>5, <2>6
  <2>9. \A x \in DOMAIN m : m[x] \in Nat
    <3>1. k[q] \in Nat /\ k[q] >= 1
      BY <2>1, <2>2, <2>5
    <3>2. m[q] \in Nat
      BY <2>8, <3>1
    <3> QED BY <2>2, <2>5, <2>8, <3>2
  <2>10. m \in Counts(D)
    BY <2>2, <2>5, <2>8, <2>9, CountsAre
  <2>11. Sum(Count(m)) = Sum(Count(k)) + q * (-1)
    <3>1. PICK s, t : s = Count(k) /\ t = Count(m)
      OBVIOUS
    <3>2. \A x \in Rates : s[x] \in Int /\ s[x] = IF x \in DOMAIN k THEN k[x] ELSE 0
      BY <1>1, <2>5, <3>1, CountIs
    <3>3. \A x \in Rates : t[x] = IF x \in DOMAIN m THEN m[x] ELSE 0
      BY <2>10, <3>1, CountIs
    <3>4. \A x \in Rates : t[x] = s[x] + IF x = q THEN -1 ELSE 0
      <4> SUFFICES ASSUME NEW x \in Rates PROVE t[x] = s[x] + IF x = q THEN -1 ELSE 0
        OBVIOUS
      <4>1. CASE x = q
        <5>1. t[x] = k[q] - 1 /\ s[x] = k[q] /\ k[q] \in Nat
          BY <2>1, <2>2, <2>5, <2>8, <3>2, <3>3, <4>1
        <5> QED BY <4>1, <5>1
      <4>2. CASE x # q
        <5>1. t[x] = s[x]
          BY <2>8, <3>2, <3>3, <4>2
        <5> QED BY <3>2, <4>2, <5>1
      <4> QED BY <4>1, <4>2
    <3>5. -1 \in Int
      OBVIOUS
    <3>6. Sum(t) = Sum(s) + q * (-1)
      BY <2>3, <3>2, <3>4, <3>5, SumMore
    <3> QED BY <3>1, <3>6
  <2>12. Sum(Count(m)) \in Nat
    BY <2>10, CountIs
  <2>13. PICK S \in Nat, Z \in Nat, e \in Int, M \in Nat \ {0} :
               S = Sum(Count(c.carriers)) /\ Z = Sum(Count(m)) /\ e = c.rate /\ M = Max(Rates)
    BY <1>1, <1>2, <2>12
  <2>14. Z = S - q /\ e + S = needed /\ 0 < e + q /\ e < 0 /\ q <= M
    <3>1. q * (-1) = -q
      BY <2>3
    <3>2. Z = S + (-q)
      BY <2>5, <2>11, <2>13, <3>1
    <3>3. Z = S - q
      BY <2>3, <3>2
    <3> QED BY <1>1, <1>4, <2>1, <2>3, <2>13, <3>3, MaxIs
  <2>15. Z <= needed /\ needed < Z + M
    BY ONLY <2>3, <2>14, S \in Nat, Z \in Nat, e \in Int, M \in Nat \ {0}
  <2> QED BY <2>7, <2>10, <2>13, <2>15
<1> QED BY <1>3, <1>4

LEMMA Released ==
  ASSUME NEW b \in [Categories -> Category], NEW cat \in Categories, NEW kbps \in Nat,
         NEW o \in ReleaseBand(b, cat, kbps)
  PROVE  IsApplied(b, cat, kbps, o)
<1>1. PICK K \in Nat, R \in Nat : K = KbitsToSym(cat, kbps) /\ R = TotalSymbolRate(b[cat])
  BY KbitsAre, SpotSum
<1>2. PICK unneeded : unneeded = R - K
  OBVIOUS
<1>3. Sno \in Categories
  BY BandAssumption DEF BandAssumption
<1>4. CASE unneeded <= 0
  <2>1. o \in Refused(b)
    BY <1>1, <1>2, <1>4 DEF ReleaseBand
  <2> QED BY <2>1, RefusedIs
<1>5. CASE ~(unneeded <= 0)
  <2>1. unneeded \in Nat
    BY <1>1, <1>2, <1>5
  <2>2. PICK a : a = Fits(b[cat].list, unneeded)
    OBVIOUS
  <2>3. o = Transfer(b, cat, Sno, a, WithoutSurplus(Calculation(a)))
    BY <1>1, <1>2, <1>5, <2>2 DEF ReleaseBand
  <2>4. PICK c, D, carriers : /\ c = Calculation(a) /\ D = DOMAIN b[cat].list
                              /\ carriers = WithoutSurplus(c)
    OBVIOUS
  <2>5. ~Undefined(a) => IsCalculated(c, D, unneeded)
    BY <2>1, <2>2, <2>4, Calculated
  <2>6. D \in SUBSET Rates
    BY <2>4, CategoryIs
  <2>7. ~Undefined(a) => /\ carriers \in Counts(D)
                         /\ Sum(Count(carriers)) \in Nat
                         /\ Sum(Count(carriers)) <= unneeded
                         /\ unneeded < Sum(Count(carriers)) + Max(Rates)
    BY <2>1, <2>4, <2>5, <2>6, Surplus
  <2>8. IsOutcome(b, cat, Sno, carriers, o) /\ (o.done => ~Undefined(a))
    <3>1. o = Transfer(b, cat, Sno, a, carriers)
      BY <2>3, <2>4
    <3> QED BY <1>3, <2>6, <2>7, <3>1, TransferIs
  <2>9. ASSUME o.done, cat # Sno PROVE IsGranted(K, TotalSymbolRate(o.band[cat]))
    <3>1. TotalSymbolRate(o.band[cat]) = R - Sum(Count(carriers))
      BY <1>1, <2>8, <2>9 DEF IsOutcome
    <3>2. PICK S \in Nat, M \in Nat \ {0} : S = Sum(Count(carriers)) /\ M = Max(Rates)
      BY <2>7, <2>8, <2>9, MaxIs
    <3>3. S <= unneeded /\ unneeded < S + M
      BY <2>7, <2>8, <2>9, <3>2
    <3>4. K <= R - S /\ R - S < K + M
      BY ONLY <1>2, <3>3, K \in Nat, R \in Nat, S \in Nat, M \in Nat \ {0}
    <3> QED BY <3>1, <3>2, <3>4 DEF IsGranted
  <2> QED BY <1>1, <2>8, <2>9 DEF IsApplied, IsOutcome
<1> QED BY <1>4, <1>5

LEMMA CommandApplied ==
  ASSUME NEW b \in [Categories -> Category], NEW cmd, cmd.kbps \in Nat,
         NEW o \in ApplySvnoCommand(b, cmd)
  PROVE  IsApplied(b, cmd.cat, cmd.kbps, o)
<1>1. CASE cmd.cat \notin Categories
  <2>1. o \in Refused(b)
    BY <1>1 DEF ApplySvnoCommand
  <2> QED BY <2>1, RefusedIs
<1>2. CASE cmd.cat \in Categories /\ cmd.type = "allocation"
  <2>1. o \in AllocateBand(b, cmd.cat, cmd.kbps)
    BY <1>2 DEF ApplySvnoCommand
  <2> QED BY <1>2, <2>1, Allocated
<1>3. CASE cmd.cat \in Categories /\ cmd.type # "allocation"
  <2>1. o \in ReleaseBand(b, cmd.cat, cmd.kbps)
    BY <1>3 DEF ApplySvnoCommand
  <2> QED BY <1>3, <2>1, Released
<1> QED BY <1>1, <1>2, <1>3

-----------------------------------------------------------------------------
(* initBand                                                                *)

LEMMA RatiosAre ==
  ASSUME NEW c \in Categories
  PROVE  /\ DOMAIN Carriers[c] = 1 .. Len(Carriers[c]) /\ Len(Carriers[c]) \in Nat \ {0}
         /\ \A i \in DOMAIN Carriers[c] : /\ Carriers[c][i].ratio \in Nat \ {0}
                                          /\ Carriers[c][i].rate \in Nat \ {0}
                                          /\ Carriers[c][i].rate \in Rates
         /\ TotalRatio(c) \in Nat \ {0} /\ WeightedRatio(c) \in Nat \ {0}
<1>1. /\ Carriers[c] \in Seq([rate : Nat \ {0}, ratio : Nat \ {0}]) /\ Carriers[c] # << >>
  BY BandAssumption DEF BandAssumption
<1>2. PICK s : s = Carriers[c]
  OBVIOUS
<1>3. /\ Len(s) \in Nat \ {0} /\ DOMAIN s = 1 .. Len(s)
      /\ \A i \in DOMAIN s : s[i].ratio \in Nat \ {0} /\ s[i].rate \in Nat \ {0}
  <2>1. Len(s) \in Nat /\ DOMAIN s = 1 .. Len(s)
        /\ \A i \in 1 .. Len(s) : s[i] \in [rate : Nat \ {0}, ratio : Nat \ {0}]
    <3>1. PICK X : X = [rate : Nat \ {0}, ratio : Nat \ {0}]
      OBVIOUS
    <3>2. s \in Seq(X)
      BY <1>1, <1>2, <3>1
    <3> QED BY <3>1, <3>2, Items
  <2>2. Len(s) # 0
    BY <1>1, <1>2
  <2> QED BY <2>1, <2>2
<1>4. \A i \in DOMAIN s : s[i].rate \in Rates
  BY <1>2 DEF Rates
<1> DEFINE f == [i \in DOMAIN s |-> s[i].ratio]
           g == [i \in DOMAIN s |-> s[i].ratio * s[i].rate]
<1>5. IsFiniteSet(DOMAIN s) /\ 1 \in DOMAIN s
  <2>1. IsFiniteSet(1 .. Len(s))
    BY <1>3, FS_Interval
  <2> QED BY <1>3, <2>1
<1>6. TotalRatio(c) = SumFunctionOnSet(f, DOMAIN s) /\ WeightedRatio(c) = SumFunctionOnSet(g, DOMAIN s)
  BY <1>2 DEF TotalRatio, WeightedRatio, SumFunction
<1>7. \A i \in DOMAIN s : f[i] \in Nat \ {0} /\ g[i] \in Nat \ {0}
  <2>1. \A x, y \in Nat \ {0} : x * y \in Nat \ {0}
    OBVIOUS
  <2> QED BY <1>3, <2>1
<1> HIDE DEF f, g
<1>8. /\ SumFunctionOnSet(f, DOMAIN s) \in Nat /\ f[1] <= SumFunctionOnSet(f, DOMAIN s)
      /\ SumFunctionOnSet(g, DOMAIN s) \in Nat /\ g[1] <= SumFunctionOnSet(g, DOMAIN s)
  <2>1. PICK T : T = DOMAIN s
    OBVIOUS
  <2>2. \A i \in T : f[i] \in Nat /\ g[i] \in Nat
    BY <1>7, <2>1
  <2>3. SumFunctionOnSet(f, T) \in Nat /\ \A x \in T : f[x] <= SumFunctionOnSet(f, T)
    BY <1>5, <2>1, <2>2, SumNat
  <2>4. SumFunctionOnSet(g, T) \in Nat /\ \A x \in T : g[x] <= SumFunctionOnSet(g, T)
    BY <1>5, <2>1, <2>2, SumNat
  <2> QED BY <1>5, <2>1, <2>3, <2>4
<1>9. \A x \in Nat \ {0}, y \in Nat : x <= y => y \in Nat \ {0}
  OBVIOUS
<1>10. f[1] \in Nat \ {0} /\ g[1] \in Nat \ {0}
  BY <1>5, <1>7
<1>11. TotalRatio(c) \in Nat \ {0} /\ WeightedRatio(c) \in Nat \ {0}
  BY <1>6, <1>8, <1>9, <1>10
<1> QED BY <1>2, <1>3, <1>4, <1>11

LEMMA Divided ==
  ASSUME NEW x \in Nat, NEW y \in Nat \ {0}, NEW z \in Nat
  PROVE  Most(x \div y, z) \in Nat
BY DEF Most

LEMMA BandAtFirst == InitBand \in [Categories -> Category]
<1> SUFFICES ASSUME NEW c \in Categories PROVE InitBand[c] \in Category
  BY DEF InitBand
<1>1. WeightedSum \in Nat \ {0}
  <2> DEFINE w == [d \in Categories |-> WeightedRatio(d)]
  <2>1. \A d \in Categories : w[d] \in Nat \ {0}
    BY RatiosAre
  <2>2. WeightedSum = SumFunctionOnSet(w, Categories)
    BY DEF WeightedSum, SumFunction
  <2>3. IsFiniteSet(Categories)
    BY BandAssumption DEF BandAssumption
  <2> HIDE DEF w
  <2>4. \A d \in Categories : w[d] \in Nat
    BY <2>1
  <2>5. SumFunctionOnSet(w, Categories) \in Nat /\ w[c] <= SumFunctionOnSet(w, Categories)
    BY <2>3, <2>4, SumNat
  <2>6. \A x \in Nat \ {0}, y \in Nat : x <= y => y \in Nat \ {0}
    OBVIOUS
  <2> QED BY <2>1, <2>2, <2>5, <2>6
<1>2. PICK s : s = Carriers[c]
  OBVIOUS
<1> DEFINE n == Len(s)
<1>3. PICK t \in Nat \ {0}, w \in Nat \ {0}, B \in Nat \ {0} :
             t = TotalRatio(c) /\ w = WeightedSum /\ B = Bandwidth
  BY <1>1, RatiosAre, BandAssumption DEF BandAssumption
<1>4. n \in Nat \ {0} /\ n = Len(Carriers[c]) /\ DOMAIN s = 1 .. n
  BY <1>2, RatiosAre
<1> HIDE DEF n
<1>5. CarriersNumber(c) \in Nat
  <2>1. 2 * t * B + w \in Nat /\ 2 * w \in Nat \ {0}
    <3>1. t * B \in Nat
      OBVIOUS
    <3>2. 2 * t * B \in Nat
      BY <3>1
    <3> QED BY <3>2
  <2>2. CarriersNumber(c) = Most((2 * t * B + w) \div (2 * w), n)
    BY <1>3, <1>4 DEF CarriersNumber
  <2>3. PICK x \in Nat, y \in Nat \ {0} : x = 2 * t * B + w /\ y = 2 * w
    BY <2>1
  <2>4. Most(x \div y, n) \in Nat
    BY <1>4, Divided
  <2> QED BY <2>2, <2>3, <2>4
<1>6. PICK k \in Nat : k = CarriersNumber(c)
  BY <1>5
<1>7. DOMAIN Groups(c) = 1 .. n /\ Groups(c) = [i \in 1 .. n |-> Groups(c)[i]]
  BY <1>2, <1>4 DEF Groups
<1>8. \A i \in 1 .. n : /\ Groups(c)[i] = [rate |-> s[i].rate,
                                            number |-> Most((k * s[i].ratio) \div t, 1)]
                        /\ s[i].rate \in Rates /\ s[i].ratio \in Nat
  BY <1>2, <1>3, <1>6, <1>4, RatiosAre DEF Groups
<1>9. \A i \in 1 .. n : Most((k * s[i].ratio) \div t, 1) \in Nat
  <2> SUFFICES ASSUME NEW i \in 1 .. n PROVE Most((k * s[i].ratio) \div t, 1) \in Nat
    OBVIOUS
  <2>1. s[i].ratio \in Nat
    BY <1>8
  <2>2. PICK r \in Nat : r = s[i].ratio
    BY <2>1
  <2>3. PICK x \in Nat : x = k * r
    OBVIOUS
  <2>4. Most(x \div t, 1) \in Nat
    BY Divided
  <2> QED BY <2>2, <2>3, <2>4
<1>10. PICK g : g = Groups(c)
  OBVIOUS
<1>11. g \in GroupSeqs
  <2> DEFINE X == [rate : Rates, number : Nat]
  <2>1. ASSUME NEW i \in 1 .. n PROVE g[i] \in X
    <3>1. PICK m \in Nat : m = Most((k * s[i].ratio) \div t, 1)
      BY <1>9
    <3>2. g[i] = [rate |-> s[i].rate, number |-> m] /\ s[i].rate \in Rates
      BY <1>8, <1>10, <3>1
    <3> QED BY <3>2
  <2>2. g = [i \in 1 .. n |-> g[i]]
    BY <1>7, <1>10
  <2> HIDE DEF X
  <2>3. PICK m \in Nat : m = n
    BY <1>4
  <2>4. g \in [1 .. m -> X]
    BY <2>1, <2>2, <2>3
  <2>5. g \in Seq(X)
    BY ONLY <2>4, m \in Nat
  <2> QED BY <2>5 DEF GroupSeqs, X
<1>12. PICK x : x = InitBand[c]
  OBVIOUS
<1>13. x = [groups |-> g, list |-> [r \in {e.rate : e \in Range(g)} |-> NumberOf(g, r)]]
  BY <1>10, <1>12 DEF InitBand
<1>14. PICK D, l : D = {e.rate : e \in Range(g)} /\ l = [r \in D |-> NumberOf(g, r)]
  OBVIOUS
<1>15. x = [groups |-> g, list |-> l] /\ x.groups = g /\ x.list = l
  BY <1>13, <1>14
<1>16. D = SizesOf(g)
  BY <1>14 DEF Range, SizesOf
<1>17. D \in SUBSET Rates /\ \A i \in DOMAIN g : g[i].rate \in D
  BY <1>11, <1>16, GroupsAre DEF SizesOf
<1>18. DOMAIN l = D /\ l = [r \in DOMAIN l |-> l[r]] /\ \A r \in DOMAIN l : l[r] \in Nat
  BY <1>11, <1>14, CarriedIs
<1>19. x \in Category
  BY <1>11, <1>15, <1>17, <1>18, CategoryIs
<1> QED BY <1>12, <1>19

-----------------------------------------------------------------------------
(* The inductive invariant                                                 *)

Sockets ==
  /\ conn \in [Clients -> {"away", "waiting", "open", "closed"}]
  /\ \A c \in Clients : fd[c] \in (IF conn[c] = "open" THEN Fds ELSE {None})
  /\ removed_events \subseteq events

\* What is still to process: a read is that of a socket of the list.
Batch ==
  /\ batch \in Seq(Range(batch))
  /\ \A e \in Range(batch) : e.type = "read" => e.fd \in events

IInv == Sockets /\ Batch /\ EventsAreOpen /\ PendingIsTimed

\* The rest has its types: what is applied is a command of an SVNO, there is one
\* while commands are applied, and the band has carriers of the configuration.
AllLines == UNION {Lines[c] : c \in Clients}
Commands == {x \in AllLines : x.from = "svno"}

IsEvent(e) == /\ e.type = "read" => e.lines \in Seq(AllLines)
              /\ e.type = "listen" => e.kind \in Kinds
Known == \A e \in Range(batch) : IsEvent(e)

Typed ==
  /\ sent \in [Clients -> Nat] /\ \A c \in Clients : sent[c] <= MaxLines[c]
  /\ unread \in [Clients -> Seq(AllLines)]
  /\ timer \in {"off", "delay", "due"}
  /\ socket \in [Kinds -> Fds \cup {None}]
  /\ is_connected \in [Kinds -> BOOLEAN]
  /\ Known
  /\ svno_requests \in Seq(Commands)
  /\ applying => svno_requests # << >>
  /\ band \in [Categories -> Category]

(* A function on 1 .. n is a sequence of its values. *)
LEMMA SeqOfValues ==
  ASSUME NEW n \in Nat, NEW f, f = [i \in 1 .. n |-> f[i]]
  PROVE  f \in Seq(Range(f)) /\ Len(f) = n
<1>1. f \in [1 .. n -> Range(f)]
  BY DEF Range
<1> QED BY <1>1

(* The values of a function on a finite set are finitely many. *)
LEMMA ValuesAreFinite ==
  ASSUME NEW S, IsFiniteSet(S), NEW f, f = [x \in S |-> f[x]]
  PROVE  IsFiniteSet({f[x] : x \in S})
<1>1. PICK T : T = {f[x] : x \in S}
  OBVIOUS
<1>2. f \in Surjection(S, T)
  BY <1>1 DEF Surjection
<1> QED BY <1>1, <1>2, FS_Surjection

(* The first event goes, the others stay. *)
LEMMA AfterHead ==
  ASSUME Batch, batch # << >>, Done, events' = events
  PROVE  Batch' /\ Range(batch) = Range(batch)' \cup {Head(batch)}
<1> DEFINE S == Range(batch)
<1>1. batch \in Seq(S) /\ batch' = Tail(batch)
  BY DEF Batch, Done
<1>2. /\ Len(batch) \in Nat \ {0} /\ DOMAIN batch = 1 .. Len(batch)
      /\ Len(batch') = Len(batch) - 1 /\ Head(batch) = batch[1]
      /\ batch' \in Seq(S) /\ DOMAIN batch' = 1 .. Len(batch) - 1
      /\ \A i \in 1 .. Len(batch) - 1 : batch'[i] = batch[i + 1]
  <2> HIDE DEF S
  <2>1. Len(batch) \in Nat \ {0} /\ DOMAIN batch = 1 .. Len(batch)
    BY <1>1
  <2>2. /\ Tail(batch) \in Seq(S) /\ Len(Tail(batch)) = Len(batch) - 1
        /\ DOMAIN Tail(batch) = 1 .. Len(batch) - 1
        /\ \A i \in 1 .. Len(batch) - 1 : Tail(batch)[i] = batch[i + 1]
    BY <2>1, <1>1
  <2>3. Head(batch) = batch[1]
    BY <2>1, <1>1
  <2> QED BY <1>1, <2>1, <2>2, <2>3
<1>3. batch' \in Seq(Range(batch'))
  <2>1. batch' = [i \in 1 .. Len(batch) - 1 |-> batch'[i]]
    <3> HIDE DEF S
    <3> QED BY <1>2
  <2> QED BY <1>2, <2>1, SeqOfValues
<1>4. ASSUME NEW i \in DOMAIN batch, i # 1 PROVE batch[i] \in Range(batch')
  <2>1. i - 1 \in DOMAIN batch' /\ batch'[i - 1] = batch[i]
    BY <1>2, <1>4
  <2> QED BY <2>1 DEF Range
<1>5. Range(batch') \subseteq Range(batch) /\ Head(batch) \in Range(batch)
  BY <1>2 DEF Range
<1>6. Range(batch) = Range(batch') \cup {Head(batch)}
  BY <1>2, <1>4, <1>5 DEF Range
<1> QED BY <1>3, <1>6 DEF Batch

-----------------------------------------------------------------------------
(* What select accepts and reads                                           *)

(* At most one client of each listen socket. *)
LEMMA OneOfEach ==
  ASSUME NEW w \in Accepted
  PROVE  /\ w \subseteq Clients /\ IsFiniteSet(w)
         /\ \A c \in w : conn[c] = "waiting" /\ Kind[c] \in Kinds
         /\ \A c, d \in w : Kind[c] = Kind[d] => c = d
         /\ Cardinality(w) \in {0, 1, 2}
         /\ Cardinality(w) = 2 => \E p, q \in w : Kind[p] = "pep" /\ Kind[q] # "pep"
<1>1. w \subseteq Clients /\ \A c \in w : conn[c] = "waiting" /\ Kind[c] \in Kinds
  BY NccAssumption DEF Accepted, NccAssumption
<1>2. ASSUME NEW c \in w, NEW d \in w, Kind[c] = Kind[d] PROVE c = d
  <2>1. PICK x \in w : \A y \in w \ {x} : Kind[y] # Kind[c]
    BY <1>1 DEF Accepted
  <2> QED BY <1>2, <2>1
<1>3. IsFiniteSet(w)
  BY <1>1, NccAssumption, FS_Subset DEF NccAssumption
<1>4. CASE \E p, q \in w : Kind[p] = "pep" /\ Kind[q] = "svno"
  <2>1. PICK p \in w, q \in w : Kind[p] = "pep" /\ Kind[q] = "svno"
    BY <1>4
  <2>2. w = {p} \cup {q} /\ p # q
    BY <1>1, <1>2, <2>1 DEF Kinds
  <2>3. IsFiniteSet({p}) /\ Cardinality({p}) = 1
    BY FS_Singleton
  <2>4. Cardinality(w) = 2
    BY <2>2, <2>3, FS_AddElement
  <2> QED BY <1>1, <1>2, <1>3, <2>1, <2>4
<1>5. CASE ~(\E p, q \in w : Kind[p] = "pep" /\ Kind[q] = "svno")
  <2>1. w = {} \/ \E c \in w : w = {c}
    BY <1>1, <1>2, <1>5 DEF Kinds
  <2>2. Cardinality(w) \in {0, 1}
    BY <2>1, FS_EmptySet, FS_Singleton
  <2> QED BY <1>1, <1>2, <1>3, <2>2
<1> QED BY <1>4, <1>5

(* There are enough descriptors, and those given are not in use. *)
LEMMA NewDescriptors ==
  ASSUME Sockets, NEW w \in Accepted
  PROVE  /\ \A c \in w : FdFor(c, w) \in FreeFds
         /\ \A c, d \in w : FdFor(c, w) = FdFor(d, w) => c = d
<1> DEFINE used == {fd[c] : c \in Open}
<1>1. FreeFds = Fds \ used /\ used \subseteq Fds
  BY NccAssumption DEF NccAssumption, FreeFds, Open, Sockets
<1>2. FreeFds \in SUBSET Nat /\ IsFiniteSet(FreeFds) /\ IsFiniteSet(Fds)
  BY <1>1, NccAssumption, FS_Subset DEF NccAssumption
<1>3. IsFiniteSet(Open) /\ Cardinality(Open) <= Cardinality(Clients \ w)
  <2>1. Open \in SUBSET (Clients \ w)
    BY OneOfEach DEF Open
  <2>2. IsFiniteSet(Clients \ w)
    BY NccAssumption, FS_Difference DEF NccAssumption
  <2> QED BY <2>1, <2>2, FS_Subset
<1>4. Cardinality(Clients \ w) = Cardinality(Clients) - Cardinality(w)
  <2>1. Clients \cap w = w
    BY OneOfEach
  <2>2. Cardinality(Clients \ w) = Cardinality(Clients) - Cardinality(Clients \cap w)
    BY NccAssumption, FS_Difference DEF NccAssumption
  <2> QED BY <2>1, <2>2
<1>5. Cardinality(used) <= Cardinality(Open)
  <2> DEFINE f == [c \in Open |-> fd[c]]
  <2>1. f \in Surjection(Open, used)
    BY DEF Surjection
  <2> QED BY <1>3, <2>1, FS_Surjection
<1>6. Cardinality(FreeFds) = Cardinality(Fds) - Cardinality(used)
  <2>1. Fds \cap used = used
    BY <1>1
  <2>2. Cardinality(Fds \ used) = Cardinality(Fds) - Cardinality(Fds \cap used)
    BY <1>2, FS_Difference
  <2> HIDE DEF used
  <2> QED BY <1>1, <2>1, <2>2
<1>7. /\ Cardinality(Fds) \in Nat /\ Cardinality(Clients) \in Nat /\ Cardinality(used) \in Nat
      /\ Cardinality(Open) \in Nat /\ Cardinality(w) \in {0, 1, 2}
      /\ Cardinality(Fds) >= Cardinality(Clients)
  BY <1>1, <1>2, <1>3, NccAssumption, OneOfEach, FS_Subset, FS_CardinalityType DEF NccAssumption
<1>8. Cardinality(w) <= Cardinality(FreeFds)
  BY <1>3, <1>4, <1>5, <1>6, <1>7
<1> DEFINE Rank(c) == IF First(c, w) THEN 1 ELSE 2
<1>9. ASSUME NEW c \in w PROVE Rank(c) \in 1 .. Cardinality(FreeFds)
  <2>1. Cardinality(w) # 0
    BY OneOfEach, FS_EmptySet
  <2>2. ~First(c, w) => Cardinality(w) = 2
    BY <1>7, <2>1 DEF First
  <2>3. Cardinality(FreeFds) \in Nat
    BY <1>2, FS_CardinalityType
  <2> QED BY <1>7, <1>8, <2>1, <2>2, <2>3
<1>10. ASSUME NEW c \in w
       PROVE  FdFor(c, w) \in FreeFds /\ Cardinality(Below(FreeFds, FdFor(c, w))) = Rank(c) - 1
  BY <1>2, <1>9, NthIs DEF FdFor
<1>11. ASSUME NEW c \in w, NEW d \in w, FdFor(c, w) = FdFor(d, w) PROVE c = d
  <2>1. Rank(c) = Rank(d)
    BY <1>10, <1>11
  <2>2. First(c, w) <=> First(d, w)
    BY <2>1
  <2>3. CASE Cardinality(w) = 1
    BY <2>3, OneOfEach, FS_Singleton
  <2>4. CASE Cardinality(w) # 1
    BY <2>2, <2>4, OneOfEach DEF First, Kinds
  <2> QED BY <2>3, <2>4
<1> QED BY <1>10, <1>11

(* One event for each client accepted. *)
LEMMA NewListens ==
  ASSUME NEW w \in Accepted
  PROVE  /\ IsFiniteSet(ListenEvents(w))
         /\ \A e \in ListenEvents(w) : e.type = "listen" /\ e.kind \in Kinds
         /\ {e.fd : e \in ListenEvents(w)} = {FdFor(c, w) : c \in w}
<1> DEFINE f == [c \in w |-> [type |-> "listen", kind |-> Kind[c], fd |-> FdFor(c, w)]]
<1>1. ListenEvents(w) = {f[c] : c \in w}
  BY DEF ListenEvents
<1>2. /\ f = [c \in w |-> f[c]]
      /\ \A c \in w : /\ f[c].type = "listen" /\ f[c].kind \in Kinds
                      /\ f[c].fd = FdFor(c, w)
  BY OneOfEach
<1> HIDE DEF f
<1>3. IsFiniteSet(ListenEvents(w))
  BY <1>1, <1>2, OneOfEach, ValuesAreFinite
<1> QED BY <1>1, <1>2, <1>3

(* An event for the timer that ended. *)
LEMMA TimerEventsAre ==
  /\ IsFiniteSet(TimerEvents)
  /\ \A e \in TimerEvents : e.type = "timer"
  /\ timer = "due" => TimerEvents # {}
<1> DEFINE e == [type |-> "timer"]
<1>1. e.type = "timer" /\ TimerEvents = IF timer = "due" THEN {e} ELSE {}
  BY DEF TimerEvents
<1> HIDE DEF e
<1> QED BY <1>1, FS_EmptySet, FS_Singleton

(* A read is that of a socket of the list. *)
LEMMA NewReads ==
  /\ IsFiniteSet(ReadEvents)
  /\ \A e \in ReadEvents : /\ e.type = "read" /\ e.fd \in events
                           /\ \E c \in Clients : e.lines = unread[c]
<1> DEFINE f == [c \in Readable |-> [type |-> "read", fd |-> fd[c], lines |-> unread[c]]]
<1>1. ReadEvents = {f[c] : c \in Readable}
  BY DEF ReadEvents
<1>2. /\ f = [c \in Readable |-> f[c]]
      /\ \A c \in Readable : /\ f[c].type = "read" /\ f[c].fd \in events
                             /\ f[c].lines = unread[c] /\ c \in Clients
  BY DEF Readable
<1> HIDE DEF f
<1>3. IsFiniteSet(Readable)
  <2>1. Readable \in SUBSET Clients
    BY DEF Readable
  <2> QED BY <2>1, NccAssumption, FS_Subset DEF NccAssumption
<1>4. IsFiniteSet(ReadEvents)
  BY <1>1, <1>2, <1>3, ValuesAreFinite
<1> QED BY <1>1, <1>2, <1>4

(* An order of a finite set is a sequence of its elements, of all of them. *)
LEMMA OrdersAre ==
  ASSUME NEW S, IsFiniteSet(S), NEW s \in Orders(S)
  PROVE  s \in Seq(Range(s)) /\ Range(s) = S
<1>1. PICK n \in Nat : n = Cardinality(S)
  BY FS_CardinalityType
<1>2. s \in [1 .. n -> S] /\ Range(s) = S
  BY <1>1 DEF Orders
<1>3. s = [i \in 1 .. n |-> s[i]]
  BY <1>2
<1> QED BY <1>2, <1>3, SeqOfValues

(* What select returns: all that is ready, in an order or another. *)
LEMMA BatchIs ==
  ASSUME NEW w \in Accepted, NEW s \in Orders(TimerEvents \cup ReadEvents \cup ListenEvents(w))
  PROVE  s \in Seq(Range(s)) /\ Range(s) = TimerEvents \cup ReadEvents \cup ListenEvents(w)
<1>1. PICK S : S = TimerEvents \cup ReadEvents \cup ListenEvents(w)
  OBVIOUS
<1>2. IsFiniteSet(TimerEvents) /\ IsFiniteSet(ReadEvents) /\ IsFiniteSet(ListenEvents(w))
  BY TimerEventsAre, NewReads, NewListens
<1>3. IsFiniteSet(S)
  <2>1. PICK T : T = TimerEvents \cup ReadEvents
    OBVIOUS
  <2>2. IsFiniteSet(T)
    BY <1>2, <2>1, FS_Union
  <2>3. S = T \cup ListenEvents(w)
    BY <1>1, <2>1
  <2> QED BY <1>2, <2>2, <2>3, FS_Union
<1>4. s \in Orders(S)
  BY <1>1
<1> QED BY <1>1, <1>3, <1>4, OrdersAre

-----------------------------------------------------------------------------
(* What is parsed                                                          *)

LEMMA ThoseKeep ==
  ASSUME NEW X, NEW s \in Seq(X), NEW S
  PROVE  Those(s, S) \in Seq(X \cap S)
<1> DEFINE n == Len(s)
           Y == X \cap S
           Add(i, x) == IF s[i] \in S THEN Append(x, s[i]) ELSE x
           step == [i \in 1 .. n |-> [x \in Seq(Y) |-> Add(i, x)]]
           those[i \in 0 .. n] ==
             IF i = 0 THEN << >>
             ELSE IF s[i] \in S THEN Append(those[i - 1], s[i]) ELSE those[i - 1]
<1>1. n \in Nat /\ << >> \in Seq(Y) /\ \A i \in 1 .. n : s[i] \in X
  BY EmptySeq
<1>2. ASSUME NEW i \in 1 .. n, NEW x \in Seq(Y) PROVE Add(i, x) \in Seq(Y)
  <2>1. CASE s[i] \in S
    <3>1. s[i] \in Y
      BY <1>1, <2>1
    <3> HIDE DEF Y
    <3>2. Append(x, s[i]) \in Seq(Y)
      BY <3>1, AppendProperties
    <3> QED BY <2>1, <3>2
  <2>2. CASE s[i] \notin S
    BY <2>2
  <2> QED BY <2>1, <2>2
<1> HIDE DEF Y
<1>3. /\ step \in [1 .. n -> [Seq(Y) -> Seq(Y)]]
      /\ \A i \in 1 .. n : \A x \in Seq(Y) : step[i][x] = Add(i, x)
  <2> HIDE DEF Add
  <2> QED BY <1>2
<1>4. PICK f \in [0 .. n -> Seq(Y)] : Loop(f, n, << >>, step)
  <2> HIDE DEF step, n
  <2> QED BY <1>1, <1>3, Iterates
<1> HIDE DEF step
<1>5. f = [i \in 0 .. n |-> IF i = 0 THEN << >> ELSE Add(i, f[i - 1])]
  <2> HIDE DEF n, Add
  <2>1. ASSUME NEW i \in 0 .. n PROVE f[i] = IF i = 0 THEN << >> ELSE Add(i, f[i - 1])
    <3>1. CASE i = 0
      BY <1>4, <3>1 DEF Loop
    <3>2. CASE i # 0
      <4>1. i \in 1 .. n /\ i - 1 \in 0 .. n
        BY <1>1, <3>2
      <4>2. f[i] = step[i][f[i - 1]] /\ f[i - 1] \in Seq(Y)
        BY <1>4, <4>1 DEF Loop
      <4> QED BY <1>3, <3>2, <4>1, <4>2
    <3> QED BY <3>1, <3>2
  <2> QED BY <2>1
<1>6. those = [i \in 0 .. n |-> IF i = 0 THEN << >> ELSE Add(i, those[i - 1])]
  BY <1>5
<1>7. Those(s, S) = those[n]
  BY DEF Those, those
<1> HIDE DEF those, Add
<1>8. those[0] = << >> /\ \A i \in 1 .. n : those[i] = Add(i, those[i - 1])
  <2> HIDE DEF n
  <2>1. 0 \in 0 .. n /\ \A i \in 1 .. n : i \in 0 .. n /\ i # 0
    BY <1>1
  <2> QED BY <1>6, <2>1
<1>9. \A i \in 0 .. n : those[i] \in Seq(Y)
  <2> HIDE DEF n
  <2>1. those[0] \in Seq(Y) /\ \A i \in 1 .. n : those[i - 1] \in Seq(Y) => those[i] \in Seq(Y)
    BY <1>1, <1>2, <1>8
  <2> QED BY <1>1, <2>1, StepsKeep
<1>10. n \in 0 .. n
  BY <1>1
<1> QED BY <1>7, <1>9, <1>10 DEF Y

LEMMA ParsedIs ==
  ASSUME NEW lines \in Seq(AllLines)
  PROVE  Parsed("svno", lines) \in Seq(Commands)
<1> DEFINE C == {x \in Range(lines) : x.from = "svno"}
<1>1. PICK commands : commands = Those(lines, C)
  OBVIOUS
<1>2. commands \in Seq(Commands)
  <2>1. commands \in Seq(AllLines \cap C)
    BY <1>1, ThoseKeep
  <2>2. AllLines \cap C \subseteq Commands
    BY DEF Commands
  <2> HIDE DEF C
  <2>3. PICK T : T = AllLines \cap C
    OBVIOUS
  <2> QED BY <2>1, <2>2, <2>3, SeqMonotonic
<1>3. PICK D : Parsed("svno", lines) = Those(commands, D)
  BY <1>1 DEF Parsed
<1>4. Those(commands, D) \in Seq(Commands \cap D)
  BY <1>2, ThoseKeep
<1>5. PICK T : T = Commands \cap D
  OBVIOUS
<1> QED BY <1>3, <1>4, <1>5, SeqMonotonic

LEMMA CommandIsApplied ==
  ASSUME NEW b \in [Categories -> Category], NEW cmd \in Commands, NEW o \in ApplySvnoCommand(b, cmd)
  PROVE  IsApplied(b, cmd.cat, cmd.kbps, o)
<1>1. cmd.kbps \in Nat
  BY NccAssumption DEF NccAssumption, Commands, AllLines
<1> QED BY <1>1, CommandApplied

-----------------------------------------------------------------------------
(* The steps                                                               *)

LEMMA InitInv == Init => IInv
<1> SUFFICES ASSUME Init PROVE IInv
  OBVIOUS
<1>1. Sockets /\ PendingIsTimed
  BY DEF Init, Sockets, PendingIsTimed
<1>2. batch = << >> /\ Range(batch) = {} /\ batch \in Seq(Range(batch))
  BY DEF Init, Range
<1>3. Open = {} /\ ToListen = {}
  BY <1>2 DEF Init, Open, ToListen
<1>4. EventsAreOpen
  BY <1>3 DEF Init, EventsAreOpen
<1> QED BY <1>1, <1>2, <1>4 DEF IInv, Batch

LEMMA UpdateInv == IInv /\ UpdateEvents => IInv'
<1> SUFFICES ASSUME IInv, UpdateEvents PROVE IInv'
  OBVIOUS
<1>1. /\ batch = << >> /\ batch' = batch /\ Range(batch) = {}
      /\ events' = (events \cup new_events) \ removed_events
      /\ new_events' = {} /\ removed_events' = {}
      /\ \A c \in Clients : /\ conn'[c] = IF conn[c] = "open" /\ fd[c] \in removed_events
                                            THEN "closed" ELSE conn[c]
                            /\ fd'[c] = IF fd[c] \in removed_events THEN None ELSE fd[c]
      /\ conn' \in [Clients -> {"away", "waiting", "open", "closed"}]
      /\ UNCHANGED pepVars
  BY DEF UpdateEvents, ClosedWith, IInv, Sockets, Range
<1>2. ToListen = {} /\ ToListen' = {}
  BY <1>1 DEF ToListen
<1>3. events \cup new_events = {fd[c] : c \in Open}
  BY <1>2 DEF IInv, EventsAreOpen
<1>4. \A c \in Clients : fd[c] \in removed_events => conn[c] = "open"
  <2>1. removed_events \subseteq Fds
    BY <1>3 DEF IInv, Sockets, Open
  <2> QED BY <2>1, NccAssumption DEF IInv, Sockets, NccAssumption
<1>5. Open' = {c \in Open : fd[c] \notin removed_events}
  BY <1>1 DEF Open
<1>6. Sockets'
  BY <1>1, <1>4 DEF IInv, Sockets
<1>7. Batch'
  BY <1>1 DEF IInv, Batch
<1>8. EventsAreOpen'
  BY <1>1, <1>2, <1>3, <1>5 DEF IInv, EventsAreOpen, Open
<1>9. PendingIsTimed'
  BY <1>1 DEF IInv, PendingIsTimed, pepVars
<1> QED BY <1>6, <1>7, <1>8, <1>9 DEF IInv

LEMMA SelectInv == IInv /\ Select => IInv'
<1> SUFFICES ASSUME IInv, Select PROVE IInv'
  OBVIOUS
<1>1. PICK w \in Accepted :
        /\ batch' \in Orders(TimerEvents \cup ReadEvents \cup ListenEvents(w))
        /\ conn' = [c \in Clients |-> IF c \in w THEN "open" ELSE conn[c]]
        /\ fd' = [c \in Clients |-> IF c \in w THEN FdFor(c, w) ELSE fd[c]]
  BY DEF Select
<1>2. /\ batch = << >> /\ new_events = {} /\ removed_events = {}
      /\ UNCHANGED <<events, new_events, removed_events, pep_requests>>
      /\ timer' = IF timer = "due" THEN "off" ELSE timer
  BY DEF Select
<1>3. /\ \A e \in TimerEvents : e.type = "timer"
      /\ timer = "due" => TimerEvents # {}
  BY TimerEventsAre
<1>4. Sockets
  BY DEF IInv
<1>5. \A e \in ReadEvents : e.type = "read" /\ e.fd \in events
  BY NewReads
<1>6. /\ batch' \in Seq(Range(batch'))
      /\ Range(batch') = TimerEvents \cup ReadEvents \cup ListenEvents(w)
  BY <1>1, BatchIs
<1>7. Batch'
  BY <1>2, <1>3, <1>5, <1>6, NewListens DEF Batch
<1>8. ToListen' = {FdFor(c, w) : c \in w}
  <2>1. ToListen' = {e.fd : e \in ListenEvents(w)}
    BY <1>3, <1>5, <1>6, NewListens DEF ToListen
  <2> QED BY <2>1, NewListens
<1>9. /\ w \subseteq Clients /\ \A c \in w : conn[c] = "waiting"
      /\ \A c \in w : FdFor(c, w) \in FreeFds
      /\ \A c, d \in w : FdFor(c, w) = FdFor(d, w) => c = d
  BY <1>4, OneOfEach, NewDescriptors
<1>10. Open' = Open \cup w /\ Open \cap w = {}
  BY <1>1, <1>9 DEF Open
<1>11. /\ \A c \in w : fd'[c] = FdFor(c, w) /\ fd'[c] \in Fds \ {fd[d] : d \in Clients}
       /\ \A c \in Clients \ w : fd'[c] = fd[c]
  BY <1>1, <1>9 DEF FreeFds
<1>12. Sockets'
  BY <1>1, <1>2, <1>4, <1>11 DEF Sockets
<1>13. events = {fd[c] : c \in Open}
  <2>1. ToListen = {}
    BY <1>2 DEF ToListen, Range
  <2> QED BY <1>2, <2>1 DEF IInv, EventsAreOpen
<1>14. EventsAreOpen'
  <2>1. {fd'[c] : c \in Open \cup w} = {fd[c] : c \in Open} \cup {FdFor(c, w) : c \in w}
    BY <1>9, <1>10, <1>11 DEF Open
  <2>2. \A c, d \in Open \cup w : fd'[c] = fd'[d] => c = d
    BY <1>9, <1>10, <1>11 DEF IInv, EventsAreOpen, Open
  <2> QED BY <1>2, <1>8, <1>10, <1>13, <2>1, <2>2 DEF EventsAreOpen
<1>15. PendingIsTimed'
  <2>1. CASE timer = "due"
    BY <1>3, <1>6, <2>1 DEF PendingIsTimed
  <2>2. CASE timer # "due"
    BY <1>2, <2>2 DEF IInv, PendingIsTimed, Range
  <2> QED BY <2>1, <2>2
<1> QED BY <1>7, <1>12, <1>14, <1>15 DEF IInv

(* An event that is not an accept leaves the sockets alone, or removes its own. *)
LEMMA EventInv ==
  ASSUME IInv, batch # << >>, Head(batch).type # "listen", Done,
         UNCHANGED <<clientVars, events, new_events>>,
         removed_events' \subseteq events
  PROVE  Sockets' /\ Batch' /\ EventsAreOpen'
         /\ Range(batch) = Range(batch)' \cup {Head(batch)}
<1>1. Batch' /\ Range(batch) = Range(batch)' \cup {Head(batch)}
  BY AfterHead DEF IInv
<1>2. ToListen' = ToListen
  BY <1>1 DEF ToListen
<1>3. UNCHANGED <<conn, fd, events, new_events>> /\ Open' = Open
  BY DEF clientVars, Open
<1>4. Sockets'
  BY <1>3 DEF IInv, Sockets
<1>5. EventsAreOpen'
  BY <1>2, <1>3 DEF IInv, EventsAreOpen
<1> QED BY <1>1, <1>4, <1>5

LEMMA ListenInv == IInv /\ OnListen => IInv'
<1> SUFFICES ASSUME IInv, OnListen PROVE IInv'
  OBVIOUS
<1>1. /\ batch # << >> /\ Head(batch).type = "listen" /\ Done
      /\ new_events' = new_events \cup {Head(batch).fd}
      /\ UNCHANGED <<conn, fd, events, removed_events, timer, pep_requests>>
  BY DEF OnListen, Event, WithEvent, clientVars, pepVars
<1>2. Batch' /\ Range(batch) = Range(batch)' \cup {Head(batch)}
  BY <1>1, AfterHead DEF IInv
<1>3. new_events' \cup ToListen' = new_events \cup ToListen
  BY <1>1, <1>2 DEF ToListen
<1>4. Open' = Open
  BY <1>1 DEF Open
<1>5. Sockets'
  BY <1>1 DEF IInv, Sockets
<1>6. EventsAreOpen'
  <2>1. events' \cup new_events' \cup ToListen' = events \cup new_events \cup ToListen
    BY <1>1, <1>3
  <2> QED BY <1>1, <1>4, <2>1 DEF IInv, EventsAreOpen
<1>7. PendingIsTimed'
  BY <1>1, <1>2 DEF IInv, PendingIsTimed
<1> QED BY <1>2, <1>5, <1>6, <1>7 DEF IInv

LEMMA StepInv == IInv /\ [Next]_vars => IInv'
<1> SUFFICES ASSUME IInv, [Next]_vars PROVE IInv'
  OBVIOUS
<1>1. ASSUME UNCHANGED <<conn, fd, events, new_events, removed_events, batch, pep_requests>>,
             timer' = timer \/ timer' # "off"
      PROVE  IInv'
  <2>1. Open' = Open /\ ToListen' = ToListen
    BY <1>1 DEF Open, ToListen
  <2>2. Sockets' /\ Batch' /\ EventsAreOpen'
    BY <1>1, <2>1 DEF IInv, Sockets, Batch, EventsAreOpen
  <2>3. PendingIsTimed'
    BY <1>1 DEF IInv, PendingIsTimed
  <2> QED BY <2>2, <2>3 DEF IInv
<1>2. ASSUME NEW c \in Clients, Connect(c) PROVE IInv'
  <2>1. /\ UNCHANGED <<fd, events, new_events, removed_events, batch, timer, pep_requests>>
        /\ conn[c] = "away" /\ conn' = [conn EXCEPT ![c] = "waiting"]
    BY <1>2 DEF Connect, eventVars, pepVars
  <2>2. \A d \in Clients : conn'[d] = IF d = c THEN "waiting" ELSE conn[d]
    BY <2>1 DEF IInv, Sockets
  <2>3. Open' = Open /\ ToListen' = ToListen
    BY <2>1, <2>2 DEF Open, ToListen
  <2>4. Sockets' /\ Batch' /\ EventsAreOpen' /\ PendingIsTimed'
    BY <2>1, <2>2, <2>3 DEF IInv, Sockets, Batch, EventsAreOpen, PendingIsTimed
  <2> QED BY <2>4 DEF IInv
<1>3. ASSUME NEW c \in Clients, NEW line \in Lines[c], Send(c, line) PROVE IInv'
  BY <1>3, <1>1 DEF Send, eventVars, pepVars
<1>4. CASE Expire
  BY <1>4, <1>1 DEF Expire, clientVars, eventVars
<1>5. CASE OnTimer
  <2>1. Sockets' /\ Batch' /\ EventsAreOpen'
    BY <1>5, EventInv DEF OnTimer, Event, IInv, Sockets
  <2>2. PendingIsTimed'
    BY <1>5 DEF OnTimer, Left, PendingIsTimed
  <2> QED BY <2>1, <2>2 DEF IInv
<1>6. ASSUME batch # << >>, Head(batch).type = "read", Done,
             UNCHANGED <<clientVars, events, new_events>>,
             removed_events' = removed_events \/ RemoveClient
      PROVE  Sockets' /\ Batch' /\ EventsAreOpen'
             /\ Range(batch) = Range(batch)' \cup {Head(batch)}
  <2>1. Head(batch) \in Range(batch)
    BY <1>6, AfterHead DEF IInv
  <2>2. removed_events' \subseteq events
    BY <1>6, <2>1 DEF IInv, Sockets, Batch, RemoveClient
  <2> QED BY <1>6, <2>2, EventInv
<1>7. CASE OnIgnored \/ OnPepError \/ OnSvnoError \/ OnSvnoMessage
  <2>1. /\ batch # << >> /\ Head(batch).type = "read" /\ Done
        /\ UNCHANGED <<clientVars, events, new_events>>
        /\ removed_events' = removed_events \/ RemoveClient
    BY <1>7 DEF OnIgnored, OnPepError, OnSvnoError, OnSvnoMessage, Reads, Event
  <2>2. UNCHANGED <<timer, pep_requests>>
    BY <1>7 DEF OnIgnored, OnPepError, OnSvnoError, OnSvnoMessage, pepVars
  <2>3. /\ Sockets' /\ Batch' /\ EventsAreOpen'
        /\ Range(batch) = Range(batch)' \cup {Head(batch)}
    BY <1>6, <2>1
  <2>4. PendingIsTimed'
    BY <2>1, <2>2, <2>3 DEF IInv, PendingIsTimed
  <2> QED BY <2>3, <2>4 DEF IInv
<1>8. CASE OnPepMessage
  <2>1. /\ batch # << >> /\ Head(batch).type = "read" /\ Done
        /\ UNCHANGED <<clientVars, events, new_events>> /\ RemoveClient
    BY <1>8 DEF OnPepMessage, Reads, Event
  <2>2. PepDelay > 0 => timer' # "off"
    BY <1>8 DEF OnPepMessage, Started
  <2> QED BY <1>6, <2>1, <2>2 DEF IInv, PendingIsTimed
<1>9. CASE OnSvnoCommand
  BY <1>9, <1>1 DEF OnSvnoCommand, clientVars, eventVars, pepVars
<1>10. CASE UNCHANGED vars
  BY <1>10, <1>1 DEF vars, clientVars, eventVars, pepVars
<1> QED BY <1>2, <1>3, <1>4, <1>5, <1>7, <1>8, <1>9, <1>10,
          UpdateInv, SelectInv, ListenInv DEF Next, Channel, OnEvent

LEMMA InitTyped == Init => Typed
<1> SUFFICES ASSUME Init PROVE Typed
  OBVIOUS
<1>1. /\ sent = [c \in Clients |-> 0] /\ unread = [c \in Clients |-> << >>]
      /\ timer = "off" /\ socket = [k \in Kinds |-> None] /\ is_connected = [k \in Kinds |-> FALSE]
      /\ batch = << >> /\ svno_requests = << >> /\ ~applying /\ band = InitBand
  BY DEF Init
<1>2. sent \in [Clients -> Nat] /\ \A c \in Clients : sent[c] <= MaxLines[c]
  <2>1. \A c \in Clients : MaxLines[c] \in Nat
    BY NccAssumption DEF NccAssumption
  <2> QED BY <1>1, <2>1
<1>3. unread \in [Clients -> Seq(AllLines)] /\ svno_requests \in Seq(Commands)
  BY <1>1, EmptySeq
<1>4. Range(batch) = {}
  BY <1>1 DEF Range
<1>5. is_connected \in [Kinds -> BOOLEAN]
  BY <1>1
<1> QED BY <1>1, <1>2, <1>3, <1>4, <1>5, BandAtFirst DEF Typed, Known

(* An event goes: the others stay as they are. *)
LEMMA EventTyped ==
  ASSUME IInv, Typed, batch # << >>, Done, events' = events
  PROVE  /\ Head(batch).type = "read" => Head(batch).lines \in Seq(AllLines)
         /\ Head(batch).type = "listen" => Head(batch).kind \in Kinds /\ Head(batch).fd \in Fds
         /\ Known'
<1>1. Range(batch) = Range(batch)' \cup {Head(batch)}
  BY AfterHead DEF IInv
<1>2. Head(batch).type = "listen" => Head(batch).fd \in Fds
  <2> SUFFICES ASSUME Head(batch).type = "listen" PROVE Head(batch).fd \in Fds
    OBVIOUS
  <2>1. Head(batch).fd \in ToListen
    BY <1>1 DEF ToListen
  <2>2. Head(batch).fd \in {fd[c] : c \in Open}
    BY <2>1 DEF IInv, EventsAreOpen
  <2> QED BY <2>2 DEF IInv, Sockets, Open
<1>3. \A e \in Range(batch) : IsEvent(e)
  BY DEF Typed, Known
<1>4. IsEvent(Head(batch)) /\ Known'
  BY <1>1, <1>3 DEF Known
<1> QED BY <1>2, <1>4 DEF IsEvent

LEMMA SelectTyped == IInv /\ Typed /\ Select => Typed'
<1> SUFFICES ASSUME IInv, Typed, Select PROVE Typed'
  OBVIOUS
<1>1. PICK w \in Accepted : batch' \in Orders(TimerEvents \cup ReadEvents \cup ListenEvents(w))
  BY DEF Select
<1>2. /\ unread' = [c \in Clients |-> IF c \in Readable THEN << >> ELSE unread[c]]
      /\ timer' = (IF timer = "due" THEN "off" ELSE timer)
      /\ UNCHANGED <<sent, socket, is_connected, svno_requests, applying, band>>
  BY DEF Select, svnoVars, ifVars
<1>3. \A e \in TimerEvents : e.type = "timer"
  BY TimerEventsAre
<1>4. \A e \in ReadEvents : e.type = "read" /\ \E c \in Clients : e.lines = unread[c]
  BY NewReads
<1>5. \A e \in ListenEvents(w) : e.type = "listen" /\ e.kind \in Kinds
  BY NewListens
<1>6. Range(batch') = TimerEvents \cup ReadEvents \cup ListenEvents(w)
  BY <1>1, BatchIs
<1>7. \A c \in Clients : unread[c] \in Seq(AllLines)
  BY DEF Typed
<1>8. Known'
  <2>1. ASSUME NEW e \in Range(batch') PROVE IsEvent(e)
    BY <1>3, <1>4, <1>5, <1>6, <1>7 DEF IsEvent
  <2> QED BY <2>1 DEF Known
<1>9. unread' \in [Clients -> Seq(AllLines)]
  BY <1>2, <1>7, EmptySeq
<1> QED BY <1>2, <1>8, <1>9 DEF Typed

LEMMA StartedIs == \A type : Started(type) \in {"due", "delay", "off"}
<1>1. PepDelay > 0 \/ PepDelay = 0
  BY NccAssumption DEF NccAssumption
<1> QED BY <1>1 DEF Started

LEMMA StepTyped == IInv /\ Typed /\ [Next]_vars => Typed'
<1> SUFFICES ASSUME IInv, Typed, [Next]_vars PROVE Typed'
  OBVIOUS
<1>1. ASSUME UNCHANGED <<sent, unread, timer, socket, is_connected, batch, svno_requests, applying, band>>
      PROVE  Typed'
  BY <1>1 DEF Typed, Known
<1>2. ASSUME NEW c \in Clients, NEW line \in Lines[c], Send(c, line) PROVE Typed'
  <2>1. /\ sent[c] < MaxLines[c] /\ sent' = [sent EXCEPT ![c] = @ + 1]
        /\ unread' = [unread EXCEPT ![c] = Append(@, line)]
        /\ UNCHANGED <<timer, socket, is_connected, batch, svno_requests, applying, band>>
    BY <1>2 DEF Send, eventVars, pepVars, svnoVars, ifVars
  <2>2. sent' \in [Clients -> Nat] /\ \A d \in Clients : sent'[d] <= MaxLines[d]
    <3>1. MaxLines[c] \in Nat /\ sent[c] \in Nat /\ sent \in [Clients -> Nat]
          /\ \A d \in Clients : sent[d] <= MaxLines[d]
      BY NccAssumption DEF NccAssumption, Typed
    <3> QED BY <2>1, <3>1
  <2>3. unread' \in [Clients -> Seq(AllLines)]
    <3>1. line \in AllLines /\ unread \in [Clients -> Seq(AllLines)]
      BY DEF AllLines, Typed
    <3>2. PICK X : X = AllLines
      OBVIOUS
    <3>3. Append(unread[c], line) \in Seq(X)
      BY <3>1, <3>2, AppendProperties
    <3> QED BY <2>1, <3>1, <3>2, <3>3
  <2> QED BY <2>1, <2>2, <2>3 DEF Typed, Known
<1>3. CASE UpdateEvents
  <2>1. /\ unread' = [c \in Clients |-> IF fd[c] \in removed_events THEN << >> ELSE unread[c]]
        /\ UNCHANGED <<sent, timer, socket, is_connected, batch, svno_requests, applying, band>>
    BY <1>3 DEF UpdateEvents, pepVars, svnoVars, ifVars
  <2>2. unread' \in [Clients -> Seq(AllLines)]
    BY <2>1, EmptySeq DEF Typed
  <2> QED BY <2>1, <2>2 DEF Typed, Known
<1>4. CASE OnTimer \/ OnIgnored \/ OnSvnoError
  <2>1. /\ batch # << >> /\ Done /\ events' = events
        /\ UNCHANGED <<sent, unread, timer, socket, is_connected, svno_requests, applying, band>>
    BY <1>4 DEF OnTimer, OnIgnored, OnSvnoError, Reads, Event, clientVars, pepVars, svnoVars, ifVars
  <2>2. Known'
    BY <2>1, EventTyped
  <2> QED BY <2>1, <2>2 DEF Typed
<1>5. CASE OnListen
  <2>1. /\ batch # << >> /\ Done /\ events' = events /\ Head(batch).type = "listen"
        /\ socket' = [socket EXCEPT ![Head(batch).kind] = Head(batch).fd]
        /\ is_connected' = [is_connected EXCEPT ![Head(batch).kind] = TRUE]
        /\ UNCHANGED <<sent, unread, timer, svno_requests, applying, band>>
    BY <1>5 DEF OnListen, Event, clientVars, pepVars, svnoVars
  <2>2. Head(batch).kind \in Kinds /\ Head(batch).fd \in Fds
    BY <2>1, EventTyped
  <2>3. socket' \in [Kinds -> Fds \cup {None}] /\ is_connected' \in [Kinds -> BOOLEAN]
    BY <2>1, <2>2 DEF Typed
  <2>4. Known'
    BY <2>1, EventTyped
  <2> QED BY <2>1, <2>3, <2>4 DEF Typed
<1>6. CASE OnPepError
  <2>1. /\ batch # << >> /\ Done /\ events' = events
        /\ is_connected' = [is_connected EXCEPT !["pep"] = FALSE]
        /\ UNCHANGED <<sent, unread, timer, socket, svno_requests, applying, band>>
    BY <1>6 DEF OnPepError, Reads, Event, clientVars, pepVars, svnoVars
  <2>2. is_connected' \in [Kinds -> BOOLEAN]
    BY <2>1 DEF Typed
  <2>3. Known'
    BY <2>1, EventTyped
  <2> QED BY <2>1, <2>2, <2>3 DEF Typed
<1>7. CASE OnPepMessage
  <2>1. /\ batch # << >> /\ Done /\ events' = events
        /\ timer' \in {"due", "delay", "off"}
        /\ UNCHANGED <<sent, unread, socket, is_connected, svno_requests, applying, band>>
    BY <1>7, StartedIs DEF OnPepMessage, Reads, Event, clientVars, svnoVars, ifVars
  <2>2. Known'
    BY <2>1, EventTyped
  <2> QED BY <2>1, <2>2 DEF Typed
<1>8. CASE OnSvnoMessage
  <2>1. /\ batch # << >> /\ Done /\ events' = events /\ Head(batch).type = "read"
        /\ UNCHANGED <<sent, unread, timer, socket, is_connected, band>>
    BY <1>8 DEF OnSvnoMessage, Reads, Event, clientVars, pepVars, ifVars
  <2>2. PICK new : new = Parsed("svno", Head(batch).lines)
    OBVIOUS
  <2>3. new # << >> /\ svno_requests' = svno_requests \o new
    BY <1>8, <2>2 DEF OnSvnoMessage
  <2>4. new \in Seq(Commands) /\ svno_requests \in Seq(Commands)
    BY <2>1, <2>2, EventTyped, ParsedIs DEF Typed
  <2>5. svno_requests' \in Seq(Commands) /\ svno_requests' # << >>
    BY <2>3, <2>4, ConcatProperties, ConcatEqualIffEmpty
  <2>6. Known'
    BY <2>1, EventTyped
  <2> QED BY <2>1, <2>5, <2>6 DEF Typed
<1>9. CASE OnSvnoCommand
  <2>1. /\ svno_requests' = Tail(svno_requests)
        /\ UNCHANGED <<sent, unread, timer, socket, is_connected, batch>>
        /\ svno_requests \in Seq(Commands) /\ svno_requests # << >>
    BY <1>9 DEF OnSvnoCommand, clientVars, eventVars, pepVars, ifVars, Typed
  <2>2. Head(svno_requests) \in Commands /\ Tail(svno_requests) \in Seq(Commands)
    BY <2>1, HeadTailProperties
  <2>3. PICK o \in ApplySvnoCommand(band, Head(svno_requests)) :
               band' = o.band /\ applying' = GoesOn(o.done, Tail(svno_requests))
    BY <1>9 DEF OnSvnoCommand
  <2>4. o.band \in [Categories -> Category]
    BY <2>2, <2>3, CommandIsApplied DEF IsApplied, Typed
  <2>5. applying' => svno_requests' # << >>
    BY <2>1, <2>3 DEF GoesOn
  <2> QED BY <2>1, <2>2, <2>3, <2>4, <2>5 DEF Typed, Known
<1>10. CASE Expire
  <2>1. /\ timer' = "due"
        /\ UNCHANGED <<sent, unread, socket, is_connected, batch, svno_requests, applying, band>>
    BY <1>10 DEF Expire, clientVars, eventVars, svnoVars, ifVars
  <2> QED BY <2>1 DEF Typed, Known
<1>11. ASSUME NEW c \in Clients, Connect(c) PROVE Typed'
  BY <1>1, <1>11 DEF Connect, eventVars, pepVars, svnoVars, ifVars
<1>12. CASE UNCHANGED vars
  BY <1>1, <1>12 DEF vars, clientVars, eventVars, pepVars, svnoVars, ifVars
<1> QED BY <1>2, <1>3, <1>4, <1>5, <1>6, <1>7, <1>8, <1>9, <1>10, <1>11, <1>12,
          SelectTyped DEF Next, Channel, OnEvent

LEMMA StepOfCommand ==
  ASSUME Typed, OnSvnoCommand
  PROVE  \E o, cmd : /\ cmd \in Commands /\ o \in ApplySvnoCommand(band, cmd)
                     /\ band' = o.band /\ last' = [cmd |-> cmd, done |-> o.done]
<1>1. svno_requests \in Seq(Commands) /\ svno_requests # << >>
  BY DEF OnSvnoCommand, Typed
<1>2. Head(svno_requests) \in Commands
  BY <1>1, HeadTailProperties
<1> QED BY <1>2 DEF OnSvnoCommand

(* The others leave the band alone, and what is applied. *)
LEMMA OtherSteps ==
  ASSUME [Next]_vars, ~OnSvnoCommand
  PROVE  band' = band /\ (applying => svno_requests' = svno_requests)
<1>1. CASE OnSvnoMessage
  BY <1>1 DEF OnSvnoMessage, Reads, Event
<1>2. CASE OnTimer \/ OnListen \/ OnIgnored \/ OnPepError \/ OnPepMessage \/ OnSvnoError
  BY <1>2 DEF OnTimer, OnListen, OnIgnored, OnPepError, OnPepMessage, OnSvnoError, svnoVars
<1>3. CASE UpdateEvents \/ Select \/ Expire
  BY <1>3 DEF UpdateEvents, Select, Expire, svnoVars
<1>4. CASE \E c \in Clients : Connect(c) \/ \E line \in Lines[c] : Send(c, line)
  BY <1>4 DEF Connect, Send, svnoVars
<1>5. CASE UNCHANGED vars
  BY <1>5 DEF vars, svnoVars
<1> QED BY <1>1, <1>2, <1>3, <1>4, <1>5 DEF Next, Channel, OnEvent

LEMMA Invariant == Spec => [](IInv /\ Typed)
<1>1. Init => IInv /\ Typed
  BY InitInv, InitTyped
<1>2. IInv /\ Typed /\ [Next]_vars => (IInv /\ Typed)'
  BY StepInv, StepTyped
<1> QED BY <1>1, <1>2, PTL DEF Spec

-----------------------------------------------------------------------------
(* Theorems                                                                *)

(* accept, removeEvent and the next turn of RtChannelBase::executeThread: the list *)
(* of events, what is about to be added to it included, holds the descriptors of   *)
(* the open clients and no other, although they are used again at once.            *)
THEOREM NoLostSocket == Spec => []EventsAreOpen
<1>1. IInv => EventsAreOpen
  BY DEF IInv
<1> QED BY <1>1, Invariant, PTL

(* startTimer, raiseTimer and the end of the timer overtake each other; requests   *)
(* of a PEP (NccPepInterface) never wait without a timer that will apply them.     *)
THEOREM PendingTimed == Spec => []PendingIsTimed
<1>1. IInv => PendingIsTimed
  BY DEF IInv
<1> QED BY <1>1, Invariant, PTL

LEMMA StepCommands == CommandsWaitBehindFailure /\ [Next]_vars => CommandsWaitBehindFailure'
<1> SUFFICES ASSUME CommandsWaitBehindFailure, [Next]_vars PROVE CommandsWaitBehindFailure'
  OBVIOUS
<1> USE DEF CommandsWaitBehindFailure
<1>1. CASE UNCHANGED <<svno_requests, applying, last>>
  BY <1>1
<1>2. CASE OnSvnoMessage
  BY <1>2 DEF OnSvnoMessage
<1>3. CASE OnSvnoCommand
  <2>1. PICK r \in ApplySvnoCommand(band, Head(svno_requests)) :
               /\ last' = [cmd |-> Head(svno_requests), done |-> r.done]
               /\ applying' = GoesOn(r.done, Tail(svno_requests))
    BY <1>3 DEF OnSvnoCommand
  <2>2. svno_requests' = Tail(svno_requests) /\ last'.done = r.done
    BY <1>3, <2>1 DEF OnSvnoCommand
  <2>3. CASE ~r.done
    BY <2>2, <2>3
  <2>4. CASE r.done /\ Tail(svno_requests) # << >>
    BY <2>1, <2>4 DEF GoesOn
  <2> QED BY <2>2, <2>3, <2>4
<1>4. CASE OnTimer \/ OnListen \/ OnIgnored \/ OnPepError \/ OnPepMessage \/ OnSvnoError
  BY <1>4, <1>1 DEF OnTimer, OnListen, OnIgnored, OnPepError, OnPepMessage, OnSvnoError, svnoVars
<1>5. CASE UpdateEvents \/ Select \/ Expire
  BY <1>5, <1>1 DEF UpdateEvents, Select, Expire, svnoVars
<1>6. CASE \E c \in Clients : Connect(c) \/ \E line \in Lines[c] : Send(c, line)
  BY <1>6, <1>1 DEF Connect, Send, svnoVars
<1>7. CASE UNCHANGED vars
  BY <1>7, <1>1 DEF vars, svnoVars
<1> QED BY <1>2, <1>3, <1>4, <1>5, <1>6, <1>7 DEF Next, Channel, OnEvent

(* The loop of BlockDvbNcc over the commands of an SVNO stops at one that fails;  *)
(* what waits for the next message of the SVNO waits behind that one.             *)
THEOREM CommandsAreApplied == Spec => []CommandsWaitBehindFailure
<1>1. Init => CommandsWaitBehindFailure
  BY DEF Init, CommandsWaitBehindFailure
<1> QED BY <1>1, StepCommands, PTL DEF Spec

(* Every variable keeps its type; deallocateCarriers and the calculation leave no  *)
(* count of carriers below zero, in the groups of a category or in its list.       *)
THEOREM TypesAreKept == Spec => []TypeOK
<1>1. IInv /\ Typed => TypeOK
  <2> SUFFICES ASSUME IInv, Typed PROVE TypeOK
    OBVIOUS
  <2>1. events \subseteq Fds /\ new_events \subseteq Fds
    <3>1. {fd[c] : c \in Open} \subseteq Fds
      BY DEF IInv, Sockets, Open
    <3> QED BY <3>1 DEF IInv, EventsAreOpen
  <2>2. \A c \in Clients : sent[c] \in 0 .. MaxLines[c]
    BY NccAssumption DEF NccAssumption, Typed
  <2>3. ASSUME NEW c \in Categories
        PROVE  /\ \A i \in DOMAIN band[c].groups : band[c].groups[i].number \in Nat
               /\ \A r \in DOMAIN band[c].list : band[c].list[r] \in Nat
    <3>1. band[c] \in Category
      BY DEF Typed
    <3>2. band[c].groups \in GroupSeqs /\ \A r \in DOMAIN band[c].list : band[c].list[r] \in Nat
      BY <3>1, CategoryIs
    <3> QED BY <3>2, GroupsAre
  <2> QED BY <2>1, <2>2, <2>3 DEF IInv, Sockets, Typed, TypeOK
<1> QED BY <1>1, Invariant, PTL

(* carriersTransfer takes carriers of a category, group by group, and gives them   *)
(* to another: a command makes no carrier, and some are lost only when it fails.   *)
THEOREM NoCarrierAppears == Spec => BandIsConserved
<1> DEFINE Kept == \/ band' = band \/ SpotRate(band') = SpotRate(band)
                   \/ SpotRate(band') < SpotRate(band) /\ ~last'.done
<1>1. IInv /\ Typed /\ [Next]_vars => [Kept]_vars
  <2> SUFFICES ASSUME Typed, [Next]_vars PROVE Kept
    OBVIOUS
  <2>1. CASE OnSvnoCommand
    <3>1. PICK o, cmd : /\ cmd \in Commands /\ o \in ApplySvnoCommand(band, cmd)
                        /\ band' = o.band /\ last' = [cmd |-> cmd, done |-> o.done]
      BY <2>1, StepOfCommand
    <3>2. SpotChanges(band, o)
      BY <3>1, CommandIsApplied DEF IsApplied, Typed
    <3> QED BY <3>1, <3>2 DEF SpotChanges
  <2>2. CASE ~OnSvnoCommand
    BY <2>2, OtherSteps
  <2> QED BY <2>1, <2>2
<1>2. BandIsConserved <=> [][Kept]_vars
  BY DEF BandIsConserved
<1> HIDE DEF Kept
<1> QED BY <1>1, <1>2, Invariant, PTL DEF Spec

(* carriersTransferCalculation fits the sizes in, the largest first, and takes one *)
(* more where that does not do: whatever the sizes are, a category whose command   *)
(* succeeds has what allocateBand or releaseBand was asked for, and less than one  *)
(* carrier of the largest size above it.                                           *)
THEOREM GrantedIsThere == Spec => GrantedRateIsThere
<1> DEFINE Granted ==
      applying /\ svno_requests' # svno_requests /\ last'.done /\ last'.cmd.cat # Sno =>
        LET asked == KbitsToSym(last'.cmd.cat, last'.cmd.kbps)
            rate == TotalSymbolRate(band'[last'.cmd.cat])
        IN asked <= rate /\ rate < asked + Max(Rates)
<1>1. IInv /\ Typed /\ [Next]_vars => [Granted]_vars
  <2> SUFFICES ASSUME Typed, [Next]_vars, applying, svno_requests' # svno_requests,
                      last'.done, last'.cmd.cat # Sno
               PROVE  IsGranted(KbitsToSym(last'.cmd.cat, last'.cmd.kbps),
                                TotalSymbolRate(band'[last'.cmd.cat]))
    BY DEF IsGranted
  <2>1. OnSvnoCommand
    BY OtherSteps
  <2>2. PICK o, cmd : /\ cmd \in Commands /\ o \in ApplySvnoCommand(band, cmd)
                      /\ band' = o.band /\ last' = [cmd |-> cmd, done |-> o.done]
    BY <2>1, StepOfCommand
  <2>3. last'.cmd = cmd /\ last'.done = o.done
    BY <2>2
  <2>4. IsApplied(band, cmd.cat, cmd.kbps, o)
    BY <2>2, CommandIsApplied DEF Typed
  <2> QED BY <2>2, <2>3, <2>4 DEF IsApplied
<1>2. GrantedRateIsThere <=> [][Granted]_vars
  BY DEF GrantedRateIsThere
<1> HIDE DEF Granted
<1> QED BY <1>1, <1>2, Invariant, PTL DEF Spec
=============================================================================
