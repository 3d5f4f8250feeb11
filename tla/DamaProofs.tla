----------------------------- MODULE DamaProofs -----------------------------
(***************************************************************************)
(* Whatever is late and whatever the allocations are, a terminal sends by  *)
(* the plan of the superframe before as long as one message is lost.  The  *)
(* allocations of a frame are those of the carrier, and what the TTP       *)
(* announce covers them: each turn of each pass keeps Sound, so that the   *)
(* passes do, in whatever order they take the terminals.                   *)
(***************************************************************************)
EXTENDS Dama, LoopLemmas, SequenceTheorems, TLAPS

Following(sf) == (sf + 1) % SfMod

-----------------------------------------------------------------------------
(* The inductive invariant: what is under way to a terminal is the end of  *)
(* SOF 1, TTP 1, SOF 2, TTP 2 ..., and the plan a terminal has is the one  *)
(* before the SOF that comes next, or a TTP comes first that replaces it,  *)
(* which costs a message.                                                  *)
IsSeq(s) == \E S : s \in Seq(S)

Follows(a, b) == \/ a.type = "Sof" /\ b.type = "Ttp" /\ b.plan = a.sf
                 \/ a.type = "Ttp" /\ b.type = "Sof" /\ b.sf = Following(a.plan)

Chain(s) == \A i \in 1 .. Len(s) - 1 : Follows(s[i], s[i + 1])

EndsNow(s, sf) == s # << >> => s[Len(s)].type = "Ttp" /\ s[Len(s)].plan = sf

Shape == /\ DOMAIN down = Terminals
         /\ DOMAIN allocated = Terminals
         /\ lost \in Nat
         /\ \A t \in Terminals : IsSeq(down[t]) /\ Chain(down[t]) /\ EndsNow(down[t], frame)

OnTime(t) ==
  allocated[t].plan # -1 =>
    \/ lost > 1
    \/ down[t] = << >> /\ allocated[t].plan = frame
    \/ /\ down[t] # << >>
       /\ Head(down[t]).type = "Sof"
       /\ Head(down[t]).sf = Following(allocated[t].plan)
    \/ down[t] # << >> /\ Head(down[t]).type = "Ttp" /\ lost = 1

IInv == Shape /\ \A t \in Terminals : OnTime(t)

(* What is left of a chain is one. *)
LEMMA TailChain ==
  ASSUME NEW S, NEW s \in Seq(S), s # << >>, Chain(s), EndsNow(s, frame)
  PROVE  /\ Tail(s) \in Seq(S)
         /\ Chain(Tail(s)) /\ EndsNow(Tail(s), frame)
         /\ Head(s) = s[1]
         /\ Tail(s) # << >> => Follows(Head(s), Head(Tail(s)))
         /\ Tail(s) = << >> => s[1].type = "Ttp" /\ s[1].plan = frame
<1>1. /\ Tail(s) \in Seq(S) /\ Len(s) \in Nat \ {0}
      /\ Len(Tail(s)) = Len(s) - 1
      /\ Head(s) = s[1]
      /\ \A i \in 1 .. Len(s) - 1 : Tail(s)[i] = s[i + 1]
  OBVIOUS
<1>2. Chain(Tail(s))
  <2> SUFFICES ASSUME NEW i \in 1 .. Len(s) - 2
               PROVE  Follows(s[i + 1], s[i + 2])
    BY <1>1 DEF Chain
  <2> QED BY <1>1 DEF Chain
<1>3. Len(s) > 1 => Tail(s)[Len(s) - 1] = s[Len(s)]
  BY <1>1
<1>4. EndsNow(Tail(s), frame)
  BY <1>1, <1>3 DEF EndsNow
<1>5. Tail(s) # << >> => Len(s) > 1 /\ Head(Tail(s)) = Tail(s)[1] /\ Tail(s)[1] = s[2]
  BY <1>1
<1>6. Tail(s) # << >> => Follows(Head(s), Head(Tail(s)))
  BY <1>1, <1>5 DEF Chain
<1>7. Tail(s) = << >> => Len(s) = 1
  BY <1>1
<1> QED BY <1>1, <1>2, <1>4, <1>6, <1>7 DEF EndsNow

(* The SOF and the TTP of a superframe go on with the chain of the last. *)
LEMMA NextPair ==
  ASSUME NEW S, NEW s \in Seq(S), Chain(s), EndsNow(s, frame), NEW a, NEW b,
         a.type = "Sof", a.sf = Following(frame), b.type = "Ttp", b.plan = a.sf
  PROVE  LET u == s \o <<a, b>>
         IN /\ IsSeq(u) /\ Chain(u)
            /\ u # << >> /\ u[Len(u)] = b
            /\ s = << >> => Head(u) = a
            /\ s # << >> => Head(u) = Head(s)
<1> DEFINE T == S \cup {a, b}
           u == s \o <<a, b>>
<1>1. s \in Seq(T) /\ <<a, b>> \in Seq(T) /\ Len(s) \in Nat
  <2>1. s \in [1 .. Len(s) -> S] /\ Len(s) \in Nat
    OBVIOUS
  <2>2. s \in [1 .. Len(s) -> T]
    BY <2>1
  <2> QED BY <2>1, <2>2
<1>2. /\ u \in Seq(T) /\ Len(u) = Len(s) + 2
      /\ \A i \in 1 .. Len(s) : u[i] = s[i]
      /\ u[Len(s) + 1] = a /\ u[Len(s) + 2] = b
  BY <1>1
<1>3. Follows(a, b)
  BY DEF Follows
<1>4. s # << >> => Follows(s[Len(s)], a)
  BY DEF Follows, EndsNow
<1>5. ASSUME NEW i \in 1 .. Len(u) - 1 PROVE Follows(u[i], u[i + 1])
  <2>1. CASE i < Len(s)
    <3>1. i \in 1 .. Len(s) - 1 /\ u[i] = s[i] /\ u[i + 1] = s[i + 1]
      BY <1>1, <1>2, <2>1
    <3> QED BY <3>1 DEF Chain
  <2>2. CASE i = Len(s)
    BY <1>1, <1>2, <1>4, <2>2
  <2>3. CASE i = Len(s) + 1
    BY <1>1, <1>2, <1>3, <2>3
  <2> QED BY <1>1, <1>2, <2>1, <2>2, <2>3
<1>6. s = << >> => Head(u) = a
  BY <1>1, <1>2
<1>7. s # << >> => Head(u) = Head(s)
  BY <1>1, <1>2
<1>8. IsSeq(u) /\ Chain(u) /\ u # << >> /\ u[Len(u)] = b
  BY <1>1, <1>2, <1>5 DEF IsSeq, Chain
<1> QED BY <1>6, <1>7, <1>8

LEMMA InitInv == Init => IInv
BY DamaAssumption DEF Init, IInv, Shape, IsSeq, Chain, EndsNow, OnTime

-----------------------------------------------------------------------------
(* A step that takes the first message to t, and no other.                 *)
LEMMA TakesOne ==
  ASSUME Shape, NEW t \in Terminals, down[t] # << >>,
         down' = [down EXCEPT ![t] = Tail(@)], frame' = frame,
         DOMAIN allocated' = Terminals, lost' \in Nat
  PROVE  /\ Shape'
         /\ down'[t] = Tail(down[t])
         /\ down'[t] # << >> => Follows(Head(down[t]), Head(down'[t]))
         /\ down'[t] = << >> => Head(down[t]).type = "Ttp" /\ Head(down[t]).plan = frame
         /\ \A x \in Terminals \ {t} : down'[x] = down[x]
<1>1. PICK S : down[t] \in Seq(S)
  BY DEF Shape, IsSeq
<1>2. Chain(down[t]) /\ EndsNow(down[t], frame)
  BY DEF Shape
<1>3. /\ Tail(down[t]) \in Seq(S)
      /\ Chain(Tail(down[t])) /\ EndsNow(Tail(down[t]), frame)
      /\ Head(down[t]) = down[t][1]
      /\ Tail(down[t]) # << >> => Follows(Head(down[t]), Head(Tail(down[t])))
      /\ Tail(down[t]) = << >> => down[t][1].type = "Ttp" /\ down[t][1].plan = frame
  BY <1>1, <1>2, TailChain
<1>4. /\ DOMAIN down' = Terminals
      /\ down'[t] = Tail(down[t])
      /\ \A x \in Terminals \ {t} : down'[x] = down[x]
  BY DEF Shape
<1>5. ASSUME NEW x \in Terminals
      PROVE  IsSeq(down'[x]) /\ Chain(down'[x]) /\ EndsNow(down'[x], frame')
  <2>1. CASE x = t
    BY <1>3, <1>4, <2>1 DEF IsSeq, EndsNow
  <2>2. CASE x # t
    BY <1>4, <2>2 DEF Shape, EndsNow
  <2> QED BY <2>1, <2>2
<1> QED BY <1>3, <1>4, <1>5 DEF Shape

(* A step that takes nothing from the terminals and gives them nothing. *)
LEMMA TakesNone ==
  ASSUME IInv, UNCHANGED <<down, allocated, frame>>, lost' \in {lost, lost + 1}
  PROVE  IInv'
<1>1. Shape'
  BY DEF IInv, Shape, IsSeq, Chain, EndsNow
<1>2. ASSUME NEW t \in Terminals PROVE OnTime(t)'
  BY DEF IInv, Shape, OnTime
<1> QED BY <1>1, <1>2 DEF IInv

-----------------------------------------------------------------------------
LEMMA InvFrameTimer == IInv /\ FrameTimer => IInv'
<1> SUFFICES ASSUME IInv, FrameTimer PROVE IInv'
  OBVIOUS
<1>1. PICK acc : down' = [t \in Terminals |-> down[t] \o <<Sof, Ttp(Assignment(acc, t))>>]
  BY DEF FrameTimer
<1>2. frame' = Following(frame) /\ UNCHANGED <<allocated, lost>>
  BY DEF FrameTimer, NextFrame, Following, agentVars
<1>3. ASSUME NEW t \in Terminals
      PROVE  /\ IsSeq(down'[t]) /\ Chain(down'[t]) /\ EndsNow(down'[t], frame') /\ down'[t] # << >>
             /\ down[t] = << >> => Head(down'[t]).type = "Sof" /\ Head(down'[t]).sf = frame'
             /\ down[t] # << >> => Head(down'[t]) = Head(down[t])
  <2> DEFINE a == Sof
             b == Ttp(Assignment(acc, t))
  <2>1. PICK S : down[t] \in Seq(S)
    BY DEF IInv, Shape, IsSeq
  <2>2. /\ a.type = "Sof" /\ a.sf = frame'
        /\ b.type = "Ttp" /\ b.plan = frame'
    BY DEF Sof, Ttp
  <2>3. down'[t] = down[t] \o <<a, b>>
    BY <1>1
  <2>4. Chain(down[t]) /\ EndsNow(down[t], frame)
    BY DEF IInv, Shape
  <2> HIDE DEF a, b
  <2>5. /\ IsSeq(down'[t]) /\ Chain(down'[t])
        /\ down'[t] # << >> /\ down'[t][Len(down'[t])] = b
        /\ down[t] = << >> => Head(down'[t]) = a
        /\ down[t] # << >> => Head(down'[t]) = Head(down[t])
    BY <1>2, <2>1, <2>2, <2>3, <2>4, NextPair
  <2> QED BY <2>2, <2>5 DEF EndsNow
<1>4. Shape'
  BY <1>1, <1>2, <1>3 DEF IInv, Shape
<1>5. ASSUME NEW t \in Terminals PROVE OnTime(t)'
  BY <1>2, <1>3 DEF IInv, OnTime
<1> QED BY <1>4, <1>5 DEF IInv

LEMMA InvLoseDown ==
  ASSUME IInv, NEW t \in Terminals, LoseDown(t)
  PROVE  IInv'
<1>1. /\ down[t] # << >>
      /\ down' = [down EXCEPT ![t] = Tail(@)]
      /\ UNCHANGED <<allocated, frame>>
      /\ lost' = lost + 1 /\ lost \in Nat
  BY DEF LoseDown, agentVars, ctrlVars, IInv, Shape
<1>. DOMAIN allocated' = Terminals /\ lost' \in Nat
  BY <1>1 DEF IInv, Shape
<1>2. /\ Shape'
      /\ down'[t] = Tail(down[t])
      /\ down'[t] # << >> => Follows(Head(down[t]), Head(down'[t]))
      /\ down'[t] = << >> => Head(down[t]).type = "Ttp" /\ Head(down[t]).plan = frame
      /\ \A x \in Terminals \ {t} : down'[x] = down[x]
  BY <1>1, TakesOne DEF IInv
<1>3. OnTime(t)'
  <2>1. OnTime(t)
    BY DEF IInv
  <2>2. CASE Head(down[t]).type = "Sof"
    <3>1. down'[t] # << >> /\ Head(down'[t]).type = "Ttp"
      BY <1>2, <2>2 DEF Follows
    <3> QED BY <1>1, <2>1, <2>2, <3>1 DEF OnTime
  <2>3. CASE Head(down[t]).type = "Ttp"
    BY <1>1, <2>1, <2>3 DEF OnTime
  <2> QED BY <1>1, <1>2, <2>1, <2>2, <2>3 DEF OnTime, Follows
<1>4. ASSUME NEW x \in Terminals, x # t PROVE OnTime(x)'
  BY <1>1, <1>2, <1>4 DEF OnTime, IInv
<1> QED BY <1>2, <1>3, <1>4 DEF IInv

LEMMA InvHereIsTtp ==
  ASSUME IInv, NEW t \in Terminals, HereIsTtp(t)
  PROVE  IInv'
<1>1. /\ down[t] # << >> /\ Head(down[t]).type = "Ttp"
      /\ down' = [down EXCEPT ![t] = Tail(@)]
      /\ DOMAIN allocated' = Terminals /\ allocated'[t].plan = Head(down[t]).plan
      /\ \A x \in Terminals \ {t} : allocated'[x] = allocated[x]
      /\ UNCHANGED <<lost, frame>> /\ lost \in Nat
  BY DEF HereIsTtp, ctrlVars, IInv, Shape
<1>2. /\ Shape'
      /\ down'[t] # << >> => Follows(Head(down[t]), Head(down'[t]))
      /\ down'[t] = << >> => Head(down[t]).plan = frame
      /\ \A x \in Terminals \ {t} : down'[x] = down[x]
  BY <1>1, TakesOne DEF IInv, Shape
<1>3. OnTime(t)'
  BY <1>1, <1>2 DEF OnTime, Follows
<1>4. ASSUME NEW x \in Terminals, x # t PROVE OnTime(x)'
  BY <1>1, <1>2, <1>4 DEF OnTime, IInv
<1> QED BY <1>2, <1>3, <1>4 DEF IInv

LEMMA InvHereIsSof ==
  ASSUME IInv, NEW t \in Terminals, HereIsSof(t)
  PROVE  IInv'
<1>1. /\ down[t] # << >> /\ Head(down[t]).type = "Sof"
      /\ down' = [down EXCEPT ![t] = Tail(@)]
      /\ allocated' = [allocated EXCEPT ![t] = UsedUp(@)]
      /\ UNCHANGED <<lost, frame>> /\ lost \in Nat
  BY DEF HereIsSof, ctrlVars, IInv, Shape
<1>2. /\ DOMAIN allocated' = Terminals /\ allocated'[t].plan = -1
      /\ \A x \in Terminals \ {t} : allocated'[x] = allocated[x]
  BY <1>1 DEF UsedUp, IInv, Shape
<1>3. /\ Shape'
      /\ \A x \in Terminals \ {t} : down'[x] = down[x]
  BY <1>1, <1>2, TakesOne DEF IInv, Shape
<1>4. OnTime(t)'
  BY <1>2 DEF OnTime
<1>5. ASSUME NEW x \in Terminals, x # t PROVE OnTime(x)'
  BY <1>1, <1>2, <1>3, <1>5 DEF OnTime, IInv
<1> QED BY <1>3, <1>4, <1>5 DEF IInv

LEMMA NextInv == IInv /\ [Next]_vars => IInv'
<1> SUFFICES ASSUME IInv, [Next]_vars PROVE IInv'
  OBVIOUS
<1>1. CASE FrameTimer
  BY <1>1, InvFrameTimer
<1>2. CASE \E r \in PepRequests : ApplyPepCommand(r)
  BY <1>2, TakesNone DEF ApplyPepCommand, agentVars, netVars
<1>3. ASSUME NEW t \in Terminals, HereIsSac(t) PROVE IInv'
  BY <1>3, TakesNone DEF HereIsSac, agentVars
<1>4. ASSUME NEW t \in Terminals, LoseDown(t) PROVE IInv'
  BY <1>4, InvLoseDown
<1>5. ASSUME NEW t \in Terminals, LoseSac(t) PROVE IInv'
  BY <1>5, TakesNone DEF LoseSac, agentVars, ctrlVars
<1>6. ASSUME NEW t \in Terminals, OnRcvEncapPacket(t) PROVE IInv'
  BY <1>6, TakesNone DEF OnRcvEncapPacket, netVars, ctrlVars
<1>7. ASSUME NEW t \in Terminals, HereIsTtp(t) PROVE IInv'
  BY <1>7, InvHereIsTtp
<1>8. ASSUME NEW t \in Terminals, HereIsSof(t) PROVE IInv'
  BY <1>8, InvHereIsSof
<1>9. CASE UNCHANGED vars
  BY <1>9, TakesNone DEF vars, agentVars, netVars, ctrlVars
<1> QED BY <1>1, <1>2, <1>3, <1>4, <1>5, <1>6, <1>7, <1>8, <1>9 DEF Next

-----------------------------------------------------------------------------
(* The plan a terminal has when a SOF arrives is the one of the superframe *)
(* before as long as one SOF, TTP or SAC is lost and not two, however many *)
(* terminals there are, however late the messages and whatever allocations *)
(* computeTerminalsAllocations makes of the requests.                      *)
THEOREM PlansAreOfTheSuperframeBefore == Spec => []OneLossKeepsThePlan
<1>1. IInv => OneLossKeepsThePlan
  BY DEF IInv, Shape, OnTime, OneLossKeepsThePlan, OnePlanPerSuperframe, Following
<1> QED BY <1>1, InitInv, NextInv, PTL DEF Spec

-----------------------------------------------------------------------------
(* The allocations of a frame                                              *)

N == Len(Tals)

(* Tals has each terminal once. *)
LEMMA TalsAreTerminals ==
  /\ N \in Nat /\ IsFiniteSet(Terminals) /\ Cardinality(Terminals) = N
  /\ Tals \in [1 .. N -> Terminals]
  /\ \A i, j \in 1 .. N : Tals[i] = Tals[j] => i = j
  /\ \A t \in Terminals : \E i \in 1 .. N : Tals[i] = t
<1>1. Tals \in [1 .. N -> Terminals] /\ N \in Nat /\ DOMAIN Tals = 1 .. N
  <2>1. Tals \in Seq(Terminals)
    BY DamaAssumption
  <2> QED BY <2>1 DEF N
<1>2. \A t \in Terminals : \E i \in 1 .. N : Tals[i] = t
  BY <1>1 DEF Terminals
<1>3. Tals \in Surjection(1 .. N, Terminals)
  BY <1>1, <1>2 DEF Surjection
<1>4. IsFiniteSet(1 .. N) /\ Cardinality(1 .. N) = N
  BY <1>1, FS_Interval
<1>5. IsFiniteSet(Terminals) /\ Cardinality(Terminals) = N
  BY <1>3, <1>4, FS_Surjection, DamaAssumption DEF DamaAssumption, N
<1>6. Tals \in Injection(1 .. N, Terminals)
  BY <1>3, <1>4, <1>5, FS_SurjSameCardinalityImpliesInj
<1>7. \A i, j \in 1 .. N : Tals[i] = Tals[j] => i = j
  BY <1>6 DEF Injection, IsInjective
<1> QED BY <1>1, <1>2, <1>5, <1>7

(* A list sorted by a number of each has each terminal once. *)
LEMMA SortedTerminals ==
  ASSUME NEW key \in [Terminals -> Nat]
  PROVE  /\ SortedBy(key) \in [1 .. N -> Terminals]
         /\ \A i, j \in 1 .. N : SortedBy(key)[i] = SortedBy(key)[j] => i = j
<1> DEFINE R == Order(key)
           First(t) == Cardinality({x \in Terminals : <<x, t>> \in Order(key)})
<1>1. \A x, y \in Terminals : <<x, y>> \in R <=> (key[x] > key[y] \/ (key[x] = key[y] /\ Index(x) < Index(y)))
  BY DEF Order
<1>2. ASSUME NEW t \in Terminals PROVE Index(t) \in Nat /\ Tals[Index(t)] = t
  <2>1. \E i \in DOMAIN Tals : Tals[i] = t
    BY DEF Terminals
  <2>2. Index(t) \in DOMAIN Tals /\ Tals[Index(t)] = t
    BY <2>1 DEF Index
  <2> QED BY <2>2, TalsAreTerminals
<1>3. ASSUME NEW x \in Terminals, NEW y \in Terminals
      PROVE  x = y \/ <<x, y>> \in R \/ <<y, x>> \in R
  <2>1. key[x] \in Nat /\ key[y] \in Nat /\ Index(x) \in Nat /\ Index(y) \in Nat
    BY <1>2
  <2>2. Index(x) = Index(y) => x = y
    BY <1>2
  <2> HIDE DEF R
  <2> QED BY <1>1, <2>1, <2>2
<1>4. \A x \in Terminals : <<x, x>> \notin R
  <2> HIDE DEF R
  <2> QED BY <1>1, <1>2
<1>5. ASSUME NEW x \in Terminals, NEW y \in Terminals, NEW z \in Terminals,
             <<x, y>> \in R, <<y, z>> \in R
      PROVE  <<x, z>> \in R
  <2>1. /\ key[x] \in Nat /\ key[y] \in Nat /\ key[z] \in Nat
        /\ Index(x) \in Nat /\ Index(y) \in Nat /\ Index(z) \in Nat
    BY <1>2
  <2> HIDE DEF R
  <2> QED BY <1>1, <1>5, <2>1
<1>6. ASSUME NEW i \in 1 .. N PROVE \E t \in Terminals : First(t) = i - 1
  <2> HIDE DEF R
  <2>1. i \in 1 .. Cardinality(Terminals) /\ IsFiniteSet(Terminals)
    BY TalsAreTerminals
  <2>2. \A x, y \in Terminals : x = y \/ <<x, y>> \in R \/ <<y, x>> \in R
    BY <1>3
  <2>3. \A x, y, z \in Terminals : <<x, y>> \in R /\ <<y, z>> \in R => <<x, z>> \in R
    BY <1>5
  <2>4. \E t \in Terminals : Cardinality(Before(R, Terminals, t)) = i - 1
    BY <1>4, <2>1, <2>2, <2>3, Ranks
  <2> QED BY <2>4 DEF Before, R
<1>7. ASSUME NEW i \in 1 .. N
      PROVE  SortedBy(key)[i] \in Terminals /\ First(SortedBy(key)[i]) = i - 1
  <2>1. SortedBy(key)[i] = CHOOSE t \in Terminals : First(t) = i - 1
    BY DEF SortedBy, N
  <2> HIDE DEF First
  <2> QED BY <1>6, <2>1
<1>8. SortedBy(key) \in [1 .. N -> Terminals]
  BY <1>7 DEF SortedBy, N
<1>9. ASSUME NEW i \in 1 .. N, NEW j \in 1 .. N, SortedBy(key)[i] = SortedBy(key)[j] PROVE i = j
  <2>1. i - 1 = j - 1
    BY <1>7, <1>9
  <2> QED BY <2>1
<1> QED BY <1>8, <1>9

(* SumOver adds up over Tals. *)
LEMMA SumIsLoop ==
  ASSUME NEW f \in [Terminals -> Nat]
  PROVE  \E p \in [0 .. N -> Nat] : /\ Sums(p, N, [i \in 1 .. N |-> f[Tals[i]]])
                                    /\ SumOver(f) = p[N]
<1> DEFINE v == [i \in 1 .. N |-> f[Tals[i]]]
           sum[i \in 0 .. N] == IF i = 0 THEN 0 ELSE sum[i - 1] + f[Tals[i]]
<1>1. N \in Nat /\ \A i \in 1 .. N : v[i] \in Nat
  BY TalsAreTerminals
<1>2. PICK p \in [0 .. N -> Nat] : Sums(p, N, v)
  <2> HIDE DEF v
  <2> QED BY <1>1, SumsExist
<1>3. p = [i \in 0 .. N |-> IF i = 0 THEN 0 ELSE p[i - 1] + f[Tals[i]]]
  BY <1>1, <1>2 DEF Sums
<1>4. sum = [i \in 0 .. N |-> IF i = 0 THEN 0 ELSE sum[i - 1] + f[Tals[i]]]
  BY <1>3
<1> HIDE DEF sum
<1>5. sum[0] = 0 /\ \A i \in 1 .. N : sum[i] = sum[i - 1] + v[i]
  BY <1>1, <1>4
<1>6. sum \in [0 .. N -> Nat] /\ Sums(sum, N, v)
  <2>1. ASSUME NEW i \in 1 .. N, sum[i - 1] \in Nat PROVE sum[i] \in Nat
    <3>1. v[i] \in Nat /\ sum[i] = sum[i - 1] + v[i]
      BY <1>1, <1>5
    <3> HIDE DEF v
    <3> QED BY <2>1, <3>1
  <2>2. sum[0] \in Nat
    BY <1>5
  <2>3. \A i \in 0 .. N : sum[i] \in Nat
    BY <1>1, <2>1, <2>2, StepsKeep
  <2> QED BY <1>4, <1>5, <2>3 DEF Sums
<1>7. SumOver(f) = sum[N]
  BY DEF SumOver, sum, N
<1> QED BY <1>6, <1>7

LEMMA SumType ==
  ASSUME NEW f \in [Terminals -> Nat]
  PROVE  SumOver(f) \in Nat
<1>1. PICK p \in [0 .. N -> Nat] : SumOver(f) = p[N]
  BY SumIsLoop
<1> QED BY <1>1, TalsAreTerminals

LEMMA SumOfNone == SumOver([t \in Terminals |-> 0]) = 0
<1> DEFINE f == [t \in Terminals |-> 0]
           v == [i \in 1 .. N |-> f[Tals[i]]]
<1>1. f \in [Terminals -> Nat] /\ N \in Nat /\ \A i \in 1 .. N : v[i] = 0
  BY TalsAreTerminals
<1> HIDE DEF f
<1>2. PICK p \in [0 .. N -> Nat] : Sums(p, N, v) /\ SumOver(f) = p[N]
  BY <1>1, SumIsLoop
<1> HIDE DEF v
<1>3. SumOver(f) = 0
  BY <1>1, <1>2, SumsZero
<1> QED BY <1>3 DEF f

LEMMA SumMore ==
  ASSUME NEW f \in [Terminals -> Nat], NEW t \in Terminals, NEW d \in Nat
  PROVE  SumOver([f EXCEPT ![t] = @ + d]) = SumOver(f) + d
<1> DEFINE g == [f EXCEPT ![t] = @ + d]
           v == [i \in 1 .. N |-> f[Tals[i]]]
           w == [i \in 1 .. N |-> g[Tals[i]]]
<1>1. g \in [Terminals -> Nat]
  OBVIOUS
<1>2. PICK k \in 1 .. N : Tals[k] = t
  BY TalsAreTerminals
<1>3. DifferAt(k, d, N, v, w)
  <2> SUFFICES ASSUME NEW i \in 1 .. N
               PROVE  v[i] \in Nat /\ w[i] = IF i = k THEN v[i] + d ELSE v[i]
    BY DEF DifferAt
  <2>1. Tals[i] \in Terminals /\ (Tals[i] = t <=> i = k)
    BY <1>2, TalsAreTerminals
  <2> QED BY <2>1
<1>4. PICK p \in [0 .. N -> Nat] : Sums(p, N, v) /\ SumOver(f) = p[N]
  BY SumIsLoop
<1>5. PICK q \in [0 .. N -> Nat] : Sums(q, N, w) /\ SumOver(g) = q[N]
  <2> HIDE DEF g
  <2> QED BY <1>1, SumIsLoop
<1> HIDE DEF g, v, w
<1>6. IsMore(q[N], p[N], d)
  <2>1. N \in Nat /\ d \in Int
    BY TalsAreTerminals
  <2> QED BY <1>3, <1>4, <1>5, <2>1, SumsDiffer
<1>7. SumOver(g) = SumOver(f) + d
  BY <1>4, <1>5, <1>6 DEF IsMore
<1> QED BY <1>7 DEF g

-----------------------------------------------------------------------------
(* Conversions                                                             *)

LEMMA Constants ==
  /\ Capacity \in Nat /\ Word \in Nat /\ Capacity < Word
  /\ FrameMs \in Nat \ {0} /\ SlotBits \in Nat \ {0} /\ Num \in Nat \ {0} /\ Den \in Nat \ {0}
  /\ Sync \in Nat \ {0} /\ Msl \in Nat \ {0} /\ Grain \in Nat \ {0}
  /\ Fca \in Nat /\ PepTimeout \in Nat
  /\ MaxTimer \in Nat /\ MaxNew \in Nat /\ MaxCredit \in Nat /\ MaxLost \in Nat /\ MaxPep \in Nat
  /\ SfMod \in Nat \ {0, 1, 2}
  /\ Cra \in [Terminals -> Nat] /\ MaxRbdc \in [Terminals -> Nat]
  /\ MaxVbdc \in [Terminals -> Nat] /\ MacSize \in [Terminals -> Nat]
  /\ PepRequests \subseteq [st : Terminals, cra : Nat, rbdc_max : Nat, rbdc : Nat]
<1>1. /\ {Slot, Cra, MaxRbdc, MaxVbdc, MacSize} \subseteq [Terminals -> Nat]
      /\ {Capacity, FrameMs, SlotBits, Num, Den, Sync, Msl, Grain} \subseteq Nat \ {0}
      /\ {Fca, PepTimeout, MaxTimer, MaxNew, MaxCredit, MaxBehind, MaxSac, MaxLost, MaxPep}
           \subseteq Nat
  BY DamaAssumption
<1>2. /\ Word \in Nat /\ Capacity < Word
      /\ SfMod \in Nat /\ SfMod > 2
      /\ PepRequests \subseteq [st : Terminals, cra : Nat, rbdc_max : Nat, rbdc : Nat]
  BY DamaAssumption
<1>3. SfMod \in Nat \ {0, 1, 2}
  BY <1>2
<1> QED BY <1>1, <1>2, <1>3

(* Rounded up: no less than the quotient. *)
LEMMA CeilDivIsUp ==
  ASSUME NEW a \in Nat, NEW b \in Nat \ {0}
  PROVE  CeilDiv(a, b) \in Nat /\ CeilDiv(a, b) * b >= a /\ (a > 0 => CeilDiv(a, b) > 0)
<1>1. a + b - 1 \in Nat
  OBVIOUS
<1>2. (a + b - 1) \div b \in Nat /\ a + b - 1 < ((a + b - 1) \div b + 1) * b
  BY <1>1
<1>3. ASSUME NEW c \in Nat, a + b - 1 < (c + 1) * b PROVE c * b >= a /\ (a > 0 => c > 0)
  <2>1. (c + 1) * b = c * b + b /\ c * b \in Nat
    OBVIOUS
  <2>2. c * b >= a
    BY <1>3, <2>1
  <2>3. c = 0 => c * b = 0
    OBVIOUS
  <2> QED BY <2>2, <2>3
<1> QED BY <1>2, <1>3 DEF CeilDiv

LEMMA Conversions ==
  ASSUME NEW v \in Nat
  PROVE  /\ AddFec(v) \in Nat /\ KbpsToPktpf(v) \in Nat /\ KbitsToPkt(v) \in Nat
         /\ RemoveFec(v) \in Nat /\ RemoveFec(v) * Den >= v * Num
         /\ PktpfToKbps(v) \in Nat /\ PktpfToKbps(v) * FrameMs >= v * SlotBits
         /\ PktToKbits(v) \in Nat /\ PktToKbits(v) * 1000 >= v * SlotBits
         /\ PsToPf(v) \in Nat /\ PsToPf(v) * 1000 >= v * FrameMs
<1>1. /\ v * Den \in Nat /\ v * Num \in Nat /\ v * FrameMs \in Nat /\ v * SlotBits \in Nat
      /\ v * 1000 \in Nat
  BY Constants
<1>2. AddFec(v) \in Nat
  BY <1>1, Constants DEF AddFec
<1> QED BY <1>1, <1>2, Constants, CeilDivIsUp, SMTT(30)
        DEF KbpsToPktpf, KbitsToPkt, RemoveFec, PktpfToKbps, PktToKbits, PsToPf

LEMMA Numbers ==
  \A v \in Nat : /\ AddFec(v) \in Nat /\ RemoveFec(v) \in Nat /\ PsToPf(v) \in Nat
                 /\ KbpsToPktpf(v) \in Nat /\ PktpfToKbps(v) \in Nat
                 /\ KbitsToPkt(v) \in Nat /\ PktToKbits(v) \in Nat
BY Conversions

(* Conversions keep the order of what they convert. *)
LEMMA DivIsMonotone ==
  ASSUME NEW a \in Nat, NEW b \in Nat, a <= b, NEW c \in Nat \ {0}
  PROVE  a \div c <= b \div c
<1>1. PICK p \in Nat, q \in Nat : p = a \div c /\ q = b \div c
  OBVIOUS
<1>2. p * c <= a /\ b < (q + 1) * c
  BY <1>1
<1>3. p * c < (q + 1) * c
  BY <1>2
<1>4. p < q + 1
  <2>1. ASSUME p >= q + 1 PROVE p * c >= (q + 1) * c
    BY <2>1
  <2> QED BY <1>3, <2>1
<1> QED BY <1>1, <1>4

LEMMA LessFits ==
  ASSUME NEW y \in Rates, NEW x \in Nat, x <= y
  PROVE  x \in Rates
<1>1. y \in Nat /\ Fits(y)
  BY DEF Rates
<1>2. PICK f \in Nat, g \in Nat : f = AddFec(x) /\ g = AddFec(y)
  BY <1>1, Conversions
<1>3. f <= g
  <2>1. x * Den \in Nat /\ y * Den \in Nat /\ x * Den <= y * Den
    BY <1>1, Constants
  <2> QED BY <1>2, <2>1, Constants, DivIsMonotone DEF AddFec
<1>4. PICK m \in Nat, n \in Nat : m = KbpsToPktpf(f) /\ n = KbpsToPktpf(g)
  <2>1. KbpsToPktpf(f) \in Nat /\ KbpsToPktpf(g) \in Nat
    BY Numbers
  <2> QED BY <2>1
<1>5. m <= n
  <2>1. f * FrameMs <= g * FrameMs /\ f * FrameMs \in Nat /\ g * FrameMs \in Nat
    BY <1>3, Constants
  <2>2. /\ f * FrameMs + SlotBits - 1 \in Nat /\ g * FrameMs + SlotBits - 1 \in Nat
        /\ f * FrameMs + SlotBits - 1 <= g * FrameMs + SlotBits - 1
    BY <2>1, Constants
  <2>3. \A u, w \in Nat : u <= w => u \div SlotBits <= w \div SlotBits
    BY Constants, DivIsMonotone
  <2> QED BY <1>4, <2>2, <2>3 DEF KbpsToPktpf, CeilDiv
<1>6. Len(Tals) * m <= Len(Tals) * n /\ Len(Tals) \in Nat
  BY <1>5, TalsAreTerminals DEF N
<1>7. g < Word /\ Len(Tals) * n < Word
  BY <1>1, <1>2, <1>4 DEF Fits
<1>8. f < Word /\ Len(Tals) * m < Word
  BY <1>3, <1>6, <1>7, Constants
<1> QED BY <1>2, <1>4, <1>8 DEF Rates, Fits

(* Rates and volumes that make up for s slots at the coding rate. *)
Covered(v, r, s) == (v * 1000 + r * FrameMs) * Den >= s * SlotBits * Num

LEMMA RateCovers ==
  ASSUME NEW s \in Nat
  PROVE  /\ RemoveFec(PktpfToKbps(s)) \in Nat /\ Covered(0, RemoveFec(PktpfToKbps(s)), s)
         /\ RemoveFec(PktToKbits(s)) \in Nat /\ Covered(RemoveFec(PktToKbits(s)), 0, s)
<1>1. ASSUME NEW v \in Nat, NEW m \in Nat, v * m >= s * SlotBits
      PROVE  RemoveFec(v) \in Nat /\ RemoveFec(v) * m * Den >= s * SlotBits * Num
  <2> DEFINE r == RemoveFec(v)
  <2>1. r \in Nat /\ r * Den >= v * Num
    BY Conversions
  <2> HIDE DEF r
  <2>2. (r * Den) * m >= (v * Num) * m
    BY <2>1, Constants
  <2>3. (v * m) * Num >= s * SlotBits * Num
    BY <1>1, Constants
  <2>4. (r * Den) * m = r * m * Den /\ (v * Num) * m = (v * m) * Num
    BY <2>1, Constants
  <2>5. r * m * Den >= s * SlotBits * Num
    BY <2>2, <2>3, <2>4, <2>1, Constants
  <2> QED BY <2>1, <2>5 DEF r
<1>2. /\ PktpfToKbps(s) \in Nat /\ PktpfToKbps(s) * FrameMs >= s * SlotBits
      /\ PktToKbits(s) \in Nat /\ PktToKbits(s) * 1000 >= s * SlotBits
  BY Conversions
<1>3. FrameMs \in Nat /\ 1000 \in Nat
  BY Constants
<1>4. /\ RemoveFec(PktpfToKbps(s)) \in Nat
      /\ RemoveFec(PktpfToKbps(s)) * FrameMs * Den >= s * SlotBits * Num
      /\ RemoveFec(PktToKbits(s)) \in Nat
      /\ RemoveFec(PktToKbits(s)) * 1000 * Den >= s * SlotBits * Num
  BY <1>1, <1>2, <1>3
<1>5. ASSUME NEW x \in Nat
      PROVE  /\ x * FrameMs * Den >= s * SlotBits * Num => Covered(0, x, s)
             /\ x * 1000 * Den >= s * SlotBits * Num => Covered(x, 0, s)
  <2>1. 0 * 1000 + x * FrameMs = x * FrameMs /\ x * 1000 + 0 * FrameMs = x * 1000
    BY <1>3
  <2> QED BY <2>1 DEF Covered
<1>6. PICK r \in Nat, v \in Nat :
        /\ r = RemoveFec(PktpfToKbps(s)) /\ r * FrameMs * Den >= s * SlotBits * Num
        /\ v = RemoveFec(PktToKbits(s)) /\ v * 1000 * Den >= s * SlotBits * Num
  BY <1>4
<1>7. Covered(0, r, s) /\ Covered(v, 0, s)
  BY <1>5, <1>6
<1> QED BY <1>6, <1>7

LEMMA CoveredMore ==
  ASSUME NEW v \in Nat, NEW r \in Nat, NEW s \in Nat, NEW x \in Nat, NEW y \in Nat, NEW m \in Nat,
         Covered(v, r, s), Covered(x, y, m)
  PROVE  Covered(v + x, r + y, s + m)
<1>1. (s + m) * SlotBits * Num = s * SlotBits * Num + m * SlotBits * Num
  BY Constants
<1>2. (v + x) * 1000 + (r + y) * FrameMs = (v * 1000 + r * FrameMs) + (x * 1000 + y * FrameMs)
  BY Constants
<1>3. PICK a \in Nat, b \in Nat : a = v * 1000 + r * FrameMs /\ b = x * 1000 + y * FrameMs
  BY Constants
<1>4. PICK c \in Nat, d \in Nat : c = s * SlotBits * Num /\ d = m * SlotBits * Num
  BY Constants
<1>5. a * Den >= c /\ b * Den >= d
  BY <1>3, <1>4 DEF Covered
<1>6. (a + b) * Den = a * Den + b * Den /\ a * Den \in Nat /\ b * Den \in Nat
  BY Constants
<1>7. (a + b) * Den >= c + d
  BY <1>5, <1>6
<1> QED BY <1>1, <1>2, <1>3, <1>4, <1>7 DEF Covered

-----------------------------------------------------------------------------
(* What is true between the steps of a pass: no slot is lost or given      *)
(* twice, and each terminal has the rates and volumes of its slots.        *)

Acc == [left : 0 .. Capacity, c : [Terminals -> Context], slots : [Terminals -> Nat],
        cra : [Terminals -> Nat], rbdc : [Terminals -> Nat], fca : [Terminals -> Nat],
        vbdc : [Terminals -> Nat], room : BOOLEAN]

Rate(a, t) == a.cra[t] + a.rbdc[t] + a.fca[t]

Sound(a) == /\ a \in Acc
            /\ a.left + SumOver(a.slots) = Capacity
            /\ \A t \in Terminals : /\ a.c[t].vbdc <= MaxVbdc[t]
                                    /\ Covered(a.vbdc[t], Rate(a, t), a.slots[t])

LEMMA AccTypes ==
  ASSUME NEW a \in Acc
  PROVE  /\ a.left \in 0 .. Capacity /\ a.left \in Nat /\ a.left < Word
         /\ a.c \in [Terminals -> Context] /\ a.slots \in [Terminals -> Nat]
         /\ a.cra \in [Terminals -> Nat] /\ a.rbdc \in [Terminals -> Nat]
         /\ a.fca \in [Terminals -> Nat] /\ a.vbdc \in [Terminals -> Nat]
<1>1. a.left \in 0 .. Capacity /\ a.left \in Nat /\ a.left < Word
  BY Constants DEF Acc
<1> QED BY <1>1 DEF Acc

(* b is a after m slots were given to t, for a volume x and a rate y. *)
Given(a, b, t, m, x, y) ==
  /\ t \in Terminals /\ m \in 0 .. a.left
  /\ x \in Nat /\ y \in Nat /\ Covered(x, y, m)
  /\ b \in Acc /\ b.left = a.left - m /\ b.slots = [a.slots EXCEPT ![t] = @ + m]
  /\ b.vbdc[t] = a.vbdc[t] + x /\ Rate(b, t) = Rate(a, t) + y
  /\ \A u \in Terminals \ {t} : b.vbdc[u] = a.vbdc[u] /\ Rate(b, u) = Rate(a, u)
  /\ \A u \in Terminals : b.c[u].vbdc <= MaxVbdc[u]

LEMMA GivenIsSound ==
  ASSUME NEW a, NEW b, NEW t, NEW m, NEW x, NEW y, Sound(a), Given(a, b, t, m, x, y)
  PROVE  Sound(b)
<1> USE DEF Given
<1>1. a \in Acc /\ a.slots \in [Terminals -> Nat] /\ a.left \in 0 .. Capacity /\ Capacity \in Nat
  BY Constants DEF Sound, Acc
<1>2. SumOver(b.slots) = SumOver(a.slots) + m /\ SumOver(a.slots) \in Nat
  BY <1>1, SumMore, SumType
<1>3. b.left + SumOver(b.slots) = Capacity
  BY <1>1, <1>2 DEF Sound
<1>4. ASSUME NEW u \in Terminals PROVE Rate(a, u) \in Nat /\ a.vbdc[u] \in Nat /\ a.slots[u] \in Nat
  BY <1>1 DEF Acc, Rate
<1>5. ASSUME NEW u \in Terminals PROVE Covered(b.vbdc[u], Rate(b, u), b.slots[u])
  <2>1. CASE u = t
    <3>1. PICK v \in Nat, r \in Nat, s \in Nat :
             v = a.vbdc[t] /\ r = Rate(a, t) /\ s = a.slots[t] /\ Covered(v, r, s)
      BY <1>4 DEF Sound
    <3>2. Covered(v + x, r + y, s + m)
      <4>1. m \in Nat
        BY <1>1
      <4> QED BY <3>1, <4>1, CoveredMore
    <3>3. b.slots[t] = a.slots[t] + m
      BY <1>1
    <3> QED BY <2>1, <3>1, <3>2, <3>3
  <2>2. CASE u # t
    <3>1. b.slots[u] = a.slots[u]
      BY <1>1, <2>2
    <3> QED BY <2>2, <3>1 DEF Sound
  <2> QED BY <2>1, <2>2
<1> QED BY <1>3, <1>5 DEF Sound

LEMMA GiveGives ==
  ASSUME NEW a \in Acc, NEW t \in Terminals, NEW m \in 0 .. a.left
  PROVE  LET g == Give(a, t, m)
         IN /\ g \in Acc
            /\ g.left = a.left - m /\ g.slots = [a.slots EXCEPT ![t] = @ + m] /\ g.c = a.c
            /\ g.cra = a.cra /\ g.rbdc = a.rbdc /\ g.fca = a.fca /\ g.vbdc = a.vbdc
<1> DEFINE x == (a.left - m) % Word
           f == [a.slots EXCEPT ![t] = @ + m]
           g == [a EXCEPT !.left = (@ - m) % Word, !.slots[t] = @ + m]
<1>1. a.left - m \in 0 .. Capacity /\ a.left - m \in 0 .. Word - 1 /\ Word \in Nat \ {0} /\ m \in Nat
  BY AccTypes, Constants
<1>2. x = a.left - m
  BY <1>1
<1>3. f \in [Terminals -> Nat]
  BY <1>1, AccTypes
<1>4. /\ g.left = x /\ g.slots = f /\ g.c = a.c
      /\ g.cra = a.cra /\ g.rbdc = a.rbdc /\ g.fca = a.fca /\ g.vbdc = a.vbdc
  BY DEF Acc
<1>5. g \in Acc
  <2>1. x \in 0 .. Capacity
    BY <1>1, <1>2
  <2> HIDE DEF x
  <2>2. g = [a EXCEPT !.left = x, !.slots = f]
    BY DEF x, Acc
  <2> HIDE DEF f, g
  <2> QED BY <1>3, <2>1, <2>2 DEF Acc
<1> QED BY <1>2, <1>4, <1>5 DEF Give

LEMMA CraStepIsSound ==
  ASSUME NEW a, Sound(a), NEW t \in Terminals, a.cra[t] = 0
  PROVE  LET b == CraStep(a, t)
         IN /\ Sound(b) /\ b.rbdc = a.rbdc /\ b.fca = a.fca /\ b.vbdc = a.vbdc
            /\ \A u \in Terminals \ {t} : b.cra[u] = a.cra[u]
<1> DEFINE m == KbpsToPktpf(AddFec(a.c[t].cra))
           y == RemoveFec(PktpfToKbps(m))
           g == Give(a, t, m)
           b == [g EXCEPT !.cra[t] = y]
<1>1. a \in Acc /\ a.c[t].cra \in Nat /\ a.left \in Nat
  BY Constants DEF Sound, Acc, Context
<1>2. m \in Nat
  <2>1. AddFec(a.c[t].cra) \in Nat
    BY <1>1, Numbers
  <2> QED BY <2>1, Numbers
<1>3. CASE a.left < m
  BY <1>3 DEF CraStep
<1>4. CASE ~(a.left < m)
  <2>1. m \in 0 .. a.left
    BY <1>1, <1>2, <1>4
  <2> HIDE DEF m
  <2>2. y \in Nat /\ Covered(0, y, m)
    BY <1>2, RateCovers
  <2> HIDE DEF y
  <2>3. /\ g \in Acc
        /\ g.left = a.left - m /\ g.slots = [a.slots EXCEPT ![t] = @ + m] /\ g.c = a.c
        /\ g.cra = a.cra /\ g.rbdc = a.rbdc /\ g.fca = a.fca /\ g.vbdc = a.vbdc
    BY <1>1, <2>1, GiveGives
  <2> HIDE DEF g
  <2>4. /\ b \in Acc /\ b.left = a.left - m /\ b.slots = [a.slots EXCEPT ![t] = @ + m]
        /\ b.cra = [a.cra EXCEPT ![t] = y]
        /\ b.rbdc = a.rbdc /\ b.fca = a.fca /\ b.vbdc = a.vbdc /\ b.c = a.c
    BY <1>1, <2>2, <2>3 DEF Acc
  <2> HIDE DEF b
  <2>5. Rate(b, t) = Rate(a, t) + y /\ \A u \in Terminals \ {t} : Rate(b, u) = Rate(a, u)
    BY <1>1, <2>2, <2>4 DEF Rate, Acc
  <2>6. b.vbdc[t] = a.vbdc[t] + 0
    BY <1>1, <2>4 DEF Acc
  <2>7. Given(a, b, t, m, 0, y)
    <3>1. \A u \in Terminals : b.c[u].vbdc <= MaxVbdc[u]
      BY <2>4 DEF Sound
    <3>2. 0 \in Nat /\ \A u \in Terminals \ {t} : b.vbdc[u] = a.vbdc[u]
      BY <2>4
    <3> QED BY <2>1, <2>2, <2>4, <2>5, <2>6, <3>1, <3>2 DEF Given
  <2>8. CraStep(a, t) = b
    BY <1>4 DEF CraStep, b, g, y, m
  <2>9. \A u \in Terminals \ {t} : b.cra[u] = a.cra[u]
    BY <1>1, <2>4 DEF Acc
  <2> QED BY <2>4, <2>7, <2>8, <2>9, GivenIsSound
<1> QED BY <1>3, <1>4

LEMMA NewCredit ==
  ASSUME NEW c \in [Terminals -> Context], NEW t \in Terminals, NEW v \in 0 .. MaxCredit
  PROVE  LET d == [c EXCEPT ![t].credit = v]
         IN d \in [Terminals -> Context] /\ \A u \in Terminals : d[u].vbdc = c[u].vbdc
BY DEF Context

LEMMA RestIsNumber ==
  ASSUME NEW asked \in Nat, NEW total \in Nat \ {0}, NEW left \in Nat
  PROVE  Rest(asked, total, left) \in Nat
<1>1. asked * left \in Nat
  OBVIOUS
<1>2. (asked * left) % total \in Nat
  BY <1>1
<1>3. ASSUME NEW r \in Nat PROVE (r * SlotBits * Den * Grain) \div (total * FrameMs * Num) \in Nat
  <2>1. r * SlotBits * Den * Grain \in Nat
    BY Constants
  <2>2. total * FrameMs * Num \in Nat \ {0}
    <3>1. total * FrameMs \in Nat \ {0}
      BY Constants
    <3> QED BY <3>1, Constants
  <2> QED BY <2>1, <2>2
<1> QED BY <1>2, <1>3 DEF Rest

LEMMA FairStepIsSound ==
  ASSUME NEW a, Sound(a), NEW t \in Terminals, a.rbdc[t] = 0,
         NEW asked \in Nat, NEW total \in Nat \ {0}, NEW left \in Nat,
         Fair(asked, total, left) \in 0 .. a.left
  PROVE  LET b == FairStep(a, t, asked, total, left)
         IN /\ Sound(b) /\ b.left = a.left - Fair(asked, total, left)
            /\ b.fca = a.fca /\ b.vbdc = a.vbdc
            /\ \A u \in Terminals \ {t} : b.rbdc[u] = a.rbdc[u]
<1> DEFINE m == Fair(asked, total, left)
           y == RemoveFec(PktpfToKbps(m))
           g == Give(a, t, m)
           v == Smaller(a.c[t].credit + Rest(asked, total, left), MaxCredit)
           b == [g EXCEPT !.rbdc[t] = y, !.c[t].credit = v]
<1>1. a \in Acc /\ a.c \in [Terminals -> Context] /\ a.left \in Nat /\ a.rbdc \in [Terminals -> Nat]
  BY AccTypes DEF Sound
<1>2. v \in 0 .. MaxCredit
  <2>1. a.c[t].credit \in Nat
    BY <1>1, Constants DEF Context
  <2>2. Rest(asked, total, left) \in Nat
    BY RestIsNumber
  <2> QED BY <2>1, <2>2, Constants DEF Smaller
<1> HIDE DEF v
<1>3. m \in 0 .. a.left /\ m \in Nat
  BY <1>1
<1> HIDE DEF m
<1>4. y \in Nat /\ Covered(0, y, m)
  BY <1>3, RateCovers
<1> HIDE DEF y
<1>5. /\ g \in Acc
      /\ g.left = a.left - m /\ g.slots = [a.slots EXCEPT ![t] = @ + m] /\ g.c = a.c
      /\ g.cra = a.cra /\ g.rbdc = a.rbdc /\ g.fca = a.fca /\ g.vbdc = a.vbdc
  BY <1>1, <1>3, GiveGives
<1> HIDE DEF g
<1>6. /\ b.left = a.left - m /\ b.slots = [a.slots EXCEPT ![t] = @ + m]
      /\ b.rbdc = [a.rbdc EXCEPT ![t] = y] /\ b.c = [a.c EXCEPT ![t].credit = v]
      /\ b.cra = a.cra /\ b.fca = a.fca /\ b.vbdc = a.vbdc
  BY <1>5 DEF Acc
<1> HIDE DEF b
<1>7. b.c \in [Terminals -> Context] /\ \A u \in Terminals : b.c[u].vbdc = a.c[u].vbdc
  BY <1>1, <1>2, <1>6, NewCredit
<1>8. b \in Acc
  <2>1. b.rbdc \in [Terminals -> Nat]
    BY <1>1, <1>4, <1>6
  <2>2. b = [g EXCEPT !.rbdc = b.rbdc, !.c = b.c]
    BY <1>5 DEF b, Acc
  <2>3. ASSUME NEW f \in [Terminals -> Nat], NEW c \in [Terminals -> Context]
        PROVE  [g EXCEPT !.rbdc = f, !.c = c] \in Acc
    BY <1>5 DEF Acc
  <2> QED BY <1>7, <2>1, <2>2, <2>3
<1>9. Rate(b, t) = Rate(a, t) + y /\ \A u \in Terminals \ {t} : Rate(b, u) = Rate(a, u)
  BY <1>1, <1>4, <1>6, AccTypes DEF Rate
<1>10. Given(a, b, t, m, 0, y)
  <2>1. \A u \in Terminals : b.c[u].vbdc <= MaxVbdc[u]
    BY <1>7 DEF Sound
  <2>2. b.vbdc[t] = a.vbdc[t] + 0 /\ 0 \in Nat /\ \A u \in Terminals \ {t} : b.vbdc[u] = a.vbdc[u]
    BY <1>1, <1>6, AccTypes
  <2> QED BY <1>3, <1>4, <1>6, <1>8, <1>9, <2>1, <2>2 DEF Given
<1>11. FairStep(a, t, asked, total, left) = b
  BY <1>5 DEF FairStep, b, g, y, m, v
<1>12. \A u \in Terminals \ {t} : b.rbdc[u] = a.rbdc[u]
  BY <1>1, <1>6
<1> QED BY <1>6, <1>10, <1>11, <1>12, GivenIsSound DEF m

LEMMA CreditStepIsSound ==
  ASSUME NEW a, Sound(a), NEW t \in Terminals
  PROVE  LET b == CreditStep(a, t)
         IN Sound(b) /\ b.fca = a.fca /\ b.vbdc = a.vbdc
<1> DEFINE g == Give(a, t, 1)
           v == a.c[t].credit - SlotKbps * Grain
           b == [g EXCEPT !.rbdc[t] = @ + SlotKbps, !.c[t].credit = @ - SlotKbps * Grain]
<1>1. a \in Acc /\ a.c \in [Terminals -> Context] /\ a.left \in Nat /\ a.rbdc \in [Terminals -> Nat]
  BY AccTypes DEF Sound
<1>2. SlotKbps \in Nat /\ Covered(0, SlotKbps, 1)
  BY RateCovers DEF SlotKbps
<1>3. CASE ~(a.left > 0 /\ a.c[t].credit > SlotKbps * Grain)
  BY <1>3 DEF CreditStep
<1>4. CASE ~(a.c[t].max_rbdc - a.rbdc[t] - a.cra[t] > SlotKbps)
  BY <1>4 DEF CreditStep
<1>5. CASE /\ a.left > 0 /\ a.c[t].credit > SlotKbps * Grain
           /\ a.c[t].max_rbdc - a.rbdc[t] - a.cra[t] > SlotKbps
  <2>1. v \in 0 .. MaxCredit
    <3>1. a.c[t].credit \in 0 .. MaxCredit
      BY <1>1 DEF Context
    <3>2. SlotKbps * Grain \in Nat
      BY <1>2, Constants
    <3> QED BY <1>5, <3>1, <3>2, Constants
  <2>2. 1 \in 0 .. a.left
    BY <1>1, <1>5
  <2>3. /\ g \in Acc
        /\ g.left = a.left - 1 /\ g.slots = [a.slots EXCEPT ![t] = @ + 1] /\ g.c = a.c
        /\ g.cra = a.cra /\ g.rbdc = a.rbdc /\ g.fca = a.fca /\ g.vbdc = a.vbdc
    BY <1>1, <2>2, GiveGives
  <2> HIDE DEF g
  <2>4. /\ b.left = a.left - 1 /\ b.slots = [a.slots EXCEPT ![t] = @ + 1]
        /\ b.rbdc = [a.rbdc EXCEPT ![t] = @ + SlotKbps] /\ b.c = [a.c EXCEPT ![t].credit = v]
        /\ b.cra = a.cra /\ b.fca = a.fca /\ b.vbdc = a.vbdc
    BY <1>1, <2>3 DEF Acc
  <2> HIDE DEF b, v
  <2>5. b.c \in [Terminals -> Context] /\ \A u \in Terminals : b.c[u].vbdc = a.c[u].vbdc
    BY <1>1, <2>1, <2>4, NewCredit
  <2>6. b \in Acc
    <3>1. b.rbdc \in [Terminals -> Nat]
      BY <1>1, <1>2, <2>4
    <3>2. b = [g EXCEPT !.rbdc = b.rbdc, !.c = b.c]
      BY <2>3 DEF b, Acc
    <3>3. ASSUME NEW f \in [Terminals -> Nat], NEW c \in [Terminals -> Context]
          PROVE  [g EXCEPT !.rbdc = f, !.c = c] \in Acc
      BY <2>3 DEF Acc
    <3> QED BY <2>5, <3>1, <3>2, <3>3
  <2>7. Rate(b, t) = Rate(a, t) + SlotKbps /\ \A u \in Terminals \ {t} : Rate(b, u) = Rate(a, u)
    BY <1>1, <1>2, <2>4, AccTypes DEF Rate
  <2>8. Given(a, b, t, 1, 0, SlotKbps)
    <3>1. \A u \in Terminals : b.c[u].vbdc <= MaxVbdc[u]
      BY <2>5 DEF Sound
    <3>2. b.vbdc[t] = a.vbdc[t] + 0 /\ 0 \in Nat /\ \A u \in Terminals \ {t} : b.vbdc[u] = a.vbdc[u]
      BY <1>1, <2>4, AccTypes
    <3> QED BY <1>2, <2>2, <2>4, <2>6, <2>7, <3>1, <3>2 DEF Given
  <2>9. CreditStep(a, t) = b
    BY <1>5 DEF CreditStep, b, g
  <2> QED BY <2>4, <2>8, <2>9, GivenIsSound
<1> QED BY <1>3, <1>4, <1>5

LEMMA NewVolume ==
  ASSUME NEW c \in [Terminals -> Context], NEW t \in Terminals, NEW v \in Nat
  PROVE  LET d == [c EXCEPT ![t].vbdc = v]
         IN /\ d \in [Terminals -> Context] /\ d[t].vbdc = v
            /\ \A u \in Terminals \ {t} : d[u].vbdc = c[u].vbdc
BY DEF Context

LEMMA VbdcStepIsSound ==
  ASSUME NEW a, Sound(a), NEW t \in Terminals, a.vbdc[t] = 0
  PROVE  LET b == VbdcStep(a, t)
         IN /\ Sound(b) /\ b.fca = a.fca
            /\ \A u \in Terminals \ {t} : b.vbdc[u] = a.vbdc[u]
<1> DEFINE asked == KbitsToPkt(AddFec(a.c[t].vbdc))
           m == Part(asked, a.left)
           x == RemoveFec(PktToKbits(m))
           g == Give(a, t, m)
           v == Larger(a.c[t].vbdc - x, 0)
           b == [g EXCEPT !.vbdc[t] = x, !.c[t].vbdc = Larger(@ - x, 0)]
<1>1. /\ a \in Acc /\ a.c \in [Terminals -> Context] /\ a.left \in Nat /\ a.vbdc \in [Terminals -> Nat]
      /\ a.c[t].vbdc \in Nat /\ a.c[t].vbdc <= MaxVbdc[t]
  <2>1. a \in Acc /\ a.c \in [Terminals -> Context] /\ a.left \in Nat /\ a.vbdc \in [Terminals -> Nat]
    BY AccTypes DEF Sound
  <2> QED BY <2>1 DEF Sound, Context
<1>2. m \in 0 .. a.left /\ m \in Nat
  <2>1. AddFec(a.c[t].vbdc) \in Nat
    BY <1>1, Numbers
  <2>2. asked \in Nat
    BY <2>1, Numbers
  <2> HIDE DEF asked
  <2> QED BY <1>1, <2>2 DEF Part, Smaller
<1> HIDE DEF m
<1>3. x \in Nat /\ Covered(x, 0, m)
  BY <1>2, RateCovers
<1> HIDE DEF x
<1>4. v \in Nat /\ v <= MaxVbdc[t]
  BY <1>1, <1>3, Constants DEF Larger
<1>5. CASE m = 0
  BY <1>5 DEF VbdcStep, m
<1>6. CASE m # 0
  <2>1. /\ g \in Acc
        /\ g.left = a.left - m /\ g.slots = [a.slots EXCEPT ![t] = @ + m] /\ g.c = a.c
        /\ g.cra = a.cra /\ g.rbdc = a.rbdc /\ g.fca = a.fca /\ g.vbdc = a.vbdc
    BY <1>1, <1>2, GiveGives
  <2> HIDE DEF g
  <2>2. /\ b.left = a.left - m /\ b.slots = [a.slots EXCEPT ![t] = @ + m]
        /\ b.vbdc = [a.vbdc EXCEPT ![t] = x] /\ b.c = [a.c EXCEPT ![t].vbdc = v]
        /\ b.cra = a.cra /\ b.fca = a.fca /\ b.rbdc = a.rbdc
    BY <1>1, <2>1 DEF Acc
  <2> HIDE DEF b, v
  <2>3. /\ b.c \in [Terminals -> Context] /\ b.c[t].vbdc = v
        /\ \A u \in Terminals \ {t} : b.c[u].vbdc = a.c[u].vbdc
    BY <1>1, <1>4, <2>2, NewVolume
  <2>4. b \in Acc
    <3>1. b.vbdc \in [Terminals -> Nat]
      BY <1>1, <1>3, <2>2
    <3>2. b = [g EXCEPT !.vbdc = b.vbdc, !.c = b.c]
      BY <2>1 DEF b, Acc
    <3>3. ASSUME NEW f \in [Terminals -> Nat], NEW c \in [Terminals -> Context]
          PROVE  [g EXCEPT !.vbdc = f, !.c = c] \in Acc
      BY <2>1 DEF Acc
    <3> QED BY <2>3, <3>1, <3>2, <3>3
  <2>5. Rate(b, t) = Rate(a, t) + 0 /\ \A u \in Terminals \ {t} : Rate(b, u) = Rate(a, u)
    BY <1>1, <2>2, AccTypes DEF Rate
  <2>6. Given(a, b, t, m, x, 0)
    <3>1. \A u \in Terminals : b.c[u].vbdc <= MaxVbdc[u]
      BY <1>4, <2>3 DEF Sound
    <3>2. b.vbdc[t] = a.vbdc[t] + x /\ 0 \in Nat /\ \A u \in Terminals \ {t} : b.vbdc[u] = a.vbdc[u]
      BY <1>1, <1>3, <2>2
    <3> QED BY <1>2, <1>3, <2>2, <2>4, <2>5, <3>1, <3>2 DEF Given
  <2>7. VbdcStep(a, t) = b
    BY <1>6 DEF VbdcStep, b, g, x, m
  <2>8. \A u \in Terminals \ {t} : b.vbdc[u] = a.vbdc[u]
    BY <1>1, <2>2
  <2> QED BY <2>2, <2>6, <2>7, <2>8, GivenIsSound
<1> QED BY <1>5, <1>6

LEMMA FcaStepIsSound ==
  ASSUME NEW a, Sound(a), NEW t \in Terminals, a.fca[t] = 0
  PROVE  LET b == FcaStep(a, t)
         IN Sound(b) /\ \A u \in Terminals \ {t} : b.fca[u] = a.fca[u]
<1> DEFINE m == Smaller(KbpsToPktpf(AddFec(Fca)), a.left)
           y == RemoveFec(PktpfToKbps(m))
           g == Give(a, t, m)
           b == [g EXCEPT !.fca[t] = y]
<1>1. a \in Acc /\ a.left \in Nat /\ a.fca \in [Terminals -> Nat]
  BY AccTypes DEF Sound
<1>2. m \in 0 .. a.left /\ m \in Nat
  <2>1. AddFec(Fca) \in Nat
    BY Constants, Numbers
  <2>2. KbpsToPktpf(AddFec(Fca)) \in Nat
    BY <2>1, Numbers
  <2> QED BY <1>1, <2>2 DEF Smaller
<1> HIDE DEF m
<1>3. y \in Nat /\ Covered(0, y, m)
  BY <1>2, RateCovers
<1> HIDE DEF y
<1>4. CASE a.left = 0
  BY <1>4 DEF FcaStep
<1>5. CASE a.left # 0
  <2>1. /\ g \in Acc
        /\ g.left = a.left - m /\ g.slots = [a.slots EXCEPT ![t] = @ + m] /\ g.c = a.c
        /\ g.cra = a.cra /\ g.rbdc = a.rbdc /\ g.fca = a.fca /\ g.vbdc = a.vbdc
    BY <1>1, <1>2, GiveGives
  <2> HIDE DEF g
  <2>2. /\ b \in Acc /\ b.left = a.left - m /\ b.slots = [a.slots EXCEPT ![t] = @ + m]
        /\ b.fca = [a.fca EXCEPT ![t] = y] /\ b.c = a.c
        /\ b.cra = a.cra /\ b.vbdc = a.vbdc /\ b.rbdc = a.rbdc
    BY <1>1, <1>3, <2>1 DEF Acc
  <2> HIDE DEF b
  <2>3. Rate(b, t) = Rate(a, t) + y /\ \A u \in Terminals \ {t} : Rate(b, u) = Rate(a, u)
    BY <1>1, <1>3, <2>2, AccTypes DEF Rate
  <2>4. Given(a, b, t, m, 0, y)
    <3>1. \A u \in Terminals : b.c[u].vbdc <= MaxVbdc[u]
      BY <2>2 DEF Sound
    <3>2. b.vbdc[t] = a.vbdc[t] + 0 /\ 0 \in Nat /\ \A u \in Terminals \ {t} : b.vbdc[u] = a.vbdc[u]
      BY <1>1, <2>2, AccTypes
    <3> QED BY <1>2, <1>3, <2>2, <2>3, <3>1, <3>2 DEF Given
  <2>5. FcaStep(a, t) = b
    BY <1>5 DEF FcaStep, b, g, y, m
  <2>6. \A u \in Terminals \ {t} : b.fca[u] = a.fca[u]
    BY <1>1, <2>2
  <2> QED BY <2>4, <2>5, <2>6, GivenIsSound
<1> QED BY <1>4, <1>5

-----------------------------------------------------------------------------
(* The passes                                                              *)

States == {a \in Acc : Sound(a)}
Zero == [t \in Terminals |-> 0]

(* CRA: what a terminal has is set once, from nothing. *)
LEMMA CraPassIsSound ==
  ASSUME NEW a, Sound(a), a.cra = Zero
  PROVE  LET b == CraPass(a) IN Sound(b)
            /\ b.rbdc = a.rbdc /\ b.fca = a.fca /\ b.vbdc = a.vbdc
<1> DEFINE I(i) == {x \in States : x.rbdc = a.rbdc /\ x.fca = a.fca /\ x.vbdc = a.vbdc
                                    /\ \A j \in i + 1 .. N : x.cra[Tals[j]] = 0}
           inv == [i \in 0 .. N |-> I(i)]
           step == [i \in 1 .. N |-> [x \in States |-> CraStep(x, Tals[i])]]
           pass[i \in 0 .. N] == IF i = 0 THEN a ELSE CraStep(pass[i - 1], Tals[i])
<1>1. ASSUME NEW i \in 1 .. N, NEW x \in I(i - 1) PROVE CraStep(x, Tals[i]) \in I(i)
  <2> DEFINE b == CraStep(x, Tals[i])
  <2>1. Sound(x) /\ Tals[i] \in Terminals /\ i \in i - 1 + 1 .. N
    BY TalsAreTerminals DEF States
  <2>2. x.cra[Tals[i]] = 0
    BY <2>1
  <2>3. /\ Sound(b) /\ b.rbdc = x.rbdc /\ b.fca = x.fca /\ b.vbdc = x.vbdc
        /\ \A u \in Terminals \ {Tals[i]} : b.cra[u] = x.cra[u]
    BY <2>1, <2>2, CraStepIsSound
  <2> HIDE DEF b
  <2>4. ASSUME NEW j \in i + 1 .. N PROVE b.cra[Tals[j]] = 0
    <3>1. Tals[j] \in Terminals \ {Tals[i]} /\ j \in i - 1 + 1 .. N
      BY TalsAreTerminals
    <3> QED BY <2>3, <3>1
  <2> QED BY <2>3, <2>4 DEF States, Sound, b
<1>2. inv \in [0 .. N -> SUBSET States] /\ N \in Nat /\ \A i \in 0 .. N : inv[i] = I(i)
  BY TalsAreTerminals
<1>3. a \in inv[0]
  <2>1. a \in I(0)
    BY TalsAreTerminals DEF Sound, States, Zero
  <2> QED BY <1>2, <2>1
<1>4. \A i \in 1 .. N : \A x \in inv[i - 1] : x \in States /\ CraStep(x, Tals[i]) \in inv[i]
  <2> SUFFICES ASSUME NEW i \in 1 .. N, NEW x \in inv[i - 1]
               PROVE  x \in States /\ CraStep(x, Tals[i]) \in inv[i]
    OBVIOUS
  <2>1. x \in I(i - 1) /\ inv[i] = I(i)
    BY <1>2
  <2>2. CraStep(x, Tals[i]) \in I(i)
    BY <1>1, <2>1
  <2> QED BY <2>1, <2>2
<1> HIDE DEF inv, I
<1>5. \A i \in 1 .. N : \A x \in inv[i - 1] : step[i][x] = CraStep(x, Tals[i])
  BY <1>4
<1>6. PICK f \in [0 .. N -> States] : Loop(f, N, a, step) /\ Within(f, N, inv)
  <2>1. Leads(step, N, inv)
    BY <1>4, <1>5 DEF Leads
  <2> HIDE DEF step
  <2> QED BY <1>2, <1>3, <2>1, LoopExists
<1>7. f = [i \in 0 .. N |-> IF i = 0 THEN a ELSE CraStep(f[i - 1], Tals[i])]
  <2>1. f[0] = a /\ \A i \in 1 .. N : f[i] = step[i][f[i - 1]] /\ f[i - 1] \in inv[i - 1]
    <3>1. \A i \in 1 .. N : i - 1 \in 0 .. N
      BY <1>2
    <3> HIDE DEF step
    <3> QED BY <1>6, <3>1 DEF Loop, Within
  <2> HIDE DEF step
  <2>2. \A i \in 1 .. N : f[i] = CraStep(f[i - 1], Tals[i])
    BY <1>5, <2>1
  <2> QED BY <2>1, <2>2
<1>8. pass = [i \in 0 .. N |-> IF i = 0 THEN a ELSE CraStep(pass[i - 1], Tals[i])]
  BY <1>7
<1> HIDE DEF pass
<1>9. pass[N] \in inv[N]
  <2>1. pass[0] = a /\ \A i \in 1 .. N : pass[i] = CraStep(pass[i - 1], Tals[i])
    BY <1>2, <1>8
  <2>2. Within(pass, N, inv)
    BY <1>2, <1>3, <1>4, <2>1, LoopKeeps
  <2> QED BY <1>2, <2>2 DEF Within
<1>10. pass[N] \in I(N)
  BY <1>2, <1>9
<1>11. CraPass(a) = pass[N]
  BY DEF CraPass, pass, N
<1> QED BY <1>10, <1>11 DEF I, States

(* What the fair parts of the first requests, which add up to p, come to. *)
IsFair(given, p, total, left) ==
  IF total <= left THEN given = p ELSE given * total <= p * left

LEMMA FairFits ==
  ASSUME NEW left \in Nat, NEW total \in Nat \ {0}, NEW p \in Nat, NEW asked \in Nat,
         p + asked <= total, NEW given \in Nat, IsFair(given, p, total, left)
  PROVE  /\ Fair(asked, total, left) \in Nat
         /\ given + Fair(asked, total, left) <= left
         /\ IsFair(given + Fair(asked, total, left), p + asked, total, left)
<1>1. CASE total <= left
  BY <1>1 DEF IsFair, Fair
<1>2. CASE total > left
  <2> DEFINE m == (asked * left) \div total
  <2>1. asked * left \in Nat
    OBVIOUS
  <2>2. m \in Nat /\ m * total <= asked * left
    BY <2>1
  <2> HIDE DEF m
  <2>3. given * total <= p * left
    BY <1>2 DEF IsFair
  <2>4. (given + m) * total = given * total + m * total /\ (p + asked) * left = p * left + asked * left
    BY <2>2
  <2>5. /\ given * total \in Nat /\ m * total \in Nat
        /\ p * left \in Nat /\ (p + asked) * left <= total * left
    BY <2>2
  <2>6. (given + m) * total <= (p + asked) * left
    BY <2>1, <2>2, <2>3, <2>4, <2>5
  <2>7. (given + m) * total <= left * total
    BY <2>1, <2>2, <2>5, <2>6
  <2>8. given + m <= left
    BY <2>2, <2>7
  <2>9. Fair(asked, total, left) = m
    BY <1>2 DEF Fair, FairShare, m
  <2> QED BY <1>2, <2>2, <2>6, <2>8, <2>9 DEF IsFair
<1> QED BY <1>1, <1>2

(* The fair parts are no more than what is left, however they are rounded down. *)
LEMMA RbdcFairPassIsSound ==
  ASSUME NEW a, Sound(a), a.rbdc = Zero, NEW total \in Nat \ {0},
         total = SumOver([t \in Terminals |-> RbdcAsked(a, t)])
  PROVE  LET b == RbdcFairPass(a, total) IN Sound(b) /\ b.fca = a.fca /\ b.vbdc = a.vbdc
<1> DEFINE q == [t \in Terminals |-> RbdcAsked(a, t)]
           v == [i \in 1 .. N |-> q[Tals[i]]]
<1>a. a.left \in Nat /\ a.c \in [Terminals -> Context] /\ a \in Acc
  BY AccTypes DEF Sound
<1>b. q \in [Terminals -> Nat]
  <2> SUFFICES ASSUME NEW t \in Terminals PROVE RbdcAsked(a, t) \in Nat
    OBVIOUS
  <2>1. a.c[t].rbdc \in Nat
    BY <1>a DEF Context, Rates
  <2>2. AddFec(a.c[t].rbdc) \in Nat
    BY <2>1, Numbers
  <2> QED BY <2>2, Numbers DEF RbdcAsked
<1>c. \A i \in 1 .. N : v[i] = RbdcAsked(a, Tals[i]) /\ v[i] \in Nat
  BY <1>b, TalsAreTerminals
<1> HIDE DEF q
<1>d. PICK p \in [0 .. N -> Nat] : Sums(p, N, v) /\ p[N] = total
  BY <1>b, SumIsLoop DEF q
<1> HIDE DEF v
<1> DEFINE I(i) == {x \in States : x.fca = a.fca /\ x.vbdc = a.vbdc
                                    /\ (\A j \in i + 1 .. N : x.rbdc[Tals[j]] = 0)
                                    /\ a.left - x.left \in Nat
                                    /\ IsFair(a.left - x.left, p[i], total, a.left)}
           inv == [i \in 0 .. N |-> I(i)]
           step == [i \in 1 .. N |-> [x \in States |-> FairStep(x, Tals[i], v[i], total, a.left)]]
           pass[i \in 0 .. N] == IF i = 0 THEN a ELSE FairStep(pass[i - 1], Tals[i], RbdcAsked(a, Tals[i]), total, a.left)
<1>1. ASSUME NEW i \in 1 .. N, NEW x \in I(i - 1)
      PROVE  FairStep(x, Tals[i], v[i], total, a.left) \in I(i)
  <2> DEFINE b == FairStep(x, Tals[i], v[i], total, a.left)
             m == Fair(v[i], total, a.left)
             given == a.left - x.left
  <2>1. Sound(x) /\ Tals[i] \in Terminals /\ i \in i - 1 + 1 .. N /\ i - 1 \in 0 .. N /\ i \in 0 .. N
    BY TalsAreTerminals DEF States
  <2>2. x.rbdc[Tals[i]] = 0
    BY <2>1
  <2>3. x.left \in Nat /\ x.left = a.left - given /\ given \in Nat
    BY <1>a, <2>1, AccTypes, SMTT(30) DEF Sound
  <2>4. IsFair(given, p[i - 1], total, a.left)
    OBVIOUS
  <2> HIDE DEF given
  <2>5. v[i] \in Nat /\ p[i - 1] \in Nat /\ p[i] = p[i - 1] + v[i] /\ p[i] <= total
    <3>1. p[i] <= p[N]
      BY <1>c, <1>d, <2>1, TalsAreTerminals, SumsGrow
    <3> QED BY <1>c, <1>d, <2>1, <3>1 DEF Sums
  <2>6. m \in Nat /\ given + m <= a.left /\ IsFair(given + m, p[i], total, a.left)
    <3>1. PICK asked \in Nat, s \in Nat : asked = v[i] /\ s = p[i - 1] /\ s + asked <= total /\ p[i] = s + asked
      BY <2>5
    <3>2. /\ Fair(asked, total, a.left) \in Nat /\ given + Fair(asked, total, a.left) <= a.left
          /\ IsFair(given + Fair(asked, total, a.left), s + asked, total, a.left)
      BY <1>a, <2>3, <2>4, <3>1, FairFits
    <3> QED BY <3>1, <3>2
  <2> HIDE DEF m
  <2>7. m \in 0 .. x.left
    BY <1>a, <2>3, <2>6
  <2>8. /\ Sound(b) /\ b.left = x.left - m /\ b.fca = x.fca /\ b.vbdc = x.vbdc
        /\ \A u \in Terminals \ {Tals[i]} : b.rbdc[u] = x.rbdc[u]
    <3>1. Tals[i] \in Terminals /\ v[i] \in Nat /\ total \in Nat \ {0} /\ a.left \in Nat
          /\ Sound(x) /\ x.rbdc[Tals[i]] = 0
      BY <1>a, <2>1, <2>2, <2>5
    <3>2. PICK t \in Terminals, asked \in Nat : t = Tals[i] /\ asked = v[i]
      BY <3>1
    <3>3. Fair(asked, total, a.left) \in 0 .. x.left
      BY <2>7, <3>2 DEF m
    <3> HIDE DEF b
    <3>4. b = FairStep(x, t, asked, total, a.left) /\ m = Fair(asked, total, a.left)
      BY <3>2 DEF b, m
    <3>5. x \in States /\ x.rbdc[t] = 0
      BY <3>1, <3>2
    <3> HIDE DEF I
    <3>6. LET y == FairStep(x, t, asked, total, a.left)
          IN /\ Sound(y) /\ y.left = x.left - Fair(asked, total, a.left)
             /\ y.fca = x.fca /\ y.vbdc = x.vbdc
             /\ \A u \in Terminals \ {t} : y.rbdc[u] = x.rbdc[u]
      BY <3>1, <3>3, <3>5, FairStepIsSound, SMTT(30)
    <3>7. /\ Sound(b) /\ b.left = x.left - m /\ b.fca = x.fca /\ b.vbdc = x.vbdc
          /\ \A u \in Terminals \ {t} : b.rbdc[u] = x.rbdc[u]
      BY <3>4, <3>6, Zenon
    <3> QED BY <3>2, <3>7, Zenon
  <2> HIDE DEF b
  <2>9. ASSUME NEW j \in i + 1 .. N PROVE b.rbdc[Tals[j]] = 0
    <3>1. Tals[j] \in Terminals \ {Tals[i]} /\ j \in i - 1 + 1 .. N
      BY TalsAreTerminals
    <3> QED BY <2>8, <3>1
  <2>10. a.left - b.left = given + m
    BY <1>a, <2>3, <2>6, <2>8
  <2>11. b \in States
    BY <2>8 DEF States, Sound
  <2> QED BY <2>3, <2>6, <2>8, <2>9, <2>10, <2>11 DEF b
<1>2. inv \in [0 .. N -> SUBSET States] /\ N \in Nat /\ \A i \in 0 .. N : inv[i] = I(i)
  BY TalsAreTerminals
<1>3. a \in inv[0]
  <2>1. a \in I(0)
    <3>1. a \in States /\ a.left - a.left = 0 /\ p[0] = 0
      BY <1>a, <1>d DEF States, Sums
    <3>2. IsFair(0, 0, total, a.left)
      BY <1>a DEF IsFair
    <3>3. \A j \in 0 + 1 .. N : a.rbdc[Tals[j]] = 0
      BY TalsAreTerminals DEF Zero
    <3> QED BY <3>1, <3>2, <3>3
  <2> QED BY <1>2, <2>1
<1>4. \A i \in 1 .. N : \A x \in inv[i - 1] : x \in States /\ FairStep(x, Tals[i], v[i], total, a.left) \in inv[i]
  <2> SUFFICES ASSUME NEW i \in 1 .. N, NEW x \in inv[i - 1]
               PROVE  x \in States /\ FairStep(x, Tals[i], v[i], total, a.left) \in inv[i]
    OBVIOUS
  <2>1. x \in I(i - 1) /\ inv[i] = I(i)
    BY <1>2
  <2>2. FairStep(x, Tals[i], v[i], total, a.left) \in I(i)
    BY <1>1, <2>1
  <2> QED BY <2>1, <2>2
<1> HIDE DEF inv, I
<1>5. \A i \in 1 .. N : \A x \in inv[i - 1] : step[i][x] = FairStep(x, Tals[i], v[i], total, a.left)
  BY <1>4
<1>6. PICK f \in [0 .. N -> States] : Loop(f, N, a, step) /\ Within(f, N, inv)
  <2>1. Leads(step, N, inv)
    BY <1>4, <1>5 DEF Leads
  <2> HIDE DEF step
  <2> QED BY <1>2, <1>3, <2>1, LoopExists
<1>7. f = [i \in 0 .. N |->
             IF i = 0 THEN a ELSE FairStep(f[i - 1], Tals[i], RbdcAsked(a, Tals[i]), total, a.left)]
  <2>1. f[0] = a /\ \A i \in 1 .. N : f[i] = step[i][f[i - 1]] /\ f[i - 1] \in inv[i - 1]
    <3>1. \A i \in 1 .. N : i - 1 \in 0 .. N
      BY <1>2
    <3> HIDE DEF step
    <3> QED BY <1>6, <3>1 DEF Loop, Within
  <2> HIDE DEF step
  <2>2. \A i \in 1 .. N : f[i] = FairStep(f[i - 1], Tals[i], RbdcAsked(a, Tals[i]), total, a.left)
    BY <1>5, <1>c, <2>1
  <2> DEFINE h == [i \in 0 .. N |->
                    IF i = 0 THEN a ELSE FairStep(f[i - 1], Tals[i], RbdcAsked(a, Tals[i]), total, a.left)]
  <2>3. \A i \in 0 .. N : f[i] = h[i]
    <3> SUFFICES ASSUME NEW i \in 0 .. N PROVE f[i] = h[i]
      OBVIOUS
    <3>1. CASE i = 0
      BY <2>1, <3>1
    <3>2. CASE i # 0
      <4>1. i \in 1 .. N
        BY <1>2, <3>2
      <4> QED BY <2>2, <3>2, <4>1
    <3> QED BY <3>1, <3>2
  <2>4. f = [i \in 0 .. N |-> f[i]] /\ h = [i \in 0 .. N |-> h[i]]
    OBVIOUS
  <2> HIDE DEF h
  <2>5. f = h
    BY <2>3, <2>4, Zenon
  <2> QED BY <2>5 DEF h
<1>8. pass = [i \in 0 .. N |->
         IF i = 0 THEN a ELSE FairStep(pass[i - 1], Tals[i], RbdcAsked(a, Tals[i]), total, a.left)]
  BY <1>7
<1> HIDE DEF pass
<1>9. pass[N] \in inv[N]
  <2>1. pass[0] = a /\ \A i \in 1 .. N : pass[i] = FairStep(pass[i - 1], Tals[i], v[i], total, a.left)
    BY <1>2, <1>8, <1>c
  <2>2. Within(pass, N, inv)
    BY <1>2, <1>3, <1>4, <2>1, LoopKeeps
  <2> QED BY <1>2, <2>2 DEF Within
<1>10. pass[N] \in I(N)
  BY <1>2, <1>9
<1>11. RbdcFairPass(a, total) = pass[N]
  BY DEF RbdcFairPass, N, pass
<1> QED BY <1>10, <1>11 DEF I, States

LEMMA OrderOfTerminals ==
  ASSUME NEW a, Sound(a)
  PROVE  /\ ByCredit(a) \in [1 .. N -> Terminals]
         /\ \A i, j \in 1 .. N : ByCredit(a)[i] = ByCredit(a)[j] => i = j
         /\ ByVbdc(a) \in [1 .. N -> Terminals]
         /\ \A i, j \in 1 .. N : ByVbdc(a)[i] = ByVbdc(a)[j] => i = j
<1> DEFINE credit == [t \in Terminals |-> a.c[t].credit]
           vbdc == [t \in Terminals |-> a.c[t].vbdc]
<1>1. a.c \in [Terminals -> Context]
  BY AccTypes DEF Sound
<1>2. credit \in [Terminals -> Nat] /\ vbdc \in [Terminals -> Nat]
  BY <1>1, Constants DEF Context
<1>3. ByCredit(a) = SortedBy(credit) /\ ByVbdc(a) = SortedBy(vbdc)
  BY DEF ByCredit, ByVbdc
<1> HIDE DEF credit, vbdc
<1> QED BY <1>2, <1>3, SortedTerminals

(* The credits pay for slots that are left. *)
LEMMA RbdcCreditPassIsSound ==
  ASSUME NEW a, Sound(a)
  PROVE  LET b == RbdcCreditPass(a) IN Sound(b)
            /\ b.fca = a.fca /\ b.vbdc = a.vbdc
<1> DEFINE order == ByCredit(a)
           I(i) == {x \in States : x.fca = a.fca /\ x.vbdc = a.vbdc}
           inv == [i \in 0 .. N |-> I(i)]
           step == [i \in 1 .. N |-> [x \in States |-> CreditStep(x, order[i])]]
           pass[i \in 0 .. N] == IF i = 0 THEN a ELSE CreditStep(pass[i - 1], order[i])
<1>0. order \in [1 .. N -> Terminals] /\ \A i, j \in 1 .. N : order[i] = order[j] => i = j
  BY OrderOfTerminals
<1> HIDE DEF order
<1>1. ASSUME NEW i \in 1 .. N, NEW x \in I(i - 1) PROVE CreditStep(x, order[i]) \in I(i)
  <2> DEFINE b == CreditStep(x, order[i])
  <2>1. Sound(x) /\ order[i] \in Terminals
    BY <1>0 DEF States
  <2>2. Sound(b) /\ b.fca = x.fca /\ b.vbdc = x.vbdc
    BY <2>1, CreditStepIsSound
  <2> HIDE DEF b
  <2> QED BY <2>2 DEF States, Sound, b
<1>2. inv \in [0 .. N -> SUBSET States] /\ N \in Nat /\ \A i \in 0 .. N : inv[i] = I(i)
  BY TalsAreTerminals
<1>3. a \in inv[0]
  <2>1. a \in I(0)
    BY TalsAreTerminals DEF Sound, States, Zero
  <2> QED BY <1>2, <2>1
<1>4. \A i \in 1 .. N : \A x \in inv[i - 1] : x \in States /\ CreditStep(x, order[i]) \in inv[i]
  <2> SUFFICES ASSUME NEW i \in 1 .. N, NEW x \in inv[i - 1]
               PROVE  x \in States /\ CreditStep(x, order[i]) \in inv[i]
    OBVIOUS
  <2>1. x \in I(i - 1) /\ inv[i] = I(i)
    BY <1>2
  <2>2. CreditStep(x, order[i]) \in I(i)
    BY <1>1, <2>1
  <2> QED BY <2>1, <2>2
<1> HIDE DEF inv, I
<1>5. \A i \in 1 .. N : \A x \in inv[i - 1] : step[i][x] = CreditStep(x, order[i])
  BY <1>4
<1>6. PICK f \in [0 .. N -> States] : Loop(f, N, a, step) /\ Within(f, N, inv)
  <2>1. Leads(step, N, inv)
    BY <1>4, <1>5 DEF Leads
  <2> HIDE DEF step
  <2> QED BY <1>2, <1>3, <2>1, LoopExists
<1>7. f = [i \in 0 .. N |-> IF i = 0 THEN a ELSE CreditStep(f[i - 1], order[i])]
  <2>1. f[0] = a /\ \A i \in 1 .. N : f[i] = step[i][f[i - 1]] /\ f[i - 1] \in inv[i - 1]
    <3>1. \A i \in 1 .. N : i - 1 \in 0 .. N
      BY <1>2
    <3> HIDE DEF step
    <3> QED BY <1>6, <3>1 DEF Loop, Within
  <2> HIDE DEF step
  <2>2. \A i \in 1 .. N : f[i] = CreditStep(f[i - 1], order[i])
    BY <1>5, <2>1
  <2> QED BY <2>1, <2>2
<1>8. pass = [i \in 0 .. N |-> IF i = 0 THEN a ELSE CreditStep(pass[i - 1], order[i])]
  BY <1>7
<1> HIDE DEF pass
<1>9. pass[N] \in inv[N]
  <2>1. pass[0] = a /\ \A i \in 1 .. N : pass[i] = CreditStep(pass[i - 1], order[i])
    BY <1>2, <1>8
  <2>2. Within(pass, N, inv)
    BY <1>2, <1>3, <1>4, <2>1, LoopKeeps
  <2> QED BY <1>2, <2>2 DEF Within
<1>10. pass[N] \in I(N)
  BY <1>2, <1>9
<1>11. RbdcCreditPass(a) = pass[N]
  BY DEF RbdcCreditPass, pass, order, N
<1> QED BY <1>10, <1>11 DEF I, States

(* VBDC: a part of a request where there is no room for all of it. *)
LEMMA VbdcPassIsSound ==
  ASSUME NEW a, Sound(a), a.vbdc = Zero
  PROVE  LET b == VbdcPass(a) IN Sound(b) /\ b.fca = a.fca
<1> DEFINE order == ByVbdc(a)
           I(i) == {x \in States : x.fca = a.fca /\ \A j \in i + 1 .. N : x.vbdc[order[j]] = 0}
           inv == [i \in 0 .. N |-> I(i)]
           step == [i \in 1 .. N |-> [x \in States |-> VbdcStep(x, order[i])]]
           pass[i \in 0 .. N] == IF i = 0 THEN a ELSE VbdcStep(pass[i - 1], order[i])
<1>0. order \in [1 .. N -> Terminals] /\ \A i, j \in 1 .. N : order[i] = order[j] => i = j
  BY OrderOfTerminals
<1> HIDE DEF order
<1>1. ASSUME NEW i \in 1 .. N, NEW x \in I(i - 1) PROVE VbdcStep(x, order[i]) \in I(i)
  <2> DEFINE b == VbdcStep(x, order[i])
  <2>1. Sound(x) /\ order[i] \in Terminals /\ i \in i - 1 + 1 .. N
    BY <1>0, TalsAreTerminals DEF States
  <2>2. x.vbdc[order[i]] = 0
    BY <2>1
  <2>3. /\ Sound(b) /\ b.fca = x.fca
        /\ \A u \in Terminals \ {order[i]} : b.vbdc[u] = x.vbdc[u]
    BY <2>1, <2>2, VbdcStepIsSound
  <2> HIDE DEF b
  <2>4. ASSUME NEW j \in i + 1 .. N PROVE b.vbdc[order[j]] = 0
    <3>1. order[j] \in Terminals \ {order[i]} /\ j \in i - 1 + 1 .. N
      BY <1>0, TalsAreTerminals
    <3> QED BY <2>3, <3>1
  <2> QED BY <2>3, <2>4 DEF States, Sound, b
<1>2. inv \in [0 .. N -> SUBSET States] /\ N \in Nat /\ \A i \in 0 .. N : inv[i] = I(i)
  BY TalsAreTerminals
<1>3. a \in inv[0]
  <2>1. a \in I(0)
    BY <1>0, TalsAreTerminals DEF Sound, States, Zero
  <2> QED BY <1>2, <2>1
<1>4. \A i \in 1 .. N : \A x \in inv[i - 1] : x \in States /\ VbdcStep(x, order[i]) \in inv[i]
  <2> SUFFICES ASSUME NEW i \in 1 .. N, NEW x \in inv[i - 1]
               PROVE  x \in States /\ VbdcStep(x, order[i]) \in inv[i]
    OBVIOUS
  <2>1. x \in I(i - 1) /\ inv[i] = I(i)
    BY <1>2
  <2>2. VbdcStep(x, order[i]) \in I(i)
    BY <1>1, <2>1
  <2> QED BY <2>1, <2>2
<1> HIDE DEF inv, I
<1>5. \A i \in 1 .. N : \A x \in inv[i - 1] : step[i][x] = VbdcStep(x, order[i])
  BY <1>4
<1>6. PICK f \in [0 .. N -> States] : Loop(f, N, a, step) /\ Within(f, N, inv)
  <2>1. Leads(step, N, inv)
    BY <1>4, <1>5 DEF Leads
  <2> HIDE DEF step
  <2> QED BY <1>2, <1>3, <2>1, LoopExists
<1>7. f = [i \in 0 .. N |-> IF i = 0 THEN a ELSE VbdcStep(f[i - 1], order[i])]
  <2>1. f[0] = a /\ \A i \in 1 .. N : f[i] = step[i][f[i - 1]] /\ f[i - 1] \in inv[i - 1]
    <3>1. \A i \in 1 .. N : i - 1 \in 0 .. N
      BY <1>2
    <3> HIDE DEF step
    <3> QED BY <1>6, <3>1 DEF Loop, Within
  <2> HIDE DEF step
  <2>2. \A i \in 1 .. N : f[i] = VbdcStep(f[i - 1], order[i])
    BY <1>5, <2>1
  <2> QED BY <2>1, <2>2
<1>8. pass = [i \in 0 .. N |-> IF i = 0 THEN a ELSE VbdcStep(pass[i - 1], order[i])]
  BY <1>7
<1> HIDE DEF pass
<1>9. pass[N] \in inv[N]
  <2>1. pass[0] = a /\ \A i \in 1 .. N : pass[i] = VbdcStep(pass[i - 1], order[i])
    BY <1>2, <1>8
  <2>2. Within(pass, N, inv)
    BY <1>2, <1>3, <1>4, <2>1, LoopKeeps
  <2> QED BY <1>2, <2>2 DEF Within
<1>10. pass[N] \in I(N)
  BY <1>2, <1>9
<1>11. VbdcPass(a) = pass[N]
  BY DEF VbdcPass, pass, order, N
<1> QED BY <1>10, <1>11 DEF I, States

(* FCA: what is left after that. *)
LEMMA FcaPassIsSound ==
  ASSUME NEW a, Sound(a), a.fca = Zero
  PROVE  LET b == FcaPass(a) IN Sound(b)
<1> DEFINE order == ByCredit(a)
           I(i) == {x \in States : \A j \in i + 1 .. N : x.fca[order[j]] = 0}
           inv == [i \in 0 .. N |-> I(i)]
           step == [i \in 1 .. N |-> [x \in States |-> FcaStep(x, order[i])]]
           pass[i \in 0 .. N] == IF i = 0 THEN a ELSE FcaStep(pass[i - 1], order[i])
<1>0. order \in [1 .. N -> Terminals] /\ \A i, j \in 1 .. N : order[i] = order[j] => i = j
  BY OrderOfTerminals
<1> HIDE DEF order
<1>1. ASSUME NEW i \in 1 .. N, NEW x \in I(i - 1) PROVE FcaStep(x, order[i]) \in I(i)
  <2> DEFINE b == FcaStep(x, order[i])
  <2>1. Sound(x) /\ order[i] \in Terminals /\ i \in i - 1 + 1 .. N
    BY <1>0, TalsAreTerminals DEF States
  <2>2. x.fca[order[i]] = 0
    BY <2>1
  <2>3. /\ Sound(b)
        /\ \A u \in Terminals \ {order[i]} : b.fca[u] = x.fca[u]
    BY <2>1, <2>2, FcaStepIsSound
  <2> HIDE DEF b
  <2>4. ASSUME NEW j \in i + 1 .. N PROVE b.fca[order[j]] = 0
    <3>1. order[j] \in Terminals \ {order[i]} /\ j \in i - 1 + 1 .. N
      BY <1>0, TalsAreTerminals
    <3> QED BY <2>3, <3>1
  <2> QED BY <2>3, <2>4 DEF States, Sound, b
<1>2. inv \in [0 .. N -> SUBSET States] /\ N \in Nat /\ \A i \in 0 .. N : inv[i] = I(i)
  BY TalsAreTerminals
<1>3. a \in inv[0]
  <2>1. a \in I(0)
    BY <1>0, TalsAreTerminals DEF Sound, States, Zero
  <2> QED BY <1>2, <2>1
<1>4. \A i \in 1 .. N : \A x \in inv[i - 1] : x \in States /\ FcaStep(x, order[i]) \in inv[i]
  <2> SUFFICES ASSUME NEW i \in 1 .. N, NEW x \in inv[i - 1]
               PROVE  x \in States /\ FcaStep(x, order[i]) \in inv[i]
    OBVIOUS
  <2>1. x \in I(i - 1) /\ inv[i] = I(i)
    BY <1>2
  <2>2. FcaStep(x, order[i]) \in I(i)
    BY <1>1, <2>1
  <2> QED BY <2>1, <2>2
<1> HIDE DEF inv, I
<1>5. \A i \in 1 .. N : \A x \in inv[i - 1] : step[i][x] = FcaStep(x, order[i])
  BY <1>4
<1>6. PICK f \in [0 .. N -> States] : Loop(f, N, a, step) /\ Within(f, N, inv)
  <2>1. Leads(step, N, inv)
    BY <1>4, <1>5 DEF Leads
  <2> HIDE DEF step
  <2> QED BY <1>2, <1>3, <2>1, LoopExists
<1>7. f = [i \in 0 .. N |-> IF i = 0 THEN a ELSE FcaStep(f[i - 1], order[i])]
  <2>1. f[0] = a /\ \A i \in 1 .. N : f[i] = step[i][f[i - 1]] /\ f[i - 1] \in inv[i - 1]
    <3>1. \A i \in 1 .. N : i - 1 \in 0 .. N
      BY <1>2
    <3> HIDE DEF step
    <3> QED BY <1>6, <3>1 DEF Loop, Within
  <2> HIDE DEF step
  <2>2. \A i \in 1 .. N : f[i] = FcaStep(f[i - 1], order[i])
    BY <1>5, <2>1
  <2> QED BY <2>1, <2>2
<1>8. pass = [i \in 0 .. N |-> IF i = 0 THEN a ELSE FcaStep(pass[i - 1], order[i])]
  BY <1>7
<1> HIDE DEF pass
<1>9. pass[N] \in inv[N]
  <2>1. pass[0] = a /\ \A i \in 1 .. N : pass[i] = FcaStep(pass[i - 1], order[i])
    BY <1>2, <1>8
  <2>2. Within(pass, N, inv)
    BY <1>2, <1>3, <1>4, <2>1, LoopKeeps
  <2> QED BY <1>2, <2>2 DEF Within
<1>10. pass[N] \in I(N)
  BY <1>2, <1>9
<1>11. FcaPass(a) = IF Fca = 0 THEN a ELSE pass[N]
  BY DEF FcaPass, pass, order, N
<1> QED BY <1>10, <1>11 DEF I, States

LEMMA SetRequiredRbdcKeeps ==
  ASSUME NEW c \in Context, NEW kbps \in Nat, NEW timeout \in 0 .. Larger(RbdcTimeout, PepTimeout)
  PROVE  SetRequiredRbdc(c, kbps, timeout) \in Context /\ SetRequiredRbdc(c, kbps, timeout).vbdc = c.vbdc
<1> DEFINE r == Smaller(kbps, c.max_rbdc)
<1>1. r \in Rates /\ 0 \in 0 .. MaxCredit
  <2>1. c.max_rbdc \in Rates /\ c.max_rbdc \in Nat
    BY DEF Context, Rates
  <2>2. r \in Nat /\ r <= c.max_rbdc
    BY <2>1 DEF Smaller
  <2> HIDE DEF r
  <2> QED BY <2>1, <2>2, LessFits, Constants
<1> HIDE DEF r
<1>2. [c EXCEPT !.rbdc = r, !.credit = 0, !.timer = timeout] \in Context
  BY <1>1 DEF Context
<1>3. [c EXCEPT !.rbdc = r, !.credit = 0, !.timer = timeout].vbdc = c.vbdc
  BY DEF Context
<1> QED BY <1>2, <1>3 DEF SetRequiredRbdc, r

LEMMA ResetContextKeeps ==
  ASSUME NEW c \in Context
  PROVE  ResetContext(c) \in Context /\ ResetContext(c).vbdc = c.vbdc
<1> DEFINE timer == Larger(c.timer - 1, 0)
           slot == PktpfToKbps(1)
           d == SetRequiredRbdc(c, c.rbdc + slot, RbdcTimeout)
           credit == Larger(c.credit - slot * Grain, 0)
<1>1. slot \in Nat /\ slot * Grain \in Nat
  <2>1. slot \in Nat
    BY Conversions
  <2> HIDE DEF slot
  <2> QED BY <2>1, Constants
<1> HIDE DEF slot
<1>2. /\ RbdcTimeout \in Nat /\ PepTimeout \in Nat
      /\ RbdcTimeout \in 0 .. Larger(RbdcTimeout, PepTimeout)
  BY Constants DEF RbdcTimeout, Larger
<1>3. timer \in 0 .. Larger(RbdcTimeout, PepTimeout)
  <2>1. c.timer \in 0 .. Larger(RbdcTimeout, PepTimeout)
    BY DEF Context
  <2>2. Larger(RbdcTimeout, PepTimeout) \in Nat
    BY <1>2 DEF Larger
  <2>3. \A m \in Nat : \A x \in 0 .. m : Larger(x - 1, 0) \in 0 .. m
    BY DEF Larger
  <2> QED BY <2>1, <2>2, <2>3
<1>4. c.rbdc + slot \in Nat /\ credit \in 0 .. MaxCredit
  BY <1>1, Constants DEF Context, Rates, Larger
<1> HIDE DEF timer, credit
<1>5. d \in Context /\ d.vbdc = c.vbdc
  BY <1>2, <1>4, SetRequiredRbdcKeeps
<1> HIDE DEF d
<1>6. [d EXCEPT !.credit = credit] \in Context /\ [d EXCEPT !.credit = credit].vbdc = c.vbdc
  BY <1>4, <1>5 DEF Context
<1>7. [c EXCEPT !.timer = timer] \in Context /\ [c EXCEPT !.timer = timer].vbdc = c.vbdc
  BY <1>3 DEF Context
<1>8. ResetContext(c) = [d EXCEPT !.credit = credit] \/ ResetContext(c) = [c EXCEPT !.timer = timer]
  BY DEF ResetContext, d, credit, timer, slot
<1> QED BY <1>6, <1>7, <1>8

LEMMA StartIsSound ==
  ASSUME NEW c \in [Terminals -> Context], \A t \in Terminals : c[t].vbdc <= MaxVbdc[t]
  PROVE  LET a == Start(c)
         IN Sound(a) /\ a.cra = Zero /\ a.rbdc = Zero /\ a.fca = Zero /\ a.vbdc = Zero
<1> DEFINE d == [t \in Terminals |-> ResetContext(c[t])]
           a == [left |-> Capacity, c |-> d, slots |-> Zero, cra |-> Zero, rbdc |-> Zero,
                 fca |-> Zero, vbdc |-> Zero, room |-> FALSE]
<1>1. d \in [Terminals -> Context] /\ \A t \in Terminals : d[t].vbdc <= MaxVbdc[t]
  BY ResetContextKeeps
<1> HIDE DEF d
<1>2. Zero \in [Terminals -> Nat] /\ Capacity \in 0 .. Capacity /\ Capacity \in Nat
  BY Constants DEF Zero
<1>3. a \in Acc
  BY <1>1, <1>2 DEF Acc
<1>4. a.left + SumOver(a.slots) = Capacity
  <2>1. SumOver(Zero) = 0
    BY SumOfNone DEF Zero
  <2> QED BY <1>2, <2>1
<1>5. Covered(0, 0, 0)
  BY Constants DEF Covered
<1>6. ASSUME NEW t \in Terminals PROVE Covered(a.vbdc[t], Rate(a, t), a.slots[t])
  <2>1. a.vbdc[t] = 0 /\ Rate(a, t) = 0 /\ a.slots[t] = 0
    BY DEF Rate, Zero
  <2> QED BY <1>5, <2>1
<1>7. Sound(a)
  BY <1>1, <1>3, <1>4, <1>6 DEF Sound
<1>8. a.cra = Zero /\ a.rbdc = Zero /\ a.fca = Zero /\ a.vbdc = Zero
  OBVIOUS
<1>9. a = Start(c)
  BY DEF Start, a, d, Zero
<1> HIDE DEF a
<1> QED BY <1>7, <1>8, <1>9

(* What all the terminals ask for fits in 16 bits. *)
LEMMA RequestsAddUp ==
  ASSUME NEW a, Sound(a)
  PROVE  LET sum == SumOver([t \in Terminals |-> RbdcAsked(a, t)])
         IN sum \in Nat /\ sum < Word
<1> DEFINE q == [t \in Terminals |-> RbdcAsked(a, t)]
           v == [i \in 1 .. N |-> q[Tals[i]]]
           b == (Word - 1) \div N
<1>1. N \in Nat /\ Word - 1 \in Nat /\ Word \in Nat
  BY TalsAreTerminals, Constants
<1>2. ASSUME NEW t \in Terminals PROVE RbdcAsked(a, t) \in Nat /\ N * RbdcAsked(a, t) < Word
  <2>1. a.c[t].rbdc \in Nat /\ Fits(a.c[t].rbdc)
    BY AccTypes DEF Sound, Context, Rates
  <2>2. AddFec(a.c[t].rbdc) \in Nat
    BY <2>1, Numbers
  <2> QED BY <2>1, <2>2, Numbers DEF RbdcAsked, Fits, N
<1>3. q \in [Terminals -> Nat] /\ \A t \in Terminals : N * q[t] < Word
  BY <1>2
<1> HIDE DEF q
<1>4. PICK p \in [0 .. N -> Nat] : Sums(p, N, v) /\ SumOver(q) = p[N]
  BY <1>3, SumIsLoop
<1>5. p[N] < Word
  <2>1. CASE N = 0
    <3>1. p[N] = 0
      BY <1>4, <2>1 DEF Sums
    <3> QED BY <1>1, <3>1, Constants
  <2>2. CASE N # 0
    <3>1. b \in Nat /\ N * b <= Word - 1
      BY <1>1, <2>2
    <3>2. ASSUME NEW x \in Nat, N * x < Word PROVE x <= b
      <4>1. N * x \in Nat /\ N * x <= Word - 1 /\ N \in Nat \ {0}
        BY <1>1, <2>2, <3>2
      <4>2. (N * x) \div N <= b
        BY <1>1, <4>1, DivIsMonotone
      <4>3. (N * x) \div N = x
        BY <4>1
      <4> QED BY <4>2, <4>3
    <3> HIDE DEF b
    <3>3. \A i \in 1 .. N : v[i] \in 0 .. b
      <4> SUFFICES ASSUME NEW i \in 1 .. N PROVE v[i] \in 0 .. b
        OBVIOUS
      <4>1. Tals[i] \in Terminals
        BY TalsAreTerminals
      <4>2. q[Tals[i]] \in Nat /\ N * q[Tals[i]] < Word
        BY <1>3, <4>1
      <4>3. q[Tals[i]] <= b
        BY <3>2, <4>2
      <4> QED BY <3>1, <4>2, <4>3
    <3> HIDE DEF v
    <3>4. p[N] <= N * b
      BY <1>1, <1>4, <3>1, <3>3, SumsBounded
    <3>5. p[N] \in Nat
      BY <1>1
    <3> QED BY <1>1, <3>1, <3>4, <3>5
  <2> QED BY <2>1, <2>2
<1>6. p[N] \in Nat
  BY <1>1
<1> QED BY <1>4, <1>5, <1>6 DEF q

LEMMA RbdcPassIsSound ==
  ASSUME NEW a, Sound(a), a.rbdc = Zero
  PROVE  LET b == RbdcPass(a) IN Sound(b) /\ b.fca = a.fca /\ b.vbdc = a.vbdc
<1> DEFINE sum == SumOver([t \in Terminals |-> RbdcAsked(a, t)])
           total == sum % Word
           fair == RbdcFairPass(a, total)
           credited == RbdcCreditPass(fair)
<1>1. RbdcPass(a) = IF a.left = 0 \/ total = 0 THEN a
                    ELSE IF total > a.left THEN credited ELSE fair
  BY DEF RbdcPass
<1>2. sum \in Nat /\ sum < Word /\ Word \in Nat
  BY RequestsAddUp, Constants
<1>3. total \in Nat /\ total = SumOver([t \in Terminals |-> RbdcAsked(a, t)])
  <2> HIDE DEF sum
  <2>1. sum % Word = sum
    BY <1>2
  <2> QED BY <1>2, <2>1 DEF sum
<1> HIDE DEF total
<1>4. CASE a.left = 0 \/ total = 0
  BY <1>1, <1>4
<1>5. CASE ~(a.left = 0 \/ total = 0)
  <2>1. total \in Nat \ {0}
    BY <1>3, <1>5
  <2>2. Sound(fair) /\ fair.fca = a.fca /\ fair.vbdc = a.vbdc
    BY <1>3, <2>1, RbdcFairPassIsSound
  <2> HIDE DEF fair
  <2>3. Sound(credited) /\ credited.fca = fair.fca /\ credited.vbdc = fair.vbdc
    BY <2>2, RbdcCreditPassIsSound
  <2> HIDE DEF credited
  <2> QED BY <1>1, <1>5, <2>2, <2>3
<1> QED BY <1>4, <1>5

LEMMA AllocationsAreSound ==
  ASSUME ctx \in [Terminals -> Context], \A t \in Terminals : ctx[t].vbdc <= MaxVbdc[t],
         enable_rbdc \in BOOLEAN, enable_vbdc \in BOOLEAN
  PROVE  Sound(ComputeTerminalsAllocations)
<1> DEFINE start == Start(ctx)
           cra == CraPass(start)
           rbdc == IF enable_rbdc THEN RbdcPass(cra) ELSE cra
           vbdc == IF enable_vbdc THEN VbdcPass(rbdc) ELSE rbdc
           fca == FcaPass(vbdc)
           last == [fca EXCEPT !.room = rbdc.left > 0]
<1>1. Sound(start) /\ start.cra = Zero /\ start.rbdc = Zero /\ start.fca = Zero /\ start.vbdc = Zero
  BY StartIsSound
<1>2. ComputeTerminalsAllocations = IF CraIsMet(cra) THEN last ELSE cra
  BY DEF ComputeTerminalsAllocations
<1> HIDE DEF start
<1>3. Sound(cra) /\ cra.rbdc = Zero /\ cra.fca = Zero /\ cra.vbdc = Zero
  BY <1>1, CraPassIsSound
<1> HIDE DEF cra
<1>4. Sound(rbdc) /\ rbdc.fca = Zero /\ rbdc.vbdc = Zero
  BY <1>3, RbdcPassIsSound
<1> HIDE DEF rbdc
<1>5. Sound(vbdc) /\ vbdc.fca = Zero
  BY <1>4, VbdcPassIsSound
<1> HIDE DEF vbdc
<1>6. Sound(fca)
  BY <1>5, FcaPassIsSound
<1> HIDE DEF fca
<1>7. Sound(last)
  <2>1. /\ last \in Acc /\ last.left = fca.left /\ last.slots = fca.slots /\ last.c = fca.c
        /\ last.cra = fca.cra /\ last.rbdc = fca.rbdc /\ last.fca = fca.fca /\ last.vbdc = fca.vbdc
    <3>1. ASSUME NEW r \in BOOLEAN
          PROVE  LET b == [fca EXCEPT !.room = r]
                 IN /\ b \in Acc /\ b.left = fca.left /\ b.slots = fca.slots /\ b.c = fca.c
                    /\ b.cra = fca.cra /\ b.rbdc = fca.rbdc /\ b.fca = fca.fca /\ b.vbdc = fca.vbdc
      BY <1>6 DEF Sound, Acc
    <3>2. (rbdc.left > 0) \in BOOLEAN
      OBVIOUS
    <3> QED BY <3>1, <3>2
  <2> HIDE DEF last
  <2>2. \A t \in Terminals : Rate(last, t) = Rate(fca, t)
    BY <2>1 DEF Rate
  <2> QED BY <1>6, <2>1, <2>2 DEF Sound
<1> HIDE DEF last
<1> QED BY <1>2, <1>3, <1>7

-----------------------------------------------------------------------------
(* Types                                                                   *)

LEMMA MessagesAreTyped ==
  ASSUME NEW sf \in 0 .. SfMod - 1, NEW kb \in Nat
  PROVE  /\ [type |-> "Sof", sf |-> sf] \in Message
         /\ [type |-> "Ttp", plan |-> sf, kb |-> kb] \in Message
BY DEF Message

LEMMA AssignmentCovers ==
  ASSUME NEW a, Sound(a), NEW t \in Terminals
  PROVE  Assignment(a, t) \in Nat /\ Assignment(a, t) * 1000 * Den >= a.slots[t] * SlotBits * Num
<1>1. /\ a.cra[t] \in Nat /\ a.rbdc[t] \in Nat /\ a.fca[t] \in Nat /\ a.vbdc[t] \in Nat
      /\ a.slots[t] \in Nat
  BY AccTypes DEF Sound
<1>2. PICK r \in Nat, v \in Nat, s \in Nat : r = Rate(a, t) /\ v = a.vbdc[t] /\ s = a.slots[t]
  BY <1>1 DEF Rate
<1>3. (v * 1000 + r * FrameMs) * Den >= s * SlotBits * Num
  BY <1>2 DEF Sound, Covered
<1>4. PICK p \in Nat : p = PsToPf(r) /\ p * 1000 >= r * FrameMs
  BY Conversions, SMTT(30)
<1>5. Assignment(a, t) = v + p
  BY <1>2, <1>4 DEF Assignment, Rate
<1>6. (v + p) * 1000 >= v * 1000 + r * FrameMs /\ v * 1000 + r * FrameMs \in Nat
  BY <1>4, Constants
<1>7. \A x, y \in Nat : x >= y => x * Den >= y * Den
  BY Constants
<1>8. (v + p) * 1000 * Den >= s * SlotBits * Num
  <2>1. PICK x \in Nat, y \in Nat, z \in Nat :
          x = (v + p) * 1000 /\ y = v * 1000 + r * FrameMs /\ z = s * SlotBits * Num
    BY <1>6, Constants
  <2>2. x * Den >= y * Den /\ y * Den >= z /\ x * Den \in Nat /\ y * Den \in Nat
    BY <1>3, <1>6, <1>7, <2>1, Constants
  <2>3. x * Den >= z
    BY <2>2
  <2> QED BY <2>1, <2>3
<1> QED BY <1>2, <1>5, <1>8

LEMMA TypeInit == Init => TypeOK
<1> SUFFICES ASSUME Init PROVE TypeOK
  OBVIOUS
<1>1. BufferSize \in Nat
  BY Constants DEF BufferSize, Larger
<1>2. Larger(RbdcTimeout, PepTimeout) \in Nat
  BY Constants DEF RbdcTimeout, Larger
<1>3. ctx \in [Terminals -> Context] /\ \A t \in Terminals : ctx[t].vbdc <= MaxVbdc[t]
  <2>1. ASSUME NEW t \in Terminals PROVE ctx[t] \in Context /\ ctx[t].vbdc = 0
    <3>1. MaxRbdc[t] \in Rates /\ MaxRbdc[t] \in Nat
      BY RequestsFit, Constants DEF Rates
    <3>2. 0 \in Rates
      BY <3>1, LessFits
    <3> QED BY <1>2, <3>1, <3>2, Constants DEF Init, Context
  <2> QED BY <2>1, Constants DEF Init
<1>4. mac \in [Terminals -> Nat] /\ \A t \in Terminals : mac[t] <= MacSize[t]
  BY Constants DEF Init
<1>5. /\ new \in [Terminals -> 0 .. MaxNew] /\ rbdc_timer \in [Terminals -> 0 .. MaxTimer]
      /\ lost \in 0 .. MaxLost /\ frame \in 0 .. SfMod - 1 /\ pep \in 0 .. MaxPep
  BY Constants DEF Init
<1>6. allocated \in [Terminals -> [kb : Nat, plan : -1 .. SfMod - 1]]
  BY Constants DEF Init
<1>7. buffer \in [Terminals -> [1 .. BufferSize -> Nat]]
  BY DEF Init
<1>8. down \in [Terminals -> Seq(Message)] /\ up \in [Terminals -> Seq(Request)]
  BY DEF Init
<1>9. lost_sac \in [Terminals -> BOOLEAN] /\ {enable_rbdc, enable_vbdc, room} \subseteq BOOLEAN
  BY DEF Init
<1> QED BY <1>3, <1>4, <1>5, <1>6, <1>7, <1>8, <1>9 DEF TypeOK

LEMMA TypeFrameTimer == TypeOK /\ FrameTimer => TypeOK'
<1> SUFFICES ASSUME TypeOK, FrameTimer PROVE TypeOK'
  OBVIOUS
<1>1. frame' \in 0 .. SfMod - 1
  BY Constants DEF FrameTimer, NextFrame, TypeOK
<1>2. Sound(ComputeTerminalsAllocations)
  BY AllocationsAreSound DEF TypeOK
<1>3. PICK a : /\ Sound(a) /\ ctx' = a.c /\ room' = a.room
               /\ down' = [t \in Terminals |-> down[t] \o <<Sof, Ttp(Assignment(a, t))>>]
  BY <1>2 DEF FrameTimer
<1>4. /\ ctx' \in [Terminals -> Context] /\ \A t \in Terminals : ctx'[t].vbdc <= MaxVbdc[t]
      /\ room' \in BOOLEAN
  BY <1>3 DEF Sound, Acc
<1>5. ASSUME NEW t \in Terminals PROVE down[t] \o <<Sof, Ttp(Assignment(a, t))>> \in Seq(Message)
  <2>1. Assignment(a, t) \in Nat
    BY <1>3, AssignmentCovers
  <2>2. Sof \in Message /\ Ttp(Assignment(a, t)) \in Message
    BY <1>1, <2>1, MessagesAreTyped DEF Sof, Ttp
  <2>3. down[t] \in Seq(Message)
    BY DEF TypeOK
  <2> QED BY <2>2, <2>3
<1>6. down' \in [Terminals -> Seq(Message)]
  BY <1>3, <1>5
<1>7. UNCHANGED <<mac, new, rbdc_timer, buffer, allocated, up, lost, lost_sac,
                  enable_rbdc, enable_vbdc, pep>>
  BY DEF FrameTimer, agentVars
<1> QED BY <1>1, <1>4, <1>6, <1>7 DEF TypeOK

LEMMA SetRequiredVbdcKeeps ==
  ASSUME NEW c \in Context, NEW t \in Terminals, NEW kb \in Nat
  PROVE  SetRequiredVbdc(c, t, kb) \in Context /\ SetRequiredVbdc(c, t, kb).vbdc <= MaxVbdc[t]
<1>1. Smaller(c.vbdc + kb, MaxVbdc[t]) \in Nat /\ Smaller(c.vbdc + kb, MaxVbdc[t]) <= MaxVbdc[t]
  BY Constants DEF Context, Smaller
<1>2. ASSUME NEW v \in Nat PROVE [c EXCEPT !.vbdc = v] \in Context /\ [c EXCEPT !.vbdc = v].vbdc = v
  BY DEF Context
<1>3. SetRequiredVbdc(c, t, kb) = [c EXCEPT !.vbdc = Smaller(c.vbdc + kb, MaxVbdc[t])]
  BY DEF SetRequiredVbdc, Context
<1> QED BY <1>1, <1>2, <1>3

LEMMA Timeouts ==
  /\ RbdcTimeout \in 0 .. Larger(RbdcTimeout, PepTimeout)
  /\ PepTimeout \in 0 .. Larger(RbdcTimeout, PepTimeout)
BY Constants DEF RbdcTimeout, Larger

LEMMA TypeHereIsSac ==
  ASSUME TypeOK, NEW t \in Terminals, HereIsSac(t)
  PROVE  TypeOK'
<1> DEFINE sac == Head(up[t])
           v == IF sac.vbdc < 0 THEN ctx[t]
                ELSE SetRequiredVbdc(ctx[t], t, Smaller(sac.vbdc, MaxVbdc[t]))
           x == Larger(sac.rbdc - v.cra, 0)
           c == SacContext(t, sac)
<1>1. up[t] \in Seq(Request) /\ up[t] # << >> /\ ctx[t] \in Context /\ ctx[t].vbdc <= MaxVbdc[t]
  BY DEF HereIsSac, TypeOK
<1>2. sac \in Request /\ Tail(up[t]) \in Seq(Request)
  BY <1>1
<1>3. c = IF sac.rbdc < 0 THEN v ELSE SetRequiredRbdc(v, x, RbdcTimeout)
  BY DEF SacContext
<1> HIDE DEF sac
<1>4. v \in Context /\ v.vbdc <= MaxVbdc[t]
  <2>1. CASE sac.vbdc < 0
    BY <1>1, <2>1
  <2>2. CASE ~(sac.vbdc < 0)
    <3>1. Smaller(sac.vbdc, MaxVbdc[t]) \in Nat
      BY <1>2, <2>2, Constants DEF Request, Smaller
    <3> QED BY <1>1, <2>2, <3>1, SetRequiredVbdcKeeps
  <2> QED BY <2>1, <2>2
<1> HIDE DEF v
<1>5. x \in Nat
  <2>1. sac.rbdc \in Int /\ v.cra \in Nat
    BY <1>2, <1>4 DEF Request, Context
  <2> QED BY <2>1 DEF Larger
<1> HIDE DEF x, c
<1>6. c \in Context /\ c.vbdc <= MaxVbdc[t]
  BY <1>3, <1>4, <1>5, SetRequiredRbdcKeeps, Timeouts
<1>7. /\ up' = [up EXCEPT ![t] = Tail(@)] /\ ctx' = [ctx EXCEPT ![t] = c]
      /\ enable_rbdc' = (enable_rbdc \/ sac.rbdc >= 0)
      /\ enable_vbdc' = (enable_vbdc \/ sac.vbdc >= 0)
      /\ UNCHANGED <<mac, new, rbdc_timer, buffer, allocated, down, lost, lost_sac, frame, pep, room>>
  BY DEF HereIsSac, agentVars, c, sac
<1>8. up' \in [Terminals -> Seq(Request)]
  BY <1>2, <1>7 DEF TypeOK
<1>9. ctx' \in [Terminals -> Context] /\ \A u \in Terminals : ctx'[u].vbdc <= MaxVbdc[u]
  BY <1>6, <1>7 DEF TypeOK
<1>10. enable_rbdc' \in BOOLEAN /\ enable_vbdc' \in BOOLEAN
  BY ONLY <1>7, Zenon
<1> QED BY <1>7, <1>8, <1>9, <1>10 DEF TypeOK

LEMMA TypeApplyPepCommand ==
  ASSUME TypeOK, NEW r \in PepRequests, ApplyPepCommand(r)
  PROVE  TypeOK'
<1> DEFINE t == r.st
           d == [ctx[t] EXCEPT !.cra = IF r.cra # 0 THEN r.cra ELSE @,
                               !.max_rbdc = IF r.rbdc_max # 0 THEN r.rbdc_max ELSE @]
           c == PepContext(ctx[t], r)
<1>1. r \in [st : Terminals, cra : Nat, rbdc_max : Nat, rbdc : Nat]
  BY Constants
<1>2. t \in Terminals /\ r.cra \in Nat /\ r.rbdc_max \in Nat /\ r.rbdc \in Nat
  BY <1>1
<1>3. ctx[t] \in Context /\ ctx[t].vbdc <= MaxVbdc[t]
  BY <1>2 DEF TypeOK
<1>4. d \in Context /\ d.vbdc <= MaxVbdc[t]
  <2>1. r.rbdc_max \in Rates
    BY <1>2, RequestsFit DEF Rates
  <2> QED BY <1>2, <1>3, <2>1 DEF Context
<1>5. c = IF r.rbdc # 0 THEN SetRequiredRbdc(d, r.rbdc, PepTimeout) ELSE d
  BY DEF PepContext
<1> HIDE DEF d
<1>6. c \in Context /\ c.vbdc <= MaxVbdc[t]
  BY <1>2, <1>4, <1>5, SetRequiredRbdcKeeps, Timeouts
<1>7. /\ pep < MaxPep /\ pep' = pep + 1 /\ ctx' = [ctx EXCEPT ![t] = c]
      /\ UNCHANGED <<mac, new, rbdc_timer, buffer, allocated, down, up, lost, lost_sac,
                     frame, enable_rbdc, enable_vbdc, room>>
  BY DEF ApplyPepCommand, agentVars, netVars
<1> HIDE DEF c, t
<1>8. ctx' \in [Terminals -> Context] /\ \A u \in Terminals : ctx'[u].vbdc <= MaxVbdc[u]
  BY <1>2, <1>6, <1>7 DEF TypeOK
<1>9. pep' \in 0 .. MaxPep
  BY <1>7, Constants DEF TypeOK
<1> QED BY <1>7, <1>8, <1>9 DEF TypeOK

LEMMA TypeLoseDown ==
  ASSUME TypeOK, NEW t \in Terminals, LoseDown(t)
  PROVE  TypeOK'
<1>1. down' \in [Terminals -> Seq(Message)]
  BY DEF LoseDown, TypeOK
<1>2. lost' \in 0 .. MaxLost
  BY Constants DEF LoseDown, TypeOK
<1> QED BY <1>1, <1>2 DEF LoseDown, TypeOK, agentVars, ctrlVars

LEMMA TypeLoseSac ==
  ASSUME TypeOK, NEW t \in Terminals, LoseSac(t)
  PROVE  TypeOK'
<1>1. up' \in [Terminals -> Seq(Request)]
  BY DEF LoseSac, TypeOK
<1>2. lost' \in 0 .. MaxLost /\ lost_sac' \in [Terminals -> BOOLEAN]
  BY Constants DEF LoseSac, TypeOK
<1> QED BY <1>1, <1>2 DEF LoseSac, TypeOK, agentVars, ctrlVars

LEMMA TypeOnRcvEncapPacket ==
  ASSUME TypeOK, NEW t \in Terminals, OnRcvEncapPacket(t)
  PROVE  TypeOK'
<1>1. mac' \in [Terminals -> Nat] /\ \A u \in Terminals : mac'[u] <= MacSize[u]
  <2>1. /\ mac \in [Terminals -> Nat] /\ \A u \in Terminals : mac[u] <= MacSize[u]
        /\ mac[t] < MacSize[t] /\ mac' = [mac EXCEPT ![t] = mac[t] + 1]
    BY DEF OnRcvEncapPacket, TypeOK
  <2>2. mac[t] + 1 \in Nat /\ mac[t] + 1 <= MacSize[t]
    <3>1. mac[t] \in Nat /\ MacSize[t] \in Nat
      BY <2>1, Constants
    <3> QED BY <2>1, <3>1
  <2> QED BY <2>1, <2>2
<1>2. new' \in [Terminals -> 0 .. MaxNew]
  <2>1. \A n \in 0 .. MaxNew : Smaller(n + 1, MaxNew) \in 0 .. MaxNew
    BY Constants DEF Smaller
  <2> QED BY <2>1 DEF OnRcvEncapPacket, TypeOK
<1> QED BY <1>1, <1>2 DEF OnRcvEncapPacket, TypeOK, netVars, ctrlVars

LEMMA TypeHereIsTtp ==
  ASSUME TypeOK, NEW t \in Terminals, HereIsTtp(t)
  PROVE  TypeOK'
<1>1. down[t] \in Seq(Message) /\ down[t] # << >> /\ Head(down[t]).type = "Ttp"
  BY DEF HereIsTtp, TypeOK
<1>2. Head(down[t]) \in Message /\ Tail(down[t]) \in Seq(Message)
  BY <1>1
<1>3. Head(down[t]) \in [type : {"Ttp"}, plan : 0 .. SfMod - 1, kb : Nat]
  BY <1>1, <1>2 DEF Message
<1>4. [kb |-> Head(down[t]).kb, plan |-> Head(down[t]).plan] \in [kb : Nat, plan : -1 .. SfMod - 1]
  BY <1>3, Constants
<1>5. down' \in [Terminals -> Seq(Message)]
  BY <1>2 DEF HereIsTtp, TypeOK
<1>6. allocated' \in [Terminals -> [kb : Nat, plan : -1 .. SfMod - 1]]
  BY <1>4 DEF HereIsTtp, TypeOK
<1> QED BY <1>5, <1>6 DEF HereIsTtp, TypeOK, ctrlVars
LEMMA Bursts == BurstBits \in Nat \ {0} /\ BufferSize \in Nat \ {0}
<1>1. SlotBits * Num \in Nat \ {0}
  BY Constants
<1>2. BurstBits \in Nat \ {0}
  <2>1. CeilDiv(SlotBits * Num, Den) \in Nat /\ CeilDiv(SlotBits * Num, Den) > 0
    BY <1>1, CeilDivIsUp, Constants
  <2> QED BY <2>1 DEF BurstBits, RemoveFec
<1>3. BufferSize \in Nat \ {0}
  BY Constants DEF BufferSize, Larger
<1> QED BY <1>2, <1>3

(* A terminal sends no more packets than it has. *)
LEMMA SentIsThere ==
  ASSUME NEW n \in Nat, NEW kb \in Nat
  PROVE  n - Sent(n, kb) \in 0 .. n
<1>1. CeilDiv(kb * 1000, BurstBits) \in Nat
  BY Bursts, CeilDivIsUp
<1> QED BY <1>1 DEF Sent, Smaller, Larger

LEMMA RbdcRequestIsNumber ==
  ASSUME NEW t \in Terminals, buffer[t] \in [1 .. BufferSize -> Nat], new[t] \in Nat,
         NEW n \in Nat, NEW timer \in Nat
  PROVE  RbdcRequest(t, n, timer) \in Nat
<1> DEFINE v == buffer[t]
           sum[i \in 0 .. BufferSize] == IF i = 0 THEN 0 ELSE sum[i - 1] + v[i]
           asked == IF Msl < Sync THEN 0 ELSE sum[BufferSize]
           late == n * BurstBits - timer * FrameMs * asked
           x == IF timer = 0 THEN 0 ELSE (new[t] * BurstBits) \div (timer * FrameMs)
           y == IF late > 0 THEN late \div (FrameMs * Msl) ELSE 0
<1>1. RbdcRequest(t, n, timer) = x + y
  BY DEF RbdcRequest
<1> HIDE DEF v
<1>2. v \in [1 .. BufferSize -> Nat] /\ BufferSize \in Nat \ {0}
  BY Bursts DEF v
<1>3. PICK p \in [0 .. BufferSize -> Nat] : Sums(p, BufferSize, v)
  BY <1>2, SumsExist
<1>4. p = [i \in 0 .. BufferSize |-> IF i = 0 THEN 0 ELSE p[i - 1] + v[i]]
  BY <1>2, <1>3 DEF Sums
<1>5. sum = [i \in 0 .. BufferSize |-> IF i = 0 THEN 0 ELSE sum[i - 1] + v[i]]
  BY <1>4
<1> HIDE DEF sum
<1>6. sum[BufferSize] \in Nat
  <2>1. sum[0] = 0 /\ \A i \in 1 .. BufferSize : sum[i] = sum[i - 1] + v[i]
    BY <1>2, <1>5, SMTT(30)
  <2>2. ASSUME NEW i \in 1 .. BufferSize, sum[i - 1] \in Nat PROVE sum[i] \in Nat
    <3>1. v[i] \in Nat /\ sum[i] = sum[i - 1] + v[i]
      BY <1>2, <2>1
    <3> QED BY <2>2, <3>1
  <2>3. sum[0] \in Nat
    BY <2>1
  <2>4. \A i \in 0 .. BufferSize : sum[i] \in Nat
    BY <1>2, <2>2, <2>3, StepsKeep
  <2> QED BY <1>2, <2>4
<1>7. asked \in Nat
  BY <1>6
<1> HIDE DEF asked
<1>8. late \in Int
  BY <1>7, Bursts, Constants
<1> HIDE DEF late
<1>9. x \in Nat
  <2>1. CASE timer = 0
    BY <2>1
  <2>2. CASE timer # 0
    <3>1. new[t] * BurstBits \in Nat /\ timer * FrameMs \in Nat \ {0}
      BY <2>2, Bursts, Constants
    <3> QED BY <2>2, <3>1
  <2> QED BY <2>1, <2>2
<1>10. y \in Nat
  <2>1. FrameMs * Msl \in Nat \ {0}
    BY Constants
  <2> QED BY <1>8, <2>1
<1> QED BY <1>1, <1>9, <1>10

LEMMA SacIsRequest ==
  ASSUME NEW t \in Terminals, buffer[t] \in [1 .. BufferSize -> Nat], new[t] \in Nat,
         NEW n \in Nat, NEW timer \in Nat
  PROVE  Sac(t, n, timer) \in Request
<1> DEFINE rbdc == RbdcRequest(t, n, timer)
           x == IF Rbdc(t) /\ SendsRbdc(rbdc, Last(buffer[t])) THEN rbdc ELSE -1
           y == IF ~Rbdc(t) /\ VbdcRequest(n) > 0 THEN VbdcRequest(n) ELSE -1
<1>1. rbdc \in Nat
  BY RbdcRequestIsNumber
<1>2. Sac(t, n, timer) = [rbdc |-> x, vbdc |-> y]
  BY DEF Sac
<1> HIDE DEF rbdc
<1>3. VbdcRequest(n) \in Nat
  <2>1. n * BurstBits \in Nat
    BY Bursts
  <2> QED BY <2>1, CeilDivIsUp DEF VbdcRequest
<1>4. x \in Nat \cup {-1} /\ y \in Nat \cup {-1}
  BY <1>1, <1>3
<1> HIDE DEF x, y
<1> QED BY <1>2, <1>4 DEF Request

(* The buffer of requests keeps its length. *)
LEMMA BufferShifts ==
  ASSUME NEW n \in Nat \ {0}, NEW b \in [1 .. n -> Nat], NEW x \in Nat
  PROVE  Append(Tail(b), x) \in [1 .. n -> Nat]
<1>1. b \in Seq(Nat) /\ Len(b) = n /\ b # << >>
  OBVIOUS
<1>2. Tail(b) \in Seq(Nat) /\ Len(Tail(b)) = n - 1
  BY <1>1
<1>3. Append(Tail(b), x) \in Seq(Nat) /\ Len(Append(Tail(b), x)) = n
  BY <1>2
<1> QED BY <1>3, LenProperties

LEMMA TypeHereIsSof ==
  ASSUME TypeOK, NEW t \in Terminals, HereIsSof(t)
  PROVE  TypeOK'
<1> DEFINE left == mac[t] - Sent(mac[t], allocated[t].kb)
           timer == IF Rbdc(t) THEN Smaller(rbdc_timer[t] + 1, MaxTimer) ELSE 0
           sac == Sac(t, left, timer)
           slot == Head(down[t]).sf % Sync = Slot[t]
<1>1. /\ down[t] # << >> /\ down' = [down EXCEPT ![t] = Tail(@)]
      /\ allocated' = [allocated EXCEPT ![t] = UsedUp(@)]
      /\ mac' = [mac EXCEPT ![t] = left]
      /\ \/ /\ sac.rbdc >= 0
            /\ rbdc_timer' = [rbdc_timer EXCEPT ![t] = 0]
            /\ buffer' = [buffer EXCEPT ![t] = Append(Tail(@), sac.rbdc)]
            /\ new' = [new EXCEPT ![t] = 0]
         \/ /\ rbdc_timer' = [rbdc_timer EXCEPT ![t] = timer]
            /\ UNCHANGED <<buffer, new>>
      /\ \/ up' = [up EXCEPT ![t] = Append(@, sac)]
         \/ up' = [up EXCEPT ![t] = @]
      /\ UNCHANGED <<lost, lost_sac, frame, ctx, enable_rbdc, enable_vbdc, pep, room>>
  <2> HIDE DEF left, timer, sac, slot
  <2> QED BY DEF HereIsSof, ctrlVars, left, timer, sac, slot
<1>2. left \in 0 .. mac[t] /\ mac[t] \in Nat /\ mac[t] <= MacSize[t]
  BY SentIsThere DEF TypeOK
<1> HIDE DEF left
<1>3. timer \in 0 .. MaxTimer
  <2>1. rbdc_timer[t] \in Nat
    BY Constants DEF TypeOK
  <2> QED BY <2>1, Constants DEF Smaller
<1> HIDE DEF timer
<1>4. sac \in Request
  <2>1. buffer[t] \in [1 .. BufferSize -> Nat] /\ new[t] \in Nat
    BY Constants DEF TypeOK
  <2>2. left \in Nat /\ timer \in Nat
    BY <1>2, <1>3, Constants
  <2> QED BY <2>1, <2>2, SacIsRequest
<1> HIDE DEF sac
<1>5. mac' \in [Terminals -> Nat] /\ \A u \in Terminals : mac'[u] <= MacSize[u]
  <2>1. left \in Nat /\ left <= MacSize[t]
    BY <1>2, Constants
  <2> QED BY <1>1, <2>1 DEF TypeOK
<1>6. down' \in [Terminals -> Seq(Message)]
  BY <1>1 DEF TypeOK
<1>7. allocated' \in [Terminals -> [kb : Nat, plan : -1 .. SfMod - 1]]
  BY <1>1, Constants DEF TypeOK, UsedUp
<1>8. rbdc_timer' \in [Terminals -> 0 .. MaxTimer] /\ new' \in [Terminals -> 0 .. MaxNew]
  <2>1. rbdc_timer \in [Terminals -> 0 .. MaxTimer] /\ new \in [Terminals -> 0 .. MaxNew]
    BY DEF TypeOK
  <2>2. 0 \in 0 .. MaxTimer /\ 0 \in 0 .. MaxNew
    BY Constants
  <2>3. rbdc_timer' \in [Terminals -> 0 .. MaxTimer]
    BY <1>1, <1>3, <2>1, <2>2
  <2>4. new' = new \/ new' = [new EXCEPT ![t] = 0]
    BY <1>1
  <2>5. new' \in [Terminals -> 0 .. MaxNew]
    BY <2>1, <2>2, <2>4
  <2> QED BY <2>3, <2>5
<1>9. buffer' \in [Terminals -> [1 .. BufferSize -> Nat]]
  <2>1. CASE UNCHANGED buffer
    BY <2>1 DEF TypeOK
  <2>2. CASE sac.rbdc >= 0 /\ buffer' = [buffer EXCEPT ![t] = Append(Tail(@), sac.rbdc)]
    <3>1. sac.rbdc \in Nat
      BY <1>4, <2>2 DEF Request
    <3>2. Append(Tail(buffer[t]), sac.rbdc) \in [1 .. BufferSize -> Nat]
      BY <3>1, Bursts, BufferShifts DEF TypeOK
    <3> QED BY <2>2, <3>2 DEF TypeOK
  <2> QED BY <1>1, <2>1, <2>2
<1>10. up' \in [Terminals -> Seq(Request)]
  <2>1. up \in [Terminals -> Seq(Request)]
    BY DEF TypeOK
  <2>2. up[t] \in Seq(Request) /\ Append(up[t], sac) \in Seq(Request)
    BY <1>4, <2>1
  <2>3. up' = up \/ up' = [up EXCEPT ![t] = Append(up[t], sac)]
    BY <1>1, <2>1
  <2> QED BY <2>1, <2>2, <2>3
<1> QED BY <1>1, <1>5, <1>6, <1>7, <1>8, <1>9, <1>10 DEF TypeOK

LEMMA TypeNext == TypeOK /\ [Next]_vars => TypeOK'
<1> SUFFICES ASSUME TypeOK, [Next]_vars PROVE TypeOK'
  OBVIOUS
<1>1. CASE FrameTimer
  BY <1>1, TypeFrameTimer
<1>2. ASSUME NEW r \in PepRequests, ApplyPepCommand(r) PROVE TypeOK'
  BY <1>2, TypeApplyPepCommand
<1>3. ASSUME NEW t \in Terminals, HereIsSac(t) PROVE TypeOK'
  BY <1>3, TypeHereIsSac
<1>4. ASSUME NEW t \in Terminals, LoseDown(t) PROVE TypeOK'
  BY <1>4, TypeLoseDown
<1>5. ASSUME NEW t \in Terminals, LoseSac(t) PROVE TypeOK'
  BY <1>5, TypeLoseSac
<1>6. ASSUME NEW t \in Terminals, OnRcvEncapPacket(t) PROVE TypeOK'
  BY <1>6, TypeOnRcvEncapPacket
<1>7. ASSUME NEW t \in Terminals, HereIsTtp(t) PROVE TypeOK'
  BY <1>7, TypeHereIsTtp
<1>8. ASSUME NEW t \in Terminals, HereIsSof(t) PROVE TypeOK'
  BY <1>8, TypeHereIsSof
<1>9. CASE UNCHANGED vars
  BY <1>9 DEF vars, agentVars, netVars, ctrlVars, TypeOK
<1> QED BY <1>1, <1>2, <1>3, <1>4, <1>5, <1>6, <1>7, <1>8, <1>9 DEF Next

(* Contexts, requests and messages are what the controller and the agents  *)
(* take them for, in every reachable state: no volume a terminal waits for *)
(* is above its limit, no request in a SAC is negative.                    *)
THEOREM TypesAreKept == Spec => []TypeOK
BY TypeInit, TypeNext, PTL DEF Spec

(* The slots computeTerminalsAllocations gives out and those it has left   *)
(* are those of the carrier, whatever the contexts are: the count of what  *)
(* is left, which is unsigned, does not wrap.                              *)
THEOREM TheCarrierIsNotOversold == Spec => []CarrierIsNotOversold
<1>1. TypeOK => CarrierIsNotOversold
  BY AllocationsAreSound DEF TypeOK, CarrierIsNotOversold, Sound
<1> QED BY <1>1, TypeInit, TypeNext, PTL DEF Spec

(* The volume in the TTP of a terminal is never less than what its slots   *)
(* carry, through all the conversions between kb/s, kb and slots and the   *)
(* coding rate.                                                            *)
THEOREM ThePlanCoversTheSlots == Spec => []PlanCoversSlots
<1>1. TypeOK => PlanCoversSlots
  BY AllocationsAreSound, AssignmentCovers DEF TypeOK, PlanCoversSlots
<1> QED BY <1>1, TypeInit, TypeNext, PTL DEF Spec
=============================================================================
