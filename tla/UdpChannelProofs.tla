-------------------------- MODULE UdpChannelProofs --------------------------
(***************************************************************************)
(* Whatever the network does to the datagrams, the receiver of UdpChannel  *)
(* holds back at most max_stack datagrams of each source between two       *)
(* events, counts them right, finds the next one when it gives up a lost   *)
(* one, and never ignores the datagram of an event.  When the window of    *)
(* the network fits the stack and the losses fit the byte, it gives the    *)
(* datagrams of a source in order and passes over none still to come.      *)
(***************************************************************************)
EXTENDS UdpChannel, LoopLemmas, SequenceTheorems, TLAPS

(* Sequence numbers wrap within the slots of a stack. *)
LEMMA SlotArithmetic ==
  /\ \A n \in Nat : n % Mod \in Slots
  /\ \A i \in Slots : i \in Nat /\ Succ(i) \in Slots
<1>1. ASSUME NEW n \in Nat PROVE n % Mod \in Slots
  BY ModAssumption DEF Slots
<1> QED BY <1>1, ModAssumption DEF Slots, Succ

LEMMA WrapAround ==
  ASSUME NEW i \in Slots, NEW j \in Slots
  PROVE  \E k \in 1 .. Mod : (i + k) % Mod = j
<1> USE ModAssumption DEF Slots
<1>1. CASE i < j
  <2>1. j - i \in 1 .. Mod /\ i + (j - i) = j /\ j % Mod = j
    BY <1>1
  <2> QED BY <2>1
<1>2. CASE j <= i
  <2>1. j - i + Mod \in 1 .. Mod /\ i + (j - i + Mod) = j + Mod
    BY <1>2
  <2>2. (j + Mod) % Mod = j
    OBVIOUS
  <2> QED BY <2>1, <2>2
<1> QED BY <1>1, <1>2

(* The search for the next datagram of a stack that is not empty ends at a *)
(* slot that holds one.                                                    *)
LEMMA NextHeldExists ==
  ASSUME NEW stack, NEW i \in Slots, NEW j \in Slots, Has(stack, j)
  PROVE  NextHeld(stack, i) \in Slots /\ Has(stack, NextHeld(stack, i))
<1> DEFINE G == Gaps(stack, i)
           k0 == CHOOSE k \in G : \A m \in G : k <= m
<1>1. G \in SUBSET Nat /\ G # {}
  <2>1. PICK k \in 1 .. Mod : (i + k) % Mod = j
    BY WrapAround
  <2>2. k \in G
    BY <2>1 DEF Gaps
  <2> QED BY <2>2, ModAssumption DEF Gaps
<1>2. \E k \in G : \A m \in G : k <= m
  BY <1>1, Smallest
<1>3. k0 \in G
  BY <1>2
<1>4. k0 \in 1 .. Mod /\ Has(stack, (i + k0) % Mod)
  BY <1>3 DEF Gaps
<1>5. i + k0 \in Nat
  BY <1>4, SlotArithmetic, ModAssumption
<1>6. NextHeld(stack, i) = (i + k0) % Mod
  BY DEF NextHeld
<1> QED BY <1>4, <1>5, <1>6, SlotArithmetic

-----------------------------------------------------------------------------
(* The inductive invariant.  A loss that was just noticed leaves one       *)
(* datagram too many, in the very slot that the next call will empty.      *)
HeldIn(stack) == {i \in Slots : Has(stack, i)}

Counted == \A s \in Sources : counter[s] = Cardinality(HeldIn(stacks[s]))

Bounded ==
  \A s \in Sources :
     \/ counter[s] <= MaxStack
     \/ /\ s = stacked_ip
        /\ counter[s] = MaxStack + 1
        /\ Has(stacks[s], udp_counters[s])

IInv == TypeOK /\ NextEventIsRead /\ Counted /\ Bounded

Stack == [Slots -> Nat \cup {NoData}]

LEMMA HeldInFinite ==
  ASSUME NEW stack
  PROVE  /\ IsFiniteSet(HeldIn(stack))
         /\ Cardinality(HeldIn(stack)) \in Nat
         /\ Cardinality(HeldIn(stack)) = 0 <=> HeldIn(stack) = {}
<1>1. IsFiniteSet(Slots)
  BY ModAssumption, FS_Interval DEF Slots
<1>2. IsFiniteSet(HeldIn(stack))
  BY <1>1, FS_Subset DEF HeldIn
<1> QED BY <1>2, FS_CardinalityType, FS_EmptySet

(* UdpStack::add and UdpStack::remove keep the count of a stack right. *)
LEMMA AddCounts ==
  ASSUME TypeOK, Counted, NEW s \in Sources, NEW d \in Nat
  PROVE  /\ Added(s, d) \in Stack
         /\ Has(Added(s, d), d % Mod)
         /\ CountAdded(s, d) = Cardinality(HeldIn(Added(s, d)))
         /\ CountAdded(s, d) \in Nat
         /\ CountAdded(s, d) <= counter[s] + 1
<1> DEFINE x == d % Mod
<1>1. x \in Slots /\ stacks[s] \in Stack /\ counter[s] \in Nat
  BY SlotArithmetic DEF TypeOK, Stack
<1>2. Added(s, d) = [stacks[s] EXCEPT ![x] = d] /\ Added(s, d) \in Stack
  BY <1>1 DEF Added, Stack
<1>3. HeldIn(Added(s, d)) = HeldIn(stacks[s]) \cup {x}
  BY <1>1, <1>2, NoneAssumption DEF HeldIn, Has, Stack
<1>4. Cardinality(HeldIn(Added(s, d))) =
        IF x \in HeldIn(stacks[s]) THEN counter[s] ELSE counter[s] + 1
  <2>1. IsFiniteSet(HeldIn(stacks[s])) /\ counter[s] = Cardinality(HeldIn(stacks[s]))
    BY HeldInFinite DEF Counted
  <2> QED BY <1>3, <2>1, FS_AddElement
<1>5. x \in HeldIn(stacks[s]) <=> Has(stacks[s], x)
  BY <1>1 DEF HeldIn
<1> HIDE DEF x
<1>6. CountAdded(s, d) = counter[s] + (IF Has(stacks[s], x) THEN 0 ELSE 1)
  BY DEF CountAdded, x
<1>7. Has(Added(s, d), x)
  BY <1>1, <1>2, NoneAssumption DEF Has, Stack
<1> QED BY <1>1, <1>2, <1>4, <1>5, <1>6, <1>7 DEF x

LEMMA RemoveCounts ==
  ASSUME NEW stack \in Stack, NEW i \in Slots
  PROVE  /\ [stack EXCEPT ![i] = NoData] \in Stack
         /\ Cardinality(HeldIn([stack EXCEPT ![i] = NoData])) =
              Cardinality(HeldIn(stack)) - (IF Has(stack, i) THEN 1 ELSE 0)
<1> DEFINE rest == [stack EXCEPT ![i] = NoData]
<1>1. rest \in Stack
  BY DEF Stack
<1>2. HeldIn(rest) = HeldIn(stack) \ {i}
  BY DEF HeldIn, Has, Stack
<1>3. Cardinality(HeldIn(rest)) =
        IF i \in HeldIn(stack) THEN Cardinality(HeldIn(stack)) - 1
                               ELSE Cardinality(HeldIn(stack))
  <2>1. IsFiniteSet(HeldIn(stack))
    BY HeldInFinite
  <2> QED BY <1>2, <2>1, FS_RemoveElement
<1>4. i \in HeldIn(stack) <=> Has(stack, i)
  BY DEF HeldIn
<1> QED BY <1>1, <1>3, <1>4, HeldInFinite

(* What a call of receive does to the stack of one source, seen from the   *)
(* invariant.                                                              *)
LEMMA StackChange ==
  ASSUME IInv, NEW s \in Sources, stacked_ip \in {NoIp, s},
         NEW stack \in Stack, NEW count \in Nat, count = Cardinality(HeldIn(stack)),
         NEW u \in Slots,
         stacks' = [stacks EXCEPT ![s] = stack],
         counter' = [counter EXCEPT ![s] = count],
         udp_counters' = [udp_counters EXCEPT ![s] = u],
         \/ Stop /\ count <= MaxStack
         \/ Again(s) /\ (count <= MaxStack \/ (count = MaxStack + 1 /\ Has(stack, u))),
         delivered' \in [Sources -> Seq(Nat)],
         sent' \in [Sources -> Nat] /\ network' \in [Sources -> SUBSET Nat],
         lost' \in Nat /\ duplicated' \in [Sources -> Nat]
  PROVE  IInv'
<1>0. /\ stacks \in [Sources -> Stack] /\ counter \in [Sources -> Nat]
      /\ udp_counters \in [Sources -> Slots \cup {NoCounter}]
  BY DEF IInv, TypeOK, Stack
<1>1. /\ stacks' \in [Sources -> Stack] /\ counter' \in [Sources -> Nat]
      /\ udp_counters' \in [Sources -> Slots \cup {NoCounter}]
      /\ stacked_ip' \in {NoIp, s} /\ loop' \in BOOLEAN
  BY <1>0 DEF Stop, Again
<1>2. TypeOK'
  BY <1>1 DEF TypeOK, Stack
<1>3. NextEventIsRead'
  <2>1. udp_counters'[s] = u /\ u # NoCounter
    BY <1>0, NoneAssumption, SlotArithmetic
  <2> QED BY <2>1, NamesAssumption DEF NextEventIsRead, Stop, Again
<1>4. Counted'
  BY <1>0 DEF IInv, Counted
<1>5. Bounded'
  <2> SUFFICES ASSUME NEW t \in Sources
               PROVE  \/ counter'[t] <= MaxStack
                      \/ /\ t = stacked_ip'
                         /\ counter'[t] = MaxStack + 1
                         /\ Has(stacks'[t], udp_counters'[t])
    BY DEF Bounded
  <2>1. CASE t = s
    BY <1>0, <2>1 DEF Stop, Again
  <2>2. CASE t # s
    <3>1. counter[t] <= MaxStack
      BY <2>2, NamesAssumption DEF IInv, Bounded
    <3> QED BY <1>0, <2>2, <3>1
  <2> QED BY <2>1, <2>2
<1> QED BY <1>2, <1>3, <1>4, <1>5 DEF IInv

-----------------------------------------------------------------------------
(* The invariant holds initially and every step keeps it. *)
LEMMA InitInv == Init => IInv
<1> SUFFICES ASSUME Init PROVE IInv
  OBVIOUS
<1>1. TypeOK
  <2>1. stacks \in [Sources -> [Slots -> Nat \cup {NoData}]]
    BY DEF Init
  <2>2. delivered \in [Sources -> Seq(Nat)] /\ stacked_ip \in Sources \cup {NoIp}
    BY DEF Init
  <2>3. udp_counters \in [Sources -> Slots \cup {NoCounter}]
    BY DEF Init
  <2> QED BY <2>1, <2>2, <2>3 DEF Init, TypeOK
<1>2. NextEventIsRead
  BY DEF Init, NextEventIsRead
<1>3. \A s \in Sources : HeldIn(stacks[s]) = {}
  BY DEF Init, HeldIn, Has
<1>4. Counted
  BY <1>3, HeldInFinite DEF Init, Counted
<1>5. Bounded
  BY StackAssumption DEF Init, Bounded
<1> QED BY <1>1, <1>2, <1>4, <1>5 DEF IInv

(* The network does not touch the receiver. *)
LEMMA NetworkInv ==
  ASSUME IInv, NEW s \in Sources, Send(s) \/ Lose(s)
  PROVE  IInv'
<1>1. UNCHANGED <<duplicated, udp_counters, stacks, counter, stacked_ip, loop, delivered>>
  BY DEF Send, Lose
<1>2. sent' \in [Sources -> Nat] /\ network' \in [Sources -> SUBSET Nat] /\ lost' \in Nat
  <2>1. CASE Send(s)
    BY <2>1 DEF Send, IInv, TypeOK
  <2>2. CASE Lose(s)
    BY <2>2 DEF Lose, IInv, TypeOK
  <2> QED BY <2>1, <2>2
<1>3. TypeOK'
  BY <1>1, <1>2 DEF IInv, TypeOK
<1> QED BY <1>1, <1>3 DEF IInv, NextEventIsRead, Counted, Bounded

LEMMA ArrivesType ==
  ASSUME IInv, NEW s \in Sources, NEW d, Arrives(s, d)
  PROVE  /\ d \in Nat
         /\ sent' \in [Sources -> Nat] /\ network' \in [Sources -> SUBSET Nat]
         /\ lost' \in Nat /\ duplicated' \in [Sources -> Nat]
<1>1. /\ sent \in [Sources -> Nat] /\ network \in [Sources -> SUBSET Nat]
      /\ lost \in Nat /\ duplicated \in [Sources -> Nat]
  BY DEF IInv, TypeOK
<1>2. d \in network[s] /\ UNCHANGED <<sent, lost>>
  BY DEF Arrives
<1>3. \/ /\ network' = [network EXCEPT ![s] = @ \ {d}]
         /\ UNCHANGED duplicated
      \/ /\ duplicated' = [duplicated EXCEPT ![s] = @ + 1]
         /\ UNCHANGED network
  BY DEF Arrives
<1>4. network' \in [Sources -> SUBSET Nat] /\ duplicated' \in [Sources -> Nat]
  BY <1>1, <1>3
<1> QED BY <1>1, <1>2, <1>4

(* What TakeFrom leaves of a stack. *)
LEMMA TakeCounts ==
  ASSUME IInv, NEW s \in Sources, NEW stack \in Stack, NEW count \in Nat,
         count = Cardinality(HeldIn(stack)), NEW i \in Slots,
         TakeFrom(s, stack, count, i)
  PROVE  \E rest \in Stack, n \in Nat :
           /\ n = Cardinality(HeldIn(rest))
           /\ n = count - (IF Has(stack, i) THEN 1 ELSE 0)
           /\ stacks' = [stacks EXCEPT ![s] = rest] /\ stacks'[s] = rest
           /\ counter' = [counter EXCEPT ![s] = n] /\ counter'[s] = n
           /\ delivered' \in [Sources -> Seq(Nat)]
<1> DEFINE rest == [stack EXCEPT ![i] = NoData]
           n == count - (IF Has(stack, i) THEN 1 ELSE 0)
<1>1. rest \in Stack /\ n = Cardinality(HeldIn(rest))
  BY RemoveCounts
<1>2. n \in Nat
  BY <1>1, HeldInFinite
<1>3. stacks' = [stacks EXCEPT ![s] = rest] /\ counter' = [counter EXCEPT ![s] = n]
  BY DEF TakeFrom
<1>4. stacks'[s] = rest /\ counter'[s] = n
  BY <1>3 DEF IInv, TypeOK
<1>5. delivered' \in [Sources -> Seq(Nat)]
  <2>1. CASE Has(stack, i)
    <3>1. stack[i] \in Nat
      BY <2>1 DEF Has, Stack
    <3>2. delivered[s] \in Seq(Nat)
      BY DEF IInv, TypeOK
    <3>3. Append(delivered[s], stack[i]) \in Seq(Nat)
      BY <3>1, <3>2
    <3> QED BY <2>1, <3>3 DEF TakeFrom, IInv, TypeOK
  <2>2. CASE ~Has(stack, i)
    BY <2>2 DEF TakeFrom, IInv, TypeOK
  <2> QED BY <2>1, <2>2
<1> HIDE DEF rest
<1>6. n = count - (IF Has(stack, i) THEN 1 ELSE 0)
  OBVIOUS
<1> HIDE DEF n
<1> QED BY <1>1, <1>2, <1>3, <1>4, <1>5, <1>6

(* receive on a new datagram *)
LEMMA ReceiveNewInv ==
  ASSUME IInv, NEW s \in Sources, NEW d, ~loop, Arrives(s, d), ReceiveNew(s, d)
  PROVE  IInv'
<1> DEFINE current == Expected(s, d)
           stack == Added(s, d)
           count == CountAdded(s, d)
<1>1. /\ d \in Nat
      /\ sent' \in [Sources -> Nat] /\ network' \in [Sources -> SUBSET Nat]
      /\ lost' \in Nat /\ duplicated' \in [Sources -> Nat]
  BY ArrivesType
<1>2. /\ stack \in Stack /\ count \in Nat /\ count = Cardinality(HeldIn(stack))
      /\ Has(stack, d % Mod) /\ count <= counter[s] + 1
  BY <1>1, AddCounts DEF IInv
<1>3. stacked_ip = NoIp
  BY DEF IInv, NextEventIsRead
<1>4. count <= MaxStack + 1
  <2>1. counter[s] <= MaxStack
    BY <1>3, NamesAssumption DEF IInv, Bounded
  <2> QED BY <1>2, <2>1, StackAssumption DEF IInv, TypeOK
<1>5. current \in Slots /\ SyncedCounter(s, d) \in Slots
  <2>1. d % Mod \in Slots
    BY <1>1, SlotArithmetic
  <2>2. udp_counters[s] \in Slots \cup {NoCounter}
    BY DEF IInv, TypeOK
  <2> QED BY <2>1, <2>2, SlotArithmetic DEF Expected, SyncedCounter
<1>6. CASE ReceiveMore(s, d)
  <2>1. TakeFrom(s, stack, count, current) /\ Has(stack, current) /\ Again(s)
        /\ udp_counters' = [udp_counters EXCEPT ![s] = SyncedCounter(s, d)]
    BY <1>6 DEF ReceiveMore
  <2> HIDE DEF stack, count, current
  <2>2. PICK rest \in Stack, n \in Nat :
           /\ n = Cardinality(HeldIn(rest)) /\ n = count - 1
           /\ stacks' = [stacks EXCEPT ![s] = rest]
           /\ counter' = [counter EXCEPT ![s] = n]
           /\ delivered' \in [Sources -> Seq(Nat)]
    BY <1>2, <1>5, <2>1, TakeCounts
  <2>3. n <= MaxStack
    BY <1>2, <1>4, <2>2, StackAssumption
  <2> QED BY <1>1, <1>3, <1>5, <2>1, <2>2, <2>3, StackChange
<1>7. CASE ReceiveOne(s, d)
  <2>1. TakeFrom(s, stack, count, current) /\ Has(stack, current)
    BY <1>7 DEF ReceiveOne
  <2>2. ~(counter'[s] > MaxStack) =>
          Stop /\ udp_counters' = [udp_counters EXCEPT ![s] = current]
    BY <1>7 DEF ReceiveOne
  <2> HIDE DEF stack, count, current
  <2>3. PICK rest \in Stack, n \in Nat :
           /\ n = Cardinality(HeldIn(rest)) /\ n = count - 1
           /\ stacks' = [stacks EXCEPT ![s] = rest]
           /\ counter' = [counter EXCEPT ![s] = n] /\ counter'[s] = n
           /\ delivered' \in [Sources -> Seq(Nat)]
    BY <1>2, <1>5, <2>1, TakeCounts
  <2>4. n <= MaxStack /\ ~(counter'[s] > MaxStack)
    BY <1>2, <1>4, <2>3, StackAssumption
  <2> QED BY <1>1, <1>3, <1>5, <2>2, <2>3, <2>4, StackChange
<1>8. CASE ReceiveEarly(s, d)
  <2>1. /\ stacks' = [stacks EXCEPT ![s] = stack]
        /\ counter' = [counter EXCEPT ![s] = count]
        /\ delivered' \in [Sources -> Seq(Nat)]
    BY <1>8 DEF ReceiveEarly, IInv, TypeOK
  <2>2. CASE count > MaxStack
    <3>1. udp_counters' = [udp_counters EXCEPT ![s] = NextHeld(stack, current)] /\ Again(s)
      BY <1>8, <2>2 DEF ReceiveEarly
    <3>2. NextHeld(stack, current) \in Slots /\ Has(stack, NextHeld(stack, current))
      BY <1>1, <1>2, <1>5, NextHeldExists, SlotArithmetic
    <3>3. count = MaxStack + 1
      BY <1>2, <1>4, <2>2, StackAssumption
    <3> HIDE DEF stack, count, current
    <3> QED BY <1>1, <1>2, <1>3, <2>1, <3>1, <3>2, <3>3, StackChange
  <2>3. CASE ~(count > MaxStack)
    <3>1. UNCHANGED udp_counters /\ Stop
      BY <1>8, <2>3 DEF ReceiveEarly
    <3>2. udp_counters[s] # NoCounter
      <4>1. Has(stack, d % Mod) /\ ~Has(stack, current)
        BY <1>2, <1>8 DEF ReceiveEarly
      <4> QED BY <4>1 DEF Expected
    <3>3. udp_counters[s] \in Slots
          /\ udp_counters' = [udp_counters EXCEPT ![s] = udp_counters[s]]
      BY <3>1, <3>2 DEF IInv, TypeOK
    <3>4. count <= MaxStack
      BY <1>2, <2>3, StackAssumption
    <3> HIDE DEF stack, count, current
    <3> QED BY <1>1, <1>2, <1>3, <2>1, <3>1, <3>3, <3>4, StackChange
  <2> QED BY <2>2, <2>3
<1> QED BY <1>6, <1>7, <1>8 DEF ReceiveNew

(* the calls of receive that go on with a stack *)
LEMMA ReceiveAgainInv ==
  ASSUME IInv, ReceiveAgain
  PROVE  IInv'
<1> DEFINE s == stacked_ip
           i == udp_counters[s]
<1>1. s \in Sources /\ i \in Slots /\ stacks[s] \in Stack /\ counter[s] \in Nat
  BY DEF ReceiveAgain, IInv, TypeOK, NextEventIsRead, Stack
<1>2. TakeFrom(s, stacks[s], counter[s], i)
  BY DEF ReceiveAgain, HandleStack
<1>3. counter[s] = Cardinality(HeldIn(stacks[s]))
  BY <1>1 DEF IInv, Counted
<1>4. \/ Again(s) /\ udp_counters' = [udp_counters EXCEPT ![s] = Succ(i)]
      \/ Stop /\ UNCHANGED udp_counters
  BY DEF ReceiveAgain, HandleStack
<1>5. \/ counter[s] <= MaxStack
      \/ counter[s] = MaxStack + 1 /\ Has(stacks[s], i)
  BY <1>1 DEF IInv, Bounded
<1>6. /\ sent' \in [Sources -> Nat] /\ network' \in [Sources -> SUBSET Nat]
      /\ lost' \in Nat /\ duplicated' \in [Sources -> Nat]
  BY DEF ReceiveAgain, netVars, IInv, TypeOK
<1>7. PICK u \in Slots : /\ udp_counters' = [udp_counters EXCEPT ![s] = u]
                         /\ Again(s) \/ Stop
  <2>1. Succ(i) \in Slots
    BY <1>1, SlotArithmetic
  <2>2. UNCHANGED udp_counters => udp_counters' = [udp_counters EXCEPT ![s] = i]
    BY <1>1 DEF IInv, TypeOK
  <2> QED BY <1>1, <1>4, <2>1, <2>2
<1>8. PICK rest \in Stack, n \in Nat :
         /\ n = Cardinality(HeldIn(rest))
         /\ n = counter[s] - (IF Has(stacks[s], i) THEN 1 ELSE 0)
         /\ stacks' = [stacks EXCEPT ![s] = rest]
         /\ counter' = [counter EXCEPT ![s] = n]
         /\ delivered' \in [Sources -> Seq(Nat)]
  <2> HIDE DEF s, i
  <2> QED BY <1>1, <1>2, <1>3, TakeCounts
<1>9. n <= MaxStack
  BY <1>1, <1>5, <1>8, StackAssumption
<1> QED BY <1>1, <1>6, <1>7, <1>8, <1>9, StackChange

LEMMA StepInv == IInv /\ [Next]_vars => IInv'
<1> SUFFICES ASSUME IInv, [Next]_vars PROVE IInv'
  OBVIOUS
<1>1. ASSUME NEW s \in Sources, Send(s) \/ Lose(s) PROVE IInv'
  BY <1>1, NetworkInv
<1>2. ASSUME NEW s \in Sources, NEW d \in network[s], Receive(s, d) PROVE IInv'
  <2>1. ~loop /\ Arrives(s, d) /\ stacked_ip = NoIp
    BY <1>2 DEF Receive, IInv, NextEventIsRead
  <2>2. ReceiveNew(s, d)
    BY <1>2, <2>1 DEF Receive
  <2> QED BY <2>1, <2>2, ReceiveNewInv
<1>3. CASE ReceiveAgain
  BY <1>3, ReceiveAgainInv
<1>4. CASE UNCHANGED vars
  BY <1>4 DEF vars, IInv, TypeOK, NextEventIsRead, Counted, Bounded
<1> QED BY <1>1, <1>2, <1>3, <1>4 DEF Next

(* The inductive invariant holds in every state the channel reaches. *)
THEOREM Invariance == Spec => []IInv
BY InitInv, StepInv, PTL DEF Spec

(* The variables of UdpChannel keep their types; in particular the        *)
(* sequence numbers stay within the byte and a counter never goes below 0. *)
THEOREM TypeCorrect == Spec => []TypeOK
<1>1. IInv => TypeOK
  BY DEF IInv
<1> QED BY <1>1, Invariance, PTL

(* UdpChannel::receive: whatever the network loses, repeats or reorders,   *)
(* UdpStack::counter is the number of datagrams kept and at most max_stack *)
(* of each source wait for an older one between two events.                *)
THEOREM StacksAreBounded == Spec => []StackBounded
<1>1. IInv => StackBounded
  <2> SUFFICES ASSUME IInv, NEW s \in Sources
               PROVE  /\ counter[s] = Cardinality(Held(s))
                      /\ ~loop => counter[s] <= MaxStack
                      /\ counter[s] <= MaxStack + 1
    BY DEF StackBounded
  <2>1. counter[s] = Cardinality(Held(s))
    BY DEF IInv, Counted, HeldIn, Held
  <2>2. counter[s] \in Nat
    BY DEF IInv, TypeOK
  <2>3. counter[s] <= MaxStack + 1
    BY <2>2, StackAssumption DEF IInv, Bounded
  <2>4. ~loop => counter[s] <= MaxStack
    BY NamesAssumption DEF IInv, Bounded, NextEventIsRead
  <2> QED BY <2>1, <2>3, <2>4
<1> QED BY <1>1, Invariance, PTL

(* UdpChannel::receive: when it is called for a new event stacked_ip is    *)
(* empty, so the datagram of the event is read and not ignored.            *)
THEOREM EventsAreRead == Spec => []NextEventIsRead
<1>1. IInv => NextEventIsRead
  BY DEF IInv
<1> QED BY <1>1, Invariance, PTL

-----------------------------------------------------------------------------
(* Order.  The datagrams of a source are told apart by their byte as long  *)
(* as those that are held lie within Mod of the one that is expected.      *)

\* The datagrams in a stack, and those given to the block.
InStack(stack) == {stack[i] : i \in HeldIn(stack)}
Aligned(stack) == \A i \in HeldIn(stack) : stack[i] % Mod = i
Got(q) == {q[i] : i \in DOMAIN q}
Emptied(stack, d) == [stack EXCEPT ![d % Mod] = NoData]

\* Of n datagrams sent, those in the network, in the stack and given to the block,
\* and the m at most that are nowhere.
Nowhere(n, net, stack, q) == (0 .. n - 1) \ (net \cup InStack(stack) \cup Got(q))
InPlace(n, net, stack, q, m) ==
  /\ net \cup InStack(stack) \cup Got(q) \subseteq 0 .. n - 1
  /\ net \cap InStack(stack) = {}
  /\ Aligned(stack)
  /\ \A d \in InStack(stack) : \A x \in net : d <= x + Window
  /\ Cardinality(Nowhere(n, net, stack, q)) <= m
  /\ \A i, j \in DOMAIN q : i < j => q[i] < q[j]
  /\ \A g \in Got(q) : \A d \in net \cup InStack(stack) : g < d

\* The receiver expects e, which it may have got already.
Waits(c, net, stack, q, e) ==
  /\ Succ(c) = e % Mod
  /\ ~Has(stack, e % Mod)
  /\ \A g \in Got(q) : g <= e
  /\ \A d \in net \cup InStack(stack) : e <= d
  /\ \A d \in InStack(stack) : d < e + Mod /\ (e \notin Got(q) => d < e + Mod - 1)

\* It takes f from the stack next.
Takes(c, net, stack, q, f) ==
  /\ c = f % Mod
  /\ f \in InStack(stack)
  /\ \A g \in Got(q) : g < f
  /\ \A x \in net : f < x
  /\ \A d \in InStack(stack) : f <= d /\ d < f + Mod - 1

Turn(n, c, net, stack, q, stacked) ==
  IF c = NoCounter
  THEN Got(q) = {} /\ InStack(stack) = {}
  ELSE \/ \E e \in 0 .. n : /\ Waits(c, net, stack, q, e)
                            /\ stacked => \A d \in InStack(stack) : d < e + Mod - 1
       \/ stacked /\ \E f \in 0 .. n - 1 : Takes(c, net, stack, q, f)

Premise == Window <= MaxStack /\ MaxLost + MaxStack + Window + 1 < Mod
Placed(s) ==
  duplicated[s] = 0 =>
    /\ InPlace(sent[s], network[s], stacks[s], delivered[s], lost)
    /\ Turn(sent[s], udp_counters[s], network[s], stacks[s], delivered[s], stacked_ip = s)

Ordered == lost <= MaxLost /\ (Premise => \A s \in Sources : Placed(s))

-----------------------------------------------------------------------------
(* Arithmetic of the byte. *)
LEMMA OneRemainder ==
  ASSUME NEW p \in Nat, NEW q \in Nat, NEW x \in Slots, NEW y \in Slots,
         Mod * p + x = Mod * q + y
  PROVE  p = q /\ x = y
<1>1. Mod \in Nat \ {0} /\ x \in 0 .. Mod - 1 /\ y \in 0 .. Mod - 1
  BY ModAssumption DEF Slots
<1>2. ASSUME NEW i \in Nat, NEW j \in Nat, i < j PROVE Mod * i + Mod <= Mod * j
  <2>1. Mod * (i + 1) <= Mod * j
    BY <1>1, <1>2
  <2> QED BY <1>1, <2>1
<1>3. Mod * p \in Nat /\ Mod * q \in Nat
  BY <1>1
<1>4. ~(p < q) /\ ~(q < p)
  BY <1>1, <1>2, <1>3
<1>5. p = q
  BY <1>4
<1> QED BY <1>1, <1>3, <1>5

LEMMA Divided ==
  ASSUME NEW a \in Nat
  PROVE  \E q \in Nat, r \in Slots : a = Mod * q + r /\ r = a % Mod
<1>1. PICK q \in Nat, r \in Nat : a = Mod * q + r /\ r = a % Mod
  BY ModAssumption
<1> QED BY <1>1, SlotArithmetic

LEMMA Remainder ==
  ASSUME NEW a \in Nat, NEW b \in Nat, a % Mod = b % Mod, a <= b, b < a + Mod
  PROVE  a = b
<1>1. PICK q \in Nat, r \in Slots : a = Mod * q + r /\ r = a % Mod
  BY Divided
<1>2. PICK p \in Nat : b = Mod * p + r
  BY <1>1, Divided
<1>3. Mod * (q + 1) + r = Mod * q + Mod + r /\ Mod * q \in Nat /\ Mod * p \in Nat
  BY ModAssumption DEF Slots
<1>4. p = q
  <2>1. Mod \in Nat \ {0} /\ Mod * q <= Mod * p /\ Mod * p < Mod * q + Mod
    BY <1>1, <1>2, <1>3, ModAssumption DEF Slots
  <2>2. CASE p < q
    <3>1. Mod * (p + 1) <= Mod * q
      BY <2>1, <2>2
    <3> QED BY <2>1, <3>1
  <2>3. CASE p >= q + 1
    <3>1. Mod * (q + 1) <= Mod * p
      BY <2>1, <2>3
    <3> QED BY <2>1, <3>1
  <2> QED BY <2>2, <2>3
<1> QED BY <1>1, <1>2, <1>4

LEMMA Shift ==
  ASSUME NEW a \in Nat, NEW k \in Nat
  PROVE  ((a % Mod) + k) % Mod = (a + k) % Mod
<1>1. PICK q \in Nat, r \in Slots : a = Mod * q + r /\ r = a % Mod
  BY Divided
<1>2. PICK b \in Nat : b = r + k
  BY ModAssumption DEF Slots
<1>3. PICK p \in Nat, x \in Slots : b = Mod * p + x /\ x = b % Mod
  BY Divided
<1>4. PICK o \in Nat, y \in Slots : a + k = Mod * o + y /\ y = (a + k) % Mod
  BY Divided
<1>5. Mod * (p + q) + x = Mod * o + y
  <2>1. Mod * (p + q) = Mod * p + Mod * q
    BY ModAssumption
  <2> QED BY <1>1, <1>2, <1>3, <1>4, <2>1, ModAssumption DEF Slots
<1>6. x = y
  BY <1>5, OneRemainder
<1> QED BY <1>1, <1>2, <1>3, <1>4, <1>6

LEMMA SuccIs ==
  ASSUME NEW a \in Nat
  PROVE  Succ(a % Mod) = (a + 1) % Mod
BY Shift DEF Succ

-----------------------------------------------------------------------------
(* Stacks as sets of datagrams. *)
LEMMA StackHas ==
  ASSUME NEW stack \in Stack, Aligned(stack), NEW d \in InStack(stack)
  PROVE  d \in Nat /\ d % Mod \in HeldIn(stack) /\ stack[d % Mod] = d
<1>1. PICK i \in HeldIn(stack) : stack[i] = d
  BY DEF InStack
<1>2. stack[i] \in Nat /\ stack[i] % Mod = i
  BY DEF Aligned, HeldIn, Has, Stack
<1> QED BY <1>1, <1>2

LEMMA SlotHolds ==
  ASSUME NEW stack \in Stack, Aligned(stack), NEW e \in Nat,
         \A d \in InStack(stack) : e <= d /\ d < e + Mod,
         NEW k \in Nat, e <= k, k < e + Mod, Has(stack, k % Mod)
  PROVE  k \in InStack(stack) /\ stack[k % Mod] = k
<1>1. k % Mod \in HeldIn(stack)
  BY SlotArithmetic DEF HeldIn
<1>2. PICK d : d = stack[k % Mod] /\ d \in InStack(stack) /\ d % Mod = k % Mod
  BY <1>1 DEF InStack, Aligned
<1>3. d \in Nat /\ e <= d /\ d < e + Mod
  BY <1>2, StackHas
<1>4. d = k
  <2>1. CASE d <= k
    BY <1>2, <1>3, <2>1, Remainder, ModAssumption
  <2>2. CASE k <= d
    <3>1. d < k + Mod /\ k % Mod = d % Mod
      BY <1>2, <1>3, ModAssumption
    <3> QED BY <1>3, <2>2, <3>1, Remainder
  <2> QED BY <1>3, <2>1, <2>2
<1> QED BY <1>2, <1>4

LEMMA StackCounts ==
  ASSUME NEW stack \in Stack, Aligned(stack)
  PROVE  /\ IsFiniteSet(InStack(stack))
         /\ Cardinality(InStack(stack)) = Cardinality(HeldIn(stack))
<1> DEFINE H == HeldIn(stack)
           I == InStack(stack)
           f == [d \in I |-> d % Mod]
           g == [i \in H |-> stack[i]]
<1>1. IsFiniteSet(H) /\ Cardinality(H) \in Nat
  BY HeldInFinite
<1>2. f \in Injection(I, H)
  <2>1. f \in [I -> H]
    BY StackHas
  <2>2. \A a, b \in I : f[a] = f[b] => a = b
    BY StackHas
  <2> QED BY <2>1, <2>2 DEF Injection, IsInjective
<1>3. g \in Injection(H, I)
  <2>1. g \in [H -> I]
    BY DEF InStack
  <2>2. \A a, b \in H : g[a] = g[b] => a = b
    BY DEF Aligned
  <2> QED BY <2>1, <2>2 DEF Injection, IsInjective
<1>4. IsFiniteSet(I) /\ Cardinality(I) <= Cardinality(H)
  <2> HIDE DEF f, g, H, I
  <2> QED BY <1>1, <1>2, FS_Injection
<1>5. Cardinality(H) <= Cardinality(I) /\ Cardinality(I) \in Nat
  <2> HIDE DEF f, g, H, I
  <2> QED BY <1>3, <1>4, FS_Injection, FS_CardinalityType
<1> QED BY <1>1, <1>4, <1>5

LEMMA AddTo ==
  ASSUME NEW stack \in Stack, Aligned(stack), NEW d \in Nat, ~Has(stack, d % Mod)
  PROVE  LET more == [stack EXCEPT ![d % Mod] = d]
         IN more \in Stack /\ Aligned(more) /\ InStack(more) = InStack(stack) \cup {d}
<1> DEFINE x == d % Mod
           more == [stack EXCEPT ![x] = d]
<1>1. x \in Slots /\ d # NoData /\ d % Mod = x
  BY SlotArithmetic, NoneAssumption
<1> HIDE DEF x
<1>2. more \in Stack /\ more[x] = d /\ \A i \in Slots \ {x} : more[i] = stack[i]
  BY <1>1 DEF Stack
<1> HIDE DEF more
<1>3. HeldIn(more) = HeldIn(stack) \cup {x} /\ x \notin HeldIn(stack)
  BY <1>1, <1>2 DEF HeldIn, Has, x
<1>4. Aligned(more)
  BY <1>1, <1>2, <1>3 DEF Aligned, HeldIn
<1>5. InStack(more) = InStack(stack) \cup {d}
  <2>1. \A i \in HeldIn(stack) : more[i] = stack[i]
    BY <1>2, <1>3 DEF HeldIn
  <2> QED BY <1>2, <1>3, <2>1 DEF InStack
<1> QED BY <1>2, <1>4, <1>5 DEF more, x

LEMMA RemoveFrom ==
  ASSUME NEW stack \in Stack, Aligned(stack), NEW d \in InStack(stack)
  PROVE  LET rest == [stack EXCEPT ![d % Mod] = NoData]
         IN /\ rest \in Stack /\ Aligned(rest) /\ InStack(rest) = InStack(stack) \ {d}
            /\ ~Has(rest, d % Mod)
<1> DEFINE x == d % Mod
           rest == [stack EXCEPT ![x] = NoData]
<1>1. x \in HeldIn(stack) /\ stack[x] = d /\ x \in Slots
  BY StackHas DEF HeldIn
<1> HIDE DEF x
<1>2. rest \in Stack /\ rest[x] = NoData /\ \A i \in Slots \ {x} : rest[i] = stack[i]
  BY <1>1 DEF Stack
<1> HIDE DEF rest
<1>3. HeldIn(rest) = HeldIn(stack) \ {x} /\ ~Has(rest, x)
  BY <1>1, <1>2 DEF HeldIn, Has
<1>4. \A i \in HeldIn(rest) : rest[i] = stack[i] /\ rest[i] # d
  BY <1>1, <1>2, <1>3 DEF HeldIn, Aligned
<1>5. Aligned(rest)
  BY <1>3, <1>4 DEF Aligned
<1>6. InStack(rest) = InStack(stack) \ {d}
  BY <1>1, <1>3, <1>4 DEF InStack
<1> QED BY <1>2, <1>3, <1>5, <1>6 DEF rest, x

-----------------------------------------------------------------------------
(* Where the datagrams are. *)

LEMMA NowhereIsFinite ==
  ASSUME NEW n \in Nat, NEW net, NEW stack, NEW q
  PROVE  /\ IsFiniteSet(Nowhere(n, net, stack, q))
         /\ Cardinality(Nowhere(n, net, stack, q)) \in Nat
<1>1. IsFiniteSet(0 .. n - 1)
  BY FS_Interval
<1>2. IsFiniteSet(Nowhere(n, net, stack, q))
  BY <1>1, FS_Subset DEF Nowhere
<1> QED BY <1>2, FS_CardinalityType

(* A datagram that is sent. *)
LEMMA SendInPlace ==
  ASSUME NEW n \in Nat, NEW net, NEW stack \in Stack, NEW q \in Seq(Nat), NEW m \in Nat,
         InPlace(n, net, stack, q, m)
  PROVE  InPlace(n + 1, net \cup {n}, stack, q, m)
<1> DEFINE more == net \cup {n}
           I == InStack(stack)
<1>1. net \cup I \cup Got(q) \subseteq 0 .. n - 1
  BY DEF InPlace
<1>2. more \cup I \cup Got(q) \subseteq 0 .. (n + 1) - 1 /\ more \cap I = {}
  BY <1>1 DEF InPlace
<1>3. Nowhere(n + 1, more, stack, q) = Nowhere(n, net, stack, q)
  BY <1>1 DEF Nowhere
<1>4. \A d \in I : \A x \in more : d <= x + Window
  BY <1>1, NetworkAssumption DEF InPlace
<1>5. \A g \in Got(q) : \A d \in more \cup I : g < d
  BY <1>1 DEF InPlace
<1> QED BY <1>2, <1>3, <1>4, <1>5 DEF InPlace

(* A datagram that the network loses. *)
LEMMA LoseInPlace ==
  ASSUME NEW n \in Nat, NEW net, NEW stack \in Stack, NEW q \in Seq(Nat), NEW m \in Nat,
         InPlace(n, net, stack, q, m), NEW d \in net
  PROVE  InPlace(n, net \ {d}, stack, q, m + 1)
<1>1. Nowhere(n, net \ {d}, stack, q) \subseteq Nowhere(n, net, stack, q) \cup {d}
  BY DEF Nowhere
<1>2. Cardinality(Nowhere(n, net \ {d}, stack, q)) <= m + 1
  <2>1. PICK A, B : A = Nowhere(n, net, stack, q) /\ B = Nowhere(n, net \ {d}, stack, q)
    OBVIOUS
  <2>2. /\ IsFiniteSet(A) /\ Cardinality(A) \in Nat /\ Cardinality(A) <= m
        /\ Cardinality(B) \in Nat
    BY <2>1, NowhereIsFinite DEF InPlace
  <2>3. /\ IsFiniteSet(A \cup {d})
        /\ Cardinality(A \cup {d}) = IF d \in A THEN Cardinality(A) ELSE Cardinality(A) + 1
    BY <2>2, FS_AddElement
  <2>4. Cardinality(B) <= Cardinality(A \cup {d})
    BY <1>1, <2>1, <2>3, FS_Subset
  <2> QED BY <2>1, <2>2, <2>3, <2>4
<1>3. /\ (net \ {d}) \cup InStack(stack) \cup Got(q) \subseteq 0 .. n - 1
      /\ (net \ {d}) \cap InStack(stack) = {}
      /\ \A y \in InStack(stack) : \A x \in net \ {d} : y <= x + Window
      /\ \A g \in Got(q) : \A y \in (net \ {d}) \cup InStack(stack) : g < y
  BY DEF InPlace
<1> QED BY <1>2, <1>3 DEF InPlace

(* A datagram that arrives and is put in its slot. *)
LEMMA ArriveInPlace ==
  ASSUME NEW n \in Nat, NEW net, NEW stack \in Stack, NEW q \in Seq(Nat), NEW m \in Nat,
         InPlace(n, net, stack, q, m), NEW d \in net, \A x \in net : d <= x + Window,
         ~Has(stack, d % Mod)
  PROVE  LET more == [stack EXCEPT ![d % Mod] = d]
         IN /\ more \in Stack /\ InStack(more) = InStack(stack) \cup {d}
            /\ InPlace(n, net \ {d}, more, q, m)
<1> DEFINE more == [stack EXCEPT ![d % Mod] = d]
<1>1. d \in Nat /\ d \in 0 .. n - 1
  BY DEF InPlace
<1>2. more \in Stack /\ Aligned(more) /\ InStack(more) = InStack(stack) \cup {d}
  BY <1>1, AddTo DEF InPlace
<1> HIDE DEF more
<1>3. Nowhere(n, net \ {d}, more, q) = Nowhere(n, net, stack, q)
  BY <1>2 DEF Nowhere
<1>4. /\ (net \ {d}) \cup InStack(more) \cup Got(q) \subseteq 0 .. n - 1
      /\ (net \ {d}) \cap InStack(more) = {}
      /\ \A y \in InStack(more) : \A x \in net \ {d} : y <= x + Window
      /\ \A g \in Got(q) : \A y \in (net \ {d}) \cup InStack(more) : g < y
  BY <1>2 DEF InPlace
<1>5. InPlace(n, net \ {d}, more, q, m)
  BY <1>2, <1>3, <1>4 DEF InPlace
<1> QED BY <1>2, <1>5 DEF more

(* A datagram that is taken from its slot and given to the block. *)
LEMMA TakeInPlace ==
  ASSUME NEW n \in Nat, NEW net, NEW stack \in Stack, NEW q \in Seq(Nat), NEW m \in Nat,
         InPlace(n, net, stack, q, m), NEW d \in InStack(stack),
         \A y \in InStack(stack) : d <= y, \A x \in net : d < x
  PROVE  /\ Emptied(stack, d) \in Stack /\ InStack(Emptied(stack, d)) = InStack(stack) \ {d}
         /\ ~Has(Emptied(stack, d), d % Mod)
         /\ Append(q, d) \in Seq(Nat) /\ Got(Append(q, d)) = Got(q) \cup {d}
         /\ InPlace(n, net, Emptied(stack, d), Append(q, d), m)
<1> DEFINE rest == Emptied(stack, d)
           block == Append(q, d)
<1>1. d \in Nat /\ d \in 0 .. n - 1 /\ net \subseteq Nat /\ InStack(stack) \subseteq Nat
  BY DEF InPlace
<1>2. /\ rest \in Stack /\ Aligned(rest) /\ InStack(rest) = InStack(stack) \ {d}
      /\ ~Has(rest, d % Mod)
  BY RemoveFrom DEF InPlace, Emptied
<1> HIDE DEF rest
<1>3. /\ block \in Seq(Nat) /\ DOMAIN block = 1 .. Len(q) + 1 /\ DOMAIN q = 1 .. Len(q)
      /\ Len(q) \in Nat /\ block[Len(q) + 1] = d /\ \A i \in 1 .. Len(q) : block[i] = q[i]
  BY <1>1
<1> HIDE DEF block
<1>4. Got(block) = Got(q) \cup {d}
  <2>1. 1 .. Len(q) + 1 = (1 .. Len(q)) \cup {Len(q) + 1}
    BY <1>3
  <2> QED BY <1>3, <2>1 DEF Got
<1>5. \A g \in Got(q) : g < d
  BY DEF InPlace
<1>6. \A i, j \in DOMAIN block : i < j => block[i] < block[j]
  <2> SUFFICES ASSUME NEW i \in 1 .. Len(q) + 1, NEW j \in 1 .. Len(q) + 1, i < j
               PROVE  block[i] < block[j]
    BY <1>3
  <2>1. i \in 1 .. Len(q)
    BY <1>3
  <2>2. CASE j \in 1 .. Len(q)
    BY <1>3, <2>1, <2>2 DEF InPlace
  <2>3. CASE j = Len(q) + 1
    BY <1>3, <1>5, <2>1, <2>3 DEF Got
  <2>4. j \in 1 .. Len(q) \/ j = Len(q) + 1
    BY <1>3
  <2> QED BY <2>2, <2>3, <2>4
<1>7. Nowhere(n, net, rest, block) = Nowhere(n, net, stack, q)
  BY <1>2, <1>4 DEF Nowhere
<1>8. /\ net \cup InStack(rest) \cup Got(block) \subseteq 0 .. n - 1
      /\ net \cap InStack(rest) = {}
      /\ \A y \in InStack(rest) : \A x \in net : y <= x + Window
  BY <1>1, <1>2, <1>4 DEF InPlace
<1>9. \A g \in Got(block) : \A y \in net \cup InStack(rest) : g < y
  <2>1. \A y \in InStack(rest) : d < y
    <3> SUFFICES ASSUME NEW y \in InStack(rest) PROVE d < y
      OBVIOUS
    <3>1. y \in InStack(stack) /\ y # d
      BY <1>2
    <3> QED BY <1>1, <3>1
  <2>2. \A y \in net \cup InStack(rest) : y \in net \cup InStack(stack) /\ d < y
    BY <1>2, <2>1
  <2>3. \A g \in Got(q) : \A y \in net \cup InStack(stack) : g < y
    BY DEF InPlace
  <2> QED BY <1>4, <2>2, <2>3
<1>10. InPlace(n, net, rest, block, m)
  BY <1>2, <1>6, <1>7, <1>8, <1>9 DEF InPlace
<1> QED BY <1>2, <1>3, <1>4, <1>10 DEF rest, block

-----------------------------------------------------------------------------
(* What the receiver does. *)

(* A datagram that arrives lies within Mod of the one that is expected: of *)
(* those between, each is held or lost, but for one at most that the block *)
(* has got.                                                                *)
LEMMA WithinReach ==
  ASSUME Premise, NEW n \in Nat, NEW net, NEW stack \in Stack, NEW q \in Seq(Nat), NEW m \in Nat,
         m <= MaxLost, InPlace(n, net, stack, q, m), NEW c, NEW e \in Nat,
         Waits(c, net, stack, q, e), Cardinality(HeldIn(stack)) <= MaxStack,
         NEW d \in net, \A x \in net : d <= x + Window
  PROVE  d < e + Mod /\ (e \notin Got(q) => d < e + Mod - 1)
<1> DEFINE I == InStack(stack)
           A == Nowhere(n, net, stack, q)
           low == IF e \in Got(q) THEN e + 1 ELSE e
           R == low .. d - Window - 1
<1>1. /\ Window \in Nat /\ MaxLost \in Nat /\ MaxStack \in Nat /\ Mod \in Nat
      /\ MaxLost + MaxStack + Window + 1 < Mod
  BY NetworkAssumption, StackAssumption, ModAssumption DEF Premise
<1>2. d \in Nat /\ d < n
  BY DEF InPlace
<1>3. /\ IsFiniteSet(I) /\ Cardinality(I) <= MaxStack /\ Cardinality(I) \in Nat
  <2>1. Aligned(stack)
    BY DEF InPlace
  <2> QED BY <2>1, StackCounts, HeldInFinite
<1>4. IsFiniteSet(A) /\ Cardinality(A) \in Nat /\ Cardinality(A) <= m
  BY NowhereIsFinite DEF InPlace
<1>5. R \subseteq I \cup A
  <2> SUFFICES ASSUME NEW r \in R, r \notin I PROVE r \in A
    OBVIOUS
  <2>1. r \in 0 .. n - 1 /\ r >= e /\ r + Window < d
    BY <1>1, <1>2
  <2>2. r \notin net
    BY <1>1, <1>2, <2>1
  <2>3. r \notin Got(q)
    <3>1. \A g \in Got(q) : g <= e
      BY DEF Waits
    <3>2. r = e => e \notin Got(q)
      BY <2>1
    <3> QED BY <2>1, <3>1, <3>2
  <2> QED BY <2>1, <2>2, <2>3 DEF Nowhere
<1> HIDE DEF I, A
<1>6. IsFiniteSet(I \cup A) /\ Cardinality(I \cup A) <= MaxStack + m
  <2>1. /\ IsFiniteSet(I \cup A)
        /\ Cardinality(I \cup A) = Cardinality(I) + Cardinality(A) - Cardinality(I \cap A)
    BY <1>3, <1>4, FS_Union
  <2>2. Cardinality(I \cap A) \in Nat
    BY <1>3, FS_Intersection, FS_CardinalityType
  <2> QED BY <1>1, <1>3, <1>4, <2>1, <2>2
<1>7. low \in Nat /\ d - Window - 1 \in Int
  BY <1>1, <1>2
<1> HIDE DEF low
<1>8. Cardinality(R) = IF low > d - Window - 1 THEN 0 ELSE d - Window - 1 - low + 1
  BY <1>7, FS_Interval
<1>9. Cardinality(R) <= MaxStack + m
  <2>1. IsFiniteSet(R) /\ Cardinality(R) <= Cardinality(I \cup A)
    BY <1>5, <1>6, FS_Subset
  <2>2. Cardinality(R) \in Nat /\ Cardinality(I \cup A) \in Nat
    BY <1>6, <2>1, FS_CardinalityType
  <2> QED BY <1>1, <1>6, <2>1, <2>2
<1> HIDE DEF R
<1>10. d <= low + MaxStack + MaxLost + Window
  BY <1>1, <1>2, <1>7, <1>8, <1>9
<1> QED BY <1>1, <1>2, <1>10 DEF low

(* When more are held than the window has places, none is still to come    *)
(* before them.                                                            *)
LEMMA NoneBefore ==
  ASSUME Premise, NEW n \in Nat, NEW net, NEW stack \in Stack, NEW q, NEW m,
         InPlace(n, net, stack, q, m), Cardinality(HeldIn(stack)) > MaxStack,
         NEW f \in InStack(stack), \A d \in InStack(stack) : f <= d, NEW x \in net
  PROVE  f < x
<1> DEFINE I == InStack(stack)
<1>1. Window \in Nat /\ MaxStack \in Nat /\ Window <= MaxStack
  BY NetworkAssumption, StackAssumption DEF Premise
<1>2. x \in Nat /\ I \subseteq Nat /\ f # x /\ f \in Nat
  BY DEF InPlace
<1>3. ASSUME x < f PROVE FALSE
  <2>1. PICK a \in Int, b \in Int : a = x + 1 /\ b = x + Window
    BY <1>1, <1>2
  <2>2. I \subseteq a .. b
    BY <1>1, <1>2, <1>3, <2>1 DEF InPlace
  <2>3. IsFiniteSet(a .. b) /\ Cardinality(a .. b) = IF a > b THEN 0 ELSE b - a + 1
    BY FS_Interval
  <2>4. Cardinality(I) <= Window
    <3>1. Cardinality(I) <= Cardinality(a .. b)
      BY <2>2, <2>3, FS_Subset
    <3> QED BY <1>1, <1>2, <2>1, <2>3, <3>1
  <2>5. Cardinality(I) = Cardinality(HeldIn(stack)) /\ Cardinality(HeldIn(stack)) \in Nat
    BY StackCounts, HeldInFinite DEF InPlace
  <2> QED BY <1>1, <2>4, <2>5
<1> QED BY <1>2, <1>3

(* The search for the next datagram finds the oldest one that is held.     *)
LEMMA NextIsOldest ==
  ASSUME NEW stack \in Stack, Aligned(stack), NEW e \in Nat, InStack(stack) # {},
         \A d \in InStack(stack) : e < d /\ d < e + Mod
  PROVE  \E f \in InStack(stack) : /\ NextHeld(stack, e % Mod) = f % Mod
                                    /\ \A d \in InStack(stack) : f <= d
<1> DEFINE G == Gaps(stack, e % Mod)
           k0 == CHOOSE k \in G : \A j \in G : k <= j
<1>1. ASSUME NEW k \in 1 .. Mod PROVE ((e % Mod) + k) % Mod = (e + k) % Mod
  <2>1. k \in Nat
    BY ModAssumption
  <2> QED BY <2>1, Shift
<1>2. ASSUME NEW d \in InStack(stack) PROVE d \in Nat /\ d - e \in G
  <2>1. d \in Nat /\ d % Mod \in HeldIn(stack) /\ d - e \in 1 .. Mod /\ e + (d - e) = d
    BY StackHas, ModAssumption
  <2> QED BY <1>1, <2>1 DEF Gaps, HeldIn
<1>3. G \subseteq 1 .. Mod /\ G \in SUBSET Nat /\ G # {}
  BY <1>2, ModAssumption DEF Gaps
<1>4. k0 \in G /\ \A j \in G : k0 <= j
  BY <1>3, Smallest
<1>5. NextHeld(stack, e % Mod) = ((e % Mod) + k0) % Mod
  BY DEF NextHeld
<1> HIDE DEF k0
<1>6. k0 \in 1 .. Mod /\ Has(stack, (e + k0) % Mod)
  BY <1>1, <1>3, <1>4 DEF Gaps
<1> DEFINE f == e + k0
<1>7. f \in Nat /\ e + 1 <= f /\ f < e + 1 + Mod /\ e + 1 \in Nat
  BY <1>6, ModAssumption
<1>8. f \in InStack(stack)
  <2>1. \A d \in InStack(stack) : e + 1 <= d /\ d < e + 1 + Mod
    BY <1>2, ModAssumption
  <2> HIDE DEF f
  <2> QED BY <1>6, <1>7, <2>1, SlotHolds DEF f
<1>9. \A d \in InStack(stack) : f <= d
  BY <1>2, <1>4, <1>6
<1>10. NextHeld(stack, e % Mod) = f % Mod
  BY <1>1, <1>5, <1>6
<1> QED BY <1>8, <1>9, <1>10

(* Its turn on a datagram that it takes from the stack: the next one is    *)
(* there, or it is expected.                                               *)
LEMMA TakeTurn ==
  ASSUME NEW n \in Nat, NEW net, NEW stack \in Stack, NEW q \in Seq(Nat), NEW m \in Nat,
         InPlace(n, net, stack, q, m), NEW c, NEW f, Takes(c, net, stack, q, f)
  PROVE  LET rest == [stack EXCEPT ![c] = NoData]
             block == Append(q, stack[c])
         IN /\ Has(stack, c)
            /\ rest \in Stack /\ block \in Seq(Nat) /\ InPlace(n, net, rest, block, m)
            /\ IF Has(rest, Succ(c))
               THEN f + 1 \in 0 .. n - 1 /\ Takes(Succ(c), net, rest, block, f + 1)
               ELSE f + 1 \in 0 .. n /\ Waits(c, net, rest, block, f + 1)
<1> DEFINE rest == [stack EXCEPT ![c] = NoData]
           block == Append(q, stack[c])
<1>1. /\ f \in InStack(stack) /\ c = f % Mod /\ Aligned(stack)
      /\ \A d \in InStack(stack) : f <= d /\ d < f + Mod - 1
      /\ \A x \in net : f < x
  BY DEF Takes, InPlace
<1>2. f \in Nat /\ f \in 0 .. n - 1 /\ stack[c] = f /\ c \in HeldIn(stack)
  BY <1>1, StackHas DEF InPlace
<1>3. /\ rest \in Stack /\ InStack(rest) = InStack(stack) \ {f}
      /\ block \in Seq(Nat) /\ Got(block) = Got(q) \cup {f}
      /\ InPlace(n, net, rest, block, m)
  <2>1. rest = Emptied(stack, f) /\ block = Append(q, f)
    BY <1>1, <1>2 DEF Emptied
  <2>2. f \in InStack(stack) /\ (\A y \in InStack(stack) : f <= y) /\ (\A x \in net : f < x)
    BY <1>1
  <2> HIDE DEF rest, block
  <2>3. /\ Emptied(stack, f) \in Stack /\ InStack(Emptied(stack, f)) = InStack(stack) \ {f}
        /\ ~Has(Emptied(stack, f), f % Mod)
        /\ Append(q, f) \in Seq(Nat) /\ Got(Append(q, f)) = Got(q) \cup {f}
        /\ InPlace(n, net, Emptied(stack, f), Append(q, f), m)
    BY <2>2, TakeInPlace
  <2> QED BY <2>1, <2>3
<1>4. Has(stack, c)
  BY <1>2 DEF HeldIn
<1>5. Succ(c) = (f + 1) % Mod
  BY <1>1, <1>2, SuccIs
<1>6. /\ \A g \in Got(block) : g < f + 1
      /\ \A d \in InStack(rest) : f + 1 <= d /\ d < f + Mod - 1
      /\ \A x \in net : f + 1 <= x
      /\ f + 1 \in 0 .. n /\ Mod \in Nat /\ InStack(rest) \subseteq Nat /\ net \subseteq Nat
      /\ Got(block) \subseteq Nat
  <2>1. \A g \in Got(q) : g < f /\ g \in Nat
    BY DEF Takes, InPlace
  <2>2. net \subseteq Nat /\ InStack(stack) \subseteq Nat
    BY DEF InPlace
  <2>3. \A d \in InStack(rest) : f <= d /\ d # f /\ d \in Nat /\ d < f + Mod - 1
    BY <1>1, <1>3, <2>2
  <2>4. \A d \in InStack(rest) : f + 1 <= d
    BY <1>2, <2>3
  <2>5. \A g \in Got(block) : g < f + 1 /\ g \in Nat
    BY <1>2, <1>3, <2>1
  <2>6. \A x \in net : f + 1 <= x
    BY <1>1, <1>2, <2>2
  <2> HIDE DEF rest, block
  <2> QED BY <1>2, <2>2, <2>3, <2>4, <2>5, <2>6, ModAssumption
<1> HIDE DEF rest, block
<1>7. CASE Has(rest, Succ(c))
  <2>1. \A d \in InStack(rest) : f + 1 <= d /\ d < f + 1 + Mod
    BY <1>2, <1>6
  <2>2. f + 1 \in InStack(rest)
    <3>1. f + 1 \in Nat /\ f + 1 < f + 1 + Mod /\ f + 1 <= f + 1 /\ Aligned(rest)
      BY <1>2, <1>3, ModAssumption DEF InPlace
    <3>2. Has(rest, (f + 1) % Mod)
      BY <1>5, <1>7
    <3> QED BY <1>3, <2>1, <3>1, <3>2, SlotHolds
  <2>3. f + 1 \in 0 .. n - 1
    BY <1>3, <2>2 DEF InPlace
  <2>4. \A x \in net : f + 1 < x
    <3>1. \A x \in net : x # f + 1
      BY <1>3, <2>2 DEF InPlace
    <3> QED BY <1>2, <1>6, <3>1
  <2>5. Takes(Succ(c), net, rest, block, f + 1)
    BY <1>2, <1>5, <1>6, <2>2, <2>4 DEF Takes
  <2> QED BY <1>3, <1>4, <1>7, <2>3, <2>5 DEF rest, block
<1>8. CASE ~Has(rest, Succ(c))
  <2>1. Waits(c, net, rest, block, f + 1)
    BY <1>2, <1>5, <1>6, <1>8 DEF Waits
  <2> QED BY <1>3, <1>4, <1>6, <1>8, <2>1 DEF rest, block
<1> QED BY <1>7, <1>8

(* Its turn on the datagram it expects.                                    *)
LEMMA DueTurn ==
  ASSUME NEW n \in Nat, NEW net, NEW stack \in Stack, NEW q \in Seq(Nat), NEW m \in Nat,
         InPlace(n, net, stack, q, m), NEW c, NEW e \in net, Waits(c, net, stack, q, e)
  PROVE  LET more == [stack EXCEPT ![e % Mod] = e]
             rest == [more EXCEPT ![e % Mod] = NoData]
             block == Append(q, more[e % Mod])
         IN /\ more \in Stack /\ Has(more, e % Mod)
            /\ rest \in Stack /\ block \in Seq(Nat) /\ InPlace(n, net \ {e}, rest, block, m)
            /\ e \in 0 .. n - 1 /\ Waits(c, net \ {e}, rest, block, e)
            /\ \A d \in InStack(rest) : d < e + Mod - 1
            /\ ~Has(more, Succ(e % Mod)) => Waits(e % Mod, net \ {e}, rest, block, e + 1)
<1> DEFINE more == [stack EXCEPT ![e % Mod] = e]
           rest == [more EXCEPT ![e % Mod] = NoData]
           block == Append(q, more[e % Mod])
<1>1. /\ e \in Nat /\ e \in 0 .. n - 1 /\ net \subseteq Nat /\ InStack(stack) \subseteq Nat
      /\ Got(q) \subseteq Nat /\ net \cap InStack(stack) = {} /\ Window \in Nat /\ Mod \in Nat
  BY NetworkAssumption, ModAssumption DEF InPlace
<1>2. \A x \in net : e <= x /\ e <= x + Window
  BY <1>1 DEF Waits
<1>3. /\ more \in Stack /\ InStack(more) = InStack(stack) \cup {e}
      /\ InPlace(n, net \ {e}, more, q, m)
  BY <1>2, ArriveInPlace DEF Waits
<1> HIDE DEF more
<1>4. e % Mod \in HeldIn(more) /\ more[e % Mod] = e
  BY <1>3, StackHas DEF InPlace
<1>5. \A d \in InStack(more) : e <= d
  BY <1>1, <1>3 DEF Waits
<1>6. \A x \in net \ {e} : e < x
  BY <1>1, <1>2
<1>7. /\ rest \in Stack /\ InStack(rest) = InStack(more) \ {e} /\ ~Has(rest, e % Mod)
      /\ block \in Seq(Nat) /\ Got(block) = Got(q) \cup {e}
      /\ InPlace(n, net \ {e}, rest, block, m)
  <2>1. rest = Emptied(more, e) /\ block = Append(q, e)
    BY <1>4 DEF Emptied
  <2>2. e \in InStack(more) /\ more \in Stack /\ InPlace(n, net \ {e}, more, q, m)
    BY <1>3
  <2> HIDE DEF rest, block
  <2>3. /\ Emptied(more, e) \in Stack /\ InStack(Emptied(more, e)) = InStack(more) \ {e}
        /\ ~Has(Emptied(more, e), e % Mod)
        /\ Append(q, e) \in Seq(Nat) /\ Got(Append(q, e)) = Got(q) \cup {e}
        /\ InPlace(n, net \ {e}, Emptied(more, e), Append(q, e), m)
    BY <1>5, <1>6, <2>2, TakeInPlace
  <2> QED BY <2>1, <2>3
<1>8. InStack(rest) = InStack(stack)
  BY <1>1, <1>3, <1>7
<1>9. e \notin Got(q) /\ \A d \in InStack(stack) : e < d /\ d < e + Mod - 1
  <2>1. e \notin Got(q)
    BY <1>1 DEF InPlace
  <2>2. \A d \in InStack(stack) : e <= d /\ e # d /\ d < e + Mod - 1
    BY <1>1, <2>1 DEF Waits
  <2> QED BY <1>1, <2>1, <2>2
<1>10. \A g \in Got(block) : g <= e
  BY <1>1, <1>7 DEF Waits
<1> HIDE DEF rest, block
<1>11. Waits(c, net \ {e}, rest, block, e)
  BY <1>1, <1>6, <1>7, <1>8, <1>9, <1>10 DEF Waits
<1>12. ASSUME ~Has(more, Succ(e % Mod)) PROVE Waits(e % Mod, net \ {e}, rest, block, e + 1)
  <2>1. Succ(e % Mod) = (e + 1) % Mod /\ (e + 1) % Mod \in Slots
    BY <1>1, SuccIs, SlotArithmetic
  <2>2. ~Has(rest, (e + 1) % Mod)
    <3>1. rest[(e + 1) % Mod] \in {NoData, more[(e + 1) % Mod]}
      BY <1>3, <2>1 DEF rest, Stack
    <3> QED BY <1>12, <2>1, <3>1 DEF Has
  <2>3. /\ \A g \in Got(block) : g <= e + 1
        /\ \A d \in (net \ {e}) \cup InStack(rest) : e + 1 <= d
        /\ \A d \in InStack(rest) : d < e + 1 + Mod /\ d < e + 1 + Mod - 1
    <3>1. Got(block) \subseteq Nat
      BY <1>1, <1>7
    <3> QED BY <1>1, <1>6, <1>8, <1>9, <1>10, <3>1
  <2> QED BY <2>1, <2>2, <2>3 DEF Waits
<1>13. Has(more, e % Mod)
  BY <1>4 DEF HeldIn
<1> QED BY <1>1, <1>3, <1>7, <1>8, <1>9, <1>11, <1>12, <1>13 DEF more, rest, block

(* Its turn on the slot before the one it expects, which is empty.         *)
LEMMA StandStill ==
  ASSUME NEW stack \in Stack, Aligned(stack), NEW c \in Slots, NEW net, NEW q, NEW e \in Nat,
         Waits(c, net, stack, q, e), \A d \in InStack(stack) : d < e + Mod - 1
  PROVE  ~Has(stack, c) /\ [stack EXCEPT ![c] = NoData] = stack
<1>1. ASSUME Has(stack, c) PROVE FALSE
  <2>1. PICK d : d = stack[c] /\ d \in InStack(stack) /\ d % Mod = c
    BY <1>1 DEF InStack, HeldIn, Aligned
  <2>2. d \in Nat /\ e <= d /\ d < e + Mod - 1
    BY <2>1, StackHas DEF Waits
  <2>3. (d + 1) % Mod = e % Mod
    BY <2>1, <2>2, SuccIs DEF Waits
  <2>4. d + 1 \in Nat /\ e <= d + 1 /\ d + 1 < e + Mod
    BY <2>2, ModAssumption
  <2>5. d + 1 = e
    BY <2>3, <2>4, Remainder
  <2> QED BY <2>2, <2>5
<1>2. stack[c] = NoData
  BY <1>1 DEF Has
<1> QED BY <1>1, <1>2 DEF Stack

(* Its turn on a datagram that comes too early: it goes on to wait, or     *)
(* gives up what is missing and takes the oldest one it holds.             *)
LEMMA EarlyTurn ==
  ASSUME Premise, NEW n \in Nat, NEW net, NEW stack \in Stack, NEW q \in Seq(Nat), NEW m \in Nat,
         m <= MaxLost, InPlace(n, net, stack, q, m), NEW c, NEW e \in Nat,
         Waits(c, net, stack, q, e), Cardinality(HeldIn(stack)) <= MaxStack,
         NEW d \in net, \A x \in net : d <= x + Window, d # e
  PROVE  LET more == [stack EXCEPT ![d % Mod] = d]
         IN /\ more \in Stack /\ InPlace(n, net \ {d}, more, q, m)
            /\ ~Has(more, e % Mod)
            /\ Waits(c, net \ {d}, more, q, e)
            /\ Cardinality(HeldIn(more)) > MaxStack =>
                 \E f \in 0 .. n - 1 : /\ NextHeld(more, e % Mod) = f % Mod
                                       /\ Takes(f % Mod, net \ {d}, more, q, f)
<1> DEFINE more == [stack EXCEPT ![d % Mod] = d]
           left == net \ {d}
<1>1. /\ d \in Nat /\ net \subseteq Nat /\ InStack(stack) \subseteq Nat /\ Got(q) \subseteq Nat
      /\ d \notin InStack(stack) /\ Aligned(stack) /\ Mod \in Nat
      /\ d \in 0 .. n - 1
  BY ModAssumption DEF InPlace
<1>2. d < e + Mod /\ (e \notin Got(q) => d < e + Mod - 1)
  BY WithinReach
<1>3. e < d
  <2>1. e <= d
    BY DEF Waits
  <2> QED BY <1>1, <2>1
<1>4. \A y \in InStack(stack) : e <= y /\ y < e + Mod
  BY DEF Waits
<1>5. ~Has(stack, d % Mod)
  <2>1. e <= d
    BY <1>1, <1>3
  <2> QED BY <1>1, <1>2, <1>4, <2>1, SlotHolds
<1>6. /\ more \in Stack /\ InStack(more) = InStack(stack) \cup {d}
      /\ InPlace(n, left, more, q, m)
  BY <1>5, ArriveInPlace
<1>7. d % Mod # e % Mod
  BY <1>1, <1>2, <1>3, Remainder
<1>8. ~Has(more, e % Mod)
  <2>1. more[e % Mod] = stack[e % Mod]
    BY <1>7, SlotArithmetic DEF Stack
  <2> QED BY <2>1 DEF Waits, Has
<1> HIDE DEF more
<1>9. \A y \in InStack(more) : e < y /\ y < e + Mod /\ (e \notin Got(q) => y < e + Mod - 1)
  <2> SUFFICES ASSUME NEW y \in InStack(more)
               PROVE  e < y /\ y < e + Mod /\ (e \notin Got(q) => y < e + Mod - 1)
    OBVIOUS
  <2>1. CASE y = d
    BY <1>2, <1>3, <2>1
  <2>2. CASE y \in InStack(stack)
    <3>1. y \in Nat /\ y % Mod \in HeldIn(stack)
      BY <1>1, <2>2, StackHas
    <3>2. y # e
      BY <3>1 DEF Waits, HeldIn
    <3>3. e <= y /\ y < e + Mod /\ (e \notin Got(q) => y < e + Mod - 1)
      BY <2>2 DEF Waits
    <3> QED BY <3>1, <3>2, <3>3
  <2> QED BY <1>6, <2>1, <2>2
<1>10. Waits(c, left, more, q, e)
  <2>1. \A y \in left \cup InStack(more) : e <= y
    <3>1. \A y \in net : e <= y
      BY DEF Waits
    <3>2. InStack(more) \subseteq Nat
      BY <1>1, <1>6
    <3> QED BY <1>9, <3>1, <3>2
  <2> QED BY <1>8, <1>9, <2>1 DEF Waits
<1>11. ASSUME Cardinality(HeldIn(more)) > MaxStack
       PROVE  \E f \in 0 .. n - 1 : /\ NextHeld(more, e % Mod) = f % Mod
                                    /\ Takes(f % Mod, left, more, q, f)
  <2>1. Aligned(more) /\ InStack(more) # {}
    BY <1>6 DEF InPlace
  <2>2. PICK f \in InStack(more) : /\ NextHeld(more, e % Mod) = f % Mod
                                   /\ \A y \in InStack(more) : f <= y
    <3>1. \A y \in InStack(more) : e < y /\ y < e + Mod
      BY <1>9
    <3> QED BY <1>6, <2>1, <3>1, NextIsOldest
  <2>3. \A x \in left : f < x
    <3> SUFFICES ASSUME NEW x \in left PROVE f < x
      OBVIOUS
    <3> HIDE DEF left
    <3>1. /\ more \in Stack /\ InPlace(n, left, more, q, m) /\ Cardinality(HeldIn(more)) > MaxStack
          /\ \A y \in InStack(more) : f <= y
      BY <1>6, <1>11, <2>2
    <3> QED BY <3>1, NoneBefore
  <2>4. /\ f \in 0 .. n - 1 /\ e < f /\ InStack(more) \subseteq Nat
    <3>1. InStack(more) \subseteq 0 .. n - 1
      BY <1>6 DEF InPlace
    <3> QED BY <1>9, <3>1
  <2>5. \A y \in InStack(more) : f <= y /\ y < f + Mod - 1
    BY <1>1, <1>9, <2>2, <2>4
  <2>6. \A g \in Got(q) : g < f
    <3>1. \A g \in Got(q) : g <= e
      BY DEF Waits
    <3> QED BY <1>1, <2>4, <3>1
  <2>7. Takes(f % Mod, left, more, q, f)
    BY <2>3, <2>5, <2>6 DEF Takes
  <2> QED BY <2>2, <2>4, <2>7
<1> QED BY <1>6, <1>8, <1>10, <1>11 DEF more

-----------------------------------------------------------------------------
(* Every step keeps the order. *)
LEMMA SendTurn ==
  ASSUME NEW n \in Nat, NEW c, NEW net, NEW stack, NEW q, NEW b \in BOOLEAN, Turn(n, c, net, stack, q, b)
  PROVE  Turn(n + 1, c, net \cup {n}, stack, q, b)
<1>1. ASSUME NEW e \in 0 .. n, Waits(c, net, stack, q, e)
      PROVE  e \in 0 .. n + 1 /\ Waits(c, net \cup {n}, stack, q, e)
  BY <1>1 DEF Waits
<1>2. ASSUME NEW f \in 0 .. n - 1, Takes(c, net, stack, q, f)
      PROVE  f \in 0 .. (n + 1) - 1 /\ Takes(c, net \cup {n}, stack, q, f)
  BY <1>2 DEF Takes
<1> QED BY <1>1, <1>2 DEF Turn

LEMMA LoseTurn ==
  ASSUME NEW n \in Nat, NEW c, NEW net, NEW d, NEW stack, NEW q, NEW b \in BOOLEAN,
         Turn(n, c, net, stack, q, b)
  PROVE  Turn(n, c, net \ {d}, stack, q, b)
BY DEF Turn, Waits, Takes

LEMMA SourceTypes ==
  ASSUME IInv, NEW s \in Sources
  PROVE  /\ sent[s] \in Nat /\ stacks[s] \in Stack /\ delivered[s] \in Seq(Nat)
         /\ lost \in Nat /\ counter[s] \in Nat /\ duplicated[s] \in Nat
         /\ udp_counters[s] \in Slots \cup {NoCounter} /\ NoCounter \notin Slots
         /\ counter[s] = Cardinality(HeldIn(stacks[s]))
BY NoneAssumption, SlotArithmetic DEF IInv, TypeOK, Stack, Counted

(* A source whose datagrams did not move. *)
LEMMA OtherPlaced ==
  ASSUME IInv, NEW t \in Sources, Placed(t), lost' \in Nat, lost <= lost',
         /\ sent'[t] = sent[t] /\ network'[t] = network[t] /\ duplicated'[t] = duplicated[t]
         /\ stacks'[t] = stacks[t] /\ delivered'[t] = delivered[t]
         /\ udp_counters'[t] = udp_counters[t],
         (stacked_ip = t) <=> (stacked_ip' = t)
  PROVE  Placed(t)'
<1>1. SUFFICES ASSUME duplicated[t] = 0
               PROVE  /\ InPlace(sent[t], network[t], stacks[t], delivered[t], lost')
                      /\ Turn(sent[t], udp_counters[t], network[t], stacks[t], delivered[t],
                              stacked_ip' = t)
  BY DEF Placed
<1>2. /\ InPlace(sent[t], network[t], stacks[t], delivered[t], lost)
      /\ Turn(sent[t], udp_counters[t], network[t], stacks[t], delivered[t], stacked_ip = t)
  BY <1>1 DEF Placed
<1>3. InPlace(sent[t], network[t], stacks[t], delivered[t], lost')
  <2>1. Cardinality(Nowhere(sent[t], network[t], stacks[t], delivered[t])) \in Nat
    BY SourceTypes, NowhereIsFinite
  <2> QED BY <1>2, <2>1, SourceTypes DEF InPlace
<1> QED BY <1>2, <1>3 DEF Turn

LEMMA NetworkOrdered ==
  ASSUME IInv, Ordered, NEW s \in Sources, Send(s) \/ Lose(s)
  PROVE  Ordered'
<1>1. /\ UNCHANGED <<duplicated, udp_counters, stacks, counter, stacked_ip, loop, delivered>>
      /\ sent \in [Sources -> Nat] /\ network \in [Sources -> SUBSET Nat] /\ lost \in Nat
  BY DEF Send, Lose, IInv, TypeOK
<1>2. CASE Send(s)
  <2>1. /\ lost' = lost /\ sent' = [sent EXCEPT ![s] = @ + 1]
        /\ network' = [network EXCEPT ![s] = @ \cup {sent[s]}]
    BY <1>2 DEF Send
  <2>2. ASSUME Premise, NEW t \in Sources PROVE Placed(t)'
    <3>1. Placed(t)
      BY <2>2 DEF Ordered
    <3>2. CASE t # s
      BY <1>1, <2>1, <3>1, <3>2, OtherPlaced
    <3>3. CASE t = s
      <4> SUFFICES ASSUME duplicated[s] = 0
                   PROVE  /\ InPlace(sent[s] + 1, network[s] \cup {sent[s]}, stacks[s], delivered[s], lost)
                          /\ Turn(sent[s] + 1, udp_counters[s], network[s] \cup {sent[s]}, stacks[s],
                                  delivered[s], stacked_ip = s)
        BY <1>1, <2>1, <3>3 DEF Placed
      <4>1. /\ InPlace(sent[s], network[s], stacks[s], delivered[s], lost)
            /\ Turn(sent[s], udp_counters[s], network[s], stacks[s], delivered[s], stacked_ip = s)
        BY <3>1, <3>3 DEF Placed
      <4> QED BY <4>1, SourceTypes, SendInPlace, SendTurn
    <3> QED BY <3>2, <3>3
  <2> QED BY <2>1, <2>2 DEF Ordered
<1>3. CASE Lose(s)
  <2>1. PICK d \in network[s] : network' = [network EXCEPT ![s] = @ \ {d}]
    BY <1>3 DEF Lose
  <2>2. lost < MaxLost /\ lost' = lost + 1 /\ sent' = sent
    BY <1>3 DEF Lose
  <2>3. lost' <= MaxLost
    BY <1>1, <2>2, NetworkAssumption
  <2>4. ASSUME Premise, NEW t \in Sources PROVE Placed(t)'
    <3>1. Placed(t)
      BY <2>4 DEF Ordered
    <3>2. CASE t # s
      BY <1>1, <2>1, <2>2, <3>1, <3>2, OtherPlaced
    <3>3. CASE t = s
      <4> SUFFICES ASSUME duplicated[s] = 0
                   PROVE  /\ InPlace(sent[s], network[s] \ {d}, stacks[s], delivered[s], lost + 1)
                          /\ Turn(sent[s], udp_counters[s], network[s] \ {d}, stacks[s],
                                  delivered[s], stacked_ip = s)
        BY <1>1, <2>1, <2>2, <3>3 DEF Placed
      <4>1. /\ InPlace(sent[s], network[s], stacks[s], delivered[s], lost)
            /\ Turn(sent[s], udp_counters[s], network[s], stacks[s], delivered[s], stacked_ip = s)
        BY <3>1, <3>3 DEF Placed
      <4> QED BY <4>1, SourceTypes, LoseInPlace, LoseTurn
    <3> QED BY <3>2, <3>3
  <2> QED BY <2>3, <2>4 DEF Ordered
<1> QED BY <1>2, <1>3

LEMMA AgainOrdered ==
  ASSUME IInv, Ordered, ReceiveAgain
  PROVE  Ordered'
<1> DEFINE s == stacked_ip
           c == udp_counters[s]
           stack == stacks[s]
           q == delivered[s]
           rest == [stack EXCEPT ![c] = NoData]
<1>1. /\ s \in Sources /\ c \in Slots /\ c # NoCounter /\ UNCHANGED netVars
  BY DEF ReceiveAgain, IInv, TypeOK, NextEventIsRead
<1>2. TakeFrom(s, stack, counter[s], c)
  BY DEF ReceiveAgain, HandleStack
<1>3. IF Has(stacks'[s], Succ(c))
      THEN udp_counters' = [udp_counters EXCEPT ![s] = Succ(c)] /\ Again(s)
      ELSE UNCHANGED udp_counters /\ Stop
  BY DEF ReceiveAgain, HandleStack
<1>4. /\ stacks \in [Sources -> Stack] /\ delivered \in [Sources -> Seq(Nat)]
      /\ udp_counters \in [Sources -> Slots \cup {NoCounter}]
  BY DEF IInv, TypeOK, Stack
<1>5. /\ stacks' = [stacks EXCEPT ![s] = rest]
      /\ delivered' = IF Has(stack, c) THEN [delivered EXCEPT ![s] = Append(@, stack[c])]
                      ELSE delivered
  BY <1>2 DEF TakeFrom
<1>6. stacks'[s] = rest /\ delivered'[s] = IF Has(stack, c) THEN Append(q, stack[c]) ELSE q
  BY <1>1, <1>4, <1>5
<1>7. ASSUME NEW t \in Sources, t # s
      PROVE  stacks'[t] = stacks[t] /\ delivered'[t] = delivered[t] /\ udp_counters'[t] = udp_counters[t]
  BY <1>3, <1>4, <1>5, <1>7
<1>8. stacked_ip' \in {s, NoIp}
  BY <1>3 DEF Again, Stop
<1>9. udp_counters'[s] = IF Has(rest, Succ(c)) THEN Succ(c) ELSE c
  BY <1>1, <1>3, <1>4, <1>6
<1>10. (stacked_ip' = s) <=> Has(rest, Succ(c))
  BY <1>1, <1>3, <1>6, NamesAssumption DEF Again, Stop
<1>11. ASSUME Premise, NEW t \in Sources PROVE Placed(t)'
  <2>1. Placed(t)
    BY <1>11 DEF Ordered
  <2>2. CASE t # s
    <3>1. (stacked_ip = t) <=> (stacked_ip' = t)
      BY <1>8, <2>2, NamesAssumption
    <3>2. lost' \in Nat /\ lost <= lost'
      BY <1>1, SourceTypes DEF netVars
    <3> QED BY <1>1, <1>7, <2>1, <2>2, <3>1, <3>2, OtherPlaced DEF netVars
  <2>3. CASE t = s
    <3> DEFINE n == sent[s]
               net == network[s]
               block == Append(q, stack[c])
    <3> SUFFICES ASSUME duplicated[s] = 0
                 PROVE  /\ InPlace(n, net, rest, delivered'[s], lost)
                        /\ Turn(n, udp_counters'[s], net, rest, delivered'[s], stacked_ip' = s)
      BY <1>1, <1>6, <2>3 DEF Placed, netVars
    <3>1. InPlace(n, net, stack, q, lost) /\ Turn(n, c, net, stack, q, TRUE)
      BY <2>1, <2>3 DEF Placed
    <3>2. n \in Nat /\ stack \in Stack /\ q \in Seq(Nat) /\ lost \in Nat
      BY <1>1, SourceTypes
    <3> HIDE DEF n, net, q, stack, c, s
    <3>3. CASE \E e \in 0 .. n : /\ Waits(c, net, stack, q, e)
                                 /\ \A d \in InStack(stack) : d < e + Mod - 1
      <4>1. PICK e \in 0 .. n : /\ Waits(c, net, stack, q, e)
                                /\ \A d \in InStack(stack) : d < e + Mod - 1
        BY <3>3
      <4>2. ~Has(stack, c) /\ rest = stack
        <5>1. e \in Nat /\ Aligned(stack)
          BY <3>1, <3>2 DEF InPlace
        <5> QED BY <1>1, <3>2, <4>1, <5>1, StandStill
      <4>3. ~Has(stack, Succ(c))
        BY <4>1 DEF Waits
      <4>4. delivered'[s] = q /\ udp_counters'[s] = c /\ ~(stacked_ip' = s)
        BY <1>6, <1>9, <1>10, <4>2, <4>3
      <4>5. Turn(n, c, net, stack, q, FALSE)
        BY <1>1, <4>1 DEF Turn
      <4> HIDE DEF rest
      <4> QED BY <3>1, <4>2, <4>4, <4>5
    <3>4. CASE \E f \in 0 .. n - 1 : Takes(c, net, stack, q, f)
      <4>1. PICK f \in 0 .. n - 1 : Takes(c, net, stack, q, f)
        BY <3>4
      <4>2. /\ Has(stack, c) /\ rest \in Stack /\ block \in Seq(Nat)
            /\ InPlace(n, net, rest, block, lost)
            /\ IF Has(rest, Succ(c))
               THEN f + 1 \in 0 .. n - 1 /\ Takes(Succ(c), net, rest, block, f + 1)
               ELSE f + 1 \in 0 .. n /\ Waits(c, net, rest, block, f + 1)
        BY <3>1, <3>2, <4>1, TakeTurn
      <4>3. delivered'[s] = block
        BY <1>6, <4>2
      <4> HIDE DEF rest, block
      <4>4. CASE Has(rest, Succ(c))
        <5>1. Succ(c) # NoCounter
          BY <1>1, SlotArithmetic, NoneAssumption
        <5>2. Turn(n, Succ(c), net, rest, block, TRUE)
          BY <4>2, <4>4, <5>1 DEF Turn
        <5> QED BY <1>9, <1>10, <4>2, <4>3, <4>4, <5>2
      <4>5. CASE ~Has(rest, Succ(c))
        <5>1. Turn(n, c, net, rest, block, FALSE)
          BY <1>1, <4>2, <4>5 DEF Turn
        <5> QED BY <1>9, <1>10, <4>2, <4>3, <4>5, <5>1
      <4> QED BY <4>4, <4>5
    <3> QED BY <1>1, <3>1, <3>3, <3>4 DEF Turn
  <2> QED BY <2>2, <2>3
<1>12. lost' <= MaxLost
  BY <1>1 DEF Ordered, netVars
<1> QED BY <1>11, <1>12 DEF Ordered

\* What ReceiveNew does to s, where it is known what the slots hold.
DueResult(s, more, e) ==
  LET i == e % Mod
  IN /\ stacks'[s] = [more EXCEPT ![i] = NoData]
     /\ delivered'[s] = Append(delivered[s], more[i])
     /\ IF Has(more, Succ(i))
        THEN udp_counters[s] # NoCounter => udp_counters'[s] = udp_counters[s]
        ELSE udp_counters'[s] = i /\ stacked_ip' = NoIp
EarlyResult(s, more, e) ==
  LET i == e % Mod
  IN /\ stacks'[s] = more /\ delivered'[s] = delivered[s]
     /\ IF Cardinality(HeldIn(more)) > MaxStack
        THEN udp_counters'[s] = NextHeld(more, i) /\ stacked_ip' = s
        ELSE udp_counters'[s] = udp_counters[s] /\ stacked_ip' = NoIp

LEMMA ReceiveGives ==
  ASSUME IInv, NEW s \in Sources, NEW d, ~loop, Arrives(s, d), ReceiveNew(s, d),
         NEW e \in Nat, Expected(s, d) = e % Mod,
         NEW more, more = [stacks[s] EXCEPT ![d % Mod] = d]
  PROVE  /\ IF Has(more, e % Mod) THEN DueResult(s, more, e) ELSE EarlyResult(s, more, e)
         /\ stacked_ip = NoIp /\ stacked_ip' \in {NoIp, s}
         /\ \A t \in Sources \ {s} : /\ stacks'[t] = stacks[t] /\ delivered'[t] = delivered[t]
                                     /\ udp_counters'[t] = udp_counters[t]
<1> DEFINE i == e % Mod
           count == CountAdded(s, d)
<1>1. d \in Nat
  BY ArrivesType
<1>2. stacked_ip = NoIp
  BY DEF IInv, NextEventIsRead
<1>3. /\ Added(s, d) = more /\ count = Cardinality(HeldIn(more))
      /\ count \in Nat /\ count <= counter[s] + 1
  BY <1>1, AddCounts DEF IInv, Added
<1>4. count <= MaxStack + 1
  <2>1. counter[s] <= MaxStack
    BY <1>2, NamesAssumption DEF IInv, Bounded
  <2> QED BY <1>3, <2>1, StackAssumption DEF IInv, TypeOK
<1>5. /\ udp_counters \in [Sources -> Slots \cup {NoCounter}]
      /\ stacks \in [Sources -> Stack] /\ delivered \in [Sources -> Seq(Nat)]
      /\ counter \in [Sources -> Nat]
  BY DEF IInv, TypeOK, Stack
<1>6. CASE ReceiveMore(s, d)
  <2>1. /\ Has(more, i) /\ Has(more, Succ(i)) /\ TakeFrom(s, more, count, i) /\ Again(s)
        /\ udp_counters' = [udp_counters EXCEPT ![s] = SyncedCounter(s, d)]
    BY <1>3, <1>6 DEF ReceiveMore
  <2>2. udp_counters[s] # NoCounter => udp_counters'[s] = udp_counters[s]
    BY <1>5, <2>1 DEF SyncedCounter
  <2>3. \A t \in Sources \ {s} : udp_counters'[t] = udp_counters[t]
    BY <1>5, <2>1
  <2> HIDE DEF i, count
  <2>4. /\ stacks'[s] = [more EXCEPT ![i] = NoData]
        /\ delivered'[s] = Append(delivered[s], more[i])
        /\ \A t \in Sources \ {s} : stacks'[t] = stacks[t] /\ delivered'[t] = delivered[t]
    BY <1>5, <2>1 DEF TakeFrom
  <2>5. stacked_ip' = s
    BY <2>1 DEF Again
  <2> QED BY <1>2, <2>1, <2>2, <2>3, <2>4, <2>5 DEF DueResult, i
<1>7. CASE ReceiveOne(s, d)
  <2>1. /\ Has(more, i) /\ ~Has(more, Succ(i)) /\ TakeFrom(s, more, count, i)
        /\ ~(counter'[s] > MaxStack) =>
              Stop /\ udp_counters' = [udp_counters EXCEPT ![s] = i]
    BY <1>3, <1>7 DEF ReceiveOne
  <2> HIDE DEF i, count
  <2>2. /\ stacks'[s] = [more EXCEPT ![i] = NoData]
        /\ delivered'[s] = Append(delivered[s], more[i]) /\ counter'[s] = count - 1
        /\ \A t \in Sources \ {s} : stacks'[t] = stacks[t] /\ delivered'[t] = delivered[t]
    BY <1>5, <2>1 DEF TakeFrom
  <2>3. ~(counter'[s] > MaxStack)
    BY <1>3, <1>4, <2>2, StackAssumption
  <2>4. /\ stacked_ip' = NoIp /\ udp_counters'[s] = i
        /\ \A t \in Sources \ {s} : udp_counters'[t] = udp_counters[t]
    BY <1>5, <2>1, <2>3 DEF Stop
  <2> QED BY <1>2, <2>1, <2>2, <2>4 DEF DueResult, i
<1>8. CASE ReceiveEarly(s, d)
  <2>1. /\ ~Has(more, i) /\ stacks' = [stacks EXCEPT ![s] = more] /\ delivered' = delivered
        /\ IF count > MaxStack
           THEN udp_counters' = [udp_counters EXCEPT ![s] = NextHeld(more, i)] /\ Again(s)
           ELSE UNCHANGED udp_counters /\ Stop
    BY <1>3, <1>8 DEF ReceiveEarly
  <2>2. stacks'[s] = more /\ delivered'[s] = delivered[s]
        /\ \A t \in Sources \ {s} : stacks'[t] = stacks[t] /\ delivered'[t] = delivered[t]
    BY <1>5, <2>1
  <2> HIDE DEF i
  <2>3. /\ IF count > MaxStack
           THEN udp_counters'[s] = NextHeld(more, i) /\ stacked_ip' = s
           ELSE udp_counters'[s] = udp_counters[s] /\ stacked_ip' = NoIp
        /\ \A t \in Sources \ {s} : udp_counters'[t] = udp_counters[t]
    BY <1>5, <2>1 DEF Again, Stop
  <2> QED BY <1>2, <1>3, <2>1, <2>2, <2>3 DEF EarlyResult, i
<1> QED BY <1>6, <1>7, <1>8 DEF ReceiveNew

LEMMA ReceiveOrdered ==
  ASSUME IInv, Ordered, NEW s \in Sources, NEW d, ~loop, Arrives(s, d), ReceiveNew(s, d)
  PROVE  Ordered'
<1> DEFINE n == sent[s]
           net == network[s]
           left == net \ {d}
           c == udp_counters[s]
           stack == stacks[s]
           q == delivered[s]
           more == [stack EXCEPT ![d % Mod] = d]
<1>1. d \in Nat /\ d \in net /\ sent' = sent /\ lost' = lost
  BY ArrivesType DEF Arrives
<1>2. /\ network \in [Sources -> SUBSET Nat] /\ duplicated \in [Sources -> Nat]
      /\ Window \in Nat /\ Mod \in Nat \ {0, 1}
  BY NetworkAssumption, ModAssumption DEF IInv, TypeOK
<1>3. \/ network' = [network EXCEPT ![s] = @ \ {d}] /\ duplicated' = duplicated
      \/ network' = network /\ duplicated' = [duplicated EXCEPT ![s] = @ + 1]
  BY DEF Arrives
<1>4. \A x \in net : d <= x + (IF c = NoCounter THEN 0 ELSE Window)
  BY DEF Arrives
<1>5. ASSUME NEW e \in Nat, Expected(s, d) = e % Mod
      PROVE  /\ IF Has(more, e % Mod) THEN DueResult(s, more, e) ELSE EarlyResult(s, more, e)
             /\ stacked_ip = NoIp /\ stacked_ip' \in {NoIp, s}
             /\ \A t \in Sources \ {s} : /\ stacks'[t] = stacks[t] /\ delivered'[t] = delivered[t]
                                         /\ udp_counters'[t] = udp_counters[t]
  <2> HIDE DEF more
  <2> QED BY <1>5, ReceiveGives DEF more
<1>6. \E e \in Nat : Expected(s, d) = e % Mod
  <2>1. Expected(s, d) \in Slots
    BY <1>1, SourceTypes, SlotArithmetic DEF Expected
  <2>2. ASSUME NEW i \in Slots PROVE i \in Nat /\ i % Mod = i
    BY ModAssumption DEF Slots
  <2> QED BY <2>1, <2>2
<1>7. ASSUME Premise, duplicated'[s] = 0
      PROVE  /\ InPlace(n, left, stacks'[s], delivered'[s], lost)
             /\ Turn(n, udp_counters'[s], left, stacks'[s], delivered'[s], stacked_ip' = s)
             /\ network'[s] = left
  <2>1. duplicated[s] = 0 /\ network'[s] = left
    BY <1>2, <1>3, <1>7
  <2>2. stacked_ip = NoIp /\ stacked_ip # s
    BY <1>5, <1>6, NamesAssumption
  <2>3. InPlace(n, net, stack, q, lost) /\ Turn(n, c, net, stack, q, FALSE)
    BY <1>7, <2>1, <2>2 DEF Ordered, Placed
  <2>4. /\ n \in Nat /\ stack \in Stack /\ q \in Seq(Nat) /\ lost \in Nat /\ c \in Slots \cup {NoCounter}
        /\ counter[s] = Cardinality(HeldIn(stack)) /\ counter[s] \in Nat /\ NoCounter \notin Slots
    BY SourceTypes
  <2>5. Cardinality(HeldIn(stack)) <= MaxStack
    BY <2>2, <2>4, NamesAssumption DEF IInv, Bounded
  <2>6. lost <= MaxLost
    BY DEF Ordered
  <2>7. NoIp # s
    BY NamesAssumption
  <2> DEFINE i == d % Mod
             rest == [more EXCEPT ![i] = NoData]
             block == Append(q, more[i])
  <2>8. CASE c = NoCounter
    <3>1. Got(q) = {} /\ InStack(stack) = {}
      BY <2>3, <2>8 DEF Turn
    <3>2. \A j : ~(j \in HeldIn(stack))
      BY <3>1 DEF InStack
    <3>3. ~Has(stack, i)
      BY <1>1, <3>2, SlotArithmetic DEF HeldIn
    <3>4. PICK b \in Nat : Succ(b) = i
      <4>1. PICK b \in Nat : b + 1 = d + Mod
        BY <1>1, <1>2
      <4>2. (d + Mod) % Mod = d % Mod
        <5>1. PICK p \in Nat, x \in Slots : d = Mod * p + x /\ x = d % Mod
          BY <1>1, Divided
        <5>2. PICK o \in Nat, y \in Slots : d + Mod = Mod * o + y /\ y = (d + Mod) % Mod
          <6>1. d + Mod \in Nat
            BY <1>1, <1>2
          <6> QED BY <6>1, Divided
        <5>3. Mod * (p + 1) = Mod * p + Mod /\ Mod * p \in Nat /\ x \in Nat
          BY <1>2, SlotArithmetic
        <5>4. Mod * (p + 1) + x = Mod * o + y
          BY <1>2, <5>1, <5>2, <5>3
        <5>5. p + 1 \in Nat
          OBVIOUS
        <5>6. x = y
          BY <5>4, <5>5, OneRemainder
        <5> QED BY <5>1, <5>2, <5>6
      <4> QED BY <4>1, <4>2 DEF Succ
    <3>5. Waits(b, net, stack, q, d)
      <4>1. \A x \in net : x \in Nat /\ d <= x
        BY <1>2, <1>4, <2>8
      <4> QED BY <3>1, <3>3, <3>4, <4>1 DEF Waits
    <3>6. /\ more \in Stack /\ Has(more, i)
          /\ InPlace(n, left, rest, block, lost)
          /\ d \in 0 .. n - 1
          /\ ~Has(more, Succ(i)) => Waits(i, left, rest, block, d + 1)
      BY <1>1, <2>3, <2>4, <3>5, DueTurn
    <3>7. i # Succ(i) /\ i \in Slots /\ Succ(i) \in Slots
      <4>1. d + 1 < d + Mod /\ d <= d + 1 /\ d + 1 \in Nat /\ d # d + 1
        BY <1>1, <1>2
      <4>2. d % Mod # (d + 1) % Mod
        BY <1>1, <4>1, Remainder
      <4> QED BY <1>1, <4>2, SuccIs, SlotArithmetic
    <3>8. ~Has(more, Succ(i))
      <4>1. more[Succ(i)] = stack[Succ(i)]
        BY <2>4, <3>7 DEF Stack
      <4> QED BY <3>2, <3>7, <4>1 DEF HeldIn, Has
    <3>9. Expected(s, d) = i
      BY <2>8 DEF Expected
    <3>10. DueResult(s, more, d)
      BY <1>1, <1>5, <3>6, <3>9
    <3>11. /\ stacks'[s] = rest /\ delivered'[s] = block
           /\ udp_counters'[s] = i /\ stacked_ip' = NoIp
      BY <3>8, <3>10 DEF DueResult
    <3> HIDE DEF rest, block, more, i
    <3>12. Turn(n, i, left, rest, block, FALSE)
      <4>1. d + 1 \in 0 .. n /\ i # NoCounter
        BY <1>1, <2>4, <3>6, <3>7
      <4> QED BY <3>6, <3>8, <4>1 DEF Turn
    <3> QED BY <2>1, <2>7, <3>6, <3>11, <3>12
  <2>9. CASE c # NoCounter
    <3>1. PICK e \in 0 .. n : Waits(c, net, stack, q, e)
      BY <2>3, <2>9 DEF Turn
    <3>2. e \in Nat /\ Expected(s, d) = e % Mod
      BY <2>9, <3>1 DEF Expected, Waits
    <3>3. \A x \in net : d <= x + Window
      BY <1>4, <2>9
    <3>4. CASE d = e
      <4>1. /\ Has(more, i) /\ InPlace(n, left, rest, block, lost)
            /\ d \in 0 .. n - 1
            /\ Waits(c, left, rest, block, d)
            /\ \A y \in InStack(rest) : y < d + Mod - 1
            /\ ~Has(more, Succ(i)) => Waits(i, left, rest, block, d + 1)
        <5>1. d \in net /\ Waits(c, net, stack, q, d) /\ InPlace(n, net, stack, q, lost)
          BY <1>1, <2>3, <3>1, <3>4
        <5> HIDE DEF n, net, c, stack, q
        <5>2. /\ Has(more, i) /\ InPlace(n, left, rest, block, lost)
              /\ d \in 0 .. n - 1 /\ Waits(c, left, rest, block, d)
              /\ \A y \in InStack(rest) : y < d + Mod - 1
              /\ ~Has(more, Succ(i)) => Waits(i, left, rest, block, d + 1)
          BY <2>4, <5>1, DueTurn
        <5> QED BY <5>2
      <4>2. DueResult(s, more, d)
        BY <1>1, <1>5, <3>2, <3>4, <4>1
      <4>3. i \in Slots
        BY <1>1, SlotArithmetic
      <4>4. /\ stacks'[s] = rest /\ delivered'[s] = block
            /\ IF Has(more, Succ(i)) THEN udp_counters'[s] = c
               ELSE udp_counters'[s] = i /\ stacked_ip' = NoIp
        BY <2>9, <4>2 DEF DueResult
      <4> HIDE DEF rest, block, more, i
      <4>5. CASE Has(more, Succ(i))
        <5>1. Turn(n, c, left, rest, block, stacked_ip' = s)
          <6>1. d \in 0 .. n
            BY <2>4, <4>1
          <6> QED BY <2>9, <4>1, <6>1 DEF Turn
        <5> QED BY <2>1, <4>1, <4>4, <4>5, <5>1
      <4>6. CASE ~Has(more, Succ(i))
        <5>1. d + 1 \in 0 .. n /\ i # NoCounter
          BY <1>1, <2>4, <4>1, <4>3
        <5>2. Turn(n, i, left, rest, block, FALSE)
          BY <4>1, <4>6, <5>1 DEF Turn
        <5> QED BY <2>1, <2>7, <4>1, <4>4, <4>6, <5>2
      <4> QED BY <4>5, <4>6
    <3>5. CASE d # e
      <4>1. /\ InPlace(n, left, more, q, lost) /\ ~Has(more, e % Mod)
            /\ Waits(c, left, more, q, e)
            /\ Cardinality(HeldIn(more)) > MaxStack =>
                 \E f \in 0 .. n - 1 : /\ NextHeld(more, e % Mod) = f % Mod
                                       /\ Takes(f % Mod, left, more, q, f)
        <5>1. d \in net /\ InPlace(n, net, stack, q, lost) /\ Premise
          BY <1>1, <1>7, <2>3
        <5> HIDE DEF n, net, c, stack, q
        <5>2. e \in Nat /\ Waits(c, net, stack, q, e)
          BY <3>1, <3>2
        <5>3. /\ n \in Nat /\ stack \in Stack /\ q \in Seq(Nat) /\ lost \in Nat /\ lost <= MaxLost
              /\ Cardinality(HeldIn(stack)) <= MaxStack
              /\ \A x \in net : d <= x + Window
              /\ d # e
          BY <2>4, <2>5, <2>6, <3>3, <3>5
        <5>4. LET m == [stack EXCEPT ![d % Mod] = d]
              IN /\ m \in Stack /\ InPlace(n, net \ {d}, m, q, lost)
                 /\ ~Has(m, e % Mod)
                 /\ Waits(c, net \ {d}, m, q, e)
                 /\ Cardinality(HeldIn(m)) > MaxStack =>
                      \E f \in 0 .. n - 1 : /\ NextHeld(m, e % Mod) = f % Mod
                                            /\ Takes(f % Mod, net \ {d}, m, q, f)
          BY <5>1, <5>2, <5>3, EarlyTurn, ZenonT(60)
        <5> QED BY <5>4
      <4>2. EarlyResult(s, more, e)
        BY <1>5, <3>2, <4>1
      <4>3. /\ stacks'[s] = more /\ delivered'[s] = q
            /\ IF Cardinality(HeldIn(more)) > MaxStack
               THEN udp_counters'[s] = NextHeld(more, e % Mod) /\ stacked_ip' = s
               ELSE udp_counters'[s] = c /\ stacked_ip' = NoIp
        BY <4>2 DEF EarlyResult
      <4> HIDE DEF more
      <4>4. CASE Cardinality(HeldIn(more)) > MaxStack
        <5>1. PICK f \in 0 .. n - 1 : /\ NextHeld(more, e % Mod) = f % Mod
                                      /\ Takes(f % Mod, left, more, q, f)
          BY <4>1, <4>4
        <5>2. f % Mod # NoCounter
          BY <2>4, SlotArithmetic
        <5>3. Turn(n, f % Mod, left, more, q, TRUE)
          BY <5>1, <5>2 DEF Turn
        <5> QED BY <2>1, <4>1, <4>3, <4>4, <5>1, <5>3
      <4>5. CASE ~(Cardinality(HeldIn(more)) > MaxStack)
        <5>1. Turn(n, c, left, more, q, FALSE)
          BY <2>9, <3>1, <4>1 DEF Turn
        <5> QED BY <2>1, <2>7, <4>1, <4>3, <4>5, <5>1
      <4> QED BY <4>4, <4>5
    <3> QED BY <3>4, <3>5
  <2> QED BY <2>8, <2>9
<1>8. ASSUME Premise, NEW t \in Sources PROVE Placed(t)'
  <2>1. CASE t = s
    BY <1>1, <1>7, <1>8, <2>1 DEF Placed
  <2>2. CASE t # s
    <3>1. /\ stacks'[t] = stacks[t] /\ delivered'[t] = delivered[t]
          /\ udp_counters'[t] = udp_counters[t]
          /\ (stacked_ip = t) <=> (stacked_ip' = t)
      BY <1>5, <1>6, <2>2, NamesAssumption
    <3>2. network'[t] = network[t] /\ duplicated'[t] = duplicated[t]
      BY <1>2, <1>3, <2>2
    <3>3. Placed(t) /\ lost' \in Nat /\ lost <= lost' /\ sent'[t] = sent[t]
      BY <1>1, <1>8, SourceTypes DEF Ordered
    <3> QED BY <3>1, <3>2, <3>3, OtherPlaced
  <2> QED BY <2>1, <2>2
<1> QED BY <1>1, <1>8 DEF Ordered

LEMMA InitOrdered == Init => Ordered
<1>0. Init => lost <= MaxLost
  BY NetworkAssumption DEF Init
<1> SUFFICES ASSUME Init, NEW s \in Sources PROVE Placed(s)
  BY <1>0 DEF Ordered
<1> USE DEF Init
<1>1. HeldIn(stacks[s]) = {}
  BY DEF HeldIn, Has
<1>2. InStack(stacks[s]) = {} /\ Got(delivered[s]) = {}
  BY <1>1 DEF InStack, Got
<1>3. Nowhere(0, {}, stacks[s], delivered[s]) = {}
  BY DEF Nowhere
<1>4. InPlace(0, {}, stacks[s], delivered[s], 0)
  <2>1. Cardinality({}) = 0
    BY FS_EmptySet
  <2>2. DOMAIN delivered[s] = {}
    <3> HIDE DEF Init
    <3>1. DOMAIN << >> = 1 .. 0
      BY SMT
    <3>2. delivered[s] = << >>
      BY DEF Init
    <3> QED BY <3>1, <3>2
  <2>3. Cardinality(Nowhere(0, {}, stacks[s], delivered[s])) = 0
    <3> HIDE DEF Init
    <3> QED BY <1>3, <2>1, Zenon
  <2>4. Aligned(stacks[s])
    BY <1>1 DEF Aligned
  <2>5. \A i, j \in DOMAIN delivered[s] : i < j => delivered[s][i] < delivered[s][j]
    BY <2>2
  <2> HIDE DEF Init
  <2> QED BY <1>2, <2>3, <2>4, <2>5 DEF InPlace
<1>5. Turn(0, NoCounter, {}, stacks[s], delivered[s], stacked_ip = s)
  BY <1>2 DEF Turn
<1> QED BY <1>4, <1>5 DEF Placed

LEMMA StepOrdered == IInv /\ Ordered /\ [Next]_vars => Ordered'
<1> SUFFICES ASSUME IInv, Ordered, [Next]_vars PROVE Ordered'
  OBVIOUS
<1>1. ASSUME NEW s \in Sources, Send(s) \/ Lose(s) PROVE Ordered'
  BY <1>1, NetworkOrdered
<1>2. ASSUME NEW s \in Sources, NEW d \in network[s], Receive(s, d) PROVE Ordered'
  <2>1. ~loop /\ Arrives(s, d) /\ stacked_ip = NoIp
    BY <1>2 DEF Receive, IInv, NextEventIsRead
  <2>2. ReceiveNew(s, d)
    BY <1>2, <2>1 DEF Receive
  <2> QED BY <2>1, <2>2, ReceiveOrdered
<1>3. CASE ReceiveAgain
  BY <1>3, AgainOrdered
<1>4. CASE UNCHANGED vars
  BY <1>4 DEF vars, Ordered, Placed
<1> QED BY <1>1, <1>2, <1>3, <1>4 DEF Next

LEMMA OrderInvariance == Spec => []Ordered
BY InitInv, StepInv, InitOrdered, StepOrdered, PTL DEF Spec

(* UdpChannel::receive and UdpStack: a window of no more than max_stack    *)
(* and losses that leave datagrams less than 256 apart, whatever           *)
(* their numbers are: the block gets the datagrams of a source in the      *)
(* order they were sent, and none is given up that is still to come.       *)
THEOREM DatagramsInOrder == Spec => []InOrder
<1>1. Ordered => InOrder
  <2> SUFFICES ASSUME Ordered, NEW s \in Sources, Premise, duplicated[s] = 0
               PROVE  /\ \A i, j \in DOMAIN delivered[s] : i < j => delivered[s][i] < delivered[s][j]
                      /\ \A i \in DOMAIN delivered[s] :
                           \A d \in network[s] \cup Stacked(s) : delivered[s][i] < d
    BY DEF InOrder, Premise
  <2>1. InPlace(sent[s], network[s], stacks[s], delivered[s], lost)
    BY DEF Ordered, Placed
  <2>2. Stacked(s) = InStack(stacks[s])
    BY DEF Stacked, Held, InStack, HeldIn
  <2> QED BY <2>1, <2>2 DEF InPlace, Got
<1> QED BY <1>1, OrderInvariance, PTL

=============================================================================
