----------------------------- MODULE UdpChannel -----------------------------
(***************************************************************************)
(* opensand-core/src/common/UdpChannel.cpp: datagrams between the entities *)
(* of the emulator, numbered by the sender in one byte and put back in     *)
(* order by the receiver with one stack of early datagrams per source IP.  *)
(*                                                                         *)
(* A payload is the rank of the datagram among those its source sent, so   *)
(* the byte in front of it is that rank modulo Mod (256 in the code).  The *)
(* network between the two sockets loses, duplicates and reorders: a       *)
(* datagram arrives at most Window places before the oldest one in flight. *)
(*                                                                         *)
(* receive is called in a loop by the socket event of a block while it     *)
(* returns 1; the steps of that loop are the actions here.  A sendto that  *)
(* fails leaves the state as it is and has no action.  At the first        *)
(* datagram of a source, receive also writes through the end iterator of   *)
(* udp_counters; with the members in their order that byte belongs to      *)
(* send_buffer, which send clears before use, so it has no effect here.    *)
(***************************************************************************)
EXTENDS Integers, Sequences, FiniteSets

CONSTANTS Sources,        \* IP addresses that send on the channel
          NoIp,           \* the empty string of stacked_ip
          NoData,         \* an empty slot of a UdpStack
          NoCounter,      \* no entry in udp_counters
          Mod,            \* number of values of the sequence byte
          MaxStack,       \* UdpChannel::max_stack
          Window,         \* how far a datagram may arrive ahead of its turn
          MaxSent,        \* bound: how many datagrams each source sends
          MaxLost,        \* bound: how many datagrams the network loses
          MaxDuplicated   \* bound: how many datagrams it delivers twice

ASSUME NamesAssumption == NoIp \notin Sources
ASSUME ModAssumption == Mod \in Nat \ {0, 1}
ASSUME StackAssumption == MaxStack \in Nat
ASSUME NoneAssumption == NoData \notin Nat /\ NoCounter \notin Nat
ASSUME NetworkAssumption == /\ Window \in Nat
                            /\ MaxSent \in [Sources -> Nat]
                            /\ MaxLost \in Nat
                            /\ MaxDuplicated \in Nat

VARIABLES
  sent,          \* sent[s]: datagrams s sent; its UdpChannel::counter is this modulo Mod
  network,       \* network[s]: datagrams of s in flight
  lost,          \* datagrams lost by the network
  duplicated,    \* duplicated[s]: datagrams of s delivered twice by the network
  udp_counters,  \* UdpChannel::udp_counters
  stacks,        \* UdpChannel::stacks: the slots of each UdpStack
  counter,       \* UdpStack::counter of each stack
  stacked_ip,    \* UdpChannel::stacked_ip
  loop,          \* whether receive returned 1 and will be called again
  delivered      \* delivered[s]: what the block got from s, in order

vars == <<sent, network, lost, duplicated, udp_counters, stacks, counter,
          stacked_ip, loop, delivered>>
netVars == <<sent, network, lost, duplicated>>

Slots == 0 .. Mod - 1
Succ(n) == (n + 1) % Mod

Init == /\ sent = [s \in Sources |-> 0]
        /\ network = [s \in Sources |-> {}]
        /\ lost = 0
        /\ duplicated = [s \in Sources |-> 0]
        /\ udp_counters = [s \in Sources |-> NoCounter]
        /\ stacks = [s \in Sources |-> [i \in Slots |-> NoData]]
        /\ counter = [s \in Sources |-> 0]
        /\ stacked_ip = NoIp
        /\ loop = FALSE
        /\ delivered = [s \in Sources |-> << >>]

-----------------------------------------------------------------------------
(* The sender and the network *)

Send(s) == /\ sent[s] < MaxSent[s]
           /\ sent' = [sent EXCEPT ![s] = @ + 1]
           /\ network' = [network EXCEPT ![s] = @ \cup {sent[s]}]
           /\ UNCHANGED <<lost, duplicated, udp_counters, stacks, counter,
                          stacked_ip, loop, delivered>>

Lose(s) == /\ lost < MaxLost
           /\ lost' = lost + 1
           /\ \E d \in network[s] : network' = [network EXCEPT ![s] = @ \ {d}]
           /\ UNCHANGED <<sent, duplicated, udp_counters, stacks, counter,
                          stacked_ip, loop, delivered>>

\* The socket of the receiver gets d.  The first datagram a source gets
\* through is its oldest one in flight.
Arrives(s, d) ==
  /\ d \in network[s]
  /\ \A e \in network[s] : d <= e + (IF udp_counters[s] = NoCounter THEN 0 ELSE Window)
  /\ \/ /\ network' = [network EXCEPT ![s] = @ \ {d}]
        /\ UNCHANGED duplicated
     \/ /\ \A t \in Sources : duplicated[t] < MaxDuplicated
        /\ duplicated' = [duplicated EXCEPT ![s] = @ + 1]
        /\ UNCHANGED network
  /\ UNCHANGED <<sent, lost>>

-----------------------------------------------------------------------------
(* UdpStack *)

Has(stack, i) == stack[i] # NoData                     \* UdpStack::hasNext

\* UdpStack::add counts the new datagram and no longer the one it erases.
Added(s, d) == [stacks[s] EXCEPT ![d % Mod] = d]
\* A slip: the datagram that add erases is still counted.
CountAddedTwice(s, d) == counter[s] + 1

CountAdded(s, d) == counter[s] + (IF Has(stacks[s], d % Mod) THEN 0 ELSE 1)

\* A slip: remove counts an empty slot too.
TakeFromEmpty(s, stack, count, i) ==
  /\ stacks' = [stacks EXCEPT ![s] = [stack EXCEPT ![i] = NoData]]
  /\ counter' = [counter EXCEPT ![s] = count - 1]
  /\ delivered' = IF Has(stack, i)
                  THEN [delivered EXCEPT ![s] = Append(@, stack[i])]
                  ELSE delivered

\* UdpStack::remove and handleStack(buf, data_len, counter, stack): the slot is
\* emptied and its datagram, if there was one, given to the block; stacked_ip
\* is kept for the next slot.
TakeFrom(s, stack, count, i) ==
  /\ stacks' = [stacks EXCEPT ![s] = [stack EXCEPT ![i] = NoData]]
  /\ counter' = [counter EXCEPT ![s] = count - (IF Has(stack, i) THEN 1 ELSE 0)]
  /\ delivered' = IF Has(stack, i)
                  THEN [delivered EXCEPT ![s] = Append(@, stack[i])]
                  ELSE delivered

\* The next slot that holds a datagram, from the one after i and around.
Gaps(stack, i) == {k \in 1 .. Mod : Has(stack, (i + k) % Mod)}
NextHeld(stack, i) ==
  (i + (CHOOSE k \in Gaps(stack, i) : \A j \in Gaps(stack, i) : k <= j)) % Mod

-----------------------------------------------------------------------------
(* UdpChannel::receive on a new datagram *)

Expected(s, d) == IF udp_counters[s] = NoCounter THEN d % Mod ELSE Succ(udp_counters[s])
SyncedCounter(s, d) == IF udp_counters[s] = NoCounter THEN d % Mod ELSE udp_counters[s]

\* A slip: stacked_ip is not cleared when the stack is done.
StopStacked == UNCHANGED stacked_ip /\ loop' = FALSE

\* A slip: receive returns 1 whatever the stack holds.
StopAgain == UNCHANGED stacked_ip /\ loop' = (stacked_ip # NoIp)

Stop == stacked_ip' = NoIp /\ loop' = FALSE
Again(s) == stacked_ip' = s /\ loop' = TRUE

\* The expected datagram is there and the one after it too: receive returns 1
\* before it updates udp_counters.
ReceiveMore(s, d) ==
  LET current == Expected(s, d)
      stack == Added(s, d)
  IN /\ Has(stack, current) /\ Has(stack, Succ(current))
     /\ TakeFrom(s, stack, CountAdded(s, d), current)
     /\ udp_counters' = [udp_counters EXCEPT ![s] = SyncedCounter(s, d)]
     /\ Again(s)

\* The expected datagram is there and the one after it is not.
ReceiveOne(s, d) ==
  LET current == Expected(s, d)
      stack == Added(s, d)
  IN /\ Has(stack, current) /\ ~Has(stack, Succ(current))
     /\ TakeFrom(s, stack, CountAdded(s, d), current)
     /\ IF counter'[s] > MaxStack
        THEN /\ udp_counters' = [udp_counters EXCEPT ![s] = NextHeld(stacks'[s], current)]
             /\ Again(s)
        ELSE /\ udp_counters' = [udp_counters EXCEPT ![s] = current]
             /\ Stop

\* A slip: a loss is supposed as soon as MaxStack datagrams are kept.
ReceiveEarlyHasty(s, d) ==
  LET current == Expected(s, d)
      stack == Added(s, d)
  IN /\ ~Has(stack, current)
     /\ stacks' = [stacks EXCEPT ![s] = stack]
     /\ counter' = [counter EXCEPT ![s] = CountAdded(s, d)]
     /\ UNCHANGED delivered
     /\ IF CountAdded(s, d) >= MaxStack
        THEN /\ udp_counters' = [udp_counters EXCEPT ![s] = NextHeld(stack, current)]
             /\ Again(s)
        ELSE /\ UNCHANGED udp_counters
             /\ Stop

\* The expected datagram is not there: the new one is kept, and once more
\* than MaxStack are, the expected one is supposed lost.
ReceiveEarly(s, d) ==
  LET current == Expected(s, d)
      stack == Added(s, d)
  IN /\ ~Has(stack, current)
     /\ stacks' = [stacks EXCEPT ![s] = stack]
     /\ counter' = [counter EXCEPT ![s] = CountAdded(s, d)]
     /\ UNCHANGED delivered
     /\ IF CountAdded(s, d) > MaxStack
        THEN /\ udp_counters' = [udp_counters EXCEPT ![s] = NextHeld(stack, current)]
             /\ Again(s)
        ELSE /\ UNCHANGED udp_counters
             /\ Stop

ReceiveNew(s, d) == ReceiveMore(s, d) \/ ReceiveOne(s, d) \/ ReceiveEarly(s, d)

-----------------------------------------------------------------------------
(* UdpChannel::receive while stacked_ip is set: handleStack(buf, data_len) *)

HandleStack ==
  LET s == stacked_ip
      i == udp_counters[s]
  IN /\ TakeFrom(s, stacks[s], counter[s], i)
     /\ IF Has(stacks'[s], Succ(i))
        THEN /\ udp_counters' = [udp_counters EXCEPT ![s] = Succ(i)]
             /\ Again(s)
        ELSE /\ UNCHANGED udp_counters
             /\ Stop

-----------------------------------------------------------------------------
(* The loop on receive of BlockSatCarrier::Upward::onEvent and of           *)
(* InterconnectChannelReceiver::receive                                    *)

\* The first call, on the event of a new datagram; while stacked_ip is set
\* receive looks at the stack only, and the datagram would be ignored.
Receive(s, d) == /\ ~loop
                 /\ Arrives(s, d)
                 /\ IF stacked_ip = NoIp THEN ReceiveNew(s, d) ELSE HandleStack

\* The calls after one that returned 1.
ReceiveAgain == /\ loop
                /\ stacked_ip # NoIp
                /\ HandleStack
                /\ UNCHANGED netVars

-----------------------------------------------------------------------------
Next == \/ ReceiveAgain
        \/ \E s \in Sources :
             \/ Send(s) \/ Lose(s)
             \/ \E d \in network[s] : Receive(s, d)

\* The channel thread runs its loop to the end, and select reports a socket
\* that has a datagram; nothing obliges a source to send.
Fairness == /\ WF_vars(ReceiveAgain)
            /\ WF_vars(\E s \in Sources : \E d \in network[s] : Receive(s, d))

Spec == Init /\ [][Next]_vars /\ Fairness

-----------------------------------------------------------------------------
(* Properties *)

Held(s) == {i \in Slots : Has(stacks[s], i)}
Stacked(s) == {stacks[s][i] : i \in Held(s)}

TypeOK == /\ sent \in [Sources -> Nat]
          /\ network \in [Sources -> SUBSET Nat]
          /\ lost \in Nat
          /\ duplicated \in [Sources -> Nat]
          /\ udp_counters \in [Sources -> Slots \cup {NoCounter}]
          /\ stacks \in [Sources -> [Slots -> Nat \cup {NoData}]]
          /\ counter \in [Sources -> Nat]
          /\ stacked_ip \in Sources \cup {NoIp}
          /\ loop \in BOOLEAN
          /\ delivered \in [Sources -> Seq(Nat)]

\* UdpStack::counter, raised and lowered by add and remove, is the number of
\* datagrams in the stack, and between two events no source has more than
\* max_stack of them: a loss is noticed after max_stack datagrams at most.
\* When it is noticed the search for the next datagram finds one.
StackBounded ==
  \A s \in Sources : /\ counter[s] = Cardinality(Held(s))
                     /\ ~loop => counter[s] <= MaxStack
                     /\ counter[s] <= MaxStack + 1

\* Between two events stacked_ip is empty, so the datagram of the next event
\* is not ignored; within the loop it names a source that has a counter.
NextEventIsRead == /\ loop <=> stacked_ip # NoIp
                   /\ loop => udp_counters[stacked_ip] # NoCounter

\* A datagram that arrives at most max_stack places too early does not make
\* the receiver give up an older one that is still in flight: as long as
\* nothing is duplicated, and the losses leave fewer datagrams apart than the
\* sequence byte can tell apart, the block gets the datagrams of a source in
\* the order they were sent, and all that follow are still to come.
InOrder ==
  \A s \in Sources :
    (/\ Window <= MaxStack
     /\ MaxLost + MaxStack + Window + 1 < Mod
     /\ duplicated[s] = 0) =>
      /\ \A i, j \in DOMAIN delivered[s] : i < j => delivered[s][i] < delivered[s][j]
      /\ \A i \in DOMAIN delivered[s] :
           \A d \in network[s] \cup Stacked(s) : delivered[s][i] < d

\* The loop on receive ends: each turn of it empties a slot.
LoopEnds == loop ~> ~loop

\* What the comments of UdpStack and UdpChannel::stacks say: the stack keeps
\* the datagrams that arrived too early.  A datagram whose predecessors were
\* all given to the block is no longer early.
OnlyEarlyAreKept ==
  ~loop => \A s \in Sources : \A d \in Stacked(s) :
             \E e \in 0 .. d - 1 : \A i \in DOMAIN delivered[s] : delivered[s][i] # e
=============================================================================
