---------------------------- MODULE SlottedAloha ----------------------------
(***************************************************************************)
(* Random access on the return link (opensand-core/src/dvb/saloha): the    *)
(* terminals send fragments of PDUs in random slots of the Slotted Aloha   *)
(* frames and keep them until they are acknowledged; the NCC drops what    *)
(* collides, acknowledges the rest and puts the PDUs together again.       *)
(*                                                                         *)
(* One QoS, one category, one carrier and the DSA algorithm.  Every burst  *)
(* from the encapsulation block is one PDU of PduSize fragments.  A frame  *)
(* lasts SfPerSaf superframes; terminals and NCC follow their own counter  *)
(* of the superframes and are not aligned with each other.                 *)
(***************************************************************************)
EXTENDS Integers, Sequences, FiniteSets, FiniteSetsExt, SequencesExt

CONSTANTS Terminals,
          PduSize,      \* fragments of a PDU: the length of each NetBurst
          MaxFifo,      \* DvbFifo::max_size_pkt
          SlotsNumber,  \* TerminalCategorySaloha::getSlotsNumber
          PastSlots,    \* slots past the last that rand() draws with its greatest value
          Replicas,     \* nb_replicas
          MaxPackets,   \* nb_max_packets
          Timeout,      \* timeout_saf
          MaxRetries,   \* nb_max_retransmissions
          SfPerSaf,     \* sf_per_saframe
          FrameSize,    \* packets that fit in one SlottedAlohaFrame
          CwMax,        \* SlottedAlohaBackoff::cw_max
          Multiple,     \* SlottedAlohaBackoff::multiple
          MaxNoise,     \* slots the simulated traffic of the NCC may occupy
          MaxBursts,    \* bound: how many PDUs each terminal is given
          MaxLost       \* bound: messages the network loses

ASSUME SizesAssumption == /\ {PduSize, SlotsNumber, Replicas, SfPerSaf, FrameSize} \subseteq Nat \ {0}
                          /\ {PastSlots, MaxFifo, MaxRetries, CwMax, Multiple, MaxNoise, MaxLost} \subseteq Nat
                          /\ MaxBursts \in [Terminals -> Nat]
                          /\ Timeout \in Nat \ {0}
\* SlottedAlohaTal::init lowers nb_max_packets until this holds.
ASSUME PacketsAssumption == MaxPackets \in Nat /\ MaxPackets * Replicas <= SlotsNumber

VARIABLES
  bursts,       \* bursts[t]: PDUs the encapsulation block gave to t
  cut,          \* cut[t]: whether a full fifo cut one of them
  base_id,      \* SlottedAlohaTal::base_id
  fifo,         \* the DvbFifo of t
  packets_wait_ack, retransmission_packets,
  backoff, cw,  \* SlottedAlohaBackoff
  complete,     \* complete_dvb_frames: frames sent at the next superframe
  tal_sf,       \* BlockDvbTal::Downward::super_frame_counter modulo SfPerSaf
  up, down,     \* frames and acknowledgements under way from and to t
  lost,         \* messages lost by the network
  ncc_sf,       \* SpotUpward::super_frame_counter modulo SfPerSaf
  slots,        \* TerminalCategorySaloha::getSlots: what each slot received
  received,     \* TerminalCategorySaloha::received_packets_nbr is positive
  wait_propagation,  \* TerminalContextSaloha::wait_propagation of t
  propagated,   \* fragments of t given to the encapsulation block of the gateway
  accepted, answered,  \* fragments of t the NCC accepted, and acknowledged
  acked, dropped       \* fragments of t that left it acknowledged, or given up

talVars == <<bursts, cut, base_id, fifo, packets_wait_ack, retransmission_packets,
             backoff, cw, complete, tal_sf, acked, dropped>>
nccVars == <<ncc_sf, slots, received, wait_propagation, propagated, accepted, answered>>
vars == <<talVars, nccVars, up, down, lost>>

Slots == 0 .. SlotsNumber - 1

\* A SlottedAlohaPacketData in the terminal; nb tells apart the fragments
\* that the code only knows by their unique id, <ID, Seq> here.
NewPacket(t, seq) == [id |-> base_id[t], seq |-> seq, nb |-> bursts[t],
                      timeout |-> Timeout, retries |-> 0]
\* A slip: the id of the PDU is left out.
SeqOnly(p) == <<0, p.seq>>
UniqueId(p) == <<p.id, p.seq>>
Fragment(p) == <<p.nb, p.seq>>
Fragments(packets) == {Fragment(p) : p \in ToSet(packets)}

\* The items of s that are in S, in the order of s.
Those(s, S) ==
  LET those[i \in 0 .. Len(s)] ==
        IF i = 0 THEN << >>
        ELSE IF s[i] \in S THEN Append(those[i - 1], s[i]) ELSE those[i - 1]
  IN those[Len(s)]

Init == /\ bursts = [t \in Terminals |-> 0]
        /\ cut = [t \in Terminals |-> FALSE]
        /\ base_id = [t \in Terminals |-> 0]
        /\ fifo = [t \in Terminals |-> << >>]
        /\ packets_wait_ack = [t \in Terminals |-> << >>]
        /\ retransmission_packets = [t \in Terminals |-> << >>]
        /\ backoff \in [Terminals -> {0, 1}]
        /\ cw = [t \in Terminals |-> 1]
        /\ complete = [t \in Terminals |-> << >>]
        /\ tal_sf = [t \in Terminals |-> 0]
        /\ up = [t \in Terminals |-> << >>]
        /\ down = [t \in Terminals |-> << >>]
        /\ lost = 0
        /\ ncc_sf = 0
        /\ slots = [i \in Slots |-> << >>]
        /\ received = FALSE
        /\ wait_propagation = [t \in Terminals |-> << >>]
        /\ propagated = [t \in Terminals |-> << >>]
        /\ accepted = [t \in Terminals |-> {}]
        /\ answered = [t \in Terminals |-> {}]
        /\ acked = [t \in Terminals |-> {}]
        /\ dropped = [t \in Terminals |-> {}]

-----------------------------------------------------------------------------
(* BlockDvbTal::Downward::onEvent, a burst from the encapsulation block    *)

\* The burst is abandoned at the first fragment that does not fit, whose
\* header is made all the same; base_id changes with the header of the last.
Burst(t) ==
  LET stored == LET free == MaxFifo - Len(fifo[t])
                IN IF free < PduSize THEN free ELSE PduSize
  IN /\ bursts[t] < MaxBursts[t]
     /\ bursts' = [bursts EXCEPT ![t] = @ + 1]
     /\ fifo' = [fifo EXCEPT ![t] = @ \o [i \in 1 .. stored |-> NewPacket(t, i - 1)]]
     /\ base_id' = [base_id EXCEPT ![t] = IF stored >= PduSize - 1 THEN @ + 1 ELSE @]
     /\ cut' = [cut EXCEPT ![t] = @ \/ stored < PduSize]
     /\ UNCHANGED <<packets_wait_ack, retransmission_packets, backoff, cw, complete,
                    tal_sf, acked, dropped, nccVars, up, down, lost>>

-----------------------------------------------------------------------------
(* BlockDvbTal::Downward::handleStartOfFrame and SlottedAlohaTal::schedule *)

\* SlottedAlohaBackoff::randomize
Random(w) == 0 .. w

\* SlottedAlohaBackoff::tick
\* A slip: off by one.
TickedToOne(b) == IF b > 1 THEN b - 1 ELSE b
Ticked(b) == IF b > 0 THEN b - 1 ELSE 0

\* A slip: no lower bound.
AgedBelowZero(p) == [p EXCEPT !.timeout = @ - 1]
Aged(p) == [p EXCEPT !.timeout = IF @ = 0 THEN 0 ELSE @ - 1]
Again(p) == [p EXCEPT !.timeout = Timeout, !.retries = @ + 1]
IsTimeout(p) == p.timeout = 0
CanBeRetransmitted(p) == p.retries < MaxRetries

\* A slip: the late ones are not erased.
StillWaitingAll(aged) == aged
StillWaiting(aged) == Those(aged, {p \in ToSet(aged) : ~IsTimeout(p)})

\* getTimeSlots: distinct slots for n packets, in the order of the slots.  A slot of a
\* carrier is drawn, then the carrier: with the greatest value of rand() the first is one
\* past the last and the second a whole carrier past it.
DrawnSlots == 0 .. SlotsNumber - 1 + PastSlots
TimeSlots(n) ==
  {ts \in [1 .. n * Replicas -> DrawnSlots] : \A i, j \in DOMAIN ts : i < j => ts[i] < ts[j]}

\* addPacketInFrames: the replicas of each packet in the next slots, and the
\* frames they fill.
Copies(t, packets, ts) ==
  [i \in 1 .. Len(ts) |->
     LET p == packets[(i - 1) \div Replicas + 1]
     IN [tal |-> t, id |-> p.id, seq |-> p.seq, nb |-> p.nb, slot |-> ts[i]]]
Frames(copies) ==
  [k \in 1 .. (Len(copies) + FrameSize - 1) \div FrameSize |->
     SubSeq(copies, (k - 1) * FrameSize + 1,
            IF k * FrameSize < Len(copies) THEN k * FrameSize ELSE Len(copies))]

\* SlottedAlohaBackoffBeb::setCollision, once per packet given up.
Collisions(t, n) ==
  LET w[i \in 0 .. n] ==
        IF i = 0 THEN cw[t]
        ELSE IF w[i - 1] * Multiple < CwMax THEN w[i - 1] * Multiple ELSE CwMax
  IN /\ cw' = [cw EXCEPT ![t] = w[n]]
     /\ IF n = 0 THEN backoff' = [backoff EXCEPT ![t] = 0]
        ELSE \E b \in Random(w[n]) : backoff' = [backoff EXCEPT ![t] = b]

\* The packets that timed out go in front of those that still wait for a
\* retransmission, or are given up; then come the packets of the fifo.
Schedule(t, aged) ==
  LET late == {p \in ToSet(aged) : IsTimeout(p)}
      lateAgain == Those(aged, {p \in late : CanBeRetransmitted(p)})
      again == [i \in DOMAIN lateAgain |-> Again(lateAgain[i])]
      givenUp == Those(aged, {p \in late : ~CanBeRetransmitted(p)})
      old == again \o retransmission_packets[t]
      all == old \o fifo[t]
      n == IF Len(all) < MaxPackets THEN Len(all) ELSE MaxPackets
      packets == SubSeq(all, 1, n)
  IN /\ \E ts \in TimeSlots(n) :
          complete' = [complete EXCEPT ![t] = Frames(Copies(t, packets, ts))]
     /\ packets_wait_ack' = [packets_wait_ack EXCEPT ![t] = StillWaiting(aged) \o packets]
     /\ retransmission_packets' =
          [retransmission_packets EXCEPT ![t] = SubSeq(old, n + 1, Len(old))]
     /\ fifo' = [fifo EXCEPT ![t] =
                   IF n <= Len(old) THEN @ ELSE SubSeq(@, n - Len(old) + 1, Len(@))]
     /\ dropped' = [dropped EXCEPT ![t] = @ \cup Fragments(givenUp)]
     /\ Collisions(t, Len(givenUp))

\* A Slotted Aloha tick: SlottedAlohaBackoff::tick, then nothing but the
\* timeouts while the terminal backs off.
Tick(t) ==
  LET aged == [i \in DOMAIN packets_wait_ack[t] |-> Aged(packets_wait_ack[t][i])]
      ticked == Ticked(backoff[t])
  IN IF ticked > 0
     THEN /\ backoff' = [backoff EXCEPT ![t] = ticked]
          /\ packets_wait_ack' = [packets_wait_ack EXCEPT ![t] = aged]
          /\ complete' = [complete EXCEPT ![t] = << >>]
          /\ UNCHANGED <<cw, fifo, retransmission_packets, dropped>>
     ELSE Schedule(t, aged)

\* The frames scheduled at an earlier superframe are sent first.
Sof(t) ==
  /\ up' = [up EXCEPT ![t] = @ \o complete[t]]
  /\ tal_sf' = [tal_sf EXCEPT ![t] = (@ + 1) % SfPerSaf]
  /\ IF tal_sf'[t] = 0
     THEN Tick(t)
     ELSE /\ complete' = [complete EXCEPT ![t] = << >>]
          /\ UNCHANGED <<packets_wait_ack, retransmission_packets, fifo, backoff, cw, dropped>>
  /\ UNCHANGED <<bursts, cut, base_id, acked, nccVars, down, lost>>

-----------------------------------------------------------------------------
(* SlottedAlohaTal::onRcvFrame *)

\* The first waiting packet with the id of the acknowledgement leaves.
Acknowledge(st, id) ==
  LET found == {i \in DOMAIN st.wait : UniqueId(st.wait[i]) = id}
      i == Min(found)
  IN IF found = {}
     THEN st
     ELSE [wait |-> RemoveAt(st.wait, i), acked |-> st.acked \cup {Fragment(st.wait[i])}]

\* A control frame with the ids of the packets of t that it acknowledges;
\* SlottedAlohaBackoffBeb::setReady for each that is found.
ReceiveAcks(t) ==
  LET before == [wait |-> packets_wait_ack[t], acked |-> acked[t]]
      ids == Head(down[t])
      step[i \in 0 .. Len(ids)] == IF i = 0 THEN before ELSE Acknowledge(step[i - 1], ids[i])
      after == step[Len(ids)]
  IN /\ down[t] # << >>
     /\ down' = [down EXCEPT ![t] = Tail(@)]
     /\ packets_wait_ack' = [packets_wait_ack EXCEPT ![t] = after.wait]
     /\ acked' = [acked EXCEPT ![t] = after.acked]
     /\ IF after = before
        THEN UNCHANGED <<cw, backoff>>
        ELSE /\ cw' = [cw EXCEPT ![t] = 1]
             /\ \E b \in Random(1) : backoff' = [backoff EXCEPT ![t] = b]
     /\ UNCHANGED <<bursts, cut, base_id, fifo, retransmission_packets, complete, tal_sf,
                    dropped, nccVars, up, lost>>

-----------------------------------------------------------------------------
(* SlottedAlohaNcc::schedule *)

\* SlottedAlohaAlgoDsa::removeCollisions: the packets alone in their slot, in
\* the order of the slots, one of the replicas of each.  The simulated
\* traffic in the slots of noise collides, or is dropped when accepted.
Alone(received_slots, noise) ==
  LET alone == {i \in Slots \ noise : Len(received_slots[i]) = 1}
      packet(i) == Head(received_slots[i])
      same(i, j) == /\ packet(i).tal = packet(j).tal
                    /\ UniqueId(packet(i)) = UniqueId(packet(j))
      first == {i \in alone : ~\E j \in alone : j < i /\ same(i, j)}
      order == Those([i \in 1 .. SlotsNumber |-> i - 1], first)
  IN [k \in DOMAIN order |-> packet(order[k])]

From(t, packets) == Those(packets, {p \in ToSet(packets) : p.tal = t})

\* The local list sa_packets of addPacket; nothing is added to it.
NoPackets == << >>

\* TerminalContextSaloha::addPacket: the PDU of the packet is complete when
\* pdu_nb, the size of the burst, is the size of that list.
AddPacket(st, p) ==
  LET bySeq(q, r) == q.seq < r.seq
      waiting == Append(st.waiting, p)
      same == {q \in ToSet(waiting) : q.id = p.id}
  IN IF PduSize = Len(NoPackets)
     THEN [waiting |-> Those(waiting, ToSet(waiting) \ same),
           burst |-> st.burst \o SortSeq(Those(waiting, same), bySeq)]
     ELSE [st EXCEPT !.waiting = waiting]

\* scheduleCategory when something was received; its acknowledgements and
\* its burst are sent, or forgotten by the caller.
Resolve(in_slots, sent) ==
  \E noise \in {N \in SUBSET Slots : Cardinality(N) <= MaxNoise} :
    LET packets == Alone(in_slots, noise)
        context(t) ==
          LET new == From(t, packets)
              step[i \in 0 .. Len(new)] ==
                IF i = 0 THEN [waiting |-> wait_propagation[t], burst |-> << >>]
                ELSE AddPacket(step[i - 1], new[i])
          IN step[Len(new)]
        ids(t) == LET new == From(t, packets) IN [i \in DOMAIN new |-> UniqueId(new[i])]
    IN /\ slots' = [i \in Slots |-> << >>]
       /\ received' = FALSE
       /\ accepted' = [t \in Terminals |-> accepted[t] \cup Fragments(From(t, packets))]
       /\ wait_propagation' = [t \in Terminals |-> context(t).waiting]
       /\ IF sent
          THEN /\ propagated' = [t \in Terminals |-> propagated[t] \o context(t).burst]
               /\ answered' = [t \in Terminals |-> answered[t] \cup Fragments(From(t, packets))]
               /\ down' = [t \in Terminals |-> IF ids(t) = << >> THEN down[t]
                                                ELSE Append(down[t], ids(t))]
          ELSE UNCHANGED <<propagated, answered, down>>

\* BlockDvbNcc::Upward::handleDvbFrame, a start of frame.
NccSof ==
  /\ ncc_sf' = (ncc_sf + 1) % SfPerSaf
  /\ IF ncc_sf' = 0 /\ received
     THEN Resolve(slots, TRUE)
     ELSE UNCHANGED <<slots, received, accepted, wait_propagation, propagated, answered, down>>
  /\ UNCHANGED <<talVars, up, lost>>

\* SlottedAlohaNcc::onRcvFrame: a packet in a slot that does not exist is left out.
InSlots(frame) ==
  [i \in Slots |-> slots[i] \o Those(frame, {p \in ToSet(frame) : p.slot = i})]

\* A data frame: onRcvFrame, and schedule with the superframe of the last
\* start of frame, whose acknowledgements and burst are not sent.
Receive(t) ==
  /\ up[t] # << >>
  /\ up' = [up EXCEPT ![t] = Tail(@)]
  /\ LET filled == InSlots(Head(up[t]))
         any == received \/ \E p \in ToSet(Head(up[t])) : p.slot \in Slots
     IN IF ncc_sf = 0 /\ any
        THEN Resolve(filled, FALSE)
        ELSE /\ slots' = filled
             /\ received' = any
             /\ UNCHANGED <<accepted, wait_propagation, propagated, answered, down>>
  /\ UNCHANGED <<talVars, ncc_sf, lost>>

-----------------------------------------------------------------------------
(* The satellite link loses messages *)

LoseFrame(t) == /\ up[t] # << >>
                /\ lost < MaxLost
                /\ up' = [up EXCEPT ![t] = Tail(@)]
                /\ lost' = lost + 1
                /\ UNCHANGED <<talVars, nccVars, down>>

LoseAcks(t) == /\ down[t] # << >>
               /\ lost < MaxLost
               /\ down' = [down EXCEPT ![t] = Tail(@)]
               /\ lost' = lost + 1
               /\ UNCHANGED <<talVars, nccVars, up>>

-----------------------------------------------------------------------------
Next == \/ NccSof
        \/ \E t \in Terminals : \/ Burst(t) \/ Sof(t) \/ ReceiveAcks(t)
                                \/ Receive(t)
                                \/ LoseFrame(t) \/ LoseAcks(t)

\* Only the starts of frame are sure to come, on a timer of the NCC.
Spec == Init /\ [][Next]_vars /\ \A t \in Terminals : WF_vars(Sof(t))

-----------------------------------------------------------------------------
(* Properties *)

Held(t) == fifo[t] \o packets_wait_ack[t] \o retransmission_packets[t]

Packet == [id : Nat, seq : 0 .. PduSize - 1, nb : Nat, timeout : 0 .. Timeout,
           retries : 0 .. MaxRetries]
Copy == [tal : Terminals, id : Nat, seq : 0 .. PduSize - 1, nb : Nat, slot : DrawnSlots]

TalTypes ==
  /\ bursts \in [Terminals -> Nat]
  /\ cut \in [Terminals -> BOOLEAN]
  /\ base_id \in [Terminals -> Nat]
  /\ fifo \in [Terminals -> Seq(Packet)]
  /\ packets_wait_ack \in [Terminals -> Seq(Packet)]
  /\ retransmission_packets \in [Terminals -> Seq(Packet)]
  /\ backoff \in [Terminals -> Nat]
  /\ cw \in [Terminals -> Nat]
  /\ complete \in [Terminals -> Seq(Seq(Copy))]
  /\ tal_sf \in [Terminals -> 0 .. SfPerSaf - 1]
  /\ acked \in [Terminals -> SUBSET (Nat \X (0 .. PduSize - 1))]
  /\ dropped \in [Terminals -> SUBSET (Nat \X (0 .. PduSize - 1))]

NccTypes ==
  /\ ncc_sf \in 0 .. SfPerSaf - 1
  /\ slots \in [Slots -> Seq(Copy)]
  /\ received \in BOOLEAN
  /\ wait_propagation \in [Terminals -> Seq(Copy)]
  /\ propagated \in [Terminals -> Seq(Copy)]
  /\ accepted \in [Terminals -> SUBSET (Nat \X (0 .. PduSize - 1))]
  /\ answered \in [Terminals -> SUBSET (Nat \X (0 .. PduSize - 1))]

LinkTypes ==
  /\ up \in [Terminals -> Seq(Seq(Copy))]
  /\ down \in [Terminals -> Seq(Seq(Nat \X (0 .. PduSize - 1)))]
  /\ lost \in 0 .. MaxLost

TypeOK == TalTypes /\ NccTypes /\ LinkTypes

\* schedule moves packets between three lists while it walks through them,
\* and acknowledgements take them out: a packet stored in the fifo is in one
\* place of one list, or has left acknowledged, or was given up; it is never
\* lost on the way nor kept twice.
HeldOnce ==
  \A t \in Terminals :
    LET held == [i \in DOMAIN Held(t) |-> Fragment(Held(t)[i])]
        left == acked[t] \cup dropped[t]
    IN /\ \A i, j \in DOMAIN held : i # j => held[i] # held[j]
       /\ ToSet(held) \cap left = {}
       /\ acked[t] \cap dropped[t] = {}
       /\ ~cut[t] => ToSet(held) \cup left = (0 .. bursts[t] - 1) \X (0 .. PduSize - 1)

\* An acknowledgement, late or for a packet sent again meanwhile, only takes
\* out a packet that the NCC accepted, while no full fifo cut a burst.
AckedWasAccepted == \A t \in Terminals : ~cut[t] => acked[t] \subseteq accepted[t]

\* Whatever collides or is lost, and whatever the backoff, a terminal is
\* done with all its packets in the end.
EveryPacketLeaves == \A t \in Terminals : (Held(t) # << >>) ~> (Held(t) = << >>)

\* What SlottedAlohaNcc::schedule is for: 'Send an ACK' for each packet it
\* gives to the context of its terminal.
AcceptedIsAnswered == \A t \in Terminals : accepted[t] \subseteq answered[t]

\* What TerminalContextSaloha says of wait_propagation: fragments are
\* propagated once all fragments of the complete PDU are received.
CompleteIsPropagated ==
  \A t \in Terminals : \A nb \in 0 .. bursts[t] - 1 :
    \E seq \in 0 .. PduSize - 1 : <<nb, seq>> \notin Fragments(wait_propagation[t])

\* What SlottedAlohaPacket says of <ID, Seq, PDU_nb, QoS>: it is the unique
\* identifier of a packet.
IdsAreUnique ==
  \A t \in Terminals : \A i, j \in DOMAIN Held(t) :
    i # j => UniqueId(Held(t)[i]) # UniqueId(Held(t)[j])
=============================================================================
