-------------------------------- MODULE Dama --------------------------------
(***************************************************************************)
(* The capacity of a return carrier: the DAMA agents of the terminals      *)
(* (DamaAgentRcs2Legacy), the controller of the NCC (DamaCtrlRcs2Legacy),  *)
(* and the SOF, TTP and SAC between them, some of which are lost.          *)
(*                                                                         *)
(* Terminals are logged on (module Logon), have one MAC fifo each, and use *)
(* one FMT, which the carrier supports.  A packet of the fifo fills one    *)
(* burst.  Slots are slots per frame, rates kb/s, volumes kb.              *)
(***************************************************************************)
EXTENDS Integers, Sequences, FiniteSets, SequencesExt

CONSTANTS Tals,        \* sequence of the terminals, in the order of their category
          Access,      \* [terminals -> {"DAMA_RBDC", "DAMA_VBDC"}]: type of their fifo
          Slot,        \* mac_id % sync_period_frame: when each sends its SAC
          Cra, MaxRbdc, MaxVbdc,  \* what each asks for at logon
          Fca,         \* 0: no free capacity
          Capacity,    \* slots of the carrier
          Word,        \* rate_pktpf_t is unsigned, of 16 bits: 65536
          FrameMs,     \* ret_up_frame_duration_ms
          SlotBits,    \* getPacketBitLength
          Num, Den,    \* coding rate of the FMT
          Sync,        \* sync_period_frame
          Msl,         \* msl_sf
          Grain,       \* a credit is kept in 1/Grain of kb/s, rounded down
          PepTimeout,  \* 100: RBDC timeout of a request of a PEP
          PepRequests, \* what a PEP asks for: [st, cra, rbdc_max, rbdc], 0 for no change
          MacSize,     \* size of the MAC fifo of each
          SfMod,       \* bound: superframes are numbered modulo SfMod, a multiple of Sync
          MaxTimer,    \* bound: rbdc_timer_sf stops there
          MaxNew,      \* bound: the count of new packets stops there
          MaxCredit,   \* bound: credits stop there
          MaxBehind,   \* bound: messages under way to a terminal when a frame starts
          MaxSac,      \* bound: SAC under way from a terminal when a frame starts
          MaxLost, MaxPep         \* bounds: messages lost, PEP requests

Terminals == {Tals[i] : i \in DOMAIN Tals}
Rbdc(t) == Access[t] = "DAMA_RBDC"

ASSUME DamaAssumption ==
  /\ Tals \in Seq(Terminals) /\ Cardinality(Terminals) = Len(Tals)
  /\ Access \in [Terminals -> {"DAMA_RBDC", "DAMA_VBDC"}]
  /\ {Slot, Cra, MaxRbdc, MaxVbdc, MacSize} \subseteq [Terminals -> Nat]
  /\ {Capacity, FrameMs, SlotBits, Num, Den, Sync, Msl, Grain} \subseteq Nat \ {0}
  /\ {Fca, PepTimeout, MaxTimer, MaxNew, MaxCredit, MaxBehind, MaxSac, MaxLost, MaxPep} \subseteq Nat
  /\ Num <= Den
  /\ Word \in Nat /\ Capacity < Word
  /\ SfMod \in Nat /\ SfMod > 2 /\ SfMod % Sync = 0
  /\ PepRequests \subseteq [st : Terminals, cra : Nat, rbdc_max : Nat, rbdc : Nat]

VARIABLES
  \* DamaAgentRcs2, and the fifo it serves
  mac,          \* packets in the MAC fifo
  new,          \* packets since the last RBDC request, in a fifo for RBDC
  rbdc_timer,   \* rbdc_timer_sf, where there is a fifo for RBDC
  buffer,       \* rbdc_request_buffer: the last requests, the latest at the end
  allocated,    \* allocated_kb and the superframe of the TTP it comes from, -1 if none
  \* the network
  down,         \* SOF and TTP under way to t
  up,           \* SAC under way from t
  lost, lost_sac,
  \* DamaCtrlRcs2Legacy
  frame,        \* super_frame_counter
  ctx,          \* TerminalContextDama
  enable_rbdc, enable_vbdc,
  pep,          \* PEP requests received
  room          \* CRA and RBDC left some capacity in the last frame

agentVars == <<mac, new, rbdc_timer, buffer, allocated>>
netVars == <<down, up, lost, lost_sac>>
ctrlVars == <<frame, ctx, enable_rbdc, enable_vbdc, pep, room>>
vars == <<agentVars, netVars, ctrlVars>>

-----------------------------------------------------------------------------
(* Conversions: UnitConverterFixedSymbolLength and FmtDefinition           *)

CeilDiv(a, b) == (a + b - 1) \div b
AddFec(v) == (v * Den) \div Num
RemoveFec(v) == CeilDiv(v * Num, Den)
KbpsToPktpf(r) == CeilDiv(r * FrameMs, SlotBits)
PktpfToKbps(n) == CeilDiv(n * SlotBits, FrameMs)
KbitsToPkt(v) == CeilDiv(v * 1000, SlotBits)
PktToKbits(n) == CeilDiv(n * SlotBits, 1000)
\* A slip: rounded down.
PsToPfDown(r) == (r * FrameMs) \div 1000
PsToPf(r) == CeilDiv(r * FrameMs, 1000)

\* Rates are 16 bits wide, and so is the sum of the requests of a carrier, which
\* nothing checks: it is taken to fit when all the terminals ask for kbps.
Fits(kbps) == AddFec(kbps) < Word /\ Len(Tals) * KbpsToPktpf(AddFec(kbps)) < Word

ASSUME RequestsFit == /\ \A t \in Terminals : Fits(MaxRbdc[t])
                      /\ \A r \in PepRequests : Fits(r.rbdc_max)
                      /\ PktpfToKbps(Capacity) < Word /\ PktToKbits(Capacity) < Word

Smaller(a, b) == IF a < b THEN a ELSE b
Larger(a, b) == IF a > b THEN a ELSE b

\* burst_length_b, the useful bits of a slot and of a packet of the fifo.
BurstBits == RemoveFec(SlotBits)
SlotKbps == RemoveFec(PktpfToKbps(1))

\* setRequiredRbdc and setRequiredVbdc of TerminalContextDama.
RbdcTimeout == Sync + 1
SetRequiredRbdc(c, kbps, timeout) ==
  [c EXCEPT !.rbdc = Smaller(kbps, c.max_rbdc), !.credit = 0, !.timer = timeout]
\* A slip: only each request is limited, not what they add up to.
SetRequiredVbdcTwice(c, t, kb) == [c EXCEPT !.vbdc = @ + Smaller(kb, MaxVbdc[t])]
SetRequiredVbdc(c, t, kb) == [c EXCEPT !.vbdc = Smaller(@ + kb, MaxVbdc[t])]

BufferSize == Larger(Msl \div Sync, 1)

Init == /\ mac = [t \in Terminals |-> 0]
        /\ new = [t \in Terminals |-> 0]
        /\ rbdc_timer = [t \in Terminals |-> 0]
        /\ buffer = [t \in Terminals |-> [i \in 1 .. BufferSize |-> 0]]
        /\ allocated = [t \in Terminals |-> [kb |-> 0, plan |-> -1]]
        /\ down = [t \in Terminals |-> << >>]
        /\ up = [t \in Terminals |-> << >>]
        /\ lost = 0
        /\ lost_sac = [t \in Terminals |-> FALSE]
        /\ frame = 0
        /\ ctx = [t \in Terminals |-> [cra |-> Cra[t], max_rbdc |-> MaxRbdc[t], rbdc |-> 0,
                                       credit |-> 0, timer |-> 0, vbdc |-> 0]]
        /\ enable_rbdc = FALSE
        /\ enable_vbdc = FALSE
        /\ pep = 0
        /\ room = FALSE

-----------------------------------------------------------------------------
(* DamaCtrl::computeTerminalsAllocations on the contexts c.  A pass goes   *)
(* through the terminals in some order with what the carrier has left:     *)
(* and what it has given so far; slots is a count kept for the properties. *)

\* resetTerminalsAllocations: with a credit, a slot is added to the request,
\* which starts the timer again.
ResetContext(c) ==
  LET timer == Larger(c.timer - 1, 0)
      slot == PktpfToKbps(1)
  IN IF timer > 0 /\ c.credit > 0
       THEN [SetRequiredRbdc(c, c.rbdc + slot, RbdcTimeout)
               EXCEPT !.credit = Larger(c.credit - slot * Grain, 0)]
       ELSE [c EXCEPT !.timer = timer]

Start(c) == [left |-> Capacity, c |-> [t \in Terminals |-> ResetContext(c[t])],
             slots |-> [t \in Terminals |-> 0], cra |-> [t \in Terminals |-> 0],
             rbdc |-> [t \in Terminals |-> 0], fca |-> [t \in Terminals |-> 0],
             vbdc |-> [t \in Terminals |-> 0], room |-> FALSE]

\* setXxxAllocation and the capacity that is left
Give(acc, t, n) == [acc EXCEPT !.left = (@ - n) % Word, !.slots[t] = @ + n]

\* The terminals of the largest key first, those of the same in the order of Tals.
Index(t) == CHOOSE i \in DOMAIN Tals : Tals[i] = t
Order(key) == {p \in Terminals \X Terminals :
                 \/ key[p[1]] > key[p[2]]
                 \/ key[p[1]] = key[p[2]] /\ Index(p[1]) < Index(p[2])}
SortedBy(key) ==
  [i \in 1 .. Len(Tals) |->
     CHOOSE t \in Terminals : Cardinality({x \in Terminals : <<x, t>> \in Order(key)}) = i - 1]

SumOver(f) ==
  LET sum[i \in 0 .. Len(Tals)] == IF i = 0 THEN 0 ELSE sum[i - 1] + f[Tals[i]]
  IN sum[Len(Tals)]

CraStep(acc, t) ==
  LET n == KbpsToPktpf(AddFec(acc.c[t].cra))
  IN IF acc.left < n THEN acc
     ELSE [Give(acc, t, n) EXCEPT !.cra[t] = RemoveFec(PktpfToKbps(n))]

CraPass(acc) ==
  LET pass[i \in 0 .. Len(Tals)] == IF i = 0 THEN acc ELSE CraStep(pass[i - 1], Tals[i])
  IN pass[Len(Tals)]

\* Less than what is asked for in CRA: nothing else is allocated in this frame.
CraIsMet(acc) == SumOver(acc.cra) >= SumOver([t \in Terminals |-> acc.c[t].cra])

RbdcAsked(acc, t) == KbpsToPktpf(AddFec(acc.c[t].rbdc))

\* The fair part of each request, of what was left before, and a credit for what
\* is rounded off it.
\* A slip: rounded up.
FairShareUp(asked, total, left) == CeilDiv(asked * left, total)
FairShare(asked, total, left) == (asked * left) \div total

Fair(asked, total, left) == IF total <= left THEN asked ELSE FairShare(asked, total, left)
Rest(asked, total, left) ==
  IF total <= left THEN 0
  ELSE (((asked * left) % total) * SlotBits * Den * Grain) \div (total * FrameMs * Num)

FairStep(acc, t, asked, total, left) ==
  LET n == Fair(asked, total, left)
  IN [Give(acc, t, n) EXCEPT !.rbdc[t] = RemoveFec(PktpfToKbps(n)),
                             !.c[t].credit = Smaller(@ + Rest(asked, total, left), MaxCredit)]

RbdcFairPass(acc, total) ==
  LET pass[i \in 0 .. Len(Tals)] ==
        IF i = 0 THEN acc
        ELSE FairStep(pass[i - 1], Tals[i], RbdcAsked(acc, Tals[i]), total, acc.left)
  IN pass[Len(Tals)]

\* One more slot to those whose credit pays for it.
CreditStep(acc, t) ==
  IF /\ acc.left > 0
     /\ acc.c[t].credit > SlotKbps * Grain
     /\ acc.c[t].max_rbdc - acc.rbdc[t] - acc.cra[t] > SlotKbps
    THEN [Give(acc, t, 1) EXCEPT !.rbdc[t] = @ + SlotKbps,
                                 !.c[t].credit = @ - SlotKbps * Grain]
    ELSE acc

ByCredit(acc) == SortedBy([t \in Terminals |-> acc.c[t].credit])

RbdcCreditPass(acc) ==
  LET order == ByCredit(acc)
      pass[i \in 0 .. Len(Tals)] == IF i = 0 THEN acc ELSE CreditStep(pass[i - 1], order[i])
  IN pass[Len(Tals)]

RbdcPass(acc) ==
  LET total == SumOver([t \in Terminals |-> RbdcAsked(acc, t)]) % Word
      fair == RbdcFairPass(acc, total)
  IN IF acc.left = 0 \/ total = 0 THEN acc
     ELSE IF total > acc.left THEN RbdcCreditPass(fair)
     ELSE fair

\* A slip: a request is served when all of it fits.
AllOrNothing(asked, left) == IF asked <= left THEN asked ELSE 0
Part(asked, left) == Smaller(asked, left)

VbdcStep(acc, t) ==
  LET n == Part(KbitsToPkt(AddFec(acc.c[t].vbdc)), acc.left)
      kb == RemoveFec(PktToKbits(n))
  IN IF n = 0 THEN acc
     ELSE [Give(acc, t, n) EXCEPT !.vbdc[t] = kb,
                                  !.c[t].vbdc = Larger(@ - kb, 0)]

\* The largest requests first.
ByVbdc(acc) == SortedBy([t \in Terminals |-> acc.c[t].vbdc])

VbdcPass(acc) ==
  LET order == ByVbdc(acc)
      pass[i \in 0 .. Len(Tals)] == IF i = 0 THEN acc ELSE VbdcStep(pass[i - 1], order[i])
  IN pass[Len(Tals)]

FcaStep(acc, t) ==
  LET n == Smaller(KbpsToPktpf(AddFec(Fca)), acc.left)
  IN IF acc.left = 0 THEN acc
     ELSE [Give(acc, t, n) EXCEPT !.fca[t] = RemoveFec(PktpfToKbps(n))]

FcaPass(acc) ==
  LET order == ByCredit(acc)
      pass[i \in 0 .. Len(Tals)] == IF i = 0 THEN acc ELSE FcaStep(pass[i - 1], order[i])
  IN IF Fca = 0 THEN acc ELSE pass[Len(Tals)]

ComputeTerminalsAllocations ==
  LET cra == CraPass(Start(ctx))
      rbdc == IF enable_rbdc THEN RbdcPass(cra) ELSE cra
      vbdc == IF enable_vbdc THEN VbdcPass(rbdc) ELSE rbdc
  IN IF CraIsMet(cra) THEN [FcaPass(vbdc) EXCEPT !.room = rbdc.left > 0] ELSE cra

\* buildTTP
Assignment(acc, t) == acc.vbdc[t] + PsToPf(acc.cra[t] + acc.rbdc[t] + acc.fca[t])

Sof == [type |-> "Sof", sf |-> frame']
Ttp(kb) == [type |-> "Ttp", plan |-> frame', kb |-> kb]

\* frame_timer: SOF, then the allocations, then the TTP.
NextFrame ==
  /\ \A t \in Terminals : Len(down[t]) <= MaxBehind /\ Len(up[t]) <= MaxSac
  /\ frame' = (frame + 1) % SfMod

FrameTimer ==
  /\ NextFrame
  /\ \E acc \in {ComputeTerminalsAllocations} :
       /\ ctx' = acc.c
       /\ room' = acc.room
       /\ down' = [t \in Terminals |-> down[t] \o <<Sof, Ttp(Assignment(acc, t))>>]
  /\ UNCHANGED <<agentVars, up, lost, lost_sac, enable_rbdc, enable_vbdc, pep>>

\* hereIsSAC.  A request below 0 is not in the SAC.
SacContext(t, sac) ==
  LET v == IF sac.vbdc < 0 THEN ctx[t]
           ELSE SetRequiredVbdc(ctx[t], t, Smaller(sac.vbdc, MaxVbdc[t]))
  IN IF sac.rbdc < 0 THEN v
     ELSE SetRequiredRbdc(v, Larger(sac.rbdc - v.cra, 0), RbdcTimeout)

HereIsSac(t) ==
  /\ up[t] # << >>
  /\ up' = [up EXCEPT ![t] = Tail(@)]
  /\ ctx' = [ctx EXCEPT ![t] = SacContext(t, Head(up[t]))]
  /\ enable_rbdc' = (enable_rbdc \/ Head(up[t]).rbdc >= 0)
  /\ enable_vbdc' = (enable_vbdc \/ Head(up[t]).vbdc >= 0)
  /\ UNCHANGED <<agentVars, down, lost, lost_sac, frame, pep, room>>

\* applyPepCommand, at the end of the timer that delays it.
PepContext(c, r) ==
  LET cra == [c EXCEPT !.cra = IF r.cra # 0 THEN r.cra ELSE @,
                       !.max_rbdc = IF r.rbdc_max # 0 THEN r.rbdc_max ELSE @]
  IN IF r.rbdc # 0 THEN SetRequiredRbdc(cra, r.rbdc, PepTimeout) ELSE cra

ApplyPepCommand(r) ==
  /\ pep < MaxPep
  /\ pep' = pep + 1
  /\ ctx' = [ctx EXCEPT ![r.st] = PepContext(@, r)]
  /\ UNCHANGED <<agentVars, netVars, frame, enable_rbdc, enable_vbdc, room>>

-----------------------------------------------------------------------------
(* The network                                                             *)

LoseDown(t) ==
  /\ lost < MaxLost
  /\ down[t] # << >>
  /\ down' = [down EXCEPT ![t] = Tail(@)]
  /\ lost' = lost + 1
  /\ UNCHANGED <<agentVars, up, lost_sac, ctrlVars>>

LoseSac(t) ==
  /\ lost < MaxLost
  /\ up[t] # << >>
  /\ up' = [up EXCEPT ![t] = Tail(@)]
  /\ lost' = lost + 1
  /\ lost_sac' = [lost_sac EXCEPT ![t] = TRUE]
  /\ UNCHANGED <<agentVars, down, ctrlVars>>

-----------------------------------------------------------------------------
(* A terminal                                                              *)

\* A packet of the encapsulation block reaches the MAC fifo.
OnRcvEncapPacket(t) ==
  /\ mac[t] < MacSize[t]
  /\ mac' = [mac EXCEPT ![t] = @ + 1]
  /\ new' = [new EXCEPT ![t] = IF Rbdc(t) THEN Smaller(@ + 1, MaxNew) ELSE @]
  /\ UNCHANGED <<rbdc_timer, buffer, allocated, netVars, ctrlVars>>

\* hereIsTTP
HereIsTtp(t) ==
  /\ down[t] # << >>
  /\ Head(down[t]).type = "Ttp"
  /\ down' = [down EXCEPT ![t] = Tail(@)]
  /\ allocated' = [allocated EXCEPT ![t] = [kb |-> Head(down[t]).kb,
                                           plan |-> Head(down[t]).plan]]
  /\ UNCHANGED <<mac, new, rbdc_timer, buffer, up, lost, lost_sac, ctrlVars>>

\* ReturnSchedulingRcs2::macSchedule: bursts until the allocation is used up or
\* the fifo empty.  What is left is looked at once a burst is full, so that the
\* first one needs no allocation.
Sent(n, kb) == Smaller(n, Larger(CeilDiv(kb * 1000, BurstBits), 1))

\* computeRbdcRequest, with n packets in the fifo, timer superframes after the
\* last request.
RbdcRequest(t, n, timer) ==
  LET sum[i \in 0 .. BufferSize] == IF i = 0 THEN 0 ELSE sum[i - 1] + buffer[t][i]
      asked == IF Msl < Sync THEN 0 ELSE sum[BufferSize]
      late == n * BurstBits - timer * FrameMs * asked
  IN (IF timer = 0 THEN 0 ELSE (new[t] * BurstBits) \div (timer * FrameMs))
     + (IF late > 0 THEN late \div (FrameMs * Msl) ELSE 0)

\* computeVbdcRequest asks for all that is in the fifo, whatever was asked for.
VbdcRequest(n) == CeilDiv(n * BurstBits, 1000)

\* buildSAC: a request of 0 for RBDC is sent once.
\* A slip: it is not sent.
SendsPositive(rbdc, previous) == rbdc > 0
SendsRbdc(rbdc, previous) == rbdc > 0 \/ previous # 0

Sac(t, n, timer) ==
  LET rbdc == RbdcRequest(t, n, timer)
  IN [rbdc |-> IF Rbdc(t) /\ SendsRbdc(rbdc, Last(buffer[t])) THEN rbdc ELSE -1,
      vbdc |-> IF ~Rbdc(t) /\ VbdcRequest(n) > 0 THEN VbdcRequest(n) ELSE -1]

\* DamaAgentRcs2::hereIsSOF
\* A slip: an allocation is kept until the next one.
Kept(a) == a
UsedUp(a) == [kb |-> 0, plan |-> -1]

\* handleStartOfFrame: SOF, bursts, and a SAC in the slot of the terminal.  A SAC
\* without request, which only tells the C/N, is left out.
HereIsSof(t) ==
  LET left == mac[t] - Sent(mac[t], allocated[t].kb)
      timer == IF Rbdc(t) THEN Smaller(rbdc_timer[t] + 1, MaxTimer) ELSE 0
      sac == Sac(t, left, timer)
      slot == Head(down[t]).sf % Sync = Slot[t]
  IN /\ down[t] # << >>
     /\ Head(down[t]).type = "Sof"
     /\ down' = [down EXCEPT ![t] = Tail(@)]
     /\ allocated' = [allocated EXCEPT ![t] = UsedUp(@)]
     /\ mac' = [mac EXCEPT ![t] = left]
     /\ IF slot /\ sac.rbdc >= 0
          THEN /\ rbdc_timer' = [rbdc_timer EXCEPT ![t] = 0]
               /\ buffer' = [buffer EXCEPT ![t] = Append(Tail(@), sac.rbdc)]
               /\ new' = [new EXCEPT ![t] = 0]
          ELSE /\ rbdc_timer' = [rbdc_timer EXCEPT ![t] = timer]
               /\ UNCHANGED <<buffer, new>>
     /\ up' = [up EXCEPT ![t] = IF slot /\ (sac.rbdc >= 0 \/ sac.vbdc >= 0)
                                  THEN Append(@, sac) ELSE @]
     /\ UNCHANGED <<lost, lost_sac, ctrlVars>>

Next == \/ FrameTimer
        \/ \E r \in PepRequests : ApplyPepCommand(r)
        \/ \E t \in Terminals : \/ HereIsSac(t)
                                \/ LoseDown(t) \/ LoseSac(t)
                                \/ OnRcvEncapPacket(t)
                                \/ HereIsTtp(t) \/ HereIsSof(t)

\* The frame timer goes on (only FrameTimer changes the number of the frame), and
\* what is not lost arrives.  No packet has to come.
Fairness == /\ WF_frame(NextFrame)
            /\ \A t \in Terminals : /\ WF_vars(HereIsSac(t))
                                    /\ WF_vars(HereIsTtp(t) \/ HereIsSof(t))

Spec == Init /\ [][Next]_vars /\ Fairness

-----------------------------------------------------------------------------
(* Properties                                                              *)

Message == [type : {"Sof"}, sf : 0 .. SfMod - 1]
             \cup [type : {"Ttp"}, plan : 0 .. SfMod - 1, kb : Nat]
Request == [rbdc : Nat \cup {-1}, vbdc : Nat \cup {-1}]
Rates == {kbps \in Nat : Fits(kbps)}
Context == [cra : Nat, max_rbdc : Rates, rbdc : Rates, credit : 0 .. MaxCredit,
            timer : 0 .. Larger(RbdcTimeout, PepTimeout), vbdc : Nat]

TypeOK ==
  /\ mac \in [Terminals -> Nat] /\ \A t \in Terminals : mac[t] <= MacSize[t]
  /\ new \in [Terminals -> 0 .. MaxNew]
  /\ rbdc_timer \in [Terminals -> 0 .. MaxTimer]
  /\ buffer \in [Terminals -> [1 .. BufferSize -> Nat]]
  /\ allocated \in [Terminals -> [kb : Nat, plan : -1 .. SfMod - 1]]
  /\ down \in [Terminals -> Seq(Message)] /\ up \in [Terminals -> Seq(Request)]
  /\ lost \in 0 .. MaxLost /\ lost_sac \in [Terminals -> BOOLEAN]
  /\ frame \in 0 .. SfMod - 1
  /\ ctx \in [Terminals -> Context] /\ \A t \in Terminals : ctx[t].vbdc <= MaxVbdc[t]
  /\ pep \in 0 .. MaxPep
  /\ {enable_rbdc, enable_vbdc, room} \subseteq BOOLEAN

\* Whatever was asked for, the rounding and the credits: the slots given in a
\* frame are those of the carrier, so that remaining_capacity_pktpf, which is
\* unsigned, never wraps.
CarrierIsNotOversold ==
  LET acc == ComputeTerminalsAllocations
  IN acc.left + SumOver(acc.slots) = Capacity

\* The volume the TTP announces is never less than what the slots the controller
\* counted carry at the coding rate: rates and volumes are rounded up on the way to
\* the terminal.
PlanCoversSlots ==
  LET acc == ComputeTerminalsAllocations
  IN \A t \in Terminals : Assignment(acc, t) * 1000 * Den >= acc.slots[t] * SlotBits * Num

\* Ttp.h gives each TTP the superframe it applies to, which no terminal reads:
\* what it has when a SOF arrives is the plan made in the superframe before, or
\* nothing.  Otherwise terminals send by the plans of different superframes.
OnePlanPerSuperframe ==
  \A t \in Terminals :
    (down[t] # << >> /\ Head(down[t]).type = "Sof" /\ allocated[t].plan # -1)
       => Head(down[t]).sf = (allocated[t].plan + 1) % SfMod

\* It is so, however late they come, as long as one message is lost and not two:
\* a TTP replaces the one before, and a SOF uses it up.
OneLossKeepsThePlan == lost < 2 => OnePlanPerSuperframe

\* A terminal that nothing arrives to any more gives back its RBDC, unless the
\* SAC that says so was lost: the controller forgets no request by itself, and
\* never what a PEP asked for.
RbdcIsGivenBack ==
  \A t \in {x \in Terminals : Rbdc(x) /\ \A r \in PepRequests : r.st = x => r.rbdc = 0} :
    <>[](mac[t] = 0 /\ new[t] = 0) => []<>(lost_sac[t] \/ ctx[t].rbdc = 0)

\* What the controller was asked for in VBDC is served if there is room for it
\* again and again, a part at a time where it does not fit.
VbdcIsServed ==
  \A t \in Terminals :
    (<>[](ctx[t].vbdc > 0) /\ []<>room)
       => []<><<ctx'[t].vbdc < ctx[t].vbdc>>_vars
=============================================================================
