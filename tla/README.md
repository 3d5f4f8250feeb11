# A TLA+ verification of OpenSAND

OpenSAND emulates a satellite network: terminals (ST), gateways (GW) and
satellites (SAT) are processes that exchange DVB frames as UDP datagrams. Each
process is a stack of *blocks*; each block has an upward and a downward
*channel*, and each channel is a thread. This directory holds TLA+ models of the
parts of that program whose correctness depends on the order in which threads,
messages and timers come, the TLC runs that check them on small instances, and
proofs, checked by TLAPS, that some of the results hold for every instance.

`PROJECT.json` gives, for every definition that models code, the lines it was
translated from.

## 1. Inventory

| Component | State | Operations | Hard behaviours | What makes it correct |
|---|---|---|---|---|
| **opensand-rt fifo** (`RtFifo`, `RtMutex`, `RtCommunicate`) | queue, semaphore, mutex, pipe | `push`, `pop`, `wait`, `notify` | producers asleep on a full queue, spurious wakeups, a failed write after the message was queued | bounded, first in first out; no lost wakeup; each word on the pipe finds a message |
| **opensand-rt channels and manager** (`RtChannelBase`, `Block`, `BlockManager`) | event list of a thread, fifos to the neighbours and to the opposite channel, stop signals | `executeThread`, `pushMessage`, `shareMessage`, `start`, `stop`, `wait` | a thread blocked in `push` reads nothing; stop in the middle of a turn; failed start | no cycle of waiting threads; nothing popped is lost at stop; stop ends |
| **opensand-rt events** (`TimerEvent`, `TcpListenEvent`, `NetSocketEvent`, `SignalEvent`, ...) | timers, sockets | `handle`, `start`, `raise` | events added and removed during the turn; a dead connection whose event stays; descriptors used again | the list holds the open sockets and no other; what waits for a timer has one that runs |
| **UDP channel** (`UdpChannel`, `UdpStack`) | a byte counter and a stack per source | `send`, `receive`, `handleStack`, `add`, `remove` | loss, duplication, reordering, wrap of the byte | delivery in order within the window; the stack bounded; no event ignored |
| **Satellite carrier, interconnect** (`BlockSatCarrier`, `InterconnectChannel`) | channels, delay fifo | receive loops, timer | a partial reception ends the loop; a failed send loses a message | as above; delay kept, order kept |
| **Slotted Aloha** (`dvb/saloha`) | packets waiting, timed out, acknowledged; slots; PDUs in pieces | burst, `schedule`, `onRcvFrame` on both sides | collisions, late and lost acknowledgements, timeouts, backoff, a full fifo | each packet is kept once and leaves; only accepted packets are taken for acknowledged; complete PDUs are propagated |
| **Terminal** (`BlockDvbTal`) | logon state, superframe counter, fifos, frames ready | logon, start of frame, SAC, TTP | logon timer against a late answer, reboot of the NCC | logged on in the end; nothing sent before |
| **NCC** (`BlockDvbNcc`, `SpotUpward`, `SpotDownward`) | terminals, superframe counter, fifos | logon, SOF, SAC, forward scheduling | same, on the other side | agreement with the terminals |
| **DAMA** (`dvb/dama`) | requests, credits, allocations | `hereIsSAC`, `runDama`, TTP, return scheduling | the loop of requests and allocations over a delay; lost SOF, TTP and SAC; rounding | a carrier is never oversold; plans cover the slots counted; terminals send by one plan; requests are served and given back |
| **MAC fifos** (`DvbFifo`, `DelayFifo`) | queue and counters | `push`, `pushFront`, `pop`, `getTickOut` | counters after a fragment is put back; order of times | counters equal contents |
| **NCC interface** (`dvb/ncc_interface`) | listening and client sockets, requests | connect, read, apply | a second client, a dead client, a delay restarted and raised, a command that fails in the middle of a message | every line is read; every request is applied in the end |
| **Carriers and categories** (`DvbChannel.h`, `TerminalCategory.h`, `CarriersGroup`) | groups of carriers of each category, and a list of them by rate | `initBand`, `allocateBand`, `releaseBand` | a greedy choice of carriers of several sizes, a transfer that fails in the middle, a list that is not updated | carriers only move; what is granted is there |
| **Encapsulation** (`BlockEncap`, plugins) | contexts, flush timers | bursts, timers | timer against burst | every packet leaves |
| **LAN adaptation** (`lan_adaptation`) | learned addresses, SARP table | burst up and down | loop between switches | a frame does not come back |
| **Satellite dispatcher** (`sat`) | routes | share and enqueue | both channels share with each other | no cyclic wait |
| Physical layer, MODCOD tables, frame formats | tables | computations | none | numeric |
| Entities, configuration, `opensand-conf`, `opensand-output`, `opensand-deploy`, `opensand-network` | configuration trees, probes, files | start-up and tools | none | not modelled |

Components talk through `RtFifo` (between the channels of neighbouring blocks and
between the two channels of a block), through shared memory (output probes), and,
between processes, through `UdpChannel` and the TCP sockets of the NCC interface.
Hazards, each at its line, are listed in `PROJECT.json`.

## 2. Modules

| Module | Models | Checked by | Proofs |
|---|---|---|---|
| `BoundedFifo` | what a fifo between two channels promises: a bounded queue (abstract specification) | `RtFifo`'s run | |
| `RtFifo` | the fifo as written: semaphore, mutex, pipe | `MCRtFifo` | `RtFifoProofs` |
| `RtBlocks` | channel threads of stacked blocks, their fifos and the block manager | `MCRtBlocks` | `RtBlocksProofs` |
| `UdpChannel` | a sender, the network, and the receiver with its stacks | `MCUdpChannel` | `UdpChannelProofs` |
| `SlottedAloha` | terminals and NCC in random access | `MCSlottedAloha` | `SlottedAlohaProofs` |
| `Logon` | the session of the terminals with the NCC, and restarts of either | `MCLogon` | `LogonProofs` |
| `Dama` | requests, allocations and plans of a return carrier | `MCDama` | `DamaProofs` |
| `Band` | carriers of the categories of a spot, and their transfer (operators, no state of its own) | with `NccInterface` | |
| `NccInterface` | the NCC towards PEP and SVNO: TCP clients, the changing list of events, waiting requests; composed with `Band` by EXTENDS | `MCNccInterface` | `NccInterfaceProofs` |
| `LoopLemmas` | nothing of the code: facts about loops, sums and orders that several proofs cite | | |

Operators named after a "slip" (the comment before each says which) are not part of
a specification. They are wrong variants of the definition that follows them; a
property is kept only if TLC finds it violated when the variant takes the place of
the definition.

### RtFifo and BoundedFifo

`pc` of a producer is the place of its thread in `RtFifo::push`, that of the consumer
its place in `executeThread` and `RtFifo::pop`. `SemTake`, `SemSleep` and
`SpuriousWake` are the condition variable loop of `RtSemaphore::wait`; `Lock`,
`Enqueue`, `Signal`, `SignalFails` and `Unlock` are the rest of `push`, with the write
on the pipe that may fail at most `MaxFailures` times; `CheckRead`, `PopLock`,
`Dequeue` and `Notify` are the reader. `BoundedFifo` has two actions, `Put` and `Take`:
`Enqueue` and `Dequeue` implement them and every other step stutters;
`ImplementsBoundedFifo` instantiates it with the queue of `RtFifo`.

### RtBlocks

A channel thread repeats `Select` (which events are raised), `Handle` (pop the message of
a raised event, or `HandleStop` when the signal is raised, since its descriptor is the
first of the event map), `Process` (`onEvent` on the handled event of best `Priority`,
which pushes up to `MaxPushes` messages, chosen freely, on the fifos the channel has)
and `Push`, which waits while the fifo is full. `Cancel` is `pthread_cancel` taking
effect at `select`, at the read of an event or in `sem_wait`. The manager runs `StartBlock`, `ReadSignal`, `CancelBlock` and
`JoinBlock`. Here a fifo is what `BoundedFifo` says; that `RtFifo` implements it is the
other module's result, and here it is only the number of its messages. `Links` says which channel shares with which, as the entities
of `src/opensand-core/src/system` link their blocks.

### UdpChannel

A datagram is its rank among those of its source, so its sequence byte is the rank
modulo `Mod`. `ReceiveMore`, `ReceiveOne`, `ReceiveEarly` are the three ways through `receive` for a
new datagram, `HandleStack` the way while `stacked_ip` is set, and `loop` says that the caller is between
two calls of its `while(ret > 0)` loop. The network loses, duplicates, and delivers a
datagram up to `Window` places early.

### SlottedAloha

One action per handler: `Burst` (a PDU from the encapsulation block), `Sof` (start of
frame at the terminal: what was scheduled is sent, then `schedule` runs when the
counter is a multiple of `SfPerSaf`), `ReceiveAcks`, `NccSof` (start of frame at the
NCC), `Receive` (a data frame at the NCC), `LoseFrame` and `LoseAcks`. Packets carry
the id the code gives them and, for the properties only, the number of their burst.
Slots, backoffs and simulated traffic are drawn freely, with the greatest value of
`rand()` included: it gives slots past the last (`PastSlots`), which the NCC leaves out,
all alike. Left out is that two such draws of one frame fall on the same slot. One QoS, one category with one carrier, the DSA algorithm and the
BEB backoff. The search for the oldest PDU in `TerminalContextSaloha` is not in the
model: it runs only after a PDU was propagated, which the code never does (run
`SalohaPdu`).

### Logon

`BlockDvbTal` and `BlockDvbNcc` are two threads each, joined by a fifo, and it is the
order of these four threads, the network and the timers that is explored. At a terminal,
Upward (`UpSof`, `UpLogonResp`, `AddInputTerminal`: the FMT entry is removed and then
added, as `StFmtSimuList::addTerminal` does) shares SOF and responses with Downward
(`DownSof`, `DownSofRebooted`, `DownLogonResp`, `LogonTimer`). At the NCC, Upward adds the
terminal to the FMT lists (`NccAdd`) and shares the request (`NccShare`); Downward
answers it (`NccLogonReq`) and counts superframes (`FrameTimer`). `NccReboot` and
`TalReboot` are restarts, `LoseRequest` and `LoseDown` losses.
`answered[t]`, the start of the NCC that sent the last response a terminal handled, and
`alarms[t]` are read by the properties only.

### Dama

Terminals of module `Logon`'s last state: logged on. A terminal has one MAC fifo
(`OnRcvEncapPacket`), a plan (`HereIsTtp`), and on each start of frame sends what the plan
allows and, in its slot, a SAC (`HereIsSof`, with `Sent`, `RbdcRequest`, `VbdcRequest`
for `returnSchedule` and `buildSAC`). The controller takes SAC (`HereIsSac`) and PEP
requests (`ApplyPepCommand`), and each superframe (`FrameTimer`) resets the contexts and
runs CRA, RBDC, VBDC and FCA (`CraPass`, `RbdcFairPass`, `RbdcCreditPass`, `VbdcPass`, `FcaPass`)
in the order of `computeTerminalsAllocations`, then sends SOF and TTP. The unit
conversions are those of `UnitConverter` and `FmtDefinition`, roundings included; a volume
or rate in `double` is an exact rational, and `RequestsFit` says of the configuration and of the PEP
that no rate or volume of theirs passes the 16 bits it is counted in. `PlanCoversSlots` compares with
what the slots carry at the coding rate, and not with whole bursts of `burst_length_b`, which is that
rounded once more: where the rounding goes up, the volume announced can be less than as many bursts as slots. Left out: a SAC without
request, a second fifo, FMT and carrier, FMT the carrier does not support.

### NccInterface and Band

`NccInterface` is a turn of the Downward channel of the NCC: `UpdateEvents` (closes the
removed sockets), `Select` (which handles all that is ready: the timer stops, sockets are
read, clients accepted, and sorts), then one action per event in that order. The order is any
(`Orders`): `RtEvent::operator<` weighs a step of priority as 100 s of the time of the last
trigger, so that a listen socket idle for long comes before a read. The actions are
`OnTimer`, `OnPepMessage`, `OnPepError`, `OnSvnoMessage`, `OnSvnoError`, `OnIgnored`, `OnListen`, and
`OnSvnoCommand` for one turn of the loop on the commands of an SVNO. Descriptors are
given again from the lowest, as the kernel does, which matters since the interfaces
compare them. Lines are short of what one read (200 bytes) and one parse (63 characters) take.
`PepDelay` is the configured delay of PEP requests: with 0 `timerfd_settime` stops the timer
(`Started`), so `PendingIsTimed` and `PepRequestsAreApplied` say what holds of a delay above 0.
The end of a connection is not modelled: see section 5. `Band` gives what `allocateBand` and `releaseBand` do as a set of outcomes
`[band, done, undefined]`: `Fits` and `WithSpare` are `carriersTransferCalculation`,
`CarriersTransfer` the transfer; a kbit is `SymNum[c] / SymDen[c]` symbols with the best FMT of
category c. Where the code reads an iterator without a value the outcome is
`undefined`, and the behaviour ends there: nothing is claimed of what follows.

## 3. Runs

| Run | Instance | Distinct states | Shows |
|---|---|---|---|
| `RtFifo` | 2 producers, size 3, messages up to number 5, 1 failed write | 36,600 | `ShouldNotHappen`, `NoLostWakeup`, `HeadIsTaken`, refinement of `BoundedFifo` |
| `RtBlocks` | 2 blocks, 4 threads, fifos of 1, 2 pushes per event, 1 arrival | 89,633 | `NoCyclicWait`, `PoppedIsProcessed`, `MessagesAreProcessed`, `StopEnds` |
| `UdpChannel` | 2 sources (9 and 2 datagrams), byte of 7 values, stack of 2, window 2, 1 loss, 1 duplicate | 128,352 | `StackBounded`, `NextEventIsRead`, `InOrder`, `LoopEnds` |
| `UdpChannelHeld` | same, no loss, no duplicate | violation | a datagram stays in the stack although nothing before it is missing |
| `SlottedAloha` | 1 terminal, 2 PDUs, 2 slots, timeout 2, 1 retry, 1 loss, simulated traffic on 1 slot | 311,890 | `HeldOnce`, `AckedWasAccepted`, `EveryPacketLeaves` |
| `SalohaAnswer` | 2 terminals, 1 PDU of 1 fragment each | violation | a packet accepted during a tick is never acknowledged |
| `SalohaPdu` | 2 terminals, 1 PDU of 2 fragments each | violation | a complete PDU is not propagated |
| `SalohaIds` | 1 terminal, PDUs of 3 fragments, fifo of 1 | violation | a cut burst leaves its PDU id to the next one |
| `Logon` | 1 terminal, superframes modulo 5, fifo of 2, 1 restart of each side, 1 loss, 1 SOF and 2 logon exchanges under way | 348,500 | `RunningIsRegistered`, `DamaIsKnownToFmt`, `SofFindsFmt`, `AlarmsAreAccounted`, `LogonEnds`, `RebootIsRepaired` |
| `Dama` | one terminal in RBDC, one in VBDC, carrier of 2 slots, free capacity, 1 loss, 1 PEP request | 531,115 | `CarrierIsNotOversold`, `PlanCoversSlots`, `OneLossKeepsThePlan`, `RbdcIsGivenBack`, `VbdcIsServed` |
| `DamaLost` | same, 2 losses | violation | a terminal sends by the plan of another superframe |
| `NccInterface` | 2 PEP clients with one line, 1 SVNO client with 2, carriers of two sizes in two categories | 279,281 | `EventsAreOpen`, `PendingIsTimed`, `CommandsWaitBehindFailure`, `PepRequestsAreApplied`, `LinesAreRead`, `BandIsConserved`, `GrantedRateIsThere` |

Why the bounds are enough to be interesting:

- `RtFifo`: two producers are needed for a stolen permit, a size below the number of
  messages for producers asleep, and one failed write for messages without a word on
  the pipe. The numbers of the messages are only an order.
- `RtBlocks`: with fifos of one place and two pushes per event every thread does
  block; two blocks with both directions and a shared link are the smallest stack where
  a cycle could exist.
- `UdpChannel`: nine datagrams wrap a byte of seven values, and the constants satisfy the premise of
  `InOrder` tightly: with `Mod` one less TLC finds it violated. `max_stack` and 256
  only appear through these relations.
- `SlottedAloha`: two packets meet in every pair of the terminal's lists; the simulated
  traffic takes the part of other terminals in collisions, the loss and the timeouts
  give late and missing acknowledgements. One slot past the last (`PastSlots`) stands for those
  of the last carrier: only `InSlots` looks at the slot, and drops them all.
- `Logon`: one terminal against the NCC has all the interleavings of the four threads;
  terminals only meet in sets, which `LogonProofs` covers for any number (two do not fit a
  run). Five superframe numbers leave room for a wrap, a restart and a
  loss between two of them; two exchanges under way are the least for a late answer
  to meet a repeated request.
- `Dama`: two terminals and two slots are the least for a carrier that does not satisfy
  everybody, with fair shares that round, credits, and a VBDC request of several frames. Credits and
  counts stop at a bound above what one frame gives. `MaxBehind` is 0 in the
  runs: a SOF finds the messages of the frame before handled; `DamaProofs` has no such bound.
- `NccInterface`: the second PEP client replaces the first, and the SVNO client may get a
  descriptor the PEP had; two commands in one message, or in two, one of which fails, need
  two lines of the SVNO. Carriers of rate 4 and 1 and requests of 5, 8 and
  down to 2 make the greedy choice fit, take a spare carrier, lose carriers, and fail. The delay
  is above 0, the case the properties are about; the proofs have both.

**Fairness.** `RtFifo`: weak fairness of each thread's steps, since the threads are
scheduled by the kernel; nothing obliges a block to push, a write to fail or a condition
variable to wake spuriously, and no strong fairness of the mutex is assumed. `RtBlocks`: weak fairness of the threads and of the
manager's steps; arrivals and the stop signal are not assumed. `UdpChannel`: weak fairness of the receiver
(`select` reports a socket with data) and of its loop; no source has to send.
`SlottedAloha`: weak fairness of the start of frame at the terminal only, which
the NCC sends on a timer; neither the network nor the NCC has to answer.
`Logon`: weak fairness of the superframe timer, of each thread and of a running logon timer;
losses and restarts are bounded, so the network delivers in the end what is repeated. `Dama`: weak fairness of the frame timer and
of the handling of what has arrived; losses are bounded and no packet has to come. `NccInterface`: weak
fairness of the channel's thread and of a running timer; clients do as they like, and may
put off the end of the delay by new allocations, which
`PepRequestsAreApplied` survives only because they send a bounded number of lines.

Deadlock is not checked in `NccInterface`: its clients stop, or undefined behaviour is
reached.

## 4. Proofs

Every safety property of the passing runs is a theorem, for every value of the constants under the assumptions named in the component's module. An invariant is shown by *Init*,
*step* and *consequence*, with one lemma or step per action; an action property by the
invariant and the one action that can break it.

- `RtFifoProofs`: `TypeCorrect`, `ReportsUnreachable` (the two "should not happend"
  branches), `WakeupsAreNotLost`, `Refinement`. The inductive invariant adds to
  `TypeOK` who holds the mutex, an account of the permits (free permits + producers
  between `SemTake` and `Enqueue` + the queue + the permit the consumer has yet to give
  back = size), an account of the queue against the pipe (queue = words on the pipe +
  failed writes + a producer about to write + a consumer that has read and not yet
  dequeued), and the order of the messages of each producer. Without the accounts no step of one thread can be told from the others' steps.
- `UdpChannelProofs`: `TypeCorrect`, `StacksAreBounded`, `EventsAreRead`, `DatagramsInOrder`. The invariant
  ties `UdpStack::counter` to the cardinality of the occupied slots and `stacked_ip` to
  the loop; the search for the next held datagram ends because a stack over its limit
  is not empty. For the order a second invariant (`Ordered`) counts every datagram sent: it is in the
  network, in the stack, with the block, or one of the at most `lost` ones that are nowhere (`InPlace`); and
  the receiver either waits for a datagram e, which it may have got already (`Waits`), or is about to take
  one from the stack (`Takes`). A datagram that arrives lies less than `Mod` after e, because those
  between are in the window, held or lost (`WithinReach`), so that its byte tells it; and when the stack is
  over its limit, none of the datagrams that are passed over is in flight, because all that are held
  lie within the window of the oldest that is (`NoneBefore`).
- `RtBlocksProofs`: `TypeCorrect`, `NothingPoppedIsLost`, `NoDeadlyEmbrace`. The last
  needs the assumption `Acyclic`, that a rank on the channels falls along every link;
  the satellite dispatcher, which shares both ways, does not satisfy it.
- `LogonProofs`: `TypeCorrect`, `RunningTerminalsAreRegistered`, `DamaTerminalsHaveFmt`,
  `SofComesAfterFmt`, `NoAlarmIsFalse`. The inductive invariant follows a registration through the threads:
  who is under way to the DAMA controller is in the FMT lists (`UnderWay`), an answer of this life of
  the NCC, on the network or in the terminal's fifo, was given to a terminal of the controller
  (`Answers`), and Upward shares nothing before the terminal's own FMT entry (`OwnEntry`).
  `NoAlarmIsFalse` says that a terminal suspects a restart no more often than restarts and lost SOF make
  up for. Its invariant (`Ledger`) runs, in thought, all that is under way to the terminal
  through it: what the terminal will have counted when the last message is handled (`Through`), and one
  more if the NCC is by then at another number (`Paid`), is no more than restarts and losses. A lost message takes one jump out of that run at most
  and puts one in (`Behind`, an order on pairs of a count and a number that handling keeps), and a lost SOF is
  paid for by its count. Nothing is supposed of the width of the superframe number but that it has two values.
- `SlottedAlohaProofs`: `TypesAreKept`, `EachFragmentIsHeldOnce`, `WhatIsAckedWasAccepted`. Three parts make the
  invariant. `Apart`: fifo, packets that wait for an acknowledgement, packets to be sent again, what was
  acknowledged and what was given up share out the fragments stored so far, each in one place; `schedule` and
  `onRcvFrame` only move them. `Named`: while no full fifo cut a burst, the id of a packet, and of each copy of it on
  the way, in a slot, or in the NCC's context, is the number of its burst. `Told`: while none did, the ids on their
  way back to a terminal are those of fragments the NCC accepted. Where a burst was cut, `Apart` still holds for the fragments that were stored, without saying which those are.
- `DamaProofs`: `PlansAreOfTheSuperframeBefore`, for any lateness and any allocation: what
  is under way to a terminal is a chain of SOF and TTP that ends with the TTP of
  the present superframe (`Shape`), and the plan a terminal has is the one before the next SOF,
  or a message was lost (`OnTime`). `TheCarrierIsNotOversold` and `ThePlanCoversTheSlots` open the allocations:
  each turn of each of the five passes keeps `Sound` (what is left and the slots given make the capacity, and the rates
  and volumes noted for a terminal carry the slots counted for it), hence so does each pass, in whatever order it
  takes the terminals, and so does the sequence of passes. The fair share of a terminal is what needs care: the shares that
  were given never exceed the part of the terminals that were served, rounded down as they are (`FairFits`). The plan follows from `Covered` through
  the three conversions, of which each rounds up or the other way than the next does.
  `TypesAreKept` includes the limits of volumes and rates.
- `NccInterfaceProofs`: `NoLostSocket`, `PendingTimed`, `CommandsAreApplied`, `TypesAreKept`, `NoCarrierAppears`,
  `GrantedIsThere`. The invariant `IInv` says that a read under way and a removed event belong to the list (`Batch`,
  `Sockets`); that descriptors are given from the lowest uses the element of rank n of a
  finite set, and that there are enough of them needs `Fds` to be no fewer than `Clients`. `Typed`, inductive
  beside it, gives the lines that may wait and the carriers of the configuration, with the groups of a category and
  its list by rate of the same sizes. On the carriers, the greedy calculation keeps `Fit`: what is still needed and what was
  taken make what was asked for, and of every size below the spare one as many are left as were taken, so that
  what one more carrier of the spare size allows to give back is there. The
  transfer is followed size by size: what one category loses of a size the other gains, no more when it fails
  and as many when it succeeds. `BandIsConserved` then is an equality of sums over categories.
  `GrantedRateIsThere` leaves out a command about the SNO itself: neither `allocateBand` nor
  `releaseBand` looks for that case, and the SNO then trades with itself, succeeds and changes nothing. The margin in it is one carrier of the largest size. The configuration is
  assumed to give each category at least one carrier, with positive rates and ratios (`BandAssumption`).
- `LoopLemmas`: a loop over n items as a function on `0 .. n`, what its steps keep, sums over
  sets and what becomes of them, and the order a list is sorted in as ranks. The models write their
  loops as recursive functions and folds; these lemmas are how the proofs get from one turn to the whole loop.

Only model-checked: the liveness properties (`HeadIsTaken`, `MessagesAreProcessed`,
`StopEnds`, `LoopEnds`, `EveryPacketLeaves`, `LogonEnds`, `RebootIsRepaired`, `RbdcIsGivenBack`,
`VbdcIsServed`, `PepRequestsAreApplied`, `LinesAreRead`), since fairness and `ENABLED` are
out of the prover's reach.

## 5. What the checks found

- **UdpChannel**: after one reordering the receiver keeps datagrams that are due
  (`UdpChannelHeld`).
- **SlottedAloha**: acknowledgements and bursts computed on a data frame are dropped
  (`SalohaAnswer`); a complete PDU is never recognised (`SalohaPdu`); PDU ids are
  reused after a cut burst (`SalohaIds`).

- **Dama**: `hereIsTTP` never reads the superframe a TTP carries, so after two losses
  a terminal sends by a plan made for another superframe (`DamaLost`); one loss, whatever
  the lateness, cannot do that (`OneLossKeepsThePlan`).

`PROJECT.json` quotes the lines that say otherwise. `AckedWasAccepted` and the last part of
`HeldOnce` are stated for terminals whose bursts were never cut, because of the third run of
`SlottedAloha`.

What the premises of other properties stand for, and what the models do because the code does:

- **Logon**: a restart of the NCC is seen only if the new superframe number is smaller than the
  terminal's, hence `RebootShows` in `RebootIsRepaired`. A lost SOF at the wrap looks like
  a restart, hence `lost_sof` in `AlarmsAreAccounted`. A doubled response leaves a
  moment without the terminal's FMT entry, hence `adding` in `SofFindsFmt`.
- **Dama**: the controller never forgets an RBDC request (its timer is counted and not used), so one
  that a PEP made, or whose end was lost, stays: the premise of `RbdcIsGivenBack`. The first burst is
  sent even when nothing was allocated (`Sent`).
- **NccInterface**: a client that is replaced by another of its interface is read and
  ignored for ever (`OnIgnored`); the end of a connection is an error of `handle`, so the
  branch that deletes its socket is not reached and `select` returns at once for ever: each such turn leaves
  the state of the model as it is, and no property covers it; a PEP's descriptor is remembered after
  its socket is closed (`Reads`). The type of the oldest waiting PEP request decides of the delay for all.
- **Band**: `symbol_rate_list` is not kept in step with the groups, and a transfer that
  fails loses the carriers it already took: the second disjunct of `BandIsConserved`.

## 6. Not modelled, and what would come next

Of the modelled components, `PROJECT.json` says for each what is left out. Two models are not composed
that interact in the code: `Logon` and `SlottedAloha` (a terminal that logs on again reuses PDU ids
the NCC still holds fragments of).

Not modelled, in the order in which they would come:

1. **CRDSA**, as an algorithm over the slots of a frame against the definition of interference
   cancellation. Its loop reads the packet of a slot it has emptied, so it has to be stated
   first what it is meant to do.
2. **Delay fifo and interconnect** (`DelayFifo`, `InterconnectChannel`): order and delay, a failed
   send, a reception that ends in the middle of a stack.
3. **LAN switches** (`PacketSwitch`): learning, and frames that must not come back.
4. **Encapsulation block**: flush timers against bursts.
5. Forward and SCPC scheduling, several FMT and categories in `Dama`.
6. Proofs: `RtBlocks` on `BoundedFifo` by a refinement mapping of its fifos.

Not planned: the physical layer and MODCOD tables (numeric), encapsulation plugins (external
libraries), the encoding of frames, configuration, `opensand-conf`, `opensand-output` and
`opensand-deploy` (sequential, or no state the emulator depends on).
