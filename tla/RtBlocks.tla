------------------------------ MODULE RtBlocks ------------------------------
(***************************************************************************)
(* The threads of opensand-rt: each block has an upward and a downward     *)
(* channel, each channel is a thread that runs RtChannelBase::executeThread *)
(* and the channels are joined by the bounded fifos of module RtFifo, from *)
(* the channel that pushes to the one that has the message event.  A push  *)
(* on a full fifo blocks its thread.                                       *)
(*                                                                         *)
(* A link <<a, b>> is the fifo from channel a to channel b, and <<Env, b>> *)
(* the sockets, files and timers of b.  The content of a message is left   *)
(* out: a queue is its length.  What onEvent does with an event is any     *)
(* sequence of at most MaxPushes pushes on the links of the channel.       *)
(*                                                                         *)
(* BlockManager starts the blocks one by one, waits for a stop signal and  *)
(* then cancels and joins the threads, block by block.                     *)
(***************************************************************************)
EXTENDS Integers, Sequences, FiniteSets

CONSTANTS Blocks,       \* how many blocks, in the order of block_list
          Channels,     \* the channel threads
          Threads,      \* Threads[b]: the upward and the downward one of block b
          Links,        \* the fifos some channel pushes on
          Inputs,       \* the links from Env
          Env,          \* the world outside
          Stop,         \* the event of the signals that stop the program
          Priority,     \* the priority of each event, small for high
          AtInit,       \* the links on which a block pushes in its onInit
          MaxSize,      \* RtFifo::max_size
          MaxPushes,    \* bound: pushes for one event
          MaxArrivals   \* bound: events that come from Env

ASSUME BlocksAssumption == /\ Blocks \in Nat \ {0}
                           /\ Threads \in [1 .. Blocks -> SUBSET Channels]
                           /\ Channels = UNION {Threads[b] : b \in 1 .. Blocks}
                           /\ \A a, b \in 1 .. Blocks : a # b => Threads[a] \cap Threads[b] = {}
ASSUME LinksAssumption == /\ Links \subseteq Channels \X Channels
                          /\ Inputs \subseteq {Env} \X Channels
                          /\ AtInit \subseteq Links
                          /\ Env \notin Channels
                          /\ Stop \notin Links \cup Inputs
                          /\ Priority \in [Links \cup Inputs -> Nat]
ASSUME SizesAssumption == /\ MaxSize \in Nat \ {0}
                          /\ MaxPushes \in Nat
                          /\ MaxArrivals \in Nat

VARIABLES
  queue,      \* the messages in each link
  phase,      \* where each thread is in executeThread
  raised,     \* the events select raised and that are not handled yet
  events,     \* priority_sorted_events: handled, not yet processed
  pushes,     \* the pushes that onEvent still has to do
  arrivals,   \* events that came from Env
  signal,     \* a stop signal is pending for the process
  manager,    \* what BlockManager does: "start", "wait", "stop", "done"
  block,      \* the block it starts or stops
  cancelled   \* the threads it sent a pthread_cancel

vars == <<queue, phase, raised, events, pushes, arrivals, signal, manager,
          block, cancelled>>
threadVars == <<queue, phase, raised, events, pushes>>
managerVars == <<manager, block, cancelled>>

AllLinks == Links \cup Inputs
EventsOf(c) == {l \in AllLinks : l[2] = c}   \* the events of channel c
\* A slip: a channel shares on the opposite fifo it reads, not on the other.
TargetsSwapped(c) == {l \in Links : IF Priority[l] = 4 THEN l[2] = c ELSE l[1] = c}

Targets(c) == {l \in Links : l[1] = c}       \* enqueueMessage and shareMessage of c

Init == /\ queue = [l \in AllLinks |-> IF l \in AtInit THEN 1 ELSE 0]
        /\ phase = [c \in Channels |-> "created"]
        /\ raised = [c \in Channels |-> {}]
        /\ events = [c \in Channels |-> {}]
        /\ pushes = [c \in Channels |-> << >>]
        /\ arrivals = 0
        /\ signal = FALSE
        /\ manager = "start"
        /\ block = 1
        /\ cancelled = {}

-----------------------------------------------------------------------------
(* The world outside *)

\* A datagram, a packet of the tap or the end of a timer.
Arrive(l) == /\ arrivals < MaxArrivals
             /\ arrivals' = arrivals + 1
             /\ queue' = [queue EXCEPT ![l] = @ + 1]
             /\ UNCHANGED <<phase, raised, events, pushes, signal>>
             /\ UNCHANGED managerVars

\* A user, or reportError(critical) in a thread, sends SIGTERM; signals that
\* are sent while one is pending are one signal, and none matters once the
\* manager has read the first.
SendSignal == /\ manager \in {"start", "wait"}
              /\ ~signal
              /\ signal' = TRUE
              /\ UNCHANGED arrivals
              /\ UNCHANGED <<threadVars, managerVars>>

-----------------------------------------------------------------------------
(* RtChannelBase::executeThread *)

\* A slip: FD_ISSET is not looked at.
RaisedAll(c) == EventsOf(c) \cup (IF signal THEN {Stop} ELSE {})

Raised(c) == {l \in EventsOf(c) : queue[l] > 0}
               \cup (IF signal THEN {Stop} ELSE {})

\* select returns the events to handle.
Select(c) == /\ phase[c] = "select"
             /\ Raised(c) # {}
             /\ raised' = [raised EXCEPT ![c] = Raised(c)]
             /\ phase' = [phase EXCEPT ![c] = "handle"]
             /\ UNCHANGED <<queue, events, pushes, arrivals, signal>>
             /\ UNCHANGED managerVars

\* The event of the signal: its fd was created before the others, so it is
\* the first of the map, and the thread returns.  The signal stays pending:
\* only the manager reads it.
HandleStop(c) == /\ phase[c] = "handle"
                 /\ Stop \in raised[c]
                 /\ phase' = [phase EXCEPT ![c] = "ended"]
                 /\ raised' = [raised EXCEPT ![c] = {}]
                 /\ UNCHANGED <<queue, events, pushes, arrivals, signal>>
                 /\ UNCHANGED managerVars

\* A slip: the stop event is not the first of the map.
HandleBeforeStop(c) ==
  /\ phase[c] = "handle"
  /\ \E l \in raised[c] \ {Stop} :
       /\ queue' = [queue EXCEPT ![l] = @ - 1]
       /\ raised' = [raised EXCEPT ![c] = @ \ {l}]
       /\ events' = [events EXCEPT ![c] = @ \cup {l}]
  /\ phase' = [phase EXCEPT ![c] = IF raised'[c] = {} THEN "process" ELSE @]
  /\ UNCHANGED <<pushes, arrivals, signal>>
  /\ UNCHANGED managerVars

\* event->handle(): one message is popped, one datagram read.
Handle(c) == /\ phase[c] = "handle"
             /\ Stop \notin raised[c]
             /\ \E l \in raised[c] :
                  /\ queue' = [queue EXCEPT ![l] = @ - 1]
                  /\ raised' = [raised EXCEPT ![c] = @ \ {l}]
                  /\ events' = [events EXCEPT ![c] = @ \cup {l}]
             /\ phase' = [phase EXCEPT ![c] = IF raised'[c] = {} THEN "process" ELSE @]
             /\ UNCHANGED <<pushes, arrivals, signal>>
             /\ UNCHANGED managerVars

\* A slip: the loop goes back to select after the first event.
ResumeAtOnce(c, rest) == phase' = [phase EXCEPT ![c] = "select"]

\* After an event: the next one, or the next turn of the loop.
Resume(c, rest) == phase' = [phase EXCEPT ![c] = IF rest = {} THEN "select" ELSE "process"]

\* onEvent on the event of highest priority; the messages it sends are pushed
\* one by one.
Process(c) ==
  /\ phase[c] = "process"
  /\ \E l \in events[c], n \in 0 .. MaxPushes :
       /\ \A m \in events[c] : Priority[l] <= Priority[m]
       /\ events' = [events EXCEPT ![c] = @ \ {l}]
       /\ \E sends \in [1 .. n -> Targets(c)] : pushes' = [pushes EXCEPT ![c] = sends]
       /\ IF n = 0 THEN Resume(c, events[c] \ {l})
                   ELSE phase' = [phase EXCEPT ![c] = "push"]
  /\ UNCHANGED <<queue, raised, arrivals, signal>>
  /\ UNCHANGED managerVars

\* RtFifo::push waits while the fifo is full.
Push(c) == /\ phase[c] = "push"
           /\ queue[Head(pushes[c])] < MaxSize
           /\ queue' = [queue EXCEPT ![Head(pushes[c])] = @ + 1]
           /\ pushes' = [pushes EXCEPT ![c] = Tail(@)]
           /\ IF Len(pushes[c]) = 1 THEN Resume(c, events[c]) ELSE UNCHANGED phase
           /\ UNCHANGED <<raised, events, arrivals, signal>>
           /\ UNCHANGED managerVars

\* select, read and sem_wait are cancellation points.
Cancel(c) == /\ c \in cancelled
             /\ phase[c] \in {"select", "handle", "push"}
             /\ phase' = [phase EXCEPT ![c] = "ended"]
             /\ raised' = [raised EXCEPT ![c] = {}]
             /\ UNCHANGED <<queue, events, pushes, arrivals, signal>>
             /\ UNCHANGED managerVars

Thread(c) == \/ Select(c) \/ HandleStop(c) \/ Handle(c) \/ Process(c)
             \/ Push(c) \/ Cancel(c)

-----------------------------------------------------------------------------
(* BlockManager *)

\* start: Block::start on each block.  A thread that the system cannot create
\* ends the program and is not modelled.
StartBlock == /\ manager = "start"
              /\ phase' = [c \in Channels |->
                             IF c \in Threads[block] THEN "select" ELSE phase[c]]
              /\ IF block < Blocks
                 THEN /\ block' = block + 1 /\ UNCHANGED manager
                 ELSE /\ manager' = "wait" /\ UNCHANGED block
              /\ UNCHANGED <<queue, raised, events, pushes, arrivals, signal, cancelled>>

\* A slip: the threads are expected to see the signal by themselves.
CancelNobody(b) == /\ block' = b
                   /\ UNCHANGED cancelled

CancelBlock(b) == /\ block' = b
                  /\ cancelled' = cancelled \cup Threads[b]

\* wait: the signal is read, which takes it away from the threads whose select
\* did not see it, and stop begins: pthread_cancel on both threads of the
\* first block.
ReadSignal == /\ manager = "wait"
              /\ signal
              /\ signal' = FALSE
              /\ manager' = "stop"
              /\ CancelBlock(1)
              /\ UNCHANGED arrivals
              /\ UNCHANGED threadVars

\* Block::stop returns when both threads are joined.
JoinBlock == /\ manager = "stop"
             /\ \A c \in Threads[block] : phase[c] = "ended"
             /\ IF block < Blocks
                THEN /\ CancelBlock(block + 1) /\ UNCHANGED manager
                ELSE /\ manager' = "done" /\ UNCHANGED <<block, cancelled>>
             /\ UNCHANGED <<arrivals, signal>>
             /\ UNCHANGED threadVars

Manager == StartBlock \/ ReadSignal \/ JoinBlock

-----------------------------------------------------------------------------
Next == \/ \E l \in Inputs : Arrive(l)
        \/ SendSignal
        \/ Manager
        \/ \E c \in Channels : Thread(c)

\* The threads are scheduled; nothing has to arrive and nobody has to stop the
\* program.
Fairness == WF_vars(Manager) /\ \A c \in Channels : WF_vars(Thread(c))

Spec == Init /\ [][Next]_vars /\ Fairness

-----------------------------------------------------------------------------
(* Properties *)

Phases == {"created", "select", "handle", "process", "push", "ended"}

TypeOK == /\ queue \in [AllLinks -> Nat]
          /\ phase \in [Channels -> Phases]
          /\ raised \in [Channels -> SUBSET (AllLinks \cup {Stop})]
          /\ events \in [Channels -> SUBSET AllLinks]
          /\ pushes \in [Channels -> Seq(Links)]
          /\ \A c \in Channels : /\ raised[c] \subseteq EventsOf(c) \cup {Stop}
                                 /\ events[c] \subseteq EventsOf(c)
                                 /\ pushes[c] \in Seq(Targets(c))
          /\ arrivals \in Nat
          /\ signal \in BOOLEAN
          /\ manager \in {"start", "wait", "stop", "done"}
          /\ block \in 1 .. Blocks
          /\ cancelled \subseteq Channels

\* The channel that thread c waits for, in the push of a message on a full fifo.
Waits(c, d) == /\ phase[c] = "push"
               /\ Head(pushes[c])[2] = d
               /\ queue[Head(pushes[c])] >= MaxSize

\* RtFifo::push blocks: no group of threads waits on itself, each for a fifo
\* that only another of them can empty.
NoCyclicWait ==
  \A group \in SUBSET Channels :
    (\A c \in group : \E d \in group : Waits(c, d)) => group = {}

\* executeThread returns on a stop signal before it has popped any message of
\* that turn: what it had taken from the fifos was processed.
PoppedIsProcessed ==
  \A c \in Channels \ cancelled : phase[c] = "ended" => events[c] = {} /\ pushes[c] = << >>

\* As long as nobody stops the program, every message is processed: each
\* channel comes back to its select with nothing left in its fifos.
Quiet == \A c \in Channels : /\ phase[c] = "select"
                              /\ events[c] = {}
                              /\ \A l \in EventsOf(c) : queue[l] = 0
MessagesAreProcessed == (arrivals = MaxArrivals) ~> (Quiet \/ signal \/ manager \in {"stop", "done"})

\* A stop signal ends the program: every thread ends, those that wait on a full
\* fifo for a thread that is gone too, and the manager joins them all.
StopEnds == signal ~> (manager = "done" /\ \A c \in Channels : phase[c] = "ended")
=============================================================================
