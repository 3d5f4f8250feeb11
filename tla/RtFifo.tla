------------------------------- MODULE RtFifo -------------------------------
(***************************************************************************)
(* opensand-rt/src/RtFifo.cpp: the queue that links two channel threads.   *)
(*                                                                         *)
(* A counting semaphore makes push wait while the queue is full, a mutex   *)
(* protects the queue, and a pipe carries one GO word per message so that  *)
(* the consumer's event loop can select on it.  The three are updated at   *)
(* different moments, so each of them is ahead of or behind the queue      *)
(* while a call is under way: the properties are about what still holds    *)
(* between the steps of the threads.                                       *)
(*                                                                         *)
(* The consumer is the one thread that owns the MessageEvent of the queue; *)
(* what it does with the message afterwards is outside this module (see    *)
(* RtBlocks).  The failure of the write to the pipe, which leaves a        *)
(* message in the queue that no GO word announces, may happen MaxFailures  *)
(* times.                                                                  *)
(***************************************************************************)
EXTENDS Naturals, Sequences, FiniteSets

CONSTANTS Producers,    \* threads that call RtFifo::push
          Consumer,     \* the thread whose event loop handles the MessageEvent
          Nobody,       \* the mutex has no owner
          MaxSize,      \* DEFAULT_FIFO_SIZE
          Numbers,      \* messages of a producer are numbered modulo this
          MaxFailures   \* bound: how often writing to the pipe may fail

ASSUME ThreadsAssumption == /\ IsFiniteSet(Producers)
                            /\ Consumer \notin Producers
                            /\ Nobody \notin Producers \cup {Consumer}
ASSUME SizesAssumption == /\ MaxSize \in Nat \ {0}
                          /\ Numbers \in Nat \ {0}
                          /\ MaxFailures \in Nat

Threads == Producers \cup {Consumer}

VARIABLES
  fifo,        \* RtFifo::fifo
  fifo_mutex,  \* owner of RtFifo::fifo_mutex
  count,       \* RtSemaphore::count of RtFifo::fifo_size_sem
  pipe,        \* GO words written to w_sig_pipe and not read yet
  pc,          \* where each thread is
  next,        \* next[p]: number of the message p pushes next
  taken,       \* taken[p]: number of p's next message to be popped
  failed       \* pushes that could not write their GO word

vars == <<fifo, fifo_mutex, count, pipe, pc, next, taken, failed>>

Message == [from : Producers, num : 0 .. Numbers - 1]

Init == /\ fifo = << >>
        /\ fifo_mutex = Nobody
        /\ count = MaxSize
        /\ pipe = 0
        /\ pc = [t \in Threads |-> IF t = Consumer THEN "select" ELSE "out"]
        /\ next = [p \in Producers |-> 0]
        /\ taken = [p \in Producers |-> 0]
        /\ failed = 0

Goto(t, from, to) == /\ pc[t] = from
                     /\ pc' = [pc EXCEPT ![t] = to]

-----------------------------------------------------------------------------
(* RtFifo::push *)

Call(p) == /\ Goto(p, "out", "wait")
           /\ UNCHANGED <<fifo, fifo_mutex, count, pipe, next, taken, failed>>

\* A slip: the permit is taken without a look at the predicate.
SemTakeUntested(p) == /\ Goto(p, "wait", "lock")
                      /\ count' = count - 1
                      /\ UNCHANGED <<fifo, fifo_mutex, pipe, next, taken, failed>>

\* RtSemaphore::wait when the predicate of the condition variable holds ...
SemTake(p) == /\ Goto(p, "wait", "lock")
              /\ count # 0
              /\ count' = count - 1
              /\ UNCHANGED <<fifo, fifo_mutex, pipe, next, taken, failed>>

\* ... and when it does not.
SemSleep(p) == /\ Goto(p, "wait", "asleep")
               /\ count = 0
               /\ UNCHANGED <<fifo, fifo_mutex, count, pipe, next, taken, failed>>

\* A slip: "if" instead of "while" around the condition variable.
SpuriousWakeUntested(p) == /\ Goto(p, "asleep", "lock")
                           /\ UNCHANGED <<fifo, fifo_mutex, count, pipe, next, taken, failed>>

\* A condition variable may wake a thread that nobody notified.
SpuriousWake(p) == /\ Goto(p, "asleep", "wait")
                   /\ UNCHANGED <<fifo, fifo_mutex, count, pipe, next, taken, failed>>

Lock(p) == /\ Goto(p, "lock", "enqueue")
           /\ fifo_mutex = Nobody
           /\ fifo_mutex' = p
           /\ UNCHANGED <<fifo, count, pipe, next, taken, failed>>

Enqueue(p) == /\ Goto(p, "enqueue", "signal")
              /\ fifo' = Append(fifo, [from |-> p, num |-> next[p]])
              /\ next' = [next EXCEPT ![p] = (@ + 1) % Numbers]
              /\ UNCHANGED <<fifo_mutex, count, pipe, taken, failed>>

Signal(p) == /\ Goto(p, "signal", "unlock")
             /\ pipe' = pipe + 1
             /\ UNCHANGED <<fifo, fifo_mutex, count, next, taken, failed>>

\* A slip: push returns false and leaves fifo_mutex locked.
SignalFailsLocked(p) == /\ Goto(p, "signal", "out")
                        /\ failed < MaxFailures
                        /\ failed' = failed + 1
                        /\ UNCHANGED <<fifo, fifo_mutex, count, pipe, next, taken>>

\* select or check_write fails: push returns false, the message stays queued.
SignalFails(p) == /\ Goto(p, "signal", "unlock")
                  /\ failed < MaxFailures
                  /\ failed' = failed + 1
                  /\ UNCHANGED <<fifo, fifo_mutex, count, pipe, next, taken>>

Unlock(p) == /\ Goto(p, "unlock", "out")
             /\ fifo_mutex' = Nobody
             /\ UNCHANGED <<fifo, count, pipe, next, taken, failed>>

-----------------------------------------------------------------------------
(* MessageEvent::handle, then RtFifo::pop *)

\* The event loop found the pipe readable: check_read takes one GO word.
CheckRead == /\ Goto(Consumer, "select", "lock")
             /\ pipe > 0
             /\ pipe' = pipe - 1
             /\ UNCHANGED <<fifo, fifo_mutex, count, next, taken, failed>>

PopLock == /\ Goto(Consumer, "lock", "dequeue")
           /\ fifo_mutex = Nobody
           /\ fifo_mutex' = Consumer
           /\ UNCHANGED <<fifo, count, pipe, next, taken, failed>>

\* A slip: the newest message is taken first.
DequeueLast == /\ Goto(Consumer, "dequeue", "notify")
               /\ fifo # << >>
               /\ LET m == fifo[Len(fifo)]
                  IN taken' = [taken EXCEPT ![m.from] = (@ + 1) % Numbers]
               /\ fifo' = SubSeq(fifo, 1, Len(fifo) - 1)
               /\ fifo_mutex' = Nobody
               /\ UNCHANGED <<count, pipe, next, failed>>

Dequeue == /\ Goto(Consumer, "dequeue", "notify")
           /\ fifo # << >>
           /\ LET m == Head(fifo)
              IN taken' = [taken EXCEPT ![m.from] = (@ + 1) % Numbers]
           /\ fifo' = Tail(fifo)
           /\ fifo_mutex' = Nobody
           /\ UNCHANGED <<count, pipe, next, failed>>

\* A slip: only the notify that finds no permit wakes somebody.
NotifyFromZero == /\ pc[Consumer] = "notify"
                  /\ count' = count + 1
                  /\ LET asleep == {p \in Producers : pc[p] = "asleep"}
                     IN \/ /\ asleep = {} \/ count # 0
                           /\ pc' = [pc EXCEPT ![Consumer] = "select"]
                        \/ /\ count = 0
                           /\ \E p \in asleep :
                                pc' = [pc EXCEPT ![Consumer] = "select", ![p] = "wait"]
                  /\ UNCHANGED <<fifo, fifo_mutex, pipe, next, taken, failed>>

\* RtSemaphore::notify wakes one of the threads asleep, if there is one.
Notify == /\ pc[Consumer] = "notify"
          /\ count' = count + 1
          /\ LET asleep == {p \in Producers : pc[p] = "asleep"}
             IN \/ /\ asleep = {}
                   /\ pc' = [pc EXCEPT ![Consumer] = "select"]
                \/ \E p \in asleep :
                      pc' = [pc EXCEPT ![Consumer] = "select", ![p] = "wait"]
          /\ UNCHANGED <<fifo, fifo_mutex, pipe, next, taken, failed>>

-----------------------------------------------------------------------------
PushStep(p) == \/ SemTake(p) \/ SemSleep(p) \/ Lock(p)
               \/ Enqueue(p) \/ Signal(p) \/ Unlock(p)
PopStep == CheckRead \/ PopLock \/ Dequeue \/ Notify

Next == \/ PopStep
        \/ \E p \in Producers : Call(p) \/ PushStep(p) \/ SpuriousWake(p) \/ SignalFails(p)

\* The scheduler runs every thread that can run; nothing obliges a block to
\* push, a write to fail or a condition variable to wake spuriously.
Fairness == WF_vars(PopStep) /\ \A p \in Producers : WF_vars(PushStep(p))

Spec == Init /\ [][Next]_vars /\ Fairness

-----------------------------------------------------------------------------
(* Properties *)

ProducerStates == {"out", "wait", "asleep", "lock", "enqueue", "signal", "unlock"}
ConsumerStates == {"select", "lock", "dequeue", "notify"}

TypeOK == /\ fifo \in Seq(Message)
          /\ fifo_mutex \in Threads \cup {Nobody}
          /\ count \in Nat
          /\ pipe \in Nat
          /\ pc \in [Threads -> ProducerStates \cup ConsumerStates]
          /\ \A p \in Producers : pc[p] \in ProducerStates
          /\ pc[Consumer] \in ConsumerStates
          /\ next \in [Producers -> 0 .. Numbers - 1]
          /\ taken \in [Producers -> 0 .. Numbers - 1]
          /\ failed \in Nat

At(state) == {p \in Producers : pc[p] = state}
Busy(b) == IF b THEN 1 ELSE 0

\* The thread inside a critical section, and no other, owns the mutex.
MutexInv == /\ \A p \in Producers : pc[p] \in {"enqueue", "signal", "unlock"} <=> fifo_mutex = p
            /\ pc[Consumer] = "dequeue" <=> fifo_mutex = Consumer

\* Every permit of the semaphore is free, held by a push that has not queued
\* its message, stands for a queued message, or is about to be given back.
SemaphoreInv ==
  count + Len(fifo) + Cardinality(At("lock") \cup At("enqueue"))
        + Busy(pc[Consumer] = "notify") = MaxSize

\* Every queued message has its GO word in the pipe, taken by the consumer
\* that is about to pop, about to be written, or lost by a failed write.
PipeInv ==
  Len(fifo) = pipe + failed + Busy(At("signal") # {})
                   + Busy(pc[Consumer] \in {"lock", "dequeue"})

\* push finds room once the semaphore let it in, and pop finds a message once
\* a GO word was read: the two "this should not happend" reports of
\* RtFifo::push and RtFifo::pop are unreachable.
ShouldNotHappen == /\ At("enqueue") # {} => Len(fifo) < MaxSize
                   /\ pc[Consumer] = "dequeue" => fifo # << >>

\* While producers sleep on the full queue, every free permit has a woken
\* producer on its way to it: RtSemaphore::notify's notify_one, called after
\* the count was raised, is never lost.
NoLostWakeup == At("asleep") # {} => count <= Cardinality(At("wait"))

\* Of the messages of one producer, the queue holds an uninterrupted run that
\* starts at the next one to be taken and ends at the last one pushed.
First(i) == \A k \in 1 .. i - 1 : fifo[k].from # fifo[i].from
Last(i) == \A k \in i + 1 .. Len(fifo) : fifo[k].from # fifo[i].from
Adjacent(i, j) == /\ i < j
                  /\ fifo[i].from = fifo[j].from
                  /\ \A k \in i + 1 .. j - 1 : fifo[k].from # fifo[i].from
InOrder ==
  /\ \A i \in 1 .. Len(fifo) :
       /\ First(i) => fifo[i].num = taken[fifo[i].from]
       /\ Last(i) => next[fifo[i].from] = (fifo[i].num + 1) % Numbers
       /\ \A j \in 1 .. Len(fifo) :
            Adjacent(i, j) => fifo[j].num = (fifo[i].num + 1) % Numbers
  /\ \A p \in Producers :
       (\A i \in 1 .. Len(fifo) : fifo[i].from # p) => next[p] = taken[p]

\* The queue is a bounded FIFO: no message of a producer is lost, duplicated
\* or overtaken, whatever the threads' interleaving and whether or not a
\* write to the pipe fails.
Abstract == INSTANCE BoundedFifo WITH Capacity <- MaxSize, contents <- fifo,
                                      sent <- next, received <- taken
ImplementsBoundedFifo == Abstract!ASpec

\* While a GO word waits in the pipe, the message at the head of the queue is
\* taken: the producers cannot keep the consumer from fifo_mutex for ever,
\* since the full queue stops them.
HeadIsTaken ==
  \A m \in Message :
     (pipe > 0 /\ fifo # << >> /\ Head(fifo) = m)
        ~> (fifo = << >> \/ Head(fifo) # m)
=============================================================================
