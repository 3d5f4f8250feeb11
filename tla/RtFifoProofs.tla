---------------------------- MODULE RtFifoProofs ----------------------------
(***************************************************************************)
(* RtFifo is a bounded FIFO for every set of producers, every capacity and *)
(* every number of failed writes to its pipe.                              *)
(*                                                                         *)
(* The inductive invariant has one conjunct per piece of shared state: who *)
(* owns the mutex, where each permit of the semaphore is, where each GO    *)
(* word of the pipe is, and which messages the queue holds.                *)
(***************************************************************************)
EXTENDS RtFifo, FiniteSetTheorems, SequenceTheorems, TLAPS

IInv == TypeOK /\ MutexInv /\ SemaphoreInv /\ PipeInv /\ InOrder

(* Sets of producers are finite; a producer that joins or leaves one moves *)
(* its cardinality by one.                                                 *)
LEMMA ProducerSets ==
  ASSUME NEW S \in SUBSET Producers
  PROVE  /\ IsFiniteSet(S)
         /\ Cardinality(S) \in Nat
         /\ Cardinality(S) = 0 <=> S = {}
         /\ \A p \in Producers \ S : Cardinality(S \cup {p}) = Cardinality(S) + 1
         /\ \A p \in S : Cardinality(S \ {p}) = Cardinality(S) - 1
<1>1. IsFiniteSet(S)
  BY ThreadsAssumption, FS_Subset
<1>2. Cardinality(S) \in Nat /\ (Cardinality(S) = 0 <=> S = {})
  BY <1>1, FS_CardinalityType, FS_EmptySet
<1>3. ASSUME NEW p \in Producers \ S
      PROVE  Cardinality(S \cup {p}) = Cardinality(S) + 1
  BY <1>1, FS_AddElement
<1>4. ASSUME NEW p \in S
      PROVE  Cardinality(S \ {p}) = Cardinality(S) - 1
  BY <1>1, FS_RemoveElement
<1> QED BY <1>1, <1>2, <1>3, <1>4

(* The program counters keep their types. *)
PcOK == /\ pc \in [Threads -> ProducerStates \cup ConsumerStates]
        /\ \A p \in Producers : pc[p] \in ProducerStates
        /\ pc[Consumer] \in ConsumerStates

LEMMA PcProducer ==
  ASSUME PcOK, NEW p \in Producers, NEW from, NEW to \in ProducerStates, Goto(p, from, to)
  PROVE  PcOK'
BY ThreadsAssumption DEF PcOK, Goto, Threads

LEMMA PcConsumer ==
  ASSUME PcOK, NEW from, NEW to \in ConsumerStates, Goto(Consumer, from, to)
  PROVE  PcOK'
BY ThreadsAssumption DEF PcOK, Goto, Threads

(* The variables keep their types. *)
LEMMA TypeStep == TypeOK /\ [Next]_vars => TypeOK'
<1> SUFFICES ASSUME TypeOK, [Next]_vars PROVE TypeOK'
  OBVIOUS
<1>0. PcOK
  BY DEF TypeOK, PcOK
<1>a. /\ PcOK'
      /\ fifo' \in Seq(Message)
      /\ fifo_mutex' \in Threads \cup {Nobody}
      /\ count' \in Nat /\ pipe' \in Nat /\ failed' \in Nat
      /\ next' \in [Producers -> 0 .. Numbers - 1]
      /\ taken' \in [Producers -> 0 .. Numbers - 1]
      => TypeOK'
  BY DEF TypeOK, PcOK
<1> USE DEF TypeOK, Threads
<1>1. ASSUME NEW p \in Producers, Call(p) \/ SemSleep(p) \/ SpuriousWake(p)
      PROVE  TypeOK'
  <2>1. PcOK'
    BY <1>0, <1>1, PcProducer DEF Call, SemSleep, SpuriousWake, ProducerStates
  <2> QED BY <1>1, <1>a, <2>1 DEF Call, SemSleep, SpuriousWake
<1>2. ASSUME NEW p \in Producers, SemTake(p) \/ Lock(p)
      PROVE  TypeOK'
  <2>1. PcOK'
    BY <1>0, <1>2, PcProducer DEF SemTake, Lock, ProducerStates
  <2> QED BY <1>2, <1>a, <2>1 DEF SemTake, Lock
<1>3. ASSUME NEW p \in Producers, Signal(p) \/ SignalFails(p) \/ Unlock(p)
      PROVE  TypeOK'
  <2>1. PcOK'
    BY <1>0, <1>3, PcProducer DEF Signal, SignalFails, Unlock, ProducerStates
  <2> QED BY <1>3, <1>a, <2>1 DEF Signal, SignalFails, Unlock
<1>4. ASSUME NEW p \in Producers, Enqueue(p) PROVE TypeOK'
  <2>1. PcOK'
    BY <1>0, <1>4, PcProducer DEF Enqueue, ProducerStates
  <2>2. [from |-> p, num |-> next[p]] \in Message
    BY DEF Message
  <2>3. fifo' \in Seq(Message)
    BY <1>4, <2>2, AppendProperties DEF Enqueue
  <2>4. next' \in [Producers -> 0 .. Numbers - 1]
    BY <1>4, SizesAssumption DEF Enqueue
  <2> QED BY <1>4, <1>a, <2>1, <2>3, <2>4 DEF Enqueue
<1>5. CASE CheckRead \/ PopLock
  <2>1. PcOK'
    BY <1>0, <1>5, PcConsumer DEF CheckRead, PopLock, ConsumerStates
  <2> QED BY <1>5, <1>a, <2>1 DEF CheckRead, PopLock
<1>6. CASE Dequeue
  <2>1. PcOK'
    BY <1>0, <1>6, PcConsumer DEF Dequeue, ConsumerStates
  <2>2. Head(fifo) \in Message /\ fifo' \in Seq(Message)
    BY <1>6, HeadTailProperties DEF Dequeue
  <2>3. taken' = [taken EXCEPT ![Head(fifo).from] = (@ + 1) % Numbers]
    BY <1>6 DEF Dequeue
  <2>4. Head(fifo).from \in Producers
    BY <2>2 DEF Message
  <2>5. taken' \in [Producers -> 0 .. Numbers - 1]
    BY <2>3, <2>4, SizesAssumption
  <2> QED BY <1>6, <1>a, <2>1, <2>2, <2>5 DEF Dequeue
<1>7. CASE Notify
  <2>1. PcOK'
    BY <1>0, <1>7, ThreadsAssumption DEF Notify, PcOK, ProducerStates, ConsumerStates
  <2> QED BY <1>7, <1>a, <2>1 DEF Notify
<1>8. CASE UNCHANGED vars
  BY <1>8 DEF vars
<1> QED
  BY <1>1, <1>2, <1>3, <1>4, <1>5, <1>6, <1>7, <1>8 DEF Next, PushStep, PopStep

(* RtFifo::fifo_mutex is owned by the thread in its critical section. *)
LEMMA MutexStep == TypeOK /\ MutexInv /\ [Next]_vars => MutexInv'
<1> SUFFICES ASSUME TypeOK, MutexInv, [Next]_vars PROVE MutexInv'
  OBVIOUS
<1> USE ThreadsAssumption DEF TypeOK, Threads, MutexInv
<1>1. ASSUME NEW p \in Producers,
             Call(p) \/ SemTake(p) \/ SemSleep(p) \/ SpuriousWake(p)
      PROVE  MutexInv'
  BY <1>1 DEF Call, SemTake, SemSleep, SpuriousWake, Goto
<1>2. ASSUME NEW p \in Producers,
             Lock(p) \/ Enqueue(p) \/ Signal(p) \/ SignalFails(p) \/ Unlock(p)
      PROVE  MutexInv'
  BY <1>2 DEF Lock, Enqueue, Signal, SignalFails, Unlock, Goto
<1>3. CASE CheckRead \/ PopLock \/ Dequeue
  BY <1>3 DEF CheckRead, PopLock, Dequeue, Goto
<1>4. CASE Notify
  BY <1>4 DEF Notify
<1>5. CASE UNCHANGED vars
  BY <1>5 DEF vars
<1> QED
  BY <1>1, <1>2, <1>3, <1>4, <1>5 DEF Next, PushStep, PopStep

(* Where each permit of the semaphore is. *)
Holding == At("lock") \cup At("enqueue")

LEMMA SemaphoreStep == TypeOK /\ SemaphoreInv /\ [Next]_vars => SemaphoreInv'
<1> SUFFICES ASSUME TypeOK, SemaphoreInv, [Next]_vars PROVE SemaphoreInv'
  OBVIOUS
<1> USE ThreadsAssumption, SizesAssumption DEF Threads
<1>0. /\ pc \in [Threads -> ProducerStates \cup ConsumerStates]
      /\ fifo \in Seq(Message) /\ count \in Nat
  BY DEF TypeOK
<1>1. /\ count + Len(fifo) + Cardinality(Holding) + Busy(pc[Consumer] = "notify") = MaxSize
      /\ Holding \in SUBSET Producers
      /\ Len(fifo) \in Nat /\ Cardinality(Holding) \in Nat
  BY <1>0, ProducerSets, LenProperties DEF SemaphoreInv, Holding, At
<1>2. (count' + Len(fifo') + Cardinality(Holding') + Busy(pc'[Consumer] = "notify") = MaxSize)
      => SemaphoreInv'
  BY DEF SemaphoreInv, Holding
<1>3. ASSUME NEW p \in Producers,
             \/ Call(p) \/ SemSleep(p) \/ SpuriousWake(p)
             \/ Lock(p) \/ Signal(p) \/ SignalFails(p) \/ Unlock(p)
      PROVE  SemaphoreInv'
  <2>1. Holding' = Holding /\ pc'[Consumer] = pc[Consumer]
    BY <1>0, <1>3 DEF Call, SemSleep, SpuriousWake, Lock, Signal, SignalFails, Unlock,
                      Goto, Holding, At
  <2>2. count' = count /\ fifo' = fifo
    BY <1>3 DEF Call, SemSleep, SpuriousWake, Lock, Signal, SignalFails, Unlock
  <2> QED BY <1>1, <1>2, <2>1, <2>2
<1>4. ASSUME NEW p \in Producers, SemTake(p) PROVE SemaphoreInv'
  <2>1. /\ p \in Producers \ Holding /\ Holding' = Holding \cup {p}
        /\ pc'[Consumer] = pc[Consumer]
    BY <1>0, <1>4 DEF SemTake, Goto, Holding, At
  <2>2. Cardinality(Holding') = Cardinality(Holding) + 1
    BY <1>1, <2>1, ProducerSets
  <2>3. count' = count - 1 /\ fifo' = fifo
    BY <1>4 DEF SemTake
  <2> QED BY <1>0, <1>1, <1>2, <2>1, <2>2, <2>3 DEF Busy
<1>5. ASSUME NEW p \in Producers, Enqueue(p) PROVE SemaphoreInv'
  <2>1. /\ p \in Holding /\ Holding' = Holding \ {p}
        /\ pc'[Consumer] = pc[Consumer]
    BY <1>0, <1>5 DEF Enqueue, Goto, Holding, At
  <2>2. Cardinality(Holding') = Cardinality(Holding) - 1
    BY <1>1, <2>1, ProducerSets
  <2>3. count' = count /\ Len(fifo') = Len(fifo) + 1
    BY <1>0, <1>5 DEF Enqueue
  <2> QED BY <1>0, <1>1, <1>2, <2>1, <2>2, <2>3 DEF Busy
<1>6. CASE CheckRead \/ PopLock
  <2>1. /\ Holding' = Holding
        /\ pc[Consumer] # "notify" /\ pc'[Consumer] # "notify"
    BY <1>0, <1>6 DEF CheckRead, PopLock, Goto, Holding, At
  <2>2. count' = count /\ fifo' = fifo
    BY <1>6 DEF CheckRead, PopLock
  <2> QED BY <1>1, <1>2, <2>1, <2>2 DEF Busy
<1>7. CASE Dequeue
  <2>1. /\ Holding' = Holding
        /\ pc[Consumer] # "notify" /\ pc'[Consumer] = "notify"
    BY <1>0, <1>7 DEF Dequeue, Goto, Holding, At
  <2>2. count' = count /\ Len(fifo') = Len(fifo) - 1
    BY <1>0, <1>7, HeadTailProperties DEF Dequeue
  <2> QED BY <1>0, <1>1, <1>2, <2>1, <2>2 DEF Busy
<1>8. CASE Notify
  <2>1. /\ Holding' = Holding
        /\ pc[Consumer] = "notify" /\ pc'[Consumer] = "select"
    BY <1>0, <1>8 DEF Notify, Holding, At
  <2>2. count' = count + 1 /\ fifo' = fifo
    BY <1>8 DEF Notify
  <2> QED BY <1>0, <1>1, <1>2, <2>1, <2>2 DEF Busy
<1>9. CASE UNCHANGED vars
  BY <1>9 DEF vars, SemaphoreInv, At
<1> QED
  BY <1>3, <1>4, <1>5, <1>6, <1>7, <1>8, <1>9 DEF Next, PushStep, PopStep

(* Where the GO word of each queued message is. *)
LEMMA PipeStep == TypeOK /\ MutexInv /\ PipeInv /\ [Next]_vars => PipeInv'
<1> SUFFICES ASSUME TypeOK, MutexInv, PipeInv, [Next]_vars PROVE PipeInv'
  OBVIOUS
<1> USE ThreadsAssumption DEF Threads
<1> DEFINE Popping == pc[Consumer] \in {"lock", "dequeue"}
           Signalling == At("signal") # {}
<1>0. /\ pc \in [Threads -> ProducerStates \cup ConsumerStates]
      /\ fifo \in Seq(Message) /\ Len(fifo) \in Nat
      /\ pipe \in Nat /\ failed \in Nat
  BY LenProperties DEF TypeOK
<1>1. Len(fifo) = pipe + failed + Busy(Signalling) + Busy(Popping)
  BY DEF PipeInv
<1>2. (Len(fifo') = pipe' + failed' + Busy(Signalling') + Busy(Popping')) => PipeInv'
  BY DEF PipeInv
<1>3. ASSUME NEW p \in Producers,
             \/ Call(p) \/ SemTake(p) \/ SemSleep(p) \/ SpuriousWake(p)
             \/ Lock(p) \/ Unlock(p)
      PROVE  PipeInv'
  <2>1. At("signal")' = At("signal") /\ Popping' = Popping
    BY <1>0, <1>3 DEF Call, SemTake, SemSleep, SpuriousWake, Lock, Unlock, Goto, At
  <2>2. fifo' = fifo /\ pipe' = pipe /\ failed' = failed
    BY <1>3 DEF Call, SemTake, SemSleep, SpuriousWake, Lock, Unlock
  <2> QED BY <1>1, <1>2, <2>1, <2>2
<1>4. ASSUME NEW p \in Producers, Enqueue(p) PROVE PipeInv'
  <2>1. At("signal") = {} /\ p \in At("signal")' /\ Popping' = Popping
    BY <1>0, <1>4 DEF Enqueue, Goto, At, MutexInv
  <2>2. Len(fifo') = Len(fifo) + 1 /\ pipe' = pipe /\ failed' = failed
    BY <1>0, <1>4 DEF Enqueue
  <2> QED BY <1>0, <1>1, <1>2, <2>1, <2>2 DEF Busy
<1>5. ASSUME NEW p \in Producers, Signal(p) \/ SignalFails(p) PROVE PipeInv'
  <2>1. p \in At("signal") /\ At("signal")' = {} /\ Popping' = Popping
    BY <1>0, <1>5 DEF Signal, SignalFails, Goto, At, MutexInv
  <2>2. fifo' = fifo /\ pipe' + failed' = pipe + failed + 1 /\ pipe' \in Nat /\ failed' \in Nat
    BY <1>0, <1>5 DEF Signal, SignalFails
  <2> QED BY <1>0, <1>1, <1>2, <2>1, <2>2 DEF Busy
<1>6. CASE CheckRead
  <2>1. At("signal")' = At("signal") /\ ~Popping /\ Popping'
    BY <1>0, <1>6 DEF CheckRead, Goto, At
  <2>2. fifo' = fifo /\ pipe' = pipe - 1 /\ failed' = failed
    BY <1>6 DEF CheckRead
  <2> QED BY <1>0, <1>1, <1>2, <2>1, <2>2 DEF Busy
<1>7. CASE PopLock
  <2>1. At("signal")' = At("signal") /\ Popping /\ Popping'
    BY <1>0, <1>7 DEF PopLock, Goto, At
  <2>2. fifo' = fifo /\ pipe' = pipe /\ failed' = failed
    BY <1>7 DEF PopLock
  <2> QED BY <1>0, <1>1, <1>2, <2>1, <2>2 DEF Busy
<1>8. CASE Dequeue
  <2>1. At("signal")' = At("signal") /\ Popping /\ ~Popping'
    BY <1>0, <1>8 DEF Dequeue, Goto, At
  <2>2. Len(fifo') = Len(fifo) - 1 /\ pipe' = pipe /\ failed' = failed
    BY <1>0, <1>8, HeadTailProperties DEF Dequeue
  <2> QED BY <1>0, <1>1, <1>2, <2>1, <2>2 DEF Busy
<1>9. CASE Notify
  <2>1. At("signal")' = At("signal") /\ ~Popping /\ ~Popping'
    BY <1>0, <1>9 DEF Notify, At
  <2>2. fifo' = fifo /\ pipe' = pipe /\ failed' = failed
    BY <1>9 DEF Notify
  <2> QED BY <1>1, <1>2, <2>1, <2>2 DEF Busy
<1>10. CASE UNCHANGED vars
  BY <1>10 DEF vars, PipeInv, At
<1> QED
  BY <1>3, <1>4, <1>5, <1>6, <1>7, <1>8, <1>9, <1>10 DEF Next, PushStep, PopStep

(* A permit that is free while producers sleep has a producer awake to     *)
(* take it.                                                                *)
LEMMA WakeupStep == TypeOK /\ NoLostWakeup /\ [Next]_vars => NoLostWakeup'
<1> SUFFICES ASSUME TypeOK, NoLostWakeup, [Next]_vars, At("asleep")' # {}
             PROVE  count' <= Cardinality(At("wait")')
  BY DEF NoLostWakeup
<1> USE ThreadsAssumption DEF Threads
<1>0. /\ pc \in [Threads -> ProducerStates \cup ConsumerStates]
      /\ count \in Nat
      /\ At("wait") \in SUBSET Producers
      /\ Cardinality(At("wait")) \in Nat
  BY ProducerSets DEF TypeOK, At
<1>1. At("asleep") # {} => count <= Cardinality(At("wait"))
  BY DEF NoLostWakeup
<1>2. ASSUME NEW p \in Producers,
             \/ Lock(p) \/ Enqueue(p) \/ Signal(p) \/ SignalFails(p) \/ Unlock(p)
      PROVE  count' <= Cardinality(At("wait")')
  <2>1. At("wait")' = At("wait") /\ At("asleep")' = At("asleep")
    BY <1>0, <1>2 DEF Lock, Enqueue, Signal, SignalFails, Unlock, Goto, At
  <2>2. count' = count
    BY <1>2 DEF Lock, Enqueue, Signal, SignalFails, Unlock
  <2> QED BY <1>1, <2>1, <2>2
<1>3. ASSUME NEW p \in Producers, Call(p)
      PROVE  count' <= Cardinality(At("wait")')
  <2>1. /\ p \in Producers \ At("wait") /\ At("wait")' = At("wait") \cup {p}
        /\ At("asleep")' = At("asleep")
    BY <1>0, <1>3 DEF Call, Goto, At
  <2>2. Cardinality(At("wait")') = Cardinality(At("wait")) + 1
    BY <1>0, <2>1, ProducerSets
  <2>3. count' = count
    BY <1>3 DEF Call
  <2> QED BY <1>0, <1>1, <2>1, <2>2, <2>3
<1>4. ASSUME NEW p \in Producers, SpuriousWake(p)
      PROVE  count' <= Cardinality(At("wait")')
  <2>1. /\ p \in Producers \ At("wait") /\ At("wait")' = At("wait") \cup {p}
        /\ p \in At("asleep")
    BY <1>0, <1>4 DEF SpuriousWake, Goto, At
  <2>2. Cardinality(At("wait")') = Cardinality(At("wait")) + 1
    BY <1>0, <2>1, ProducerSets
  <2>3. count' = count
    BY <1>4 DEF SpuriousWake
  <2> QED BY <1>0, <1>1, <2>1, <2>2, <2>3
<1>5. ASSUME NEW p \in Producers, SemTake(p)
      PROVE  count' <= Cardinality(At("wait")')
  <2>1. /\ p \in At("wait") /\ At("wait")' = At("wait") \ {p}
        /\ At("asleep")' = At("asleep")
    BY <1>0, <1>5 DEF SemTake, Goto, At
  <2>2. Cardinality(At("wait")') = Cardinality(At("wait")) - 1
    BY <1>0, <2>1, ProducerSets
  <2>3. count' = count - 1
    BY <1>5 DEF SemTake
  <2> QED BY <1>0, <1>1, <2>1, <2>2, <2>3
<1>6. ASSUME NEW p \in Producers, SemSleep(p)
      PROVE  count' <= Cardinality(At("wait")')
  <2>1. count' = 0
    BY <1>6 DEF SemSleep
  <2>2. At("wait")' \in SUBSET Producers
    BY DEF At
  <2>3. Cardinality(At("wait")') \in Nat
    BY <2>2, ProducerSets
  <2> QED BY <2>1, <2>3
<1>7. CASE CheckRead \/ PopLock \/ Dequeue
  <2>1. At("wait")' = At("wait") /\ At("asleep")' = At("asleep")
    BY <1>0, <1>7 DEF CheckRead, PopLock, Dequeue, Goto, At
  <2>2. count' = count
    BY <1>7 DEF CheckRead, PopLock, Dequeue
  <2> QED BY <1>1, <2>1, <2>2
<1>8. CASE Notify
  <2>1. At("asleep") # {}
    BY <1>0, <1>8 DEF Notify, At
  <2>2. PICK p \in At("asleep") : pc' = [pc EXCEPT ![Consumer] = "select", ![p] = "wait"]
    BY <1>8, <2>1 DEF Notify, At
  <2>3. p \in Producers \ At("wait") /\ At("wait")' = At("wait") \cup {p}
    BY <1>0, <2>2 DEF At
  <2>4. Cardinality(At("wait")') = Cardinality(At("wait")) + 1
    BY <1>0, <2>3, ProducerSets
  <2>5. count' = count + 1
    BY <1>8 DEF Notify
  <2> QED BY <1>0, <1>1, <2>1, <2>4, <2>5
<1>9. CASE UNCHANGED vars
  BY <1>1, <1>9 DEF vars, At
<1> QED
  BY <1>2, <1>3, <1>4, <1>5, <1>6, <1>7, <1>8, <1>9 DEF Next, PushStep, PopStep

(* Appending p's next message keeps every producer's run uninterrupted. *)
LEMMA OrderEnqueue ==
  ASSUME TypeOK, InOrder, NEW p \in Producers, Enqueue(p)
  PROVE  InOrder'
<1> DEFINE n == Len(fifo)
           m == [from |-> p, num |-> next[p]]
<1>1. /\ fifo \in Seq(Message) /\ n \in Nat /\ m \in Message
      /\ next \in [Producers -> 0 .. Numbers - 1]
      /\ taken \in [Producers -> 0 .. Numbers - 1]
  BY LenProperties DEF TypeOK, Message
<1>2. /\ fifo' = Append(fifo, m) /\ taken' = taken
      /\ next' = [next EXCEPT ![p] = (@ + 1) % Numbers]
  BY DEF Enqueue
<1>3. /\ Len(fifo') = n + 1
      /\ \A i \in 1 .. n : fifo'[i] = fifo[i]
      /\ fifo'[n + 1] = m
  <2>1. \A i \in 1 .. Len(fifo) + 1 :
          Append(fifo, m)[i] = IF i <= Len(fifo) THEN fifo[i] ELSE m
    BY <1>1, AppendProperties
  <2> QED BY <1>1, <1>2, <2>1
<1>4. \A i \in 1 .. n : fifo[i].from \in Producers
  <2>1. \A i \in 1 .. n : fifo[i] \in Message
    BY <1>1, ElementOfSeq
  <2> QED BY <2>1 DEF Message
<1>5. ASSUME NEW i \in 1 .. n + 1
      PROVE  /\ First(i)' => fifo'[i].num = taken'[fifo'[i].from]
             /\ Last(i)' => next'[fifo'[i].from] = (fifo'[i].num + 1) % Numbers
  <2>1. CASE i = n + 1
    <3>1. fifo'[i].from = p /\ fifo'[i].num = next[p]
      BY <1>3, <2>1
    <3>2. First(i)' => \A k \in 1 .. n : fifo[k].from # p
      BY <1>1, <1>3, <2>1, <3>1 DEF First
    <3>3. (\A k \in 1 .. n : fifo[k].from # p) => next[p] = taken[p]
      BY DEF InOrder
    <3>4. next'[p] = (next[p] + 1) % Numbers
      BY <1>1, <1>2
    <3> QED BY <1>2, <3>1, <3>2, <3>3, <3>4
  <2>2. CASE i \in 1 .. n
    <3>1. fifo'[i] = fifo[i]
      BY <1>3, <2>2
    <3>2. ASSUME First(i)' PROVE First(i)
      <4>1. \A k \in 1 .. i - 1 : k \in 1 .. n /\ fifo'[k] = fifo[k]
        BY <1>1, <1>3, <2>2
      <4>2. \A k \in 1 .. i - 1 : fifo'[k].from # fifo'[i].from
        BY <3>2 DEF First
      <4> QED BY <3>1, <4>1, <4>2 DEF First
    <3>3. Last(i)' => Last(i) /\ fifo[i].from # p
      BY <1>1, <1>3, <2>2, <3>1 DEF Last
    <3>4. fifo[i].from # p => next'[fifo[i].from] = next[fifo[i].from]
      BY <1>1, <1>2, <1>4, <2>2
    <3>5. /\ First(i) => fifo[i].num = taken[fifo[i].from]
          /\ Last(i) => next[fifo[i].from] = (fifo[i].num + 1) % Numbers
      BY <2>2 DEF InOrder
    <3> QED BY <1>2, <3>1, <3>2, <3>3, <3>4, <3>5
  <2> QED BY <1>1, <2>1, <2>2
<1>6. ASSUME NEW i \in 1 .. n + 1, NEW j \in 1 .. n + 1, Adjacent(i, j)'
      PROVE  fifo'[j].num = (fifo'[i].num + 1) % Numbers
  <2>1. i \in 1 .. n /\ i < j /\ fifo'[i] = fifo[i]
    BY <1>1, <1>3, <1>6 DEF Adjacent
  <2>2. CASE j = n + 1
    <3>1. fifo'[j].from = p /\ fifo'[j].num = next[p] /\ fifo[i].from = p
      BY <1>3, <1>6, <2>1, <2>2 DEF Adjacent
    <3>2. Last(i)
      BY <1>1, <1>3, <1>6, <2>1, <2>2 DEF Adjacent, Last
    <3>3. next[fifo[i].from] = (fifo[i].num + 1) % Numbers
      BY <2>1, <3>2 DEF InOrder
    <3> QED BY <2>1, <3>1, <3>3
  <2>3. CASE j \in 1 .. n
    <3>1. fifo'[j] = fifo[j]
      BY <1>3, <2>3
    <3>2. \A k \in i + 1 .. j - 1 : k \in 1 .. n /\ fifo'[k] = fifo[k]
      BY <1>1, <1>3, <2>1, <2>3
    <3>3. /\ fifo'[i].from = fifo'[j].from
          /\ \A k \in i + 1 .. j - 1 : fifo'[k].from # fifo'[i].from
      BY <1>6 DEF Adjacent
    <3>4. Adjacent(i, j)
      BY <2>1, <3>1, <3>2, <3>3 DEF Adjacent
    <3> QED BY <2>1, <2>3, <3>1, <3>4 DEF InOrder
  <2> QED BY <1>1, <2>2, <2>3
<1>7. ASSUME NEW q \in Producers, \A i \in 1 .. n + 1 : fifo'[i].from # q
      PROVE  next'[q] = taken'[q]
  <2>1. q # p /\ \A i \in 1 .. n : fifo[i].from # q
    BY <1>1, <1>3, <1>7
  <2> QED BY <1>1, <1>2, <2>1 DEF InOrder
<1> QED BY <1>3, <1>5, <1>6, <1>7 DEF InOrder

(* Taking the oldest message leaves every producer's run uninterrupted. *)
LEMMA OrderDequeue ==
  ASSUME TypeOK, InOrder, Dequeue
  PROVE  /\ InOrder'
         /\ Head(fifo).num = taken[Head(fifo).from]
<1> DEFINE n == Len(fifo)
           h == Head(fifo)
<1>1. /\ fifo \in Seq(Message) /\ fifo # << >> /\ n \in Nat /\ n > 0
      /\ next \in [Producers -> 0 .. Numbers - 1]
      /\ taken \in [Producers -> 0 .. Numbers - 1]
  BY EmptySeq, LenProperties DEF TypeOK, Dequeue
<1>2. h = fifo[1] /\ h \in Message /\ h.from \in Producers
  <2>1. h = fifo[1] /\ h \in Message
    BY <1>1, HeadTailProperties
  <2> QED BY <2>1 DEF Message
<1>3. /\ fifo' = Tail(fifo) /\ next' = next
      /\ taken' = [taken EXCEPT ![h.from] = (@ + 1) % Numbers]
  BY DEF Dequeue
<1>4. /\ Len(fifo') = n - 1
      /\ \A i \in 1 .. n - 1 : fifo'[i] = fifo[i + 1]
  <2>1. /\ Len(Tail(fifo)) = n - 1
        /\ \A i \in 1 .. Len(Tail(fifo)) : Tail(fifo)[i] = fifo[i + 1]
    BY <1>1, HeadTailProperties
  <2> QED BY <1>3, <2>1
<1>5. \A i \in 1 .. n : fifo[i].from \in Producers
  <2>1. \A i \in 1 .. n : fifo[i] \in Message
    BY <1>1, ElementOfSeq
  <2> QED BY <2>1 DEF Message
<1>6. h.num = taken[h.from]
  <2>1. First(1)
    BY DEF First
  <2> QED BY <1>1, <1>2, <2>1 DEF InOrder
<1>7. \A q \in Producers : q # h.from => taken'[q] = taken[q]
  BY <1>1, <1>3
<1>8. taken'[h.from] = (h.num + 1) % Numbers
  BY <1>1, <1>2, <1>3, <1>6
<1>9. ASSUME NEW i \in 1 .. n - 1
      PROVE  /\ First(i)' => fifo'[i].num = taken'[fifo'[i].from]
             /\ Last(i)' => next'[fifo'[i].from] = (fifo'[i].num + 1) % Numbers
  <2>1. fifo'[i] = fifo[i + 1] /\ i + 1 \in 1 .. n /\ fifo[i + 1].from \in Producers
    BY <1>1, <1>4, <1>5
  <2>2. ASSUME First(i)' PROVE fifo[i + 1].num = taken'[fifo[i + 1].from]
    <3>1. \A k \in 1 .. i - 1 : k \in 1 .. n - 1 /\ fifo'[k].from # fifo'[i].from
      BY <1>1, <2>2 DEF First
    <3>2. \A k \in 1 .. i - 1 : fifo[k + 1].from # fifo[i + 1].from
      BY <1>4, <2>1, <3>1
    <3>3. \A k \in 2 .. i : fifo[k].from # fifo[i + 1].from
      <4>1. \A k \in 2 .. i : k - 1 \in 1 .. i - 1 /\ (k - 1) + 1 = k
        BY <1>1
      <4> QED BY <3>2, <4>1
    <3>4. CASE fifo[i + 1].from # h.from
      <4>1. First(i + 1)
        BY <1>1, <1>2, <3>3, <3>4 DEF First
      <4>2. fifo[i + 1].num = taken[fifo[i + 1].from]
        BY <2>1, <4>1 DEF InOrder
      <4> QED BY <1>7, <2>1, <3>4, <4>2
    <3>5. CASE fifo[i + 1].from = h.from
      <4>1. Adjacent(1, i + 1)
        BY <1>1, <1>2, <3>3, <3>5 DEF Adjacent
      <4>2. 1 \in 1 .. n
        BY <1>1
      <4>3. fifo[i + 1].num = (fifo[1].num + 1) % Numbers
        BY <2>1, <4>1, <4>2 DEF InOrder
      <4> QED BY <1>2, <1>8, <3>5, <4>3
    <3> QED BY <3>4, <3>5
  <2>3. ASSUME Last(i)' PROVE next[fifo[i + 1].from] = (fifo[i + 1].num + 1) % Numbers
    <3>1. \A k \in i + 1 .. n - 1 : k \in 1 .. n - 1 /\ fifo'[k].from # fifo'[i].from
      BY <1>1, <1>4, <2>3 DEF Last
    <3>2. \A k \in i + 1 .. n - 1 : fifo[k + 1].from # fifo[i + 1].from
      BY <1>4, <2>1, <3>1
    <3>3. \A k \in (i + 1) + 1 .. n : k - 1 \in i + 1 .. n - 1 /\ (k - 1) + 1 = k
      BY <1>1
    <3>4. Last(i + 1)
      BY <3>2, <3>3 DEF Last
    <3> QED BY <2>1, <3>4 DEF InOrder
  <2> QED BY <1>3, <2>1, <2>2, <2>3
<1>10. ASSUME NEW i \in 1 .. n - 1, NEW j \in 1 .. n - 1, Adjacent(i, j)'
       PROVE  fifo'[j].num = (fifo'[i].num + 1) % Numbers
  <2>1. /\ fifo'[i] = fifo[i + 1] /\ i + 1 \in 1 .. n
        /\ fifo'[j] = fifo[j + 1] /\ j + 1 \in 1 .. n
    BY <1>1, <1>4
  <2>2. /\ i < j /\ fifo[i + 1].from = fifo[j + 1].from
        /\ \A k \in i + 1 .. j - 1 : k \in 1 .. n - 1 /\ fifo'[k].from # fifo'[i].from
    BY <1>1, <1>10, <2>1 DEF Adjacent
  <2>3. \A k \in i + 1 .. j - 1 : fifo[k + 1].from # fifo[i + 1].from
    BY <1>4, <2>1, <2>2
  <2>4. \A k \in (i + 1) + 1 .. (j + 1) - 1 : k - 1 \in i + 1 .. j - 1 /\ (k - 1) + 1 = k
    BY <1>1
  <2>5. Adjacent(i + 1, j + 1)
    <3>1. \A k \in (i + 1) + 1 .. (j + 1) - 1 : fifo[k].from # fifo[i + 1].from
      BY <2>3, <2>4
    <3> QED BY <2>2, <3>1 DEF Adjacent
  <2> QED BY <2>1, <2>5 DEF InOrder
<1>11. ASSUME NEW q \in Producers, \A i \in 1 .. n - 1 : fifo'[i].from # q
       PROVE  next'[q] = taken'[q]
  <2>1. \A k \in 2 .. n : fifo[k].from # q
    <3>1. \A k \in 2 .. n : k - 1 \in 1 .. n - 1 /\ (k - 1) + 1 = k
      BY <1>1
    <3> QED BY <1>4, <1>11, <3>1, ZenonT(60)
  <2>2. CASE q # h.from
    <3>1. \A k \in 1 .. n : fifo[k].from # q
      BY <1>1, <1>2, <2>1, <2>2
    <3>2. next[q] = taken[q]
      BY <3>1 DEF InOrder
    <3> QED BY <1>3, <1>7, <2>2, <3>2
  <2>3. CASE q = h.from
    <3>1. 1 \in 1 .. n /\ Last(1)
      BY <1>1, <1>2, <2>1, <2>3 DEF Last
    <3>2. next[fifo[1].from] = (fifo[1].num + 1) % Numbers
      BY <3>1 DEF InOrder
    <3> QED BY <1>2, <1>3, <1>8, <2>3, <3>2
  <2> QED BY <2>2, <2>3
<1> QED BY <1>4, <1>6, <1>9, <1>10, <1>11 DEF InOrder

LEMMA OrderStep == TypeOK /\ InOrder /\ [Next]_vars => InOrder'
<1> SUFFICES ASSUME TypeOK, InOrder, [Next]_vars PROVE InOrder'
  OBVIOUS
<1>1. UNCHANGED <<fifo, next, taken>> => InOrder'
  BY DEF InOrder, First, Last, Adjacent
<1>2. ASSUME NEW p \in Producers,
             \/ Call(p) \/ SemTake(p) \/ SemSleep(p) \/ SpuriousWake(p)
             \/ Lock(p) \/ Signal(p) \/ SignalFails(p) \/ Unlock(p)
      PROVE  UNCHANGED <<fifo, next, taken>>
  BY <1>2 DEF Call, SemTake, SemSleep, SpuriousWake, Lock, Signal, SignalFails, Unlock
<1>3. CASE CheckRead \/ PopLock \/ Notify \/ UNCHANGED vars
  BY <1>1, <1>3 DEF CheckRead, PopLock, Notify, vars
<1> QED
  BY <1>1, <1>2, <1>3, OrderEnqueue, OrderDequeue DEF Next, PushStep, PopStep

-----------------------------------------------------------------------------
(* The conjuncts are inductive together. *)
LEMMA InitInv == Init => IInv /\ NoLostWakeup
<1> SUFFICES ASSUME Init PROVE IInv /\ NoLostWakeup
  OBVIOUS
<1> USE ThreadsAssumption, SizesAssumption DEF Init, Threads
<1>1. TypeOK
  BY EmptySeq DEF TypeOK, ProducerStates, ConsumerStates
<1>2. MutexInv
  BY DEF MutexInv
<1>3. At("lock") \cup At("enqueue") = {} /\ At("signal") = {} /\ At("asleep") = {}
  BY DEF At
<1>4. SemaphoreInv
  BY <1>3, EmptySeq, FS_EmptySet DEF SemaphoreInv, Busy
<1>5. PipeInv
  BY <1>3, EmptySeq DEF PipeInv, Busy
<1>6. InOrder
  BY EmptySeq DEF InOrder
<1>7. NoLostWakeup
  BY <1>3 DEF NoLostWakeup
<1> QED BY <1>1, <1>2, <1>4, <1>5, <1>6, <1>7 DEF IInv

(* Every reachable state satisfies the inductive invariant. *)
THEOREM Invariance == Spec => [](IInv /\ NoLostWakeup)
<1>1. IInv /\ NoLostWakeup /\ [Next]_vars => (IInv /\ NoLostWakeup)'
  BY TypeStep, MutexStep, SemaphoreStep, PipeStep, OrderStep, WakeupStep DEF IInv
<1> QED BY InitInv, <1>1, PTL DEF Spec

(* RtFifo's variables keep their types. *)
THEOREM TypeCorrect == Spec => []TypeOK
BY Invariance, PTL DEF IInv

(* RtSemaphore::notify never leaves a permit that a sleeping push needs. *)
THEOREM WakeupsAreNotLost == Spec => []NoLostWakeup
BY Invariance, PTL

(* The accounting of permits and GO words leaves a push room and a pop a   *)
(* message.                                                                *)
LEMMA RoomAndMessage == IInv => ShouldNotHappen
<1> SUFFICES ASSUME IInv PROVE ShouldNotHappen
  OBVIOUS
<1>1. /\ fifo \in Seq(Message) /\ Len(fifo) \in Nat /\ count \in Nat
      /\ pipe \in Nat /\ failed \in Nat
  BY LenProperties DEF IInv, TypeOK
<1>2. ASSUME At("enqueue") # {} PROVE Len(fifo) < MaxSize
  <2> DEFINE Holders == At("lock") \cup At("enqueue")
  <2>1. Holders \in SUBSET Producers /\ Holders # {}
    BY <1>2 DEF At
  <2>2. Cardinality(Holders) \in Nat /\ Cardinality(Holders) # 0
    BY <2>1, ProducerSets
  <2>3. count + Len(fifo) + Cardinality(Holders) + Busy(pc[Consumer] = "notify") = MaxSize
    BY DEF IInv, SemaphoreInv
  <2>4. Busy(pc[Consumer] = "notify") \in {0, 1}
    BY DEF Busy
  <2> QED BY <1>1, <2>2, <2>3, <2>4, SizesAssumption
<1>3. ASSUME pc[Consumer] = "dequeue" PROVE fifo # << >>
  <2>1. Len(fifo) = pipe + failed + Busy(At("signal") # {}) + 1
    BY <1>3 DEF IInv, PipeInv, Busy
  <2>2. Busy(At("signal") # {}) \in {0, 1}
    BY DEF Busy
  <2> QED BY <1>1, <2>1, <2>2, EmptySeq
<1> QED BY <1>2, <1>3 DEF ShouldNotHappen

(* Neither "this should not happend" report of RtFifo is reachable. *)
THEOREM ReportsUnreachable == Spec => []ShouldNotHappen
BY Invariance, RoomAndMessage, PTL

(* Initial states and steps of RtFifo are initial states and steps, or     *)
(* stutters, of the bounded FIFO.                                          *)
LEMMA InitRefines == Init => Abstract!AInit
BY DEF Init, Abstract!AInit

LEMMA StepRefines == IInv /\ [Next]_vars => [Abstract!ANext]_Abstract!avars
<1> SUFFICES ASSUME IInv, [Next]_vars PROVE [Abstract!ANext]_Abstract!avars
  OBVIOUS
<1> USE DEF Abstract!avars
<1>1. TypeOK /\ InOrder /\ ShouldNotHappen
  BY RoomAndMessage DEF IInv
<1>2. ASSUME NEW p \in Producers, Enqueue(p) PROVE Abstract!ANext
  <2>1. Len(fifo) < MaxSize
    BY <1>1, <1>2 DEF Enqueue, Goto, ShouldNotHappen, At
  <2>2. Abstract!Put(p)
    BY <1>2, <2>1 DEF Enqueue, Abstract!Put
  <2> QED BY <2>2 DEF Abstract!ANext
<1>3. ASSUME Dequeue PROVE Abstract!ANext
  <2>1. Head(fifo).num = taken[Head(fifo).from]
    BY <1>1, <1>3, OrderDequeue
  <2>2. Abstract!Take
    BY <1>3, <2>1 DEF Dequeue, Abstract!Take
  <2> QED BY <2>2 DEF Abstract!ANext
<1>4. ASSUME NEW p \in Producers,
             \/ Call(p) \/ SemTake(p) \/ SemSleep(p) \/ SpuriousWake(p)
             \/ Lock(p) \/ Signal(p) \/ SignalFails(p) \/ Unlock(p)
      PROVE  UNCHANGED <<fifo, next, taken>>
  BY <1>4 DEF Call, SemTake, SemSleep, SpuriousWake, Lock, Signal, SignalFails, Unlock
<1>5. CASE CheckRead \/ PopLock \/ Notify \/ UNCHANGED vars
  BY <1>5 DEF CheckRead, PopLock, Notify, vars
<1> QED BY <1>2, <1>3, <1>4, <1>5 DEF Next, PushStep, PopStep

(* RtFifo implements the bounded FIFO. *)
THEOREM Refinement == Spec => ImplementsBoundedFifo
BY Invariance, InitRefines, StepRefines, PTL DEF Spec, ImplementsBoundedFifo, Abstract!ASpec
=============================================================================
