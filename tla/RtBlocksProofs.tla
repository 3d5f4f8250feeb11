--------------------------- MODULE RtBlocksProofs ---------------------------
(***************************************************************************)
(* For any number of blocks, and any fifos and events: when the fifos go   *)
(* around in no circle, the threads of the blocks never wait in a circle;  *)
(* and a thread that returns on a stop signal has processed all it popped. *)
(***************************************************************************)
EXTENDS RtBlocks, SequenceTheorems, WellFoundedInduction, TLAPS

\* The fifos lead nowhere back: each goes to a channel of smaller rank.
Acyclic == \E rank \in [Channels -> Nat] : \A l \in Links : rank[l[2]] < rank[l[1]]

-----------------------------------------------------------------------------
(* The inductive invariant: what a thread still has to do in each phase, and *)
(* that the events it saw raised wait in their queues.                      *)
Pending(c) ==
  /\ phase[c] = "push" => pushes[c] # << >>
  /\ phase[c] \in {"created", "select", "handle", "process"} => pushes[c] = << >>
  /\ phase[c] \in {"created", "select"} => events[c] = {}
  /\ phase[c] # "handle" => raised[c] = {}
  /\ Stop \in raised[c] => events[c] = {}
  /\ phase[c] = "ended" => c \in cancelled \/ (events[c] = {} /\ pushes[c] = << >>)
  /\ \A l \in raised[c] : l # Stop => queue[l] > 0

NotStarted ==
  manager = "start" =>
    \A b \in block .. Blocks : \A c \in Threads[b] : phase[c] = "created"

IInv == TypeOK /\ NotStarted /\ \A c \in Channels : Pending(c)

LEMMA LinkFacts ==
  /\ Stop \notin AllLinks
  /\ \A c \in Channels : /\ Targets(c) \subseteq AllLinks
                         /\ EventsOf(c) \subseteq AllLinks
                         /\ Stop \notin EventsOf(c)
BY LinksAssumption DEF AllLinks, Targets, EventsOf

LEMMA InitInv == Init => IInv
<1> SUFFICES ASSUME Init PROVE IInv
  OBVIOUS
<1>1. TypeOK
  <2>1. queue \in [AllLinks -> Nat]
    BY DEF Init
  <2>2. phase \in [Channels -> Phases]
    BY DEF Init, Phases
  <2>3. \A c \in Channels : pushes[c] \in Seq(Targets(c))
    BY DEF Init
  <2>4. \A c \in Channels : raised[c] = {} /\ events[c] = {}
    BY DEF Init
  <2>5. /\ raised \in [Channels -> SUBSET (AllLinks \cup {Stop})]
        /\ events \in [Channels -> SUBSET AllLinks]
        /\ pushes \in [Channels -> Seq(Links)]
    <3>1. << >> \in Seq(Links)
      BY EmptySeq
    <3>2. pushes \in [Channels -> Seq(Links)]
      BY <3>1 DEF Init
    <3> QED BY <3>2 DEF Init
  <2>6. block \in 1 .. Blocks /\ arrivals \in Nat /\ signal \in BOOLEAN
        /\ manager \in {"start", "wait", "stop", "done"} /\ cancelled \subseteq Channels
    <3>1. Blocks \in Nat \ {0}
      BY BlocksAssumption
    <3>2. signal \in BOOLEAN
      BY DEF Init
    <3> QED BY <3>1, <3>2 DEF Init
  <2> QED BY <2>1, <2>2, <2>3, <2>4, <2>5, <2>6 DEF TypeOK
<1>2. ASSUME NEW c \in Channels PROVE Pending(c)
  <2>1. /\ phase[c] = "created" /\ raised[c] = {} /\ events[c] = {}
        /\ pushes[c] = << >>
    BY DEF Init
  <2> QED BY <2>1 DEF Pending
<1>3. NotStarted
  BY BlocksAssumption DEF Init, NotStarted
<1> QED BY <1>1, <1>2, <1>3 DEF IInv

(* A step of one thread: it changes its own variables, and takes messages  *)
(* from no queue but its own.                                              *)
LEMMA ThreadStep ==
  ASSUME IInv, NEW c \in Channels, phase[c] # "created",
         \E p \in Phases : phase' = [phase EXCEPT ![c] = p],
         \E r \in SUBSET (EventsOf(c) \cup {Stop}) : raised' = [raised EXCEPT ![c] = r],
         \E e \in SUBSET EventsOf(c) : events' = [events EXCEPT ![c] = e],
         \E s \in Seq(Targets(c)) : pushes' = [pushes EXCEPT ![c] = s],
         queue' \in [AllLinks -> Nat],
         \A l \in AllLinks : l[2] # c => queue'[l] >= queue[l],
         arrivals' = arrivals, signal' = signal, manager' = manager,
         block' = block, cancelled' = cancelled,
         Pending(c)'
  PROVE  IInv'
<1>0. /\ phase \in [Channels -> Phases] /\ queue \in [AllLinks -> Nat]
      /\ raised \in [Channels -> SUBSET (AllLinks \cup {Stop})]
      /\ events \in [Channels -> SUBSET AllLinks]
      /\ pushes \in [Channels -> Seq(Links)]
  BY DEF IInv, TypeOK
<1> PICK p \in Phases : phase' = [phase EXCEPT ![c] = p]
  OBVIOUS
<1> PICK r \in SUBSET (EventsOf(c) \cup {Stop}) : raised' = [raised EXCEPT ![c] = r]
  OBVIOUS
<1> PICK e \in SUBSET EventsOf(c) : events' = [events EXCEPT ![c] = e]
  OBVIOUS
<1> PICK s \in Seq(Targets(c)) : pushes' = [pushes EXCEPT ![c] = s]
  OBVIOUS
<1>1. \A d \in Channels :
        /\ phase'[d] = IF d = c THEN p ELSE phase[d]
        /\ raised'[d] = IF d = c THEN r ELSE raised[d]
        /\ events'[d] = IF d = c THEN e ELSE events[d]
        /\ pushes'[d] = IF d = c THEN s ELSE pushes[d]
  BY <1>0
<1>2. TypeOK'
  <2>1. /\ r \subseteq AllLinks \cup {Stop} /\ e \subseteq AllLinks /\ s \in Seq(Links)
    <3>1. Targets(c) \subseteq Links
      BY DEF Targets
    <3>2. s \in Seq(Links)
      BY <3>1
    <3> QED BY <3>2, LinkFacts
  <2>2. /\ phase' \in [Channels -> Phases]
        /\ raised' \in [Channels -> SUBSET (AllLinks \cup {Stop})]
        /\ events' \in [Channels -> SUBSET AllLinks]
        /\ pushes' \in [Channels -> Seq(Links)]
    BY <1>0, <2>1
  <2>3. \A d \in Channels : /\ raised'[d] \subseteq EventsOf(d) \cup {Stop}
                            /\ events'[d] \subseteq EventsOf(d)
                            /\ pushes'[d] \in Seq(Targets(d))
    BY <1>1 DEF IInv, TypeOK
  <2> QED BY <2>2, <2>3 DEF IInv, TypeOK
<1>3. ASSUME NEW d \in Channels PROVE Pending(d)'
  <2>1. CASE d = c
    BY <2>1
  <2>2. CASE d # c
    <3>1. Pending(d)
      BY DEF IInv
    <3>2. ASSUME NEW l \in raised[d], l # Stop PROVE queue'[l] > 0
      <4>1. l \in EventsOf(d)
        BY <3>2 DEF IInv, TypeOK
      <4>2. l \in AllLinks /\ l[2] # c
        BY <2>2, <4>1 DEF EventsOf
      <4>3. queue[l] > 0 /\ queue[l] \in Nat /\ queue'[l] \in Nat
        BY <1>0, <3>1, <3>2, <4>2 DEF Pending
      <4> QED BY <4>2, <4>3
    <3> QED BY <1>1, <2>2, <3>1, <3>2 DEF Pending
  <2> QED BY <2>1, <2>2
<1>4. NotStarted'
  <2> SUFFICES ASSUME manager = "start", NEW b \in block .. Blocks, NEW d \in Threads[b]
               PROVE  phase'[d] = "created"
    BY DEF NotStarted
  <2>1. phase[d] = "created"
    BY DEF IInv, NotStarted
  <2>2. d \in Channels
    BY BlocksAssumption DEF IInv, TypeOK
  <2> QED BY <1>1, <2>1, <2>2
<1> QED BY <1>2, <1>3, <1>4 DEF IInv

LEMMA ThreadInv ==
  ASSUME IInv, NEW c \in Channels, Thread(c)
  PROVE  IInv'
<1>0. /\ phase \in [Channels -> Phases] /\ queue \in [AllLinks -> Nat]
      /\ raised \in [Channels -> SUBSET (AllLinks \cup {Stop})]
      /\ events \in [Channels -> SUBSET AllLinks]
      /\ pushes \in [Channels -> Seq(Links)]
      /\ raised[c] \subseteq EventsOf(c) \cup {Stop}
      /\ events[c] \subseteq EventsOf(c)
      /\ pushes[c] \in Seq(Targets(c))
  BY DEF IInv, TypeOK
<1>1. Pending(c)
  BY DEF IInv
<1>2. /\ phase[c] \in Phases
      /\ phase = [phase EXCEPT ![c] = phase[c]] /\ raised = [raised EXCEPT ![c] = raised[c]]
      /\ events = [events EXCEPT ![c] = events[c]] /\ pushes = [pushes EXCEPT ![c] = pushes[c]]
  BY <1>0
<1>3. CASE Select(c)
  <2>1. /\ phase[c] = "select" /\ raised' = [raised EXCEPT ![c] = Raised(c)]
        /\ phase' = [phase EXCEPT ![c] = "handle"]
        /\ queue' = queue /\ events' = events /\ pushes' = pushes
        /\ arrivals' = arrivals /\ signal' = signal
        /\ manager' = manager /\ block' = block /\ cancelled' = cancelled
    BY <1>3 DEF Select, managerVars
  <2>2. /\ Raised(c) \in SUBSET (EventsOf(c) \cup {Stop})
        /\ \A l \in Raised(c) : l # Stop => queue[l] > 0
    BY DEF Raised
  <2>3. Pending(c)'
    <3>1. events[c] = {} /\ pushes[c] = << >>
      BY <1>1, <2>1 DEF Pending
    <3>2. /\ phase'[c] = "handle" /\ raised'[c] = Raised(c)
      BY <1>0, <2>1
    <3> HIDE DEF Raised
    <3> QED BY <2>1, <2>2, <3>1, <3>2 DEF Pending
  <2>4. \A l \in AllLinks : queue[l] \in Nat /\ queue[l] >= queue[l]
    BY <1>0
  <2>5. "handle" \in Phases
    BY DEF Phases
  <2> QED BY <1>0, <1>2, <2>1, <2>2, <2>3, <2>4, <2>5, ThreadStep
<1>4. CASE HandleStop(c)
  <2>1. /\ phase[c] = "handle" /\ Stop \in raised[c] /\ raised' = [raised EXCEPT ![c] = {}]
        /\ phase' = [phase EXCEPT ![c] = "ended"]
        /\ queue' = queue /\ events' = events /\ pushes' = pushes
        /\ arrivals' = arrivals /\ signal' = signal
        /\ manager' = manager /\ block' = block /\ cancelled' = cancelled
    BY <1>4 DEF HandleStop, managerVars
  <2>2. Pending(c)'
    <3>1. events[c] = {} /\ pushes[c] = << >>
      BY <1>1, <2>1 DEF Pending
    <3>2. phase'[c] = "ended" /\ raised'[c] = {}
      BY <1>0, <2>1
    <3> QED BY <2>1, <3>1, <3>2 DEF Pending
  <2>3. \A l \in AllLinks : queue[l] \in Nat /\ queue[l] >= queue[l]
    BY <1>0
  <2>4. "ended" \in Phases
    BY DEF Phases
  <2> QED BY <1>0, <1>2, <2>1, <2>2, <2>3, <2>4, ThreadStep
<1>5. CASE Handle(c)
  <2>1. PICK l \in raised[c] :
             /\ queue' = [queue EXCEPT ![l] = @ - 1]
             /\ raised' = [raised EXCEPT ![c] = raised[c] \ {l}]
             /\ events' = [events EXCEPT ![c] = events[c] \cup {l}]
    BY <1>5 DEF Handle
  <2>2. /\ phase[c] = "handle" /\ Stop \notin raised[c] /\ pushes' = pushes
        /\ arrivals' = arrivals /\ signal' = signal
        /\ manager' = manager /\ block' = block /\ cancelled' = cancelled
    BY <1>5 DEF Handle, managerVars
  <2> DEFINE r == raised[c] \ {l}
             e == events[c] \cup {l}
             p == IF r = {} THEN "process" ELSE "handle"
  <2>3. raised'[c] = r /\ events'[c] = e
    BY <1>0, <2>1
  <2>4. phase' = [phase EXCEPT ![c] = p]
    BY <1>5, <2>2, <2>3 DEF Handle
  <2>5. l \in EventsOf(c) /\ l \in AllLinks /\ l[2] = c /\ queue[l] > 0
    BY <1>0, <1>1, <2>2 DEF Pending, EventsOf
  <2>6. /\ queue' \in [AllLinks -> Nat]
        /\ \A m \in AllLinks : m # l => queue'[m] = queue[m]
    <3>1. queue[l] - 1 \in Nat
      BY <1>0, <2>5
    <3> QED BY <1>0, <2>1, <2>5, <3>1
  <2>7. \A m \in AllLinks : m[2] # c => queue'[m] >= queue[m]
    <3> SUFFICES ASSUME NEW m \in AllLinks, m[2] # c PROVE queue'[m] >= queue[m]
      OBVIOUS
    <3>1. queue'[m] = queue[m] /\ queue[m] \in Nat
      BY <1>0, <2>5, <2>6
    <3> QED BY <3>1
  <2>8. /\ p \in Phases /\ p \in {"handle", "process"} /\ (p # "handle" => r = {})
        /\ r \in SUBSET (EventsOf(c) \cup {Stop}) /\ Stop \notin r
        /\ e \in SUBSET EventsOf(c)
    BY <1>0, <2>2, <2>5 DEF Phases
  <2>9. Pending(c)'
    <3>1. \A m \in r : m # Stop => queue'[m] > 0
      <4> SUFFICES ASSUME NEW m \in r, m # Stop PROVE queue'[m] > 0
        OBVIOUS
      <4>1. m \in AllLinks /\ m # l /\ queue[m] > 0
        BY <1>0, <1>1 DEF Pending, EventsOf
      <4> QED BY <2>6, <4>1
    <3>2. pushes[c] = << >>
      BY <1>1, <2>2 DEF Pending
    <3>3. phase'[c] = p
      BY <1>0, <2>4
    <3> HIDE DEF r, e, p
    <3> QED BY <2>2, <2>3, <2>8, <3>1, <3>2, <3>3 DEF Pending
  <2> HIDE DEF r, e, p
  <2>10. raised' = [raised EXCEPT ![c] = r] /\ events' = [events EXCEPT ![c] = e]
    BY <2>1 DEF r, e
  <2> QED BY <1>0, <1>2, <2>2, <2>4, <2>6, <2>7, <2>8, <2>9, <2>10, ThreadStep
<1>6. CASE Process(c)
  <2>1. PICK l \in events[c], n \in 0 .. MaxPushes :
             /\ events' = [events EXCEPT ![c] = events[c] \ {l}]
             /\ \E sends \in [1 .. n -> Targets(c)] : pushes' = [pushes EXCEPT ![c] = sends]
             /\ IF n = 0 THEN Resume(c, events[c] \ {l})
                         ELSE phase' = [phase EXCEPT ![c] = "push"]
    BY <1>6 DEF Process
  <2>2. /\ phase[c] = "process" /\ queue' = queue /\ raised' = raised
        /\ arrivals' = arrivals /\ signal' = signal
        /\ manager' = manager /\ block' = block /\ cancelled' = cancelled
    BY <1>6 DEF Process, managerVars
  <2>3. PICK sends \in [1 .. n -> Targets(c)] : pushes' = [pushes EXCEPT ![c] = sends]
    BY <2>1
  <2>4. sends \in Seq(Targets(c)) /\ (n = 0 <=> sends = << >>)
    <3>1. n \in Nat
      BY SizesAssumption
    <3>2. sends \in Seq(Targets(c)) /\ Len(sends) = n
      BY <3>1
    <3> QED BY <3>2, EmptySeq
  <2> DEFINE rest == events[c] \ {l}
  <2>5. PICK p \in {"select", "process", "push"} :
           /\ phase' = [phase EXCEPT ![c] = p]
           /\ p = "push" <=> n # 0
           /\ p = "select" => rest = {}
    <3>1. CASE n = 0 /\ rest = {}
      BY <2>1, <3>1 DEF Resume
    <3>2. CASE n = 0 /\ rest # {}
      BY <2>1, <3>2 DEF Resume
    <3>3. CASE n # 0
      BY <2>1, <3>3
    <3> QED BY <3>1, <3>2, <3>3
  <2>6. rest \in SUBSET EventsOf(c) /\ events' = [events EXCEPT ![c] = rest]
    BY <1>0, <2>1
  <2> HIDE DEF rest
  <2>7. Pending(c)'
    <3>1. raised[c] = {}
      BY <1>1, <2>2 DEF Pending
    <3>2. phase'[c] = p /\ events'[c] = rest /\ pushes'[c] = sends
      BY <1>0, <2>3, <2>5, <2>6
    <3> QED BY <2>2, <2>4, <2>5, <3>1, <3>2 DEF Pending
  <2>8. \A m \in AllLinks : queue[m] \in Nat /\ queue[m] >= queue[m]
    BY <1>0
  <2>9. p \in Phases
    BY <2>5 DEF Phases
  <2> QED BY <1>0, <1>2, <2>2, <2>3, <2>4, <2>5, <2>6, <2>7, <2>8, <2>9, ThreadStep
<1>7. CASE Push(c)
  <2> DEFINE l == Head(pushes[c])
             s == Tail(pushes[c])
  <2>1. /\ phase[c] = "push"
        /\ queue' = [queue EXCEPT ![l] = @ + 1]
        /\ pushes' = [pushes EXCEPT ![c] = s]
        /\ IF Len(pushes[c]) = 1 THEN Resume(c, events[c]) ELSE phase' = phase
        /\ raised' = raised /\ events' = events
        /\ arrivals' = arrivals /\ signal' = signal
        /\ manager' = manager /\ block' = block /\ cancelled' = cancelled
    BY <1>7 DEF Push, managerVars
  <2>2. pushes[c] # << >> /\ raised[c] = {}
    BY <1>1, <2>1 DEF Pending
  <2>3. l \in Targets(c) /\ s \in Seq(Targets(c)) /\ (Len(pushes[c]) = 1 <=> s = << >>)
    <3>1. l \in Targets(c) /\ s \in Seq(Targets(c)) /\ Len(s) = Len(pushes[c]) - 1
          /\ Len(pushes[c]) \in Nat
      BY <1>0, <2>2, HeadTailProperties
    <3> HIDE DEF s
    <3>2. s # << >> => Len(s) \in Nat \ {0}
      BY <3>1, EmptySeq
    <3>3. s = << >> => Len(s) = 0
      OBVIOUS
    <3> QED BY <3>1, <3>2, <3>3
  <2> HIDE DEF l, s
  <2>4. l \in AllLinks /\ queue' \in [AllLinks -> Nat]
        /\ \A m \in AllLinks : queue'[m] >= queue[m]
    <3>1. l \in AllLinks /\ queue[l] + 1 \in Nat
      BY <1>0, <2>3, LinkFacts
    <3> QED BY <1>0, <2>1, <3>1
  <2>5. PICK p \in {"select", "process", "push"} :
           /\ phase' = [phase EXCEPT ![c] = p]
           /\ p = "push" <=> s # << >>
           /\ p = "select" => events[c] = {}
    <3>1. CASE s = << >> /\ events[c] = {}
      BY <2>1, <2>3, <3>1 DEF Resume
    <3>2. CASE s = << >> /\ events[c] # {}
      BY <2>1, <2>3, <3>2 DEF Resume
    <3>3. CASE s # << >>
      BY <1>2, <2>1, <2>3, <3>3
    <3> QED BY <3>1, <3>2, <3>3
  <2>6. Pending(c)'
    <3>1. phase'[c] = p /\ pushes'[c] = s
      BY <1>0, <2>1, <2>5
    <3> QED BY <2>1, <2>2, <2>5, <3>1 DEF Pending
  <2>7. p \in Phases
    BY <2>5 DEF Phases
  <2> QED BY <1>0, <1>2, <2>1, <2>3, <2>4, <2>5, <2>6, <2>7, ThreadStep
<1>8. CASE Cancel(c)
  <2>1. /\ c \in cancelled /\ phase[c] # "created" /\ raised' = [raised EXCEPT ![c] = {}]
        /\ phase' = [phase EXCEPT ![c] = "ended"]
        /\ queue' = queue /\ events' = events /\ pushes' = pushes
        /\ arrivals' = arrivals /\ signal' = signal
        /\ manager' = manager /\ block' = block /\ cancelled' = cancelled
    BY <1>8 DEF Cancel, managerVars
  <2>2. Pending(c)'
    <3>1. phase'[c] = "ended" /\ raised'[c] = {}
      BY <1>0, <2>1
    <3> QED BY <2>1, <3>1 DEF Pending
  <2>3. \A l \in AllLinks : queue[l] \in Nat /\ queue[l] >= queue[l]
    BY <1>0
  <2>4. "ended" \in Phases
    BY DEF Phases
  <2> QED BY <1>0, <1>2, <2>1, <2>2, <2>3, <2>4, ThreadStep
<1> QED BY <1>3, <1>4, <1>5, <1>6, <1>7, <1>8 DEF Thread

(* The steps of the manager start threads that have done nothing, and cancel *)
(* others.                                                                   *)
LEMMA ManagerInv ==
  ASSUME IInv, Manager
  PROVE  IInv'
<1>0. /\ queue' = queue /\ raised' = raised /\ events' = events
      /\ pushes' = pushes /\ arrivals' = arrivals
  BY DEF Manager, StartBlock, ReadSignal, JoinBlock, threadVars
<1>1. /\ block \in 1 .. Blocks /\ Blocks \in Nat \ {0}
      /\ \A b \in 1 .. Blocks : Threads[b] \subseteq Channels
      /\ cancelled \subseteq Channels /\ phase \in [Channels -> Phases]
  BY BlocksAssumption DEF IInv, TypeOK
<1>2. CASE StartBlock
  <2>1. /\ phase' = [c \in Channels |-> IF c \in Threads[block] THEN "select" ELSE phase[c]]
        /\ signal' = signal /\ cancelled' = cancelled
        /\ manager' \in {"start", "wait", "stop", "done"} /\ block' \in 1 .. Blocks
    BY <1>1, <1>2 DEF StartBlock, IInv, TypeOK
  <2>2. phase' \in [Channels -> Phases]
    BY <1>1, <2>1 DEF Phases
  <2>3. ASSUME NEW c \in Channels PROVE Pending(c)'
    <3>1. Pending(c)
      BY DEF IInv
    <3>2. CASE c \in Threads[block]
      <4>1. phase[c] = "created" /\ phase'[c] = "select"
        BY <1>1, <1>2, <2>1, <3>2 DEF StartBlock, IInv, NotStarted
      <4> QED BY <1>0, <2>1, <3>1, <4>1 DEF Pending
    <3>3. CASE c \notin Threads[block]
      <4>1. phase'[c] = phase[c]
        BY <2>1, <3>3
      <4> QED BY <1>0, <2>1, <3>1, <4>1 DEF Pending
    <3> QED BY <3>2, <3>3
  <2>4. NotStarted'
    <3> SUFFICES ASSUME manager' = "start", NEW b \in block' .. Blocks, NEW c \in Threads[b]
                 PROVE  phase'[c] = "created"
      BY DEF NotStarted
    <3>1. block' = block + 1 /\ manager = "start"
      BY <1>1, <1>2 DEF StartBlock
    <3>2. b \in block .. Blocks /\ b \in 1 .. Blocks /\ b # block
      BY <1>1, <3>1
    <3>3. c \notin Threads[block] /\ c \in Channels /\ phase[c] = "created"
      BY <1>1, <3>1, <3>2, BlocksAssumption DEF IInv, NotStarted
    <3> QED BY <2>1, <3>3
  <2> QED BY <1>0, <2>1, <2>2, <2>3, <2>4 DEF IInv, TypeOK
<1>3. CASE ReadSignal \/ JoinBlock
  <2>1. /\ phase' = phase /\ manager' \in {"stop", "done"}
        /\ block' \in 1 .. Blocks /\ signal' \in BOOLEAN
        /\ cancelled \subseteq cancelled' /\ cancelled' \subseteq Channels
    <3>1. CASE ReadSignal
      <4>1. signal' \in BOOLEAN
        BY <3>1 DEF ReadSignal
      <4>2. 1 \in 1 .. Blocks /\ Threads[1] \subseteq Channels
        BY <1>1
      <4>3. /\ phase' = phase /\ manager' = "stop" /\ block' = 1
            /\ cancelled' = cancelled \cup Threads[1]
        BY <3>1 DEF ReadSignal, CancelBlock, threadVars
      <4> QED BY <1>1, <4>1, <4>2, <4>3
    <3>2. CASE JoinBlock
      <4>1. phase' = phase /\ signal' = signal
        BY <3>2 DEF JoinBlock, threadVars
      <4>2. CASE block < Blocks
        <5>1. /\ block' = block + 1 /\ cancelled' = cancelled \cup Threads[block + 1]
              /\ manager' = "stop"
          BY <3>2, <4>2 DEF JoinBlock, CancelBlock
        <5>2. block + 1 \in 1 .. Blocks
          BY <1>1, <4>2
        <5> QED BY <1>1, <4>1, <5>1, <5>2 DEF IInv, TypeOK
      <4>3. CASE ~(block < Blocks)
        BY <1>1, <3>2, <4>1, <4>3 DEF JoinBlock, IInv, TypeOK
      <4> QED BY <4>2, <4>3
    <3> QED BY <1>3, <3>1, <3>2
  <2>2. \A c \in Channels : Pending(c)'
    BY <1>0, <2>1 DEF IInv, Pending
  <2> QED BY <1>0, <2>1, <2>2 DEF IInv, TypeOK, NotStarted
<1> QED BY <1>2, <1>3 DEF Manager

LEMMA StepInv == IInv /\ [Next]_vars => IInv'
<1> SUFFICES ASSUME IInv, [Next]_vars PROVE IInv'
  OBVIOUS
<1>1. ASSUME NEW l \in Inputs, Arrive(l) PROVE IInv'
  <2>1. /\ arrivals' = arrivals + 1 /\ queue' = [queue EXCEPT ![l] = @ + 1]
        /\ UNCHANGED <<phase, raised, events, pushes, signal>> /\ UNCHANGED managerVars
    BY <1>1 DEF Arrive
  <2>2. l \in AllLinks /\ queue \in [AllLinks -> Nat]
    BY DEF AllLinks, IInv, TypeOK
  <2>3. queue' \in [AllLinks -> Nat] /\ \A m \in AllLinks : queue'[m] >= queue[m]
    BY <2>1, <2>2
  <2>4. TypeOK'
    BY <2>1, <2>3 DEF IInv, TypeOK, managerVars
  <2>5. ASSUME NEW c \in Channels PROVE Pending(c)'
    <3>1. Pending(c)
      BY DEF IInv
    <3>2. \A m \in raised[c] : m # Stop => queue'[m] > 0
      <4> SUFFICES ASSUME NEW m \in raised[c], m # Stop PROVE queue'[m] > 0
        OBVIOUS
      <4>1. m \in AllLinks
        BY DEF IInv, TypeOK
      <4>2. queue[m] > 0 /\ queue[m] \in Nat /\ queue'[m] \in Nat /\ queue'[m] >= queue[m]
        BY <2>2, <2>3, <3>1, <4>1 DEF Pending
      <4> QED BY <4>2
    <3> QED BY <2>1, <3>1, <3>2 DEF Pending, managerVars
  <2> QED BY <2>1, <2>4, <2>5 DEF IInv, NotStarted, managerVars
<1>2. CASE SendSignal \/ UNCHANGED vars
  <2>1. UNCHANGED <<threadVars, managerVars, arrivals>> /\ signal' \in BOOLEAN
    BY <1>2 DEF SendSignal, vars, threadVars, managerVars, IInv, TypeOK
  <2> QED BY <2>1 DEF threadVars, managerVars, IInv, TypeOK, NotStarted, Pending
<1>3. CASE Manager
  BY <1>3, ManagerInv
<1>4. ASSUME NEW c \in Channels, Thread(c) PROVE IInv'
  BY <1>4, ThreadInv
<1> QED BY <1>1, <1>2, <1>3, <1>4 DEF Next

-----------------------------------------------------------------------------
(* The inductive invariant holds in every reachable state. *)
THEOREM Invariance == Spec => []IInv
BY InitInv, StepInv, PTL DEF Spec

(* The variables keep their types: in particular a message event is handled *)
(* by RtChannelBase::executeThread only when its fifo holds a message.      *)
THEOREM TypeCorrect == Spec => []TypeOK
<1>1. IInv => TypeOK
  BY DEF IInv
<1> QED BY <1>1, Invariance, PTL

(* executeThread: a thread that returns because of a stop signal left no    *)
(* popped message behind, whatever the blocks and their fifos.              *)
THEOREM NothingPoppedIsLost == Spec => []PoppedIsProcessed
<1>1. IInv => PoppedIsProcessed
  BY DEF IInv, Pending, PoppedIsProcessed
<1> QED BY <1>1, Invariance, PTL

(* RtFifo::push: when the fifos lead nowhere back, as in the stacks whose   *)
(* upward channels share with the downward ones and never the other way     *)
(* round, there is no group of threads that wait for one another.           *)
THEOREM NoDeadlyEmbrace ==
  ASSUME Acyclic
  PROVE  Spec => []NoCyclicWait
<1>1. ASSUME IInv PROVE NoCyclicWait
  <2> SUFFICES ASSUME NEW group \in SUBSET Channels, group # {},
                      \A c \in group : \E d \in group : Waits(c, d)
               PROVE  FALSE
    BY DEF NoCyclicWait
  <2>1. PICK rank \in [Channels -> Nat] : \A l \in Links : rank[l[2]] < rank[l[1]]
    BY DEF Acyclic
  <2> DEFINE Less == {ss \in Nat \X Nat : ss[1] < ss[2]}
             ranks == {rank[c] : c \in group}
  <2>2. IsWellFoundedOn(Less, Nat)
    BY NatLessThanWellFounded DEF OpToRel
  <2>3. ranks \in SUBSET Nat /\ ranks # {}
    OBVIOUS
  <2>4. PICK x \in ranks : \A y \in ranks : <<y, x>> \notin Less
    <3> HIDE DEF Less, ranks
    <3> QED BY <2>2, <2>3, WFMin
  <2>5. PICK c \in group : rank[c] = x
    OBVIOUS
  <2>6. PICK d \in group : Waits(c, d)
    OBVIOUS
  <2>7. /\ Head(pushes[c]) \in Links
        /\ Head(pushes[c])[1] = c /\ Head(pushes[c])[2] = d
    <3>1. pushes[c] \in Seq(Targets(c)) /\ pushes[c] # << >>
      BY <1>1, <2>6 DEF Waits, IInv, TypeOK, Pending
    <3>2. Head(pushes[c]) \in Targets(c)
      BY <3>1, HeadTailProperties
    <3> QED BY <2>6, <3>2 DEF Targets, Waits
  <2>8. rank[d] < x /\ rank[d] \in ranks /\ rank[d] \in Nat /\ x \in Nat
    BY <2>1, <2>5, <2>7
  <2> QED BY <2>4, <2>8
<1>2. IInv => NoCyclicWait
  BY <1>1
<1> QED BY <1>2, Invariance, PTL
=============================================================================
