---------------------------- MODULE NccInterface ----------------------------
(***************************************************************************)
(* The Downward channel of an NCC towards its PEP and SVNO (BlockDvbNcc,   *)
(* NccPepInterface, NccSvnoInterface): the TCP clients, the list of events *)
(* of the channel (RtChannelBase), the requests of PEP that wait for a     *)
(* timer, and the commands of SVNO, applied to the carriers (module Band). *)
(*                                                                         *)
(* A turn of the channel: UpdateEvents, Select, then the events it returns *)
(* one by one.  A client is a connection, and sends lines, one command     *)
(* each; a read takes all that has come.  One that leaves is one that      *)
(* sends no more: the read of an end of file is an error of handle(), and  *)
(* the event of the socket stays.  Lines are short of the 63 characters    *)
(* that are parsed of each and of the 200 bytes of a read.                 *)
(***************************************************************************)
EXTENDS Band

CONSTANTS Clients, Kind,    \* [Clients -> {"pep", "svno"}]
          Lines,            \* what each may send: [from, type] of a PEP, [from, type, cat, kbps]
                            \* of an SVNO, or another from: the parser of neither takes it
          Fds,              \* file descriptors of clients
          PepDelay,         \* pep_alloc_delay, in ms: the delay of pep_cmd_apply_timer
          None,
          MaxLines          \* bound: lines of each client

Kinds == {"pep", "svno"}

ASSUME NccAssumption ==
  /\ Kind \in [Clients -> Kinds]
  /\ IsFiniteSet(Clients) /\ IsFiniteSet(Fds)
  /\ Fds \subseteq Nat /\ Cardinality(Fds) >= Cardinality(Clients) /\ None \notin Fds
  /\ PepDelay \in Nat
  /\ DOMAIN Lines = Clients
  /\ \A c \in Clients : \A line \in Lines[c] : line.from = "svno" => line.kbps \in Nat
  /\ MaxLines \in [Clients -> Nat]

VARIABLES
  \* the clients
  conn,        \* "away", "waiting" for accept, "open", "closed" by the NCC
  fd,          \* the socket of an open client
  unread, sent, \* lines it sent: not yet read, and how many
  \* RtChannelBase
  events,      \* fds of the client sockets in the list of events
  new_events, removed_events,
  batch,       \* priority_sorted_events still to process: timer, read or listen
  timer,       \* pep_cmd_apply_timer: "off", "delay" or "due"
  \* NccInterface
  socket,      \* socket_client of each interface
  is_connected,
  pep_requests,
  svno_requests,
  applying,    \* in the loop that applies svno_requests
  last,        \* the last command of SVNO and what it returned
  band,
  undefined    \* an iterator was read that has no value: nothing is said of what follows

clientVars == <<conn, fd, unread, sent>>
eventVars == <<events, new_events, removed_events, batch>>
pepVars == <<timer, pep_requests>>
svnoVars == <<svno_requests, applying, last, band, undefined>>
ifVars == <<socket, is_connected>>
vars == <<clientVars, eventVars, pepVars, svnoVars, ifVars>>

Init == /\ conn = [c \in Clients |-> "away"]
        /\ fd = [c \in Clients |-> None]
        /\ unread = [c \in Clients |-> << >>]
        /\ sent = [c \in Clients |-> 0]
        /\ events = {} /\ new_events = {} /\ removed_events = {}
        /\ batch = << >>
        /\ timer = "off"
        /\ socket = [k \in Kinds |-> None]
        /\ is_connected = [k \in Kinds |-> FALSE]
        /\ pep_requests = << >>
        /\ svno_requests = << >>
        /\ applying = FALSE
        /\ last = [cmd |-> None, done |-> TRUE]
        /\ band = InitBand
        /\ undefined = FALSE

-----------------------------------------------------------------------------
(* The clients and time                                                    *)

Connect(c) == /\ conn[c] = "away"
              /\ conn' = [conn EXCEPT ![c] = "waiting"]
              /\ UNCHANGED <<fd, unread, sent, eventVars, pepVars, svnoVars, ifVars>>

\* What is sent before accept is read no sooner.
Send(c, line) == /\ conn[c] = "open"
                 /\ sent[c] < MaxLines[c]
                 /\ sent' = [sent EXCEPT ![c] = @ + 1]
                 /\ unread' = [unread EXCEPT ![c] = Append(@, line)]
                 /\ UNCHANGED <<conn, fd, eventVars, pepVars, svnoVars, ifVars>>

Expire == /\ timer = "delay"
          /\ timer' = "due"
          /\ UNCHANGED <<clientVars, eventVars, pep_requests, svnoVars, ifVars>>

-----------------------------------------------------------------------------
(* A turn of the channel                                                   *)

\* A removed event closes its socket.
\* A slip: the socket stays open.
LeftOpen(c) == conn[c]
ClosedWith(c) == IF conn[c] = "open" /\ fd[c] \in removed_events THEN "closed" ELSE conn[c]

UpdateEvents ==
  /\ batch = << >> /\ ~applying
  /\ new_events \cup removed_events # {}
  /\ events' = (events \cup new_events) \ removed_events
  /\ new_events' = {} /\ removed_events' = {}
  /\ conn' = [c \in Clients |-> ClosedWith(c)]
  /\ fd' = [c \in Clients |-> IF fd[c] \in removed_events THEN None ELSE fd[c]]
  /\ unread' = [c \in Clients |-> IF fd[c] \in removed_events THEN << >> ELSE unread[c]]
  /\ UNCHANGED <<sent, batch, pepVars, svnoVars, ifVars>>

Readable == {c \in Clients : conn[c] = "open" /\ fd[c] \in events /\ unread[c] # << >>}
FreeFds == Fds \ {fd[c] : c \in Clients}

\* accept takes one client of each listen socket.
Accepted == {w \in SUBSET {c \in Clients : conn[c] = "waiting"} :
               \A k \in Kinds : (\E c \in Clients : conn[c] = "waiting" /\ Kind[c] = k)
                                <=> \E c \in w : Kind[c] = k /\ \A d \in w \ {c} : Kind[d] # k}

\* The listen socket of the PEP comes first.
First(c, w) == Kind[c] = "pep" \/ Cardinality(w) = 1
FdFor(c, w) == Nth(FreeFds, IF First(c, w) THEN 1 ELSE 2)

ListenEvents(w) == {[type |-> "listen", kind |-> Kind[c], fd |-> FdFor(c, w)] : c \in w}
ReadEvents == {[type |-> "read", fd |-> fd[c], lines |-> unread[c]] : c \in Readable}
TimerEvents == IF timer = "due" THEN {[type |-> "timer"]} ELSE {}

\* The sequences of all the elements of S, each once.
Orders(S) == {s \in [1 .. Cardinality(S) -> S] : Range(s) = S}

\* handle() of each event: the timer stops, clients are accepted, sockets read.
\* Timers come before sockets and these before listen sockets, but a step of priority
\* weighs no more than 100 s: an event that was idle for longer comes first.
Select ==
  /\ batch = << >> /\ ~applying
  /\ new_events \cup removed_events = {}
  /\ \E w \in Accepted :
       /\ batch' \in Orders(TimerEvents \cup ReadEvents \cup ListenEvents(w))
       /\ batch' # << >>
       /\ conn' = [c \in Clients |-> IF c \in w THEN "open" ELSE conn[c]]
       /\ fd' = [c \in Clients |-> IF c \in w THEN FdFor(c, w) ELSE fd[c]]
  /\ unread' = [c \in Clients |-> IF c \in Readable THEN << >> ELSE unread[c]]
  /\ timer' = IF timer = "due" THEN "off" ELSE timer
  /\ UNCHANGED <<sent, events, new_events, removed_events, pep_requests, svnoVars, ifVars>>

\* onEvent for the first event of the batch
Event(type) == batch # << >> /\ ~applying /\ Head(batch).type = type
Done == batch' = Tail(batch)

\* All that waits is applied (applyPepCommand, module Dama).
\* A slip: one request for each time the timer ends.
LeftButOne(requests) == Tail(requests)
Left(requests) == << >>
OnTimer == /\ Event("timer")
           /\ Done
           /\ pep_requests' = Left(pep_requests)
           /\ UNCHANGED <<clientVars, events, new_events, removed_events, timer, svnoVars, ifVars>>

\* A slip: one event for all the clients of an interface.
WithFirst(kind, f) == IF is_connected[kind] THEN new_events ELSE new_events \cup {f}
WithEvent(kind, f) == new_events \cup {f}

OnListen == /\ Event("listen")
            /\ Done
            /\ socket' = [socket EXCEPT ![Head(batch).kind] = Head(batch).fd]
            /\ is_connected' = [is_connected EXCEPT ![Head(batch).kind] = TRUE]
            /\ new_events' = WithEvent(Head(batch).kind, Head(batch).fd)
            /\ UNCHANGED <<clientVars, events, removed_events, pepVars, svnoVars>>

\* The event is that of the PEP if it has the descriptor of its last client, open
\* or not; else that of the SVNO; else nobody looks at it.
Reads(kind) == /\ Event("read")
               /\ Head(batch).fd = socket[kind]
               /\ kind = "svno" => Head(batch).fd # socket["pep"]
OnIgnored == /\ Event("read")
             /\ Head(batch).fd \notin {socket[k] : k \in Kinds}
             /\ Done
             /\ UNCHANGED <<clientVars, events, new_events, removed_events, pepVars, svnoVars, ifVars>>

\* The lines of s that are in S, in the order of s.
Those(s, S) ==
  LET those[i \in 0 .. Len(s)] ==
        IF i = 0 THEN << >>
        ELSE IF s[i] \in S THEN Append(those[i - 1], s[i]) ELSE those[i - 1]
  IN those[Len(s)]

\* parsePepMessage and parseSvnoMessage: the commands of the type of the first.
Parsed(kind, lines) ==
  LET commands == Those(lines, {x \in Range(lines) : x.from = kind})
  IN Those(commands, {x \in Range(commands) : x.type = commands[1].type})

RemoveClient == removed_events' = removed_events \cup {Head(batch).fd}

OnPepError ==
  /\ Reads("pep")
  /\ ~is_connected["pep"] \/ Parsed("pep", Head(batch).lines) = << >>
  /\ Done
  /\ RemoveClient
  /\ is_connected' = [is_connected EXCEPT !["pep"] = FALSE]
  /\ UNCHANGED <<clientVars, events, new_events, pepVars, svnoVars, socket>>

\* The type of the request that waits longest decides: to start the timer, again
\* if it runs, or to raise it.  A delay of 0 stops it.
\* A slip: the timer of an allocation is not started again.
Unless(type) == IF type = "release" THEN "due" ELSE timer
Started(type) == CASE type = "release" -> "due"
                   [] type # "release" /\ PepDelay > 0 -> "delay"
                   [] type # "release" /\ PepDelay = 0 -> "off"

OnPepMessage ==
  /\ Reads("pep")
  /\ is_connected["pep"] /\ Parsed("pep", Head(batch).lines) # << >>
  /\ Done
  /\ pep_requests' = pep_requests \o Parsed("pep", Head(batch).lines)
  /\ timer' = Started(pep_requests'[1].type)
  /\ RemoveClient
  /\ UNCHANGED <<clientVars, events, new_events, svnoVars, ifVars>>

OnSvnoError ==
  /\ Reads("svno")
  /\ ~is_connected["svno"] \/ Parsed("svno", Head(batch).lines) = << >>
  /\ Done
  /\ RemoveClient
  /\ UNCHANGED <<clientVars, events, new_events, pepVars, svnoVars, ifVars>>

OnSvnoMessage ==
  /\ Reads("svno")
  /\ is_connected["svno"] /\ Parsed("svno", Head(batch).lines) # << >>
  /\ Done
  /\ svno_requests' = svno_requests \o Parsed("svno", Head(batch).lines)
  /\ applying' = TRUE
  /\ UNCHANGED <<clientVars, events, new_events, removed_events, pepVars, last, band, undefined, ifVars>>

\* One turn of the loop, which a command that fails leaves.
\* A slip: it is not a loop.
OnlyOne(done, rest) == FALSE
GoesOn(done, rest) == done /\ rest # << >>

OnSvnoCommand ==
  /\ applying
  /\ \E r \in ApplySvnoCommand(band, Head(svno_requests)) :
       /\ band' = r.band
       /\ undefined' = r.undefined
       /\ last' = [cmd |-> Head(svno_requests), done |-> r.done]
       /\ applying' = GoesOn(r.done, Tail(svno_requests))
  /\ svno_requests' = Tail(svno_requests)
  /\ UNCHANGED <<clientVars, eventVars, pepVars, ifVars>>

OnEvent == OnTimer \/ OnListen \/ OnIgnored \/ OnPepError \/ OnPepMessage
             \/ OnSvnoError \/ OnSvnoMessage \/ OnSvnoCommand

\* The thread of the channel
Channel == UpdateEvents \/ OnEvent \/ Select

Next == /\ ~undefined
        /\ \/ \E c \in Clients : Connect(c) \/ \E line \in Lines[c] : Send(c, line)
           \/ Expire \/ Channel

\* The thread runs and time passes; clients do as they like.
Fairness == WF_vars(Expire) /\ WF_vars(Channel)

Spec == Init /\ [][Next]_vars /\ Fairness

-----------------------------------------------------------------------------
(* Properties                                                              *)

TypeOK ==
  /\ conn \in [Clients -> {"away", "waiting", "open", "closed"}]
  /\ \A c \in Clients : fd[c] \in (IF conn[c] = "open" THEN Fds ELSE {None})
  /\ \A c \in Clients : sent[c] \in 0 .. MaxLines[c]
  /\ events \subseteq Fds /\ new_events \subseteq Fds /\ removed_events \subseteq events
  /\ timer \in {"off", "delay", "due"}
  /\ socket \in [Kinds -> Fds \cup {None}]
  /\ is_connected \in [Kinds -> BOOLEAN]
  /\ \A c \in Categories : /\ \A i \in DOMAIN band[c].groups : band[c].groups[i].number \in Nat
                           /\ \A r \in DOMAIN band[c].list : band[c].list[r] \in Nat

Open == {c \in Clients : conn[c] = "open"}
ToListen == {e.fd : e \in {x \in Range(batch) : x.type = "listen"}}

\* The descriptors are used again at once: the list of events, what is about to
\* be added to it included, holds those of the open clients, each of one client.
EventsAreOpen ==
  /\ events \cup new_events \cup ToListen = {fd[c] : c \in Open}
  /\ \A c, d \in Open : fd[c] = fd[d] => c = d

\* startTimer and raiseTimer overtake each other and the timer that ends: requests
\* of a PEP never wait without a timer that will apply them, unless the delay is 0.
PendingIsTimed ==
  PepDelay > 0 /\ pep_requests # << >> =>
    timer # "off" \/ \E e \in Range(batch) : e.type = "timer"

\* They are applied, all, in the end: if the PEP stops sending, which a new
\* allocation otherwise puts off, and the delay is not 0.
PepRequestsAreApplied ==
  (PepDelay > 0 /\ pep_requests # << >>) ~> (pep_requests = << >> \/ undefined)

\* Whatever an open client sends is read: of the last of an interface, and of those
\* that another client replaced; again and again nothing is left to read.  What
\* comes after the message for which the NCC closes a client is dropped with it.
LinesAreRead ==
  []<>(undefined \/ \A c \in Clients : conn[c] = "open" => unread[c] = << >>)

\* Commands of the SVNO wait for its next message only behind one that failed.
CommandsWaitBehindFailure == svno_requests # << >> => applying \/ ~last.done

SpotRate(b) == SumFunction([c \in Categories |-> TotalSymbolRate(b[c])])

\* Carriers are moved between categories, and none appears.  Some disappear when
\* a command fails: the list they were counted on is not that of the groups.
BandIsConserved ==
  [][ \/ band' = band \/ SpotRate(band') = SpotRate(band)
      \/ SpotRate(band') < SpotRate(band) /\ ~last'.done ]_vars

\* A category whose command succeeds has what was asked for, and less than one
\* carrier more, whatever the sizes of the carriers were.  The SNO, which gets
\* carriers from itself, is left as it was whatever it asks.
GrantedRateIsThere ==
  [][ applying /\ svno_requests' # svno_requests /\ last'.done /\ last'.cmd.cat # Sno =>
        LET asked == KbitsToSym(last'.cmd.cat, last'.cmd.kbps)
            rate == TotalSymbolRate(band'[last'.cmd.cat])
        IN asked <= rate /\ rate < asked + Max(Rates) ]_vars
=============================================================================
