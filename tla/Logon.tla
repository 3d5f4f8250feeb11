------------------------------- MODULE Logon -------------------------------
(***************************************************************************)
(* The session between the terminals and the NCC (BlockDvbTal, BlockDvbNcc *)
(* and its spot): logon request, its timer, logon response, superframe     *)
(* numbers, and what each side does when the other one restarts.           *)
(*                                                                         *)
(* Each block is two threads, Upward and Downward, joined by a fifo.  SOF  *)
(* and logon responses come on one carrier, in order; requests go up on    *)
(* another.  A response reaches every terminal and the others delete it at *)
(* once (onRcvLogonResp): here only its own gets it.  Capacity requests    *)
(* and data are in module Dama.                                            *)
(***************************************************************************)
EXTENDS Integers, Sequences, FiniteSets, SequencesExt

CONSTANTS Terminals,    \* their MAC ids, none of which is that of a gateway
          Nobody,       \* no request in hand
          SfnMod,       \* 65536: time_sf_t is 16 bits wide
          MaxShared,    \* size of the fifo between Upward and Downward
          MaxReboots,   \* bound: restarts of the NCC
          MaxTalReboots,\* bound: restarts of each terminal
          MaxLost,      \* bound: messages the network loses
          MaxDelay,     \* bound: SOF under way to a terminal
          MaxInFlight   \* bound: logon exchanges of a terminal under way

ASSUME LogonAssumption ==
  /\ Nobody \notin Terminals
  /\ SfnMod \in Nat \ {0, 1}
  /\ MaxShared \in Nat \ {0}
  /\ {MaxReboots, MaxTalReboots, MaxLost, MaxDelay, MaxInFlight} \subseteq Nat

VARIABLES
  \* a terminal
  up_state,     \* BlockDvbTal::Upward::state
  adding,       \* Upward is between the two halves of StFmtSimuList::addTerminal
  input_sts,    \* the terminal is in its own input_sts
  shared,       \* fifo from Upward to Downward
  down_state,   \* BlockDvbTal::Downward::state
  sfn,          \* BlockDvbTal::Downward::super_frame_counter
  timer,        \* logon_timer is running
  answered,     \* start of the NCC that sent the last response handled, -1 if none
  alarms,       \* how many times Downward found that the NCC rebooted
  tal_reboots,
  \* the network
  requests,     \* logon requests under way from t
  downlink,     \* SOF and logon responses under way to t
  lost, lost_sof,
  \* the NCC
  reboots,      \* restarts of the NCC: which of its lives this is
  ncc_sfn,      \* BlockDvbNcc::Downward::super_frame_counter
  ncc_req,      \* the logon request Upward is handling
  sts,          \* terminals in input_sts and output_sts
  ncc_shared,   \* fifo from Upward to Downward
  dama_sts      \* DamaCtrl::terminals

talVars == <<up_state, adding, input_sts, shared, down_state, sfn, timer, answered,
             alarms, tal_reboots>>
netVars == <<requests, downlink, lost, lost_sof>>
nccVars == <<reboots, ncc_sfn, ncc_req, sts, ncc_shared, dama_sts>>
vars == <<talVars, netVars, nccVars>>

Sof(n) == [type |-> "Sof", sfn |-> n]
LogonResp == [type |-> "SessionLogonResp", life |-> reboots]
Messages == [type : {"Sof"}, sfn : 0 .. SfnMod - 1]
            \cup [type : {"SessionLogonResp"}, life : 0 .. MaxReboots]

\* onInit of the terminals has sent a first request.
Init == /\ up_state = [t \in Terminals |-> "initializing"]
        /\ adding = [t \in Terminals |-> FALSE]
        /\ input_sts = [t \in Terminals |-> FALSE]
        /\ shared = [t \in Terminals |-> << >>]
        /\ down_state = [t \in Terminals |-> "wait_logon_resp"]
        /\ sfn = [t \in Terminals |-> 0]
        /\ timer = [t \in Terminals |-> TRUE]
        /\ answered = [t \in Terminals |-> -1]
        /\ alarms = [t \in Terminals |-> 0]
        /\ tal_reboots = [t \in Terminals |-> 0]
        /\ requests = [t \in Terminals |-> 1]
        /\ downlink = [t \in Terminals |-> << >>]
        /\ lost = 0
        /\ lost_sof = [t \in Terminals |-> 0]
        /\ reboots = 0
        /\ ncc_sfn = 0
        /\ ncc_req = Nobody
        /\ sts = {}
        /\ ncc_shared = << >>
        /\ dama_sts = {}

-----------------------------------------------------------------------------
(* BlockDvbNcc                                                             *)

\* frame_timer: the SOF goes to every terminal of the spot.
\* A slip: a counter wider than the number of the SOF.
NoWrap(n) == n + 1
NextSfn(n) == (n + 1) % SfnMod

Responses(t) == Cardinality({i \in DOMAIN downlink[t] : downlink[t][i].type = "SessionLogonResp"})

FrameTimer ==
  /\ \A t \in Terminals : Len(downlink[t]) - Responses(t) < MaxDelay
  /\ ncc_sfn' = NextSfn(ncc_sfn)
  /\ downlink' = [t \in Terminals |-> Append(downlink[t], Sof(ncc_sfn'))]
  /\ UNCHANGED <<talVars, requests, lost, lost_sof, reboots, ncc_req, sts, ncc_shared, dama_sts>>

\* Upward, onRcvLogonReq: the FMT lists first, then the frame is shared.
\* A slip: only a terminal with a return link in SCPC is added.
AddedScpc(t) == sts
Added(t) == sts \cup {t}

NccAdd(t) ==
  /\ ncc_req = Nobody
  /\ requests[t] > 0
  /\ requests' = [requests EXCEPT ![t] = @ - 1]
  /\ ncc_req' = t
  /\ sts' = Added(t)
  /\ UNCHANGED <<talVars, downlink, lost, lost_sof, reboots, ncc_sfn, ncc_shared, dama_sts>>

NccShare ==
  /\ ncc_req # Nobody
  /\ Len(ncc_shared) < MaxShared
  /\ ncc_shared' = Append(ncc_shared, ncc_req)
  /\ ncc_req' = Nobody
  /\ UNCHANGED <<talVars, netVars, reboots, ncc_sfn, sts, dama_sts>>

\* Downward, handleLogonReq: a second request of a known terminal changes
\* nothing in DamaCtrl::hereIsLogon and is answered like the first.
\* A slip: the context of a known terminal is deleted and no other made.
HereIsAgain(t) == IF t \in dama_sts THEN dama_sts \ {t} ELSE dama_sts \cup {t}
HereIsLogon(t) == dama_sts \cup {t}

NccLogonReq ==
  /\ ncc_shared # << >>
  /\ ncc_shared' = Tail(ncc_shared)
  /\ dama_sts' = HereIsLogon(Head(ncc_shared))
  /\ downlink' = [downlink EXCEPT ![Head(ncc_shared)] = Append(@, LogonResp)]
  /\ UNCHANGED <<talVars, requests, lost, lost_sof, reboots, ncc_sfn, ncc_req, sts>>

NccReboot ==
  /\ reboots < MaxReboots
  /\ reboots' = reboots + 1
  /\ ncc_sfn' = 0
  /\ ncc_req' = Nobody
  /\ sts' = {}
  /\ ncc_shared' = << >>
  /\ dama_sts' = {}
  /\ UNCHANGED <<talVars, netVars>>

-----------------------------------------------------------------------------
(* The network                                                             *)

LoseRequest(t) ==
  /\ lost < MaxLost
  /\ requests[t] > 0
  /\ requests' = [requests EXCEPT ![t] = @ - 1]
  /\ lost' = lost + 1
  /\ UNCHANGED <<talVars, downlink, lost_sof, nccVars>>

LoseDown(t) ==
  /\ lost < MaxLost
  /\ downlink[t] # << >>
  /\ downlink' = [downlink EXCEPT ![t] = Tail(@)]
  /\ lost' = lost + 1
  /\ lost_sof' = [lost_sof EXCEPT ![t] = @ + (IF Head(downlink[t]).type = "Sof" THEN 1 ELSE 0)]
  /\ UNCHANGED <<talVars, requests, nccVars>>

-----------------------------------------------------------------------------
(* BlockDvbTal::Upward::onRcvDvbFrame                                      *)

\* A slip: a SOF is shared before the terminal is logged on.
SharesAny(t) == TRUE
SharesSof(t) == up_state[t] = "running"

UpSof(t) ==
  /\ ~adding[t]
  /\ downlink[t] # << >>
  /\ Head(downlink[t]).type = "Sof"
  /\ downlink' = [downlink EXCEPT ![t] = Tail(@)]
  /\ \/ /\ SharesSof(t) /\ Len(shared[t]) < MaxShared
        /\ shared' = [shared EXCEPT ![t] = Append(@, Head(downlink[t]))]
     \/ ~SharesSof(t) /\ UNCHANGED shared
  /\ UNCHANGED <<up_state, adding, input_sts, down_state, sfn, timer, answered, alarms,
                 tal_reboots, requests, lost, lost_sof, nccVars>>

\* onRcvLogonResp up to the deletion of the entry addTerminal replaces.
UpLogonResp(t) ==
  /\ ~adding[t]
  /\ downlink[t] # << >>
  /\ Head(downlink[t]).type = "SessionLogonResp"
  /\ Len(shared[t]) < MaxShared
  /\ downlink' = [downlink EXCEPT ![t] = Tail(@)]
  /\ shared' = [shared EXCEPT ![t] = Append(@, Head(downlink[t]))]
  /\ up_state' = [up_state EXCEPT ![t] = "running"]
  /\ input_sts' = [input_sts EXCEPT ![t] = FALSE]
  /\ adding' = [adding EXCEPT ![t] = TRUE]
  /\ UNCHANGED <<down_state, sfn, timer, answered, alarms, tal_reboots, requests, lost,
                 lost_sof, nccVars>>

AddInputTerminal(t) ==
  /\ adding[t]
  /\ input_sts' = [input_sts EXCEPT ![t] = TRUE]
  /\ adding' = [adding EXCEPT ![t] = FALSE]
  /\ UNCHANGED <<up_state, shared, down_state, sfn, timer, answered, alarms, tal_reboots,
                 netVars, nccVars>>

-----------------------------------------------------------------------------
(* BlockDvbTal::Downward                                                   *)

Exchanges(t) == requests[t] + Responses(t) + (IF ncc_req = t THEN 1 ELSE 0)
                + Cardinality({i \in DOMAIN ncc_shared : ncc_shared[i] = t})

\* sendLogonReq
SendLogonReq(t) ==
  /\ requests' = [requests EXCEPT ![t] = @ + 1]
  /\ timer' = [timer EXCEPT ![t] = TRUE]

\* logon_timer is not rearmed by itself.
\* A slip: the wrong state.
AgainWhenRunning(t) == down_state[t] = "running"
StillWaiting(t) == down_state[t] = "wait_logon_resp"

LogonTimer(t) ==
  /\ timer[t]
  /\ \/ StillWaiting(t) /\ Exchanges(t) < MaxInFlight /\ SendLogonReq(t)
     \/ /\ ~StillWaiting(t)
        /\ timer' = [timer EXCEPT ![t] = FALSE]
        /\ UNCHANGED requests
  /\ UNCHANGED <<up_state, adding, input_sts, shared, down_state, sfn, answered, alarms,
                 tal_reboots, downlink, lost, lost_sof, nccVars>>

\* handleStartOfFrame.  SOF after SOF, a smaller number means a new NCC.
\* A slip: the number wraps.
NccRebootedAtWrap(n, counter) == n < counter
\* A slip: the test of the wrap is applied to every number.
NccRebootedNever(n, counter) == n < counter /\ n = 0 /\ (counter + 1) % SfnMod # 0
NccRebooted(n, counter) == n < counter /\ (n # 0 \/ (counter + 1) % SfnMod # 0)

DownSof(t) ==
  /\ shared[t] # << >>
  /\ Head(shared[t]).type = "Sof"
  /\ ~NccRebooted(Head(shared[t]).sfn, sfn[t])
  /\ shared' = [shared EXCEPT ![t] = Tail(@)]
  /\ sfn' = [sfn EXCEPT ![t] = Head(shared[t]).sfn]
  /\ UNCHANGED <<up_state, adding, input_sts, down_state, timer, answered, alarms,
                 tal_reboots, netVars, nccVars>>

DownSofRebooted(t) ==
  /\ shared[t] # << >>
  /\ Head(shared[t]).type = "Sof"
  /\ NccRebooted(Head(shared[t]).sfn, sfn[t])
  /\ shared' = [shared EXCEPT ![t] = Tail(@)]
  /\ sfn' = [sfn EXCEPT ![t] = Head(shared[t]).sfn]
  /\ SendLogonReq(t)
  /\ down_state' = [down_state EXCEPT ![t] = "wait_logon_resp"]
  /\ alarms' = [alarms EXCEPT ![t] = @ + 1]
  /\ UNCHANGED <<up_state, adding, input_sts, answered, tal_reboots, downlink, lost,
                 lost_sof, nccVars>>

\* handleLogonResp
DownLogonResp(t) ==
  /\ shared[t] # << >>
  /\ Head(shared[t]).type = "SessionLogonResp"
  /\ shared' = [shared EXCEPT ![t] = Tail(@)]
  /\ down_state' = [down_state EXCEPT ![t] = "running"]
  /\ answered' = [answered EXCEPT ![t] = Head(shared[t]).life]
  /\ UNCHANGED <<up_state, adding, input_sts, sfn, timer, alarms, tal_reboots, netVars,
                 nccVars>>

\* The process of the terminal is started again: onInit.
TalReboot(t) ==
  /\ tal_reboots[t] < MaxTalReboots
  /\ Exchanges(t) < MaxInFlight
  /\ tal_reboots' = [tal_reboots EXCEPT ![t] = @ + 1]
  /\ up_state' = [up_state EXCEPT ![t] = "initializing"]
  /\ adding' = [adding EXCEPT ![t] = FALSE]
  /\ input_sts' = [input_sts EXCEPT ![t] = FALSE]
  /\ shared' = [shared EXCEPT ![t] = << >>]
  /\ down_state' = [down_state EXCEPT ![t] = "wait_logon_resp"]
  /\ sfn' = [sfn EXCEPT ![t] = 0]
  /\ answered' = [answered EXCEPT ![t] = -1]
  /\ SendLogonReq(t)
  /\ UNCHANGED <<alarms, downlink, lost, lost_sof, nccVars>>

Next == \/ FrameTimer \/ NccShare \/ NccLogonReq \/ NccReboot
        \/ \E t \in Terminals : \/ NccAdd(t)
                                \/ LoseRequest(t) \/ LoseDown(t)
                                \/ UpSof(t) \/ UpLogonResp(t)
                                \/ AddInputTerminal(t)
                                \/ LogonTimer(t)
                                \/ DownSof(t) \/ DownSofRebooted(t) \/ DownLogonResp(t)
                                \/ TalReboot(t)

Upward(t) == UpSof(t) \/ UpLogonResp(t) \/ AddInputTerminal(t)
Downward(t) == DownSof(t) \/ DownSofRebooted(t) \/ DownLogonResp(t)

\* The threads run, timers fire, and what is not lost arrives.
Fairness == /\ WF_vars(FrameTimer)
            /\ WF_vars(NccShare)
            /\ WF_vars(NccLogonReq)
            /\ \A t \in Terminals : /\ WF_vars(NccAdd(t))
                                    /\ WF_vars(Upward(t))
                                    /\ WF_vars(Downward(t))
                                    /\ WF_vars(LogonTimer(t))

Spec == Init /\ [][Next]_vars /\ Fairness

-----------------------------------------------------------------------------
(* Properties                                                              *)

TalTypes ==
  /\ up_state \in [Terminals -> {"initializing", "running"}]
  /\ adding \in [Terminals -> BOOLEAN]
  /\ input_sts \in [Terminals -> BOOLEAN]
  /\ shared \in [Terminals -> Seq(Messages)]
  /\ \A t \in Terminals : Len(shared[t]) <= MaxShared
  /\ down_state \in [Terminals -> {"wait_logon_resp", "running"}]
  /\ sfn \in [Terminals -> 0 .. SfnMod - 1]
  /\ timer \in [Terminals -> BOOLEAN]
  /\ answered \in [Terminals -> -1 .. MaxReboots]
  /\ alarms \in [Terminals -> Nat]
  /\ tal_reboots \in [Terminals -> 0 .. MaxTalReboots]

NetTypes ==
  /\ requests \in [Terminals -> Nat]
  /\ downlink \in [Terminals -> Seq(Messages)]
  /\ lost \in 0 .. MaxLost
  /\ lost_sof \in [Terminals -> Nat]

NccTypes ==
  /\ reboots \in 0 .. MaxReboots
  /\ ncc_sfn \in 0 .. SfnMod - 1
  /\ ncc_req \in Terminals \cup {Nobody}
  /\ sts \subseteq Terminals
  /\ ncc_shared \in Seq(Terminals)
  /\ dama_sts \subseteq Terminals

\* The type of the state, within the bounds: in particular the numbers of the
\* superframes keep the width of time_sf_t.
TypeOK == TalTypes /\ NetTypes /\ NccTypes

\* A terminal that runs on the answer of the NCC that is running is known to
\* both its DAMA controller and its FMT lists, whatever requests and answers
\* of earlier lives of either were still under way.
RunningIsRegistered ==
  \A t \in Terminals : (down_state[t] = "running" /\ answered[t] = reboots)
                          => t \in dama_sts \cap sts

\* The allocation of the NCC's Downward thread asks the FMT lists for the C/N
\* of each terminal of the DAMA controller: the Upward thread added it before.
DamaIsKnownToFmt == dama_sts \subseteq sts

\* Downward reads the C/N of the terminal when a SOF makes it send a SAC.  The
\* entry is there, but for the moment when a second response replaces it.
SofFindsFmt ==
  \A t \in Terminals :
    (\E i \in DOMAIN shared[t] : shared[t][i].type = "Sof")
       => /\ up_state[t] = "running"
          /\ input_sts[t] \/ adding[t]

\* A terminal takes the NCC for rebooted at most once for each time it did and
\* for each SOF that was lost (one lost at the wrap of the number looks like a
\* reboot): the number alone, which wraps, never makes it log on again.
AlarmsAreAccounted ==
  \A t \in Terminals : alarms[t] <= reboots + lost_sof[t]

\* The logon timer and the repeated requests bring every terminal that waits
\* for an answer to run, whatever was lost or restarted.
LogonEnds ==
  \A t \in Terminals : (down_state[t] = "wait_logon_resp") ~> (down_state[t] = "running")

\* Nothing of the old NCC is under way to t, and the SOF that t gets next has a
\* smaller number than the last one, even if all that may be lost is.
RebootShows(t) ==
  /\ shared[t] = << >> /\ downlink[t] = << >> /\ ~adding[t]
  /\ up_state[t] = "running"
  /\ sfn[t] > ncc_sfn + 1 + (MaxLost - lost)

\* "if the NCC crashed, we must reinitiate a logon": when the number shows it,
\* a terminal the new NCC does not know is registered in the end.
RebootIsRepaired ==
  \A t \in Terminals : RebootShows(t) ~> (t \in dama_sts)
=============================================================================
