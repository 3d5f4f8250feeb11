---------------------------- MODULE LogonProofs ----------------------------
(***************************************************************************)
(* For any number of terminals, restarts and lost messages, a terminal     *)
(* that runs on an answer of the present NCC is registered there, the DAMA *)
(* controller only holds terminals the FMT lists hold, a SOF that is       *)
(* shared inside a terminal finds its own FMT entry, and no terminal takes *)
(* the NCC for rebooted more often than restarts and lost SOF account for. *)
(***************************************************************************)
EXTENDS Logon, LoopLemmas, SequenceTheorems, TLAPS

-----------------------------------------------------------------------------
(* The inductive invariant: who is under way to being registered is in the *)
(* FMT lists, and an answer of this life of the NCC, wherever it is, was   *)
(* given to a terminal of the DAMA controller.                             *)
UnderWay ==
  /\ DamaIsKnownToFmt
  /\ ncc_req # Nobody => ncc_req \in sts
  /\ ncc_shared \in Seq(sts)

\* What may be under way to t or inside t.
Sound(t) == {m \in Messages : m.type = "SessionLogonResp"
                                => /\ m.life <= reboots
                                   /\ m.life = reboots => t \in dama_sts}

Answers ==
  \A t \in Terminals : /\ downlink[t] \in Seq(Sound(t))
                       /\ shared[t] \in Seq(Sound(t))
                       /\ answered[t] <= reboots
                       /\ answered[t] = reboots => t \in dama_sts

OwnEntry ==
  \A t \in Terminals : /\ up_state[t] = "running" => input_sts[t] \/ adding[t]
                       /\ up_state[t] # "running" => shared[t] = << >>

IInv == TypeOK /\ UnderWay /\ Answers /\ OwnEntry

(* A sequence over a set is one over every larger set. *)
LEMMA SeqOverMore ==
  ASSUME NEW A, NEW B, A \subseteq B, NEW s \in Seq(A)
  PROVE  s \in Seq(B)
<1>1. s \in [1 .. Len(s) -> A] /\ Len(s) \in Nat
  OBVIOUS
<1>2. s \in [1 .. Len(s) -> B]
  BY <1>1
<1> QED BY <1>1, <1>2

LEMMA HeadTail ==
  ASSUME NEW A, NEW s \in Seq(A), s # << >>
  PROVE  Head(s) \in A /\ Tail(s) \in Seq(A) /\ Len(Tail(s)) = Len(s) - 1 /\ Len(s) \in Nat
OBVIOUS

LEMMA AppendOne ==
  ASSUME NEW A, NEW s \in Seq(A), NEW e \in A
  PROVE  Append(s, e) \in Seq(A) /\ Len(Append(s, e)) = Len(s) + 1 /\ Len(s) \in Nat
OBVIOUS

LEMMA InitInv == Init => IInv
<1> SUFFICES ASSUME Init PROVE IInv
  OBVIOUS
<1> USE LogonAssumption DEF Init
<1>1. TypeOK
  BY DEF TypeOK, TalTypes, NetTypes, NccTypes
<1>2. UnderWay
  BY DEF UnderWay, DamaIsKnownToFmt
<1>3. Answers
  BY DEF Answers
<1>4. OwnEntry
  BY DEF OwnEntry
<1> QED BY <1>1, <1>2, <1>3, <1>4 DEF IInv

-----------------------------------------------------------------------------
(* The types *)

(* A step that leaves a side alone keeps its types. *)
LEMMA Untouched ==
  /\ TalTypes /\ UNCHANGED talVars => TalTypes'
  /\ NetTypes /\ UNCHANGED netVars => NetTypes'
  /\ NccTypes /\ UNCHANGED nccVars => NccTypes'
<1>1. TalTypes /\ UNCHANGED talVars => TalTypes'
  BY DEF TalTypes, talVars
<1>2. NetTypes /\ UNCHANGED netVars => NetTypes'
  BY DEF NetTypes, netVars
<1>3. NccTypes /\ UNCHANGED nccVars => NccTypes'
  BY DEF NccTypes, nccVars
<1> QED BY <1>1, <1>2, <1>3

\* The fifo inside a terminal.
SharedTypes == /\ shared \in [Terminals -> Seq(Messages)]
               /\ \A t \in Terminals : Len(shared[t]) <= MaxShared

LEMMA SharedSet ==
  ASSUME SharedTypes, NEW t \in Terminals, NEW s \in Seq(Messages), Len(s) <= MaxShared,
         shared' = [shared EXCEPT ![t] = s]
  PROVE  SharedTypes'
BY DEF SharedTypes

LEMMA TypeStep == TypeOK /\ [Next]_vars => TypeOK'
<1> SUFFICES ASSUME TalTypes, NetTypes, NccTypes, [Next]_vars
             PROVE  TalTypes' /\ NetTypes' /\ NccTypes'
  BY DEF TypeOK
<1> USE LogonAssumption
<1>1. CASE FrameTimer
  <2>1. ncc_sfn' \in 0 .. SfnMod - 1
    BY <1>1 DEF NccTypes, FrameTimer, NextSfn
  <2>2. Sof(ncc_sfn') \in Messages
    BY <2>1 DEF Sof, Messages
  <2>3. NetTypes'
    BY <1>1, <2>2, AppendOne DEF NetTypes, FrameTimer
  <2>4. NccTypes'
    BY <1>1, <2>1 DEF NccTypes, FrameTimer
  <2> QED BY <1>1, <2>3, <2>4, Untouched DEF FrameTimer
<1>2. CASE NccShare
  <2>1. NccTypes'
    BY <1>2 DEF NccTypes, NccShare
  <2> QED BY <1>2, <2>1, Untouched DEF NccShare
<1>3. CASE NccLogonReq
  <2>1. Head(ncc_shared) \in Terminals /\ ncc_shared' \in Seq(Terminals)
    BY <1>3, HeadTail DEF NccTypes, NccLogonReq
  <2>2. LogonResp \in Messages
    BY DEF NccTypes, LogonResp, Messages
  <2>3. NetTypes'
    BY <1>3, <2>1, <2>2, AppendOne DEF NetTypes, NccLogonReq
  <2>4. NccTypes'
    BY <1>3, <2>1 DEF NccTypes, NccLogonReq, HereIsLogon
  <2> QED BY <1>3, <2>3, <2>4, Untouched DEF NccLogonReq
<1>4. CASE NccReboot
  <2>1. NccTypes'
    BY <1>4 DEF NccTypes, NccReboot
  <2> QED BY <1>4, <2>1, Untouched DEF NccReboot
<1>5. ASSUME NEW t \in Terminals, NccAdd(t) PROVE TalTypes' /\ NetTypes' /\ NccTypes'
  <2>1. NetTypes'
    BY <1>5 DEF NetTypes, NccAdd
  <2>2. NccTypes'
    BY <1>5 DEF NccTypes, NccAdd, Added
  <2> QED BY <1>5, <2>1, <2>2, Untouched DEF NccAdd
<1>6. ASSUME NEW t \in Terminals, LoseRequest(t) \/ LoseDown(t)
      PROVE  TalTypes' /\ NetTypes' /\ NccTypes'
  <2>1. LoseRequest(t) => NetTypes'
    BY SMTT(30) DEF NetTypes, LoseRequest
  <2>2. LoseDown(t) => NetTypes'
    <3> SUFFICES ASSUME LoseDown(t) PROVE NetTypes'
      OBVIOUS
    <3>1. Tail(downlink[t]) \in Seq(Messages)
      BY HeadTail DEF NetTypes, LoseDown
    <3> QED BY <3>1, SMTT(30) DEF NetTypes, LoseDown
  <2>3. UNCHANGED talVars /\ UNCHANGED nccVars
    BY <1>6 DEF LoseRequest, LoseDown
  <2> QED BY <1>6, <2>1, <2>2, <2>3, Untouched
<1>7. ASSUME NEW t \in Terminals, UpSof(t) PROVE TalTypes' /\ NetTypes' /\ NccTypes'
  <2>1. Head(downlink[t]) \in Messages /\ Tail(downlink[t]) \in Seq(Messages)
    BY <1>7, HeadTail DEF NetTypes, UpSof
  <2>2. NetTypes'
    BY <1>7, <2>1 DEF NetTypes, UpSof
  <2>3. shared[t] \in Seq(Messages)
    BY DEF TalTypes
  <2>4. /\ Append(shared[t], Head(downlink[t])) \in Seq(Messages)
        /\ Len(Append(shared[t], Head(downlink[t]))) = Len(shared[t]) + 1
        /\ Len(shared[t]) \in Nat
    BY <2>1, <2>3, AppendOne
  <2>5. TalTypes'
    <3>1. SharedTypes
      BY DEF TalTypes, SharedTypes
    <3>2. SharedTypes'
      <4>1. CASE SharesSof(t)
        <5>1. /\ Len(shared[t]) < MaxShared
              /\ shared' = [shared EXCEPT ![t] = Append(shared[t], Head(downlink[t]))]
          BY <1>7, <4>1 DEF UpSof, SharesSof
        <5>2. Len(Append(shared[t], Head(downlink[t]))) <= MaxShared
          BY <2>4, <5>1
        <5> QED BY <2>4, <3>1, <5>1, <5>2, SharedSet
      <4>2. CASE ~SharesSof(t)
        <5>1. shared' = shared
          BY <1>7, <4>2 DEF UpSof, SharesSof
        <5> QED BY <3>1, <5>1 DEF SharedTypes
      <4> QED BY <4>1, <4>2
    <3> QED BY <1>7, <3>2 DEF TalTypes, SharedTypes, UpSof
  <2> QED BY <1>7, <2>2, <2>5, Untouched DEF UpSof
<1>8. ASSUME NEW t \in Terminals, UpLogonResp(t) PROVE TalTypes' /\ NetTypes' /\ NccTypes'
  <2>1. Head(downlink[t]) \in Messages /\ Tail(downlink[t]) \in Seq(Messages)
    BY <1>8, HeadTail DEF NetTypes, UpLogonResp
  <2>2. NetTypes'
    BY <1>8, <2>1 DEF NetTypes, UpLogonResp
  <2>3. shared[t] \in Seq(Messages)
    BY DEF TalTypes
  <2>4. /\ Append(shared[t], Head(downlink[t])) \in Seq(Messages)
        /\ Len(Append(shared[t], Head(downlink[t]))) = Len(shared[t]) + 1
        /\ Len(shared[t]) \in Nat
    BY <2>1, <2>3, AppendOne
  <2>5. TalTypes'
    <3>1. SharedTypes
      BY DEF TalTypes, SharedTypes
    <3>2. SharedTypes'
      BY <1>8, <2>4, <3>1, SharedSet DEF UpLogonResp, SharedTypes
    <3> QED BY <1>8, <2>4, <3>2 DEF TalTypes, SharedTypes, UpLogonResp
  <2> QED BY <1>8, <2>2, <2>5, Untouched DEF UpLogonResp
<1>9. ASSUME NEW t \in Terminals, AddInputTerminal(t) PROVE TalTypes' /\ NetTypes' /\ NccTypes'
  <2>1. TalTypes'
    BY <1>9 DEF TalTypes, AddInputTerminal
  <2> QED BY <1>9, <2>1, Untouched DEF AddInputTerminal
<1>10. ASSUME NEW t \in Terminals, LogonTimer(t) PROVE TalTypes' /\ NetTypes' /\ NccTypes'
  <2>1. TalTypes'
    BY <1>10 DEF TalTypes, LogonTimer, SendLogonReq, StillWaiting
  <2>2. NetTypes'
    <3>1. requests' \in [Terminals -> Nat]
      <4>1. CASE StillWaiting(t)
        <5>1. requests' = [requests EXCEPT ![t] = @ + 1]
          BY <1>10, <4>1 DEF LogonTimer, SendLogonReq, StillWaiting
        <5> QED BY <5>1 DEF NetTypes
      <4>2. CASE ~StillWaiting(t)
        BY <1>10, <4>2 DEF NetTypes, LogonTimer, StillWaiting
      <4> QED BY <4>1, <4>2
    <3>2. downlink' = downlink /\ lost' = lost /\ lost_sof' = lost_sof
      BY <1>10 DEF LogonTimer
    <3> QED BY <3>1, <3>2 DEF NetTypes
  <2> QED BY <1>10, <2>1, <2>2, Untouched DEF LogonTimer
<1>11. ASSUME NEW t \in Terminals, DownSof(t) PROVE TalTypes' /\ NetTypes' /\ NccTypes'
  <2>1. shared[t] \in Seq(Messages) /\ shared[t] # << >> /\ Head(shared[t]).type = "Sof"
    BY <1>11 DEF TalTypes, DownSof
  <2>2. /\ Head(shared[t]) \in Messages /\ Tail(shared[t]) \in Seq(Messages)
        /\ Len(Tail(shared[t])) = Len(shared[t]) - 1 /\ Len(shared[t]) \in Nat
    BY <2>1, HeadTail
  <2>3. Head(shared[t]).sfn \in 0 .. SfnMod - 1
    BY <2>1, <2>2 DEF Messages
  <2>4. TalTypes'
    <3>1. SharedTypes
      BY DEF TalTypes, SharedTypes
    <3>2. SharedTypes'
      BY <1>11, <2>1, <2>2, <2>3, <3>1, SharedSet DEF DownSof, SharedTypes
    <3> QED BY <1>11, <2>1, <2>2, <2>3, <3>2 DEF TalTypes, SharedTypes, DownSof
  <2> QED BY <1>11, <2>4, Untouched DEF DownSof
<1>12. ASSUME NEW t \in Terminals, DownSofRebooted(t) PROVE TalTypes' /\ NetTypes' /\ NccTypes'
  <2>1. shared[t] \in Seq(Messages) /\ shared[t] # << >> /\ Head(shared[t]).type = "Sof"
    BY <1>12 DEF TalTypes, DownSofRebooted
  <2>2. /\ Head(shared[t]) \in Messages /\ Tail(shared[t]) \in Seq(Messages)
        /\ Len(Tail(shared[t])) = Len(shared[t]) - 1 /\ Len(shared[t]) \in Nat
    BY <2>1, HeadTail
  <2>3. Head(shared[t]).sfn \in 0 .. SfnMod - 1
    BY <2>1, <2>2 DEF Messages
  <2>4. TalTypes'
    <3>1. SharedTypes
      BY DEF TalTypes, SharedTypes
    <3>2. SharedTypes'
      BY <1>12, <2>1, <2>2, <2>3, <3>1, SharedSet DEF DownSofRebooted, SharedTypes
    <3>3. /\ alarms' \in [Terminals -> Nat]
          /\ timer' \in [Terminals -> BOOLEAN]
          /\ sfn' \in [Terminals -> 0 .. SfnMod - 1]
          /\ down_state' \in [Terminals -> {"wait_logon_resp", "running"}]
      <4>1. alarms' = [alarms EXCEPT ![t] = @ + 1] /\ timer' = [timer EXCEPT ![t] = TRUE]
            /\ sfn' = [sfn EXCEPT ![t] = Head(shared[t]).sfn]
            /\ down_state' = [down_state EXCEPT ![t] = "wait_logon_resp"]
        BY <1>12 DEF DownSofRebooted, SendLogonReq
      <4>2. alarms \in [Terminals -> Nat] /\ timer \in [Terminals -> BOOLEAN]
            /\ sfn \in [Terminals -> 0 .. SfnMod - 1]
            /\ down_state \in [Terminals -> {"wait_logon_resp", "running"}]
        BY DEF TalTypes
      <4> QED BY <2>3, <4>1, <4>2
    <3>4. UNCHANGED <<up_state, adding, input_sts, answered, tal_reboots>>
      BY <1>12 DEF DownSofRebooted
    <3> QED BY <3>2, <3>3, <3>4 DEF TalTypes, SharedTypes
  <2>5. NetTypes'
    BY <1>12 DEF NetTypes, DownSofRebooted, SendLogonReq
  <2> QED BY <1>12, <2>4, <2>5, Untouched DEF DownSofRebooted
<1>13. ASSUME NEW t \in Terminals, DownLogonResp(t) PROVE TalTypes' /\ NetTypes' /\ NccTypes'
  <2>1. /\ shared[t] \in Seq(Messages) /\ shared[t] # << >>
        /\ Head(shared[t]).type = "SessionLogonResp"
    BY <1>13 DEF TalTypes, DownLogonResp
  <2>2. /\ Head(shared[t]) \in Messages /\ Tail(shared[t]) \in Seq(Messages)
        /\ Len(Tail(shared[t])) = Len(shared[t]) - 1 /\ Len(shared[t]) \in Nat
    BY <2>1, HeadTail
  <2>3. Head(shared[t]).life \in -1 .. MaxReboots
    BY <2>1, <2>2 DEF Messages
  <2>4. TalTypes'
    <3>1. SharedTypes
      BY DEF TalTypes, SharedTypes
    <3>2. SharedTypes'
      BY <1>13, <2>1, <2>2, <2>3, <3>1, SharedSet DEF DownLogonResp, SharedTypes
    <3> QED BY <1>13, <2>1, <2>2, <2>3, <3>2 DEF TalTypes, SharedTypes, DownLogonResp
  <2> QED BY <1>13, <2>4, Untouched DEF DownLogonResp
<1>14. ASSUME NEW t \in Terminals, TalReboot(t) PROVE TalTypes' /\ NetTypes' /\ NccTypes'
  <2>1. TalTypes'
    <3>1. SharedTypes
      BY DEF TalTypes, SharedTypes
    <3>2. << >> \in Seq(Messages) /\ Len(<< >>) <= MaxShared
      OBVIOUS
    <3>3. SharedTypes'
      BY <1>14, <3>1, <3>2, SharedSet DEF TalReboot
    <3>4. /\ tal_reboots' \in [Terminals -> 0 .. MaxTalReboots]
          /\ sfn' \in [Terminals -> 0 .. SfnMod - 1]
          /\ answered' \in [Terminals -> -1 .. MaxReboots]
      <4>1. /\ tal_reboots[t] < MaxTalReboots
            /\ tal_reboots' = [tal_reboots EXCEPT ![t] = @ + 1]
            /\ sfn' = [sfn EXCEPT ![t] = 0]
            /\ answered' = [answered EXCEPT ![t] = -1]
        BY <1>14 DEF TalReboot
      <4>2. /\ tal_reboots \in [Terminals -> 0 .. MaxTalReboots]
            /\ sfn \in [Terminals -> 0 .. SfnMod - 1]
            /\ answered \in [Terminals -> -1 .. MaxReboots]
        BY DEF TalTypes
      <4>3. tal_reboots[t] + 1 \in 0 .. MaxTalReboots
        BY <4>1, <4>2
      <4>4. 0 \in 0 .. SfnMod - 1 /\ -1 \in -1 .. MaxReboots
        OBVIOUS
      <4> QED BY ONLY <4>1, <4>2, <4>3, <4>4
    <3>5. /\ timer' \in [Terminals -> BOOLEAN]
          /\ up_state' \in [Terminals -> {"initializing", "running"}]
          /\ down_state' \in [Terminals -> {"wait_logon_resp", "running"}]
          /\ adding' \in [Terminals -> BOOLEAN] /\ input_sts' \in [Terminals -> BOOLEAN]
      BY <1>14 DEF TalTypes, TalReboot, SendLogonReq
    <3> QED BY <1>14, <3>3, <3>4, <3>5 DEF TalTypes, SharedTypes, TalReboot
  <2>2. NetTypes'
    BY <1>14 DEF NetTypes, TalReboot, SendLogonReq
  <2> QED BY <1>14, <2>1, <2>2, Untouched DEF TalReboot
<1>15. CASE UNCHANGED vars
  BY <1>15, Untouched DEF vars
<1> QED BY <1>1, <1>2, <1>3, <1>4, <1>5, <1>6, <1>7, <1>8, <1>9, <1>10, <1>11, <1>12,
           <1>13, <1>14, <1>15 DEF Next

-----------------------------------------------------------------------------
(* The NCC *)

LEMMA UnderWayStep == IInv /\ [Next]_vars => UnderWay'
<1> SUFFICES ASSUME IInv, [Next]_vars PROVE UnderWay'
  OBVIOUS
<1> USE LogonAssumption
<1>0. /\ dama_sts \subseteq sts /\ ncc_shared \in Seq(sts) /\ sts \subseteq Terminals
      /\ ncc_req # Nobody => ncc_req \in sts
  BY DEF IInv, UnderWay, DamaIsKnownToFmt, TypeOK, NccTypes
<1>1. CASE NccShare
  <2>1. ncc_shared' \in Seq(sts)
    BY <1>0, <1>1, AppendOne DEF NccShare
  <2> QED BY <1>0, <1>1, <2>1 DEF NccShare, UnderWay, DamaIsKnownToFmt
<1>2. CASE NccLogonReq
  <2>1. Head(ncc_shared) \in sts /\ ncc_shared' \in Seq(sts)
    BY <1>0, <1>2, HeadTail DEF NccLogonReq
  <2> QED BY <1>0, <1>2, <2>1 DEF NccLogonReq, HereIsLogon, UnderWay, DamaIsKnownToFmt
<1>3. CASE NccReboot
  BY <1>3 DEF NccReboot, UnderWay, DamaIsKnownToFmt
<1>4. ASSUME NEW t \in Terminals, NccAdd(t) PROVE UnderWay'
  <2>1. sts \subseteq sts' /\ ncc_req' \in sts'
    BY <1>4 DEF NccAdd, Added
  <2>2. ncc_shared' \in Seq(sts')
    BY <1>0, <1>4, <2>1, SeqOverMore DEF NccAdd
  <2> QED BY <1>0, <1>4, <2>1, <2>2 DEF NccAdd, UnderWay, DamaIsKnownToFmt
<1>5. ASSUME UNCHANGED <<ncc_req, sts, ncc_shared, dama_sts>> PROVE UnderWay'
  BY <1>0, <1>5 DEF UnderWay, DamaIsKnownToFmt
<1>6. \/ FrameTimer
      \/ \E t \in Terminals : \/ LoseRequest(t) \/ LoseDown(t) \/ UpSof(t) \/ UpLogonResp(t)
                              \/ AddInputTerminal(t) \/ LogonTimer(t) \/ DownSof(t)
                              \/ DownSofRebooted(t) \/ DownLogonResp(t) \/ TalReboot(t)
      \/ UNCHANGED vars
      => UNCHANGED <<ncc_req, sts, ncc_shared, dama_sts>>
  BY DEF FrameTimer, LoseRequest, LoseDown, UpSof, UpLogonResp, AddInputTerminal, LogonTimer,
         DownSof, DownSofRebooted, DownLogonResp, TalReboot, vars, nccVars
<1> QED BY <1>1, <1>2, <1>3, <1>4, <1>5, <1>6 DEF Next

-----------------------------------------------------------------------------
(* The answers *)

Answer(t) == /\ downlink[t] \in Seq(Sound(t))
             /\ shared[t] \in Seq(Sound(t))
             /\ answered[t] <= reboots
             /\ answered[t] = reboots => t \in dama_sts

\* What was sound stays so when the NCC learns more.
LEMMA SoundGrows ==
  ASSUME NEW t \in Terminals, NccTypes, NccTypes', Answer(t),
         reboots' = reboots, dama_sts \subseteq dama_sts',
         downlink'[t] = downlink[t], shared'[t] = shared[t], answered'[t] = answered[t]
  PROVE  Answer(t)'
<1>1. Sound(t) \subseteq Sound(t)'
  BY DEF Sound
<1>2. downlink[t] \in Seq(Sound(t)') /\ shared[t] \in Seq(Sound(t)')
  BY <1>1, SeqOverMore DEF Answer
<1> QED BY <1>2 DEF Answer

LEMMA AnswersStep == IInv /\ [Next]_vars => Answers'
<1> SUFFICES ASSUME IInv, TypeOK', [Next]_vars, NEW u \in Terminals PROVE Answer(u)'
  BY TypeStep DEF IInv, Answers, Answer
<1> USE LogonAssumption
<1>0. /\ TalTypes /\ NetTypes /\ NccTypes /\ Answer(u) /\ \A t \in Terminals : Answer(t)
      /\ TalTypes' /\ NetTypes' /\ NccTypes'
  BY DEF IInv, Answers, Answer, TypeOK
<1>1. ASSUME UNCHANGED <<reboots, dama_sts>> PROVE Sound(u)' = Sound(u)
  BY <1>1 DEF Sound
<1>2. CASE FrameTimer
  <2>1. Sof(ncc_sfn') \in Sound(u)
    BY <1>0, <1>2 DEF Sof, Sound, Messages, NccTypes
  <2>2. downlink'[u] = Append(downlink[u], Sof(ncc_sfn'))
    BY <1>2 DEF FrameTimer
  <2>3. downlink'[u] \in Seq(Sound(u))
    BY <1>0, <2>1, <2>2, AppendOne DEF Answer
  <2> QED BY <1>0, <1>1, <1>2, <2>3 DEF FrameTimer, talVars, Answer
<1>3. CASE NccLogonReq
  <2>1. /\ dama_sts \subseteq dama_sts' /\ Head(ncc_shared) \in dama_sts'
        /\ reboots' = reboots /\ shared' = shared /\ answered' = answered
    BY <1>3 DEF NccLogonReq, HereIsLogon, talVars
  <2>2. CASE u = Head(ncc_shared)
    <3>1. LogonResp \in Sound(u)'
      BY <1>0, <2>1, <2>2 DEF LogonResp, Sound, Messages, NccTypes
    <3>2. Sound(u) \subseteq Sound(u)'
      BY <2>1 DEF Sound
    <3>3. downlink[u] \in Seq(Sound(u)') /\ shared[u] \in Seq(Sound(u)')
      BY <1>0, <3>2, SeqOverMore DEF Answer
    <3>4. downlink'[u] = Append(downlink[u], LogonResp)
      BY <1>0, <1>3, <2>2 DEF NccLogonReq, NetTypes
    <3>5. downlink'[u] \in Seq(Sound(u)')
      BY <3>1, <3>3, <3>4, AppendOne
    <3> QED BY <1>0, <2>1, <2>2, <3>3, <3>5 DEF Answer
  <2>3. CASE u # Head(ncc_shared)
    <3>1. downlink'[u] = downlink[u]
      BY <1>0, <1>3, <2>3 DEF NccLogonReq, NetTypes
    <3> QED BY <1>0, <2>1, <3>1, SoundGrows
  <2> QED BY <2>2, <2>3
<1>4. CASE NccReboot
  <2>1. reboots' = reboots + 1 /\ UNCHANGED <<downlink, shared, answered>>
    BY <1>4 DEF NccReboot, talVars, netVars
  <2>2. Sound(u) \subseteq Sound(u)'
    BY <1>0, <2>1 DEF Sound, Messages, NccTypes
  <2>3. downlink[u] \in Seq(Sound(u)') /\ shared[u] \in Seq(Sound(u)')
    BY <1>0, <2>2, SeqOverMore DEF Answer
  <2>4. answered[u] \in Int /\ reboots \in Int
    BY <1>0 DEF TalTypes, NccTypes
  <2>5. answered'[u] <= reboots' /\ answered'[u] # reboots'
    BY <1>0, <2>1, <2>4 DEF Answer
  <2>6. downlink'[u] \in Seq(Sound(u)') /\ shared'[u] \in Seq(Sound(u)')
    BY <2>1, <2>3
  <2> QED BY <2>5, <2>6 DEF Answer
<1>5. ASSUME NEW t \in Terminals, LoseDown(t) PROVE Answer(u)'
  <2>1. downlink'[u] \in Seq(Sound(u))
    <3>1. Tail(downlink[t]) \in Seq(Sound(t))
      BY <1>0, <1>5, HeadTail DEF LoseDown, Answer
    <3> QED BY <1>0, <1>5, <3>1 DEF LoseDown, Answer, NetTypes
  <2> QED BY <1>0, <1>1, <1>5, <2>1 DEF LoseDown, talVars, nccVars, Answer
<1>6. ASSUME NEW t \in Terminals, UpSof(t) \/ UpLogonResp(t) PROVE Answer(u)'
  <2>1. /\ downlink[t] # << >> /\ downlink' = [downlink EXCEPT ![t] = Tail(@)]
        /\ \/ shared' = [shared EXCEPT ![t] = Append(@, Head(downlink[t]))]
           \/ shared' = shared
        /\ UNCHANGED <<answered, reboots, dama_sts>>
    BY <1>6 DEF UpSof, UpLogonResp, nccVars
  <2>2. Head(downlink[t]) \in Sound(t) /\ Tail(downlink[t]) \in Seq(Sound(t))
    BY <1>0, <2>1, HeadTail DEF Answer
  <2>3. Append(shared[t], Head(downlink[t])) \in Seq(Sound(t))
    BY <1>0, <2>2, AppendOne DEF Answer
  <2>4. downlink'[u] \in Seq(Sound(u)) /\ shared'[u] \in Seq(Sound(u))
    BY <1>0, <2>1, <2>2, <2>3 DEF Answer, NetTypes, TalTypes
  <2> QED BY <1>0, <1>1, <2>1, <2>4 DEF Answer
<1>7. ASSUME NEW t \in Terminals, DownSof(t) \/ DownSofRebooted(t) PROVE Answer(u)'
  <2>1. /\ shared[t] # << >> /\ shared' = [shared EXCEPT ![t] = Tail(@)]
        /\ UNCHANGED <<answered, downlink, reboots, dama_sts>>
    BY <1>7 DEF DownSof, DownSofRebooted, netVars, nccVars
  <2>2. Tail(shared[t]) \in Seq(Sound(t))
    BY <1>0, <2>1, HeadTail DEF Answer
  <2>3. shared'[u] \in Seq(Sound(u))
    BY <1>0, <2>1, <2>2 DEF Answer, TalTypes
  <2> QED BY <1>0, <1>1, <2>1, <2>3 DEF Answer
<1>8. ASSUME NEW t \in Terminals, DownLogonResp(t) PROVE Answer(u)'
  <2>1. /\ shared[t] # << >> /\ shared' = [shared EXCEPT ![t] = Tail(@)]
        /\ Head(shared[t]).type = "SessionLogonResp"
        /\ answered' = [answered EXCEPT ![t] = Head(shared[t]).life]
        /\ UNCHANGED <<downlink, reboots, dama_sts>>
    BY <1>8 DEF DownLogonResp, netVars, nccVars
  <2>2. Head(shared[t]) \in Sound(t) /\ Tail(shared[t]) \in Seq(Sound(t))
    BY <1>0, <2>1, HeadTail DEF Answer
  <2>3. shared'[u] \in Seq(Sound(u))
    BY <1>0, <2>1, <2>2 DEF Answer, TalTypes
  <2>4. answered'[u] <= reboots /\ (answered'[u] = reboots => u \in dama_sts)
    <3>1. /\ Head(shared[t]).life <= reboots
          /\ Head(shared[t]).life = reboots => t \in dama_sts
      BY <2>1, <2>2 DEF Sound
    <3>2. answered'[u] = IF u = t THEN Head(shared[t]).life ELSE answered[u]
      BY <1>0, <2>1 DEF TalTypes
    <3> QED BY <1>0, <3>1, <3>2 DEF Answer
  <2>5. downlink'[u] \in Seq(Sound(u)')
    BY <1>0, <1>1, <2>1 DEF Answer
  <2> QED BY <1>1, <2>1, <2>3, <2>4, <2>5 DEF Answer
<1>9. ASSUME NEW t \in Terminals, TalReboot(t) PROVE Answer(u)'
  <2>1. /\ shared' = [shared EXCEPT ![t] = << >>] /\ answered' = [answered EXCEPT ![t] = -1]
        /\ UNCHANGED <<downlink, reboots, dama_sts>>
    BY <1>9 DEF TalReboot, nccVars
  <2>2. shared'[u] \in Seq(Sound(u))
    BY <1>0, <2>1 DEF Answer, TalTypes
  <2>3. answered'[u] <= reboots /\ (answered'[u] = reboots => u \in dama_sts)
    BY <1>0, <2>1 DEF Answer, TalTypes, NccTypes
  <2> QED BY <1>0, <1>1, <2>1, <2>2, <2>3 DEF Answer
<1>10. \/ NccShare \/ UNCHANGED vars
       \/ \E t \in Terminals : \/ NccAdd(t) \/ LoseRequest(t) \/ AddInputTerminal(t)
                               \/ LogonTimer(t)
       => UNCHANGED <<downlink, shared, answered, reboots, dama_sts>>
  BY DEF NccShare, NccAdd, LoseRequest, AddInputTerminal, LogonTimer, vars, talVars, netVars,
         nccVars
<1>11. ASSUME UNCHANGED <<downlink, shared, answered, reboots, dama_sts>> PROVE Answer(u)'
  BY <1>0, <1>1, <1>11 DEF Answer
<1> QED BY <1>2, <1>3, <1>4, <1>5, <1>6, <1>7, <1>8, <1>9, <1>10, <1>11 DEF Next

-----------------------------------------------------------------------------
(* The terminal's own FMT entry *)

LEMMA OwnEntryStep == IInv /\ [Next]_vars => OwnEntry'
<1> SUFFICES ASSUME IInv, [Next]_vars PROVE OwnEntry'
  OBVIOUS
<1>0. /\ TalTypes
      /\ \A t \in Terminals : /\ up_state[t] = "running" => input_sts[t] \/ adding[t]
                              /\ up_state[t] # "running" => shared[t] = << >>
  BY DEF IInv, TypeOK, OwnEntry
<1>1. ASSUME NEW t \in Terminals, UpSof(t) PROVE OwnEntry'
  BY <1>0, <1>1 DEF OwnEntry, UpSof, SharesSof, TalTypes
<1>2. ASSUME NEW t \in Terminals, UpLogonResp(t) PROVE OwnEntry'
  BY <1>0, <1>2 DEF OwnEntry, UpLogonResp, TalTypes
<1>3. ASSUME NEW t \in Terminals, AddInputTerminal(t) PROVE OwnEntry'
  BY <1>0, <1>3 DEF OwnEntry, AddInputTerminal, TalTypes
<1>4. ASSUME NEW t \in Terminals, DownSof(t) \/ DownSofRebooted(t) \/ DownLogonResp(t)
      PROVE  OwnEntry'
  <2>1. /\ shared[t] # << >> /\ shared' = [shared EXCEPT ![t] = Tail(@)]
        /\ UNCHANGED <<up_state, adding, input_sts>>
    BY <1>4 DEF DownSof, DownSofRebooted, DownLogonResp
  <2> QED BY <1>0, <2>1 DEF OwnEntry, TalTypes
<1>5. ASSUME NEW t \in Terminals, TalReboot(t) PROVE OwnEntry'
  BY <1>0, <1>5 DEF OwnEntry, TalReboot, TalTypes
<1>6. \/ FrameTimer \/ NccShare \/ NccLogonReq \/ NccReboot \/ UNCHANGED vars
      \/ \E t \in Terminals : NccAdd(t) \/ LoseRequest(t) \/ LoseDown(t) \/ LogonTimer(t)
      => UNCHANGED <<up_state, adding, input_sts, shared>>
  BY DEF FrameTimer, NccShare, NccLogonReq, NccReboot, NccAdd, LoseRequest, LoseDown,
         LogonTimer, vars, talVars
<1>7. ASSUME UNCHANGED <<up_state, adding, input_sts, shared>> PROVE OwnEntry'
  BY <1>0, <1>7 DEF OwnEntry
<1> QED BY <1>1, <1>2, <1>3, <1>4, <1>5, <1>6, <1>7 DEF Next

-----------------------------------------------------------------------------
(* The alarms.  What Downward will have counted when it has handled all    *)
(* that is inside t and under way to it, and the SOF that follows, is paid *)
(* for by the restarts and the lost SOF.  An account is a pair: alarms,    *)
(* and number of the last SOF.                                             *)
Accounts == Nat \X Nat

\* A SOF of number n after one of number k: no alarm when it is the next, or
\* when k is 0, which no number is smaller than.
Jump(k, n) == IF k = 0 \/ n = NextSfn(k) THEN 0 ELSE 1

Handled(p, m) == IF m.type = "Sof" THEN <<p[1] + Jump(p[2], m.sfn), m.sfn>> ELSE p

\* From account p to account q through the messages u.
Runs(f, p, u) == f[0] = p /\ \A i \in 1 .. Len(u) : f[i] = Handled(f[i - 1], u[i])
Through(p, u, q) == \E f \in [0 .. Len(u) -> Accounts] : Runs(f, p, u) /\ f[Len(u)] = q

\* p is no worse than q, but for e alarms.  To have lost count is worth one.
Behind(p, q, e) == p[1] + (IF p[2] = 0 \/ p[2] = q[2] THEN 0 ELSE 1) <= q[1] + e

\* The NCC sends now: after it, the next number is no jump.
Paid(t, q) == q[1] + (IF q[2] = 0 \/ q[2] = ncc_sfn THEN 0 ELSE 1) <= reboots + lost_sof[t]

Now(t) == <<alarms[t], sfn[t]>>
Account(t) == /\ up_state[t] # "running" => sfn[t] = 0
              /\ \E m, q \in Accounts : /\ Through(Now(t), shared[t], m)
                                        /\ Through(m, downlink[t], q)
                                        /\ Paid(t, q)

Ledger == \A t \in Terminals : Account(t)

LEMMA HandledIs ==
  ASSUME NEW p \in Accounts, NEW m \in Messages
  PROVE  Handled(p, m) \in Accounts
<1>1. p[1] \in Nat /\ p[2] \in Nat
  BY DEF Accounts
<1>2. m.type = "Sof" => m.sfn \in Nat
  BY DEF Messages
<1>3. p[1] + Jump(p[2], m.sfn) \in Nat
  BY <1>1 DEF Jump
<1> QED BY <1>2, <1>3 DEF Handled, Accounts

LEMMA ThroughNone ==
  ASSUME NEW p \in Accounts
  PROVE  Through(p, << >>, p)
<1> DEFINE f == [i \in 0 .. 0 |-> p]
<1>1. f \in [0 .. Len(<< >>) -> Accounts] /\ Runs(f, p, << >>) /\ f[Len(<< >>)] = p
  BY DEF Runs
<1> HIDE DEF f
<1> QED BY <1>1 DEF Through

LEMMA ThroughAppend ==
  ASSUME NEW p \in Accounts, NEW u \in Seq(Messages), NEW q \in Accounts, Through(p, u, q),
         NEW m \in Messages
  PROVE  Through(p, Append(u, m), Handled(q, m))
<1> DEFINE n == Len(u)
           v == Append(u, m)
<1>1. PICK f \in [0 .. n -> Accounts] : Runs(f, p, u) /\ f[n] = q
  BY DEF Through
<1> DEFINE g == [i \in 0 .. n + 1 |-> IF i = n + 1 THEN Handled(q, m) ELSE f[i]]
<1>2. n \in Nat /\ Len(v) = n + 1 /\ v[n + 1] = m /\ \A i \in 1 .. n : v[i] = u[i]
  OBVIOUS
<1>3. g \in [0 .. n + 1 -> Accounts] /\ g[n + 1] = Handled(q, m)
  BY <1>2, HandledIs
<1>4. g[0] = p
  BY <1>1, <1>2 DEF Runs
<1>5. ASSUME NEW i \in 1 .. n + 1 PROVE g[i] = Handled(g[i - 1], v[i])
  <2>1. CASE i = n + 1
    <3>1. g[i - 1] = q
      BY <1>1, <1>2, <2>1
    <3> QED BY <1>2, <1>3, <2>1, <3>1
  <2>2. CASE i # n + 1
    <3>1. i \in 1 .. n /\ g[i] = f[i] /\ g[i - 1] = f[i - 1] /\ v[i] = u[i]
      BY <1>2, <2>2
    <3> QED BY <1>1, <3>1 DEF Runs
  <2> QED BY <2>1, <2>2
<1> HIDE DEF g, v, n
<1>6. Runs(g, p, v)
  BY <1>2, <1>4, <1>5 DEF Runs
<1>7. Through(p, v, Handled(q, m))
  BY <1>2, <1>3, <1>6 DEF Through
<1> QED BY <1>7 DEF v

LEMMA ThroughTail ==
  ASSUME NEW p \in Accounts, NEW u \in Seq(Messages), u # << >>, NEW q, Through(p, u, q)
  PROVE  Through(Handled(p, Head(u)), Tail(u), q)
<1> DEFINE n == Len(u)
           v == Tail(u)
<1>1. PICK f \in [0 .. n -> Accounts] : Runs(f, p, u) /\ f[n] = q
  BY DEF Through
<1>2. n \in Nat \ {0} /\ Len(v) = n - 1 /\ Head(u) = u[1] /\ \A i \in 1 .. n - 1 : v[i] = u[i + 1]
  OBVIOUS
<1> DEFINE g == [i \in 0 .. n - 1 |-> f[i + 1]]
<1> HIDE DEF v, n
<1>3. g \in [0 .. n - 1 -> Accounts] /\ g[n - 1] = q
  BY <1>1, <1>2
<1>4. f[0] = p /\ f[1] = Handled(f[0], u[1])
  <2>1. 1 \in 1 .. n
    BY <1>2
  <2> QED BY <1>1, <2>1 DEF Runs, n
<1>5. g[0] = Handled(p, Head(u))
  BY <1>2, <1>4
<1>6. ASSUME NEW i \in 1 .. n - 1 PROVE g[i] = Handled(g[i - 1], v[i])
  <2>1. i + 1 \in 1 .. n /\ (i + 1) - 1 = i /\ g[i] = f[i + 1] /\ g[i - 1] = f[i]
        /\ v[i] = u[i + 1]
    BY <1>2
  <2>2. f[i + 1] = Handled(f[(i + 1) - 1], u[i + 1])
    BY <1>1, <2>1 DEF Runs, n
  <2> QED BY <2>1, <2>2
<1> HIDE DEF g
<1>7. Runs(g, Handled(p, Head(u)), v)
  BY <1>2, <1>5, <1>6 DEF Runs
<1>8. Through(Handled(p, Head(u)), v, q)
  BY <1>2, <1>3, <1>7 DEF Through
<1> QED BY <1>8 DEF v

(* Who is no worse before a message is no worse after it: where the two    *)
(* numbers differ the other has an alarm more, and then both are the same. *)
LEMMA HandledKeeps ==
  ASSUME NEW p \in Accounts, NEW q \in Accounts, NEW e \in Nat, Behind(p, q, e),
         NEW m \in Messages
  PROVE  Behind(Handled(p, m), Handled(q, m), e)
<1>1. p[1] \in Nat /\ p[2] \in Nat /\ q[1] \in Nat /\ q[2] \in Nat
  BY DEF Accounts
<1>2. CASE m.type = "Sof"
  <2>1. p[1] + Jump(p[2], m.sfn) <= q[1] + Jump(q[2], m.sfn) + e
    BY <1>1 DEF Behind, Jump
  <2>2. /\ Handled(p, m)[1] = p[1] + Jump(p[2], m.sfn) /\ Handled(p, m)[2] = m.sfn
        /\ Handled(q, m)[1] = q[1] + Jump(q[2], m.sfn) /\ Handled(q, m)[2] = m.sfn
    BY <1>2 DEF Handled
  <2>3. p[1] + Jump(p[2], m.sfn) \in Nat /\ q[1] + Jump(q[2], m.sfn) \in Nat
    BY <1>1 DEF Jump
  <2> QED BY <2>1, <2>2, <2>3 DEF Behind
<1>3. CASE m.type # "Sof"
  BY <1>3 DEF Handled
<1> QED BY <1>2, <1>3

LEMMA ThroughKeeps ==
  ASSUME NEW u \in Seq(Messages), NEW p \in Accounts, NEW q \in Accounts, NEW e \in Nat,
         Behind(p, q, e), NEW z \in Accounts, Through(q, u, z)
  PROVE  \E y \in Accounts : Through(p, u, y) /\ Behind(y, z, e)
<1> DEFINE n == Len(u)
           step == [i \in 1 .. n |-> [x \in Accounts |-> Handled(x, u[i])]]
<1>1. PICK f \in [0 .. n -> Accounts] : Runs(f, q, u) /\ f[n] = z
  BY DEF Through
<1>2. n \in Nat /\ \A i \in 1 .. n : u[i] \in Messages
  OBVIOUS
<1>3. step \in [1 .. n -> [Accounts -> Accounts]]
  BY <1>2, HandledIs
<1>4. PICK g \in [0 .. n -> Accounts] : Loop(g, n, p, step)
  <2> HIDE DEF step, n
  <2> QED BY <1>2, <1>3, Iterates
<1>5. \A i \in 1 .. n : g[i - 1] \in Accounts /\ f[i - 1] \in Accounts
  BY <1>2
<1>6. \A i \in 1 .. n : g[i] = Handled(g[i - 1], u[i])
  BY <1>4, <1>5 DEF Loop
<1>7. Runs(g, p, u)
  BY <1>4, <1>6 DEF Runs, Loop
<1> DEFINE P == {i \in 0 .. n : Behind(g[i], f[i], e)}
<1>8. 0 \in P
  BY <1>1, <1>2, <1>7 DEF Runs
<1>9. ASSUME NEW i \in 1 .. n, i - 1 \in P PROVE i \in P
  <2>1. Behind(Handled(g[i - 1], u[i]), Handled(f[i - 1], u[i]), e)
    BY <1>2, <1>5, <1>9, HandledKeeps
  <2>2. f[i] = Handled(f[i - 1], u[i])
    BY <1>1 DEF Runs
  <2> QED BY <1>6, <2>1, <2>2
<1>10. \A i \in 0 .. n : i \in P
  <2> HIDE DEF P, n
  <2> QED BY <1>2, <1>8, <1>9, Induct
<1>11. Behind(g[n], z, e) /\ g[n] \in Accounts
  BY <1>1, <1>2, <1>10
<1>12. Through(p, u, g[n])
  BY <1>7 DEF Through
<1> QED BY <1>11, <1>12

(* No message takes an alarm back. *)
LEMMA ThroughCounts ==
  ASSUME NEW u \in Seq(Messages), NEW p \in Accounts, NEW q \in Accounts, Through(p, u, q)
  PROVE  p[1] <= q[1]
<1> DEFINE n == Len(u)
<1>1. PICK f \in [0 .. n -> Accounts] : Runs(f, p, u) /\ f[n] = q
  BY DEF Through
<1>2. n \in Nat
  OBVIOUS
<1>3. \A i \in 0 .. n : f[i][1] \in Nat
  BY DEF Accounts
<1> DEFINE P == {i \in 0 .. n : p[1] <= f[i][1]}
<1>4. 0 \in P
  BY <1>1, <1>2, <1>3 DEF Runs
<1>5. ASSUME NEW i \in 1 .. n, i - 1 \in P PROVE i \in P
  <2>1. f[i] = Handled(f[i - 1], u[i])
    BY <1>1 DEF Runs
  <2>2. PICK x \in Accounts : x = f[i - 1]
    OBVIOUS
  <2>3. x[1] <= Handled(x, u[i])[1]
    <3>1. x[1] \in Nat
      BY DEF Accounts
    <3> QED BY <3>1 DEF Handled, Jump
  <2>4. f[i - 1][1] <= f[i][1] /\ p[1] <= f[i - 1][1] /\ p[1] \in Nat
    BY <1>5, <2>1, <2>2, <2>3 DEF Accounts
  <2>5. f[i - 1][1] \in Nat /\ f[i][1] \in Nat
    BY <1>3
  <2> QED BY <2>4, <2>5
<1>6. \A i \in 0 .. n : i \in P
  <2> HIDE DEF P, n
  <2> QED BY <1>2, <1>4, <1>5, Induct
<1> QED BY <1>1, <1>2, <1>6

LEMMA NextSfnIs ==
  ASSUME NEW k \in 0 .. SfnMod - 1
  PROVE  NextSfn(k) = IF k + 1 = SfnMod THEN 0 ELSE k + 1
<1>1. SfnMod \in Nat \ {0, 1}
  BY LogonAssumption
<1>2. CASE k + 1 = SfnMod
  BY <1>1, <1>2 DEF NextSfn
<1>3. CASE k + 1 # SfnMod
  <2>1. k + 1 \in 0 .. SfnMod - 1
    BY <1>1, <1>3
  <2> QED BY <1>1, <1>3, <2>1 DEF NextSfn
<1> QED BY <1>2, <1>3

(* The test of handleStartOfFrame never takes the next number for that of  *)
(* another NCC.                                                            *)
LEMMA RebootIsJump ==
  ASSUME NEW n \in 0 .. SfnMod - 1, NEW k \in 0 .. SfnMod - 1, NccRebooted(n, k)
  PROVE  Jump(k, n) = 1
<1>1. SfnMod \in Nat \ {0, 1}
  BY LogonAssumption
<1>2. NextSfn(k) = (k + 1) % SfnMod
  BY DEF NextSfn
<1>3. n < k /\ (n # 0 \/ NextSfn(k) # 0)
  BY <1>2 DEF NccRebooted
<1>4. n # NextSfn(k)
  BY <1>1, <1>3, NextSfnIs
<1> QED BY <1>3, <1>4 DEF Jump

LEMMA InitLedger == Init => Ledger
<1> SUFFICES ASSUME Init, NEW t \in Terminals PROVE Account(t)
  BY DEF Ledger
<1>1. /\ Now(t) = <<0, 0>> /\ shared[t] = << >> /\ downlink[t] = << >> /\ sfn[t] = 0
      /\ reboots = 0 /\ lost_sof[t] = 0
  BY DEF Init, Now
<1>2. <<0, 0>> \in Accounts
  BY DEF Accounts
<1>3. Through(<<0, 0>>, << >>, <<0, 0>>)
  BY <1>2, ThroughNone
<1>4. Paid(t, <<0, 0>>)
  BY <1>1 DEF Paid
<1> QED BY <1>1, <1>2, <1>3, <1>4 DEF Account

\* All that an account is about.
Same(t) == /\ up_state'[t] = up_state[t] /\ sfn'[t] = sfn[t] /\ alarms'[t] = alarms[t]
           /\ shared'[t] = shared[t] /\ downlink'[t] = downlink[t]
           /\ reboots' = reboots /\ lost_sof'[t] = lost_sof[t] /\ ncc_sfn' = ncc_sfn

LEMMA SameAccount ==
  ASSUME NEW t \in Terminals, Account(t), Same(t)
  PROVE  Account(t)'
<1>1. PICK m \in Accounts, q \in Accounts : /\ Through(Now(t), shared[t], m)
                                            /\ Through(m, downlink[t], q)
                                            /\ Paid(t, q)
  BY DEF Account
<1>2. Now(t)' = Now(t) /\ Paid(t, q)'
  BY <1>1 DEF Same, Now, Paid
<1>3. Through(Now(t), shared[t], m)' /\ Through(m, downlink[t], q)'
  BY <1>1, <1>2 DEF Same
<1> QED BY <1>2, <1>3 DEF Account, Same

(* An account no worse is paid as well. *)
LEMMA PaidToo ==
  ASSUME NEW t, NEW y \in Accounts, NEW z \in Accounts, NEW e \in Nat, Behind(y, z, e),
         Paid(t, z), NetTypes, NccTypes, t \in Terminals,
         reboots' + lost_sof'[t] = reboots + lost_sof[t] + e, ncc_sfn' = ncc_sfn
  PROVE  Paid(t, y)'
<1>1. y[1] \in Nat /\ y[2] \in Nat /\ z[1] \in Nat /\ z[2] \in Nat
  BY DEF Accounts
<1>2. reboots \in Nat /\ lost_sof[t] \in Nat /\ ncc_sfn \in Nat
  BY LogonAssumption DEF NetTypes, NccTypes
<1>3. y[1] + (IF y[2] = 0 \/ y[2] = ncc_sfn THEN 0 ELSE 1) <= reboots + lost_sof[t] + e
  BY <1>1, <1>2 DEF Behind, Paid
<1> QED BY <1>3 DEF Paid

(* One who is no worse, and gets the same messages, has an account. *)
LEMMA NoWorse ==
  ASSUME NEW t \in Terminals, NetTypes, NccTypes,
         NEW p \in Accounts, NEW r \in Accounts, NEW e \in Nat, Behind(p, r, e),
         NEW u \in Seq(Messages), NEW q \in Accounts, Through(r, u, q), Paid(t, q),
         reboots' + lost_sof'[t] = reboots + lost_sof[t] + e, ncc_sfn' = ncc_sfn
  PROVE  \E y \in Accounts : Through(p, u, y) /\ Paid(t, y)'
<1>1. PICK y \in Accounts : Through(p, u, y) /\ Behind(y, q, e)
  BY ThroughKeeps
<1>2. Paid(t, y)'
  BY <1>1, PaidToo
<1> QED BY <1>1, <1>2

LEMMA LedgerStep == IInv /\ Ledger /\ [Next]_vars => Ledger'
<1> SUFFICES ASSUME IInv, Ledger, [Next]_vars, NEW t \in Terminals PROVE Account(t)'
  BY DEF Ledger
<1>0. /\ TalTypes /\ NetTypes /\ NccTypes /\ OwnEntry
      /\ NccTypes' /\ NetTypes' /\ TalTypes'
  BY TypeStep DEF IInv, TypeOK
<1>a. /\ shared[t] \in Seq(Messages) /\ downlink[t] \in Seq(Messages)
      /\ sfn[t] \in 0 .. SfnMod - 1 /\ alarms[t] \in Nat
      /\ reboots \in Nat /\ lost_sof[t] \in Nat /\ ncc_sfn \in 0 .. SfnMod - 1
      /\ ncc_sfn' \in 0 .. SfnMod - 1 /\ SfnMod \in Nat \ {0, 1}
      /\ shared'[t] \in Seq(Messages) /\ downlink'[t] \in Seq(Messages)
  BY <1>0, LogonAssumption DEF TalTypes, NetTypes, NccTypes
<1>b. Account(t)
  BY DEF Ledger
<1>c. PICK m \in Accounts, q \in Accounts : /\ Through(Now(t), shared[t], m)
                                            /\ Through(m, downlink[t], q)
                                            /\ Paid(t, q)
  BY <1>b DEF Account
<1>d. /\ q[1] \in Nat /\ q[2] \in Nat /\ m[1] \in Nat /\ m[2] \in Nat
      /\ Now(t) \in Accounts
      /\ up_state[t] # "running" => sfn[t] = 0 /\ shared[t] = << >>
  BY <1>0, <1>a, <1>b, SMTT(30) DEF Accounts, Now, Account, OwnEntry
<1>1. CASE FrameTimer
  <2>0. PICK s \in Messages : s = Sof(ncc_sfn')
    BY <1>a DEF Messages, Sof
  <2>1. /\ ncc_sfn' = NextSfn(ncc_sfn) /\ downlink'[t] = Append(downlink[t], s)
        /\ UNCHANGED <<up_state, sfn, alarms, shared, reboots, lost_sof>>
    BY <1>1, <2>0 DEF FrameTimer, talVars
  <2>2. s.type = "Sof" /\ s.sfn = ncc_sfn'
    BY <2>0 DEF Sof
  <2>3. Through(m, downlink'[t], Handled(q, s))
    BY <1>a, <1>c, <2>1, <2>2, ThroughAppend
  <2>4. Handled(q, s) \in Accounts
    BY <2>2, HandledIs
  <2>5. Paid(t, Handled(q, s))'
    <3>1. Handled(q, s)[1] = q[1] + Jump(q[2], ncc_sfn') /\ Handled(q, s)[2] = ncc_sfn'
      BY <2>2 DEF Handled
    <3>2. q[1] + Jump(q[2], ncc_sfn') <= reboots + lost_sof[t]
      BY <1>a, <1>c, <1>d, <2>1, SMTT(30) DEF Paid, Jump
    <3>3. Handled(q, s)[1] \in Nat
      BY <1>d, <3>1 DEF Jump
    <3> QED BY <1>a, <2>1, <2>4, <3>1, <3>2, <3>3 DEF Paid
  <2> QED BY <1>c, <1>d, <2>1, <2>3, <2>4, <2>5 DEF Account, Now
<1>2. CASE NccReboot
  <2>1. /\ reboots' = reboots + 1 /\ ncc_sfn' = 0
        /\ UNCHANGED <<up_state, sfn, alarms, shared, downlink, lost_sof>>
    BY <1>2 DEF NccReboot, talVars, netVars
  <2>2. Paid(t, q)'
    BY <1>a, <1>c, <1>d, <2>1, SMTT(30) DEF Paid
  <2> QED BY <1>c, <1>d, <2>1, <2>2 DEF Account, Now
<1>3. CASE NccLogonReq
  <2> DEFINE s == LogonResp
  <2>1. UNCHANGED <<up_state, sfn, alarms, shared, reboots, lost_sof, ncc_sfn>>
    BY <1>3 DEF NccLogonReq, talVars
  <2>2. s \in Messages /\ Handled(q, s) = q
    BY <1>0 DEF LogonResp, Messages, NccTypes, Handled
  <2>3. downlink'[t] = Append(downlink[t], s) \/ downlink'[t] = downlink[t]
    BY <1>0, <1>3 DEF NccLogonReq, NetTypes
  <2> HIDE DEF s
  <2>4. Through(m, downlink'[t], q)
    <3>1. Through(m, Append(downlink[t], s), Handled(q, s))
      BY <1>a, <1>c, <2>2, ThroughAppend
    <3> QED BY <1>c, <2>2, <2>3, <3>1
  <2>5. Paid(t, q)'
    BY <1>c, <2>1 DEF Paid
  <2> QED BY <1>c, <1>d, <2>1, <2>4, <2>5 DEF Account, Now
<1>4. CASE LoseDown(t)
  <2> DEFINE s == Head(downlink[t])
  <2>1. /\ downlink[t] # << >> /\ downlink'[t] = Tail(downlink[t])
        /\ lost_sof'[t] = lost_sof[t] + (IF s.type = "Sof" THEN 1 ELSE 0)
        /\ UNCHANGED <<up_state, sfn, alarms, shared, reboots, ncc_sfn>>
    BY <1>0, <1>4 DEF LoseDown, talVars, nccVars, NetTypes
  <2>2. s \in Messages /\ Tail(downlink[t]) \in Seq(Messages)
    BY <1>a, <2>1, HeadTail
  <2>3. Through(Handled(m, s), Tail(downlink[t]), q) /\ Handled(m, s) \in Accounts
    BY <1>a, <1>c, <2>1, <2>2, ThroughTail, HandledIs
  <2>4. PICK e \in Nat : e = IF s.type = "Sof" THEN 1 ELSE 0
    OBVIOUS
  <2>5. Behind(m, Handled(m, s), e)
    <3>1. CASE s.type = "Sof"
      <4>1. Handled(m, s)[1] = m[1] + Jump(m[2], s.sfn)
        BY <3>1 DEF Handled
      <4>2. e = 1 /\ m[1] <= m[1] + Jump(m[2], s.sfn) /\ m[1] + Jump(m[2], s.sfn) \in Nat
        BY <1>d, <2>4, <3>1 DEF Jump
      <4> QED BY <1>d, <4>1, <4>2 DEF Behind
    <3>2. CASE s.type # "Sof"
      BY <1>d, <2>4, <3>2 DEF Behind, Handled
    <3> QED BY <3>1, <3>2
  <2>6. reboots' + lost_sof'[t] = reboots + lost_sof[t] + e
    BY <1>a, <2>1, <2>4
  <2> HIDE DEF s
  <2>7. PICK y \in Accounts : Through(m, Tail(downlink[t]), y) /\ Paid(t, y)'
    <3>1. ncc_sfn' = ncc_sfn
      BY <2>1
    <3> QED BY ONLY <1>0, <1>c, <2>2, <2>3, <2>5, <2>6, <3>1, NoWorse
  <2> QED BY <1>c, <1>d, <2>1, <2>7 DEF Account, Now
<1>5. CASE UpSof(t) \/ UpLogonResp(t)
  <2> DEFINE s == Head(downlink[t])
  <2>1. /\ downlink[t] # << >> /\ downlink'[t] = Tail(downlink[t])
        /\ UNCHANGED <<sfn, alarms, reboots, lost_sof, ncc_sfn>>
    BY <1>0, <1>5 DEF UpSof, UpLogonResp, nccVars, NetTypes
  <2>2. s \in Messages /\ Tail(downlink[t]) \in Seq(Messages)
    BY <1>a, <2>1, HeadTail
  <2>3. Through(Handled(m, s), Tail(downlink[t]), q) /\ Handled(m, s) \in Accounts
    BY <1>a, <1>c, <2>1, <2>2, ThroughTail, HandledIs
  <2>4. CASE shared'[t] = Append(shared[t], s) /\ up_state'[t] = "running"
    <3>1. Through(Now(t), Append(shared[t], s), Handled(m, s))
      BY <1>a, <1>c, <1>d, <2>2, ThroughAppend
    <3>2. Paid(t, q)'
      BY <1>c, <2>1 DEF Paid
    <3>3. Now(t)' = Now(t)
      BY <2>1 DEF Now
    <3> QED BY <1>c, <2>1, <2>3, <2>4, <3>1, <3>2, <3>3 DEF Account
  <2>5. CASE up_state[t] # "running" /\ UNCHANGED <<shared, up_state>>
    <3>1. PICK p \in Accounts : p = Now(t)
      BY <1>d
    <3>2. Behind(p, Handled(p, s), 0)
      <4>1. p[2] = 0 /\ p[1] \in Nat
        BY <1>a, <1>d, <2>5, <3>1 DEF Now
      <4> QED BY <4>1 DEF Behind, Handled, Jump
    <3>3. m = p
      <4>1. Len(shared[t]) = 0 /\ Through(p, shared[t], m)
        BY <1>c, <1>d, <2>5, <3>1
      <4> QED BY <4>1 DEF Through, Runs
    <3>4. PICK y \in Accounts : Through(p, Tail(downlink[t]), y) /\ Paid(t, y)'
      <4>1. /\ Behind(p, Handled(m, s), 0) /\ 0 \in Nat /\ ncc_sfn' = ncc_sfn
            /\ reboots' + lost_sof'[t] = reboots + lost_sof[t] + 0
        BY <1>a, <2>1, <3>2, <3>3
      <4> HIDE DEF s
      <4> QED BY ONLY <1>0, <1>c, <2>2, <2>3, <3>1, <4>1, NoWorse
    <3>5. Now(t)' = p /\ shared'[t] = << >> /\ Through(p, << >>, p)
      BY <1>d, <2>1, <2>5, <3>1, ThroughNone DEF Now
    <3>6. up_state'[t] # "running" => sfn'[t] = 0
      BY <1>d, <2>1, <2>5
    <3> QED BY <2>1, <3>4, <3>5, <3>6 DEF Account
  <2>6. \/ shared'[t] = Append(shared[t], s) /\ up_state'[t] = "running"
        \/ up_state[t] # "running" /\ UNCHANGED <<shared, up_state>>
    <3>1. UpSof(t) => \/ shared'[t] = Append(shared[t], s) /\ up_state'[t] = "running"
                      \/ up_state[t] # "running" /\ UNCHANGED <<shared, up_state>>
      BY <1>0 DEF UpSof, SharesSof, TalTypes
    <3>2. UpLogonResp(t) => shared'[t] = Append(shared[t], s) /\ up_state'[t] = "running"
      BY <1>0 DEF UpLogonResp, TalTypes
    <3> QED BY <1>5, <3>1, <3>2
  <2> QED BY <2>4, <2>5, <2>6
<1>6. CASE DownSof(t) \/ DownSofRebooted(t) \/ DownLogonResp(t)
  <2> DEFINE s == Head(shared[t])
  <2>1. /\ shared[t] # << >> /\ shared'[t] = Tail(shared[t])
        /\ UNCHANGED <<up_state, downlink, reboots, lost_sof, ncc_sfn>>
    BY <1>0, <1>6 DEF DownSof, DownSofRebooted, DownLogonResp, netVars, nccVars, TalTypes
  <2>2. s \in Messages /\ Tail(shared[t]) \in Seq(Messages)
    BY <1>a, <2>1, HeadTail
  <2>3. up_state'[t] = "running"
    BY <1>d, <2>1
  <2>4. PICK p \in Accounts : p = Now(t)
    BY <1>d
  <2>5. p = <<alarms[t], sfn[t]>>
    BY <2>4 DEF Now
  <2>6. PICK h \in Accounts : h = Handled(p, s)
    BY <2>2, <2>4, HandledIs
  <2>7. Through(h, Tail(shared[t]), m)
    BY <1>a, <1>c, <2>1, <2>4, <2>6, ThroughTail
  <2>8. PICK n : n = <<alarms'[t], sfn'[t]>>
    OBVIOUS
  <2>9. n \in Accounts /\ Behind(n, h, 0)
    <3>1. CASE DownSof(t)
      <4>1. s.type = "Sof" /\ s.sfn \in 0 .. SfnMod - 1 /\ alarms'[t] = alarms[t] /\ sfn'[t] = s.sfn
        BY <1>0, <2>2, <3>1 DEF DownSof, TalTypes, Messages
      <4>2. h[1] = alarms[t] + Jump(sfn[t], s.sfn) /\ h[2] = s.sfn
        BY <2>5, <2>6, <4>1 DEF Handled
      <4>3. n[1] = alarms[t] /\ n[2] = s.sfn /\ n \in Accounts
        BY <1>a, <2>8, <4>1, SMTT(30) DEF Accounts
      <4> QED BY <1>a, <4>2, <4>3 DEF Behind, Jump
    <3>2. CASE DownSofRebooted(t)
      <4>1. /\ s.type = "Sof" /\ s.sfn \in 0 .. SfnMod - 1 /\ NccRebooted(s.sfn, sfn[t])
            /\ alarms'[t] = alarms[t] + 1 /\ sfn'[t] = s.sfn
        BY <1>0, <2>2, <3>2 DEF DownSofRebooted, TalTypes, Messages
      <4>2. Jump(sfn[t], s.sfn) = 1
        BY <1>a, <4>1, RebootIsJump
      <4>3. h[1] = alarms[t] + 1 /\ h[2] = s.sfn
        BY <2>5, <2>6, <4>1, <4>2 DEF Handled
      <4>4. n = <<alarms[t] + 1, s.sfn>> /\ n[1] = alarms[t] + 1 /\ n[2] = s.sfn
        BY <2>8, <4>1
      <4>5. n \in Accounts
        <5>1. alarms[t] + 1 \in Nat /\ s.sfn \in Nat
          BY <1>a, <4>1
        <5> QED BY ONLY <4>4, <5>1 DEF Accounts
      <4> QED BY ONLY <1>a, <4>3, <4>4, <4>5 DEF Behind
    <3>3. CASE DownLogonResp(t)
      <4>1. s.type = "SessionLogonResp" /\ alarms' = alarms /\ sfn' = sfn
        BY <3>3 DEF DownLogonResp
      <4>2. h = p /\ n = p
        BY <2>5, <2>6, <2>8, <4>1 DEF Handled
      <4> QED BY <1>a, <2>4, <2>5, <4>2 DEF Behind
    <3> QED BY <1>6, <3>1, <3>2, <3>3
  <2>10. PICK x \in Accounts : Through(n, Tail(shared[t]), x) /\ Behind(x, m, 0)
    <3> HIDE DEF s
    <3> QED BY ONLY <1>c, <2>2, <2>6, <2>7, <2>9, 0 \in Nat, ThroughKeeps
  <2>11. PICK y \in Accounts : Through(x, downlink[t], y) /\ Paid(t, y)'
    <3>1. /\ 0 \in Nat /\ ncc_sfn' = ncc_sfn
          /\ reboots' + lost_sof'[t] = reboots + lost_sof[t] + 0
      BY <1>a, <2>1
    <3> QED BY ONLY <1>0, <1>a, <1>c, <2>10, <3>1, NoWorse, t \in Terminals
  <2>12. Now(t)' = n
    BY <2>8 DEF Now
  <2> QED BY <2>1, <2>3, <2>10, <2>11, <2>12 DEF Account
<1>7. CASE TalReboot(t)
  <2>1. /\ shared'[t] = << >> /\ sfn'[t] = 0
        /\ UNCHANGED <<alarms, downlink, reboots, lost_sof, ncc_sfn>>
    BY <1>0, <1>7 DEF TalReboot, nccVars, TalTypes
  <2>2. PICK n : n = <<alarms[t], 0>>
    OBVIOUS
  <2>3. n \in Accounts
    BY <1>a, <2>2 DEF Accounts
  <2>4. Behind(n, m, 0)
    <3>1. Behind(n, Now(t), 0)
      BY <1>a, <2>2 DEF Behind, Now
    <3>2. PICK x \in Accounts : Through(n, shared[t], x) /\ Behind(x, m, 0)
      BY ONLY <1>a, <1>c, <1>d, <2>3, <3>1, 0 \in Nat, ThroughKeeps
    <3>3. n[1] <= x[1]
      BY ONLY <1>a, <2>3, <3>2, ThroughCounts
    <3>4. x[1] <= m[1] /\ n[1] \in Nat /\ x[1] \in Nat /\ n[2] = 0
      BY <1>d, <2>2, <2>3, <3>2 DEF Behind, Accounts
    <3> QED BY <1>d, <3>3, <3>4 DEF Behind
  <2>5. PICK y \in Accounts : Through(n, downlink[t], y) /\ Paid(t, y)'
    <3>1. /\ 0 \in Nat /\ ncc_sfn' = ncc_sfn
          /\ reboots' + lost_sof'[t] = reboots + lost_sof[t] + 0
      BY <1>a, <2>1
    <3> QED BY ONLY <1>0, <1>a, <1>c, <2>3, <2>4, <3>1, NoWorse, t \in Terminals
  <2>6. Now(t)' = n /\ Through(n, << >>, n)
    BY <2>1, <2>2, <2>3, ThroughNone DEF Now
  <2> QED BY <2>1, <2>3, <2>5, <2>6 DEF Account
<1>8. CASE NccShare \/ UNCHANGED vars
  <2>1. Same(t)
    BY <1>8 DEF Same, NccShare, vars, talVars, netVars, nccVars
  <2> QED BY <1>b, <2>1, SameAccount
<1>9. ASSUME NEW v \in Terminals,
             NccAdd(v) \/ LoseRequest(v) \/ AddInputTerminal(v) \/ LogonTimer(v)
      PROVE  Account(t)'
  <2>1. Same(t)
    BY <1>9 DEF Same, NccAdd, LoseRequest, AddInputTerminal, LogonTimer, talVars, netVars, nccVars
  <2> QED BY <1>b, <2>1, SameAccount
<1>10. ASSUME NEW v \in Terminals, v # t,
              LoseDown(v) \/ UpSof(v) \/ UpLogonResp(v) \/ DownSof(v) \/ DownSofRebooted(v)
                \/ DownLogonResp(v) \/ TalReboot(v)
       PROVE  Account(t)'
  <2>1. LoseDown(v) \/ UpSof(v) \/ UpLogonResp(v) => Same(t)
    BY <1>0, <1>10, ZenonT(60) DEF Same, LoseDown, UpSof, UpLogonResp, TalTypes, NetTypes, talVars, nccVars
  <2>2. DownSof(v) \/ DownSofRebooted(v) => Same(t)
    BY <1>0, <1>10 DEF Same, DownSof, DownSofRebooted, TalTypes, NetTypes, netVars, nccVars
  <2>3. DownLogonResp(v) \/ TalReboot(v) => Same(t)
    BY <1>0, <1>10 DEF Same, DownLogonResp, TalReboot, TalTypes, NetTypes, netVars, nccVars
  <2> QED BY <1>b, <1>10, <2>1, <2>2, <2>3, SameAccount
<1> QED BY <1>1, <1>2, <1>3, <1>4, <1>5, <1>6, <1>7, <1>8, <1>9, <1>10 DEF Next

-----------------------------------------------------------------------------
(* The theorems *)

LEMMA Invariance == Spec => []IInv
<1>1. IInv /\ [Next]_vars => IInv'
  BY TypeStep, UnderWayStep, AnswersStep, OwnEntryStep DEF IInv
<1> QED BY InitInv, <1>1, PTL DEF Spec

(* The variables of Logon keep their types: the superframe numbers of      *)
(* terminals and NCC stay within time_sf_t.                                *)
THEOREM TypeCorrect == Spec => []TypeOK
<1>1. IInv => TypeOK
  BY DEF IInv
<1> QED BY <1>1, Invariance, PTL

(* BlockDvbTal::Downward::handleLogonResp: a terminal set to running by    *)
(* the present NCC is in its DAMA controller and FMT lists, for any number *)
(* of restarts, of repeated requests and of answers still under way.       *)
THEOREM RunningTerminalsAreRegistered == Spec => []RunningIsRegistered
<1>1. IInv => RunningIsRegistered
  BY DEF IInv, UnderWay, DamaIsKnownToFmt, Answers, RunningIsRegistered
<1> QED BY <1>1, Invariance, PTL

(* SpotUpward::onRcvLogonReq adds a terminal to the FMT lists before its   *)
(* request reaches DamaCtrl::hereIsLogon in the other thread.              *)
THEOREM DamaTerminalsHaveFmt == Spec => []DamaIsKnownToFmt
<1>1. IInv => DamaIsKnownToFmt
  BY DEF IInv, UnderWay
<1> QED BY <1>1, Invariance, PTL

(* BlockDvbTal::Upward shares no SOF before it has begun to add the entry  *)
(* of the terminal, whose C/N Downward reads to build a SAC.               *)
THEOREM SofComesAfterFmt == Spec => []SofFindsFmt
<1>1. IInv => SofFindsFmt
  <2> SUFFICES ASSUME IInv, NEW t \in Terminals,
                      NEW i \in DOMAIN shared[t], shared[t][i].type = "Sof"
               PROVE  up_state[t] = "running" /\ (input_sts[t] \/ adding[t])
    BY DEF SofFindsFmt
  <2>1. shared[t] # << >>
    OBVIOUS
  <2> QED BY <2>1 DEF IInv, OwnEntry
<1> QED BY <1>1, Invariance, PTL
(* BlockDvbTal::Downward::handleStartOfFrame: a terminal takes the NCC for *)
(* rebooted at most once for each restart and for each lost SOF, for any   *)
(* number of superframes, of losses and of restarts of either side: the    *)
(* wrap of the number is never one.                                        *)
THEOREM NoAlarmIsFalse == Spec => []AlarmsAreAccounted
<1>1. Ledger /\ IInv => AlarmsAreAccounted
  <2> SUFFICES ASSUME Ledger, TypeOK, NEW t \in Terminals
               PROVE  alarms[t] <= reboots + lost_sof[t]
    BY DEF IInv, AlarmsAreAccounted
  <2>1. PICK m \in Accounts, q \in Accounts : /\ Through(Now(t), shared[t], m)
                                              /\ Through(m, downlink[t], q)
                                              /\ Paid(t, q)
    BY DEF Ledger, Account
  <2>2. /\ shared[t] \in Seq(Messages) /\ downlink[t] \in Seq(Messages)
        /\ alarms[t] \in Nat /\ sfn[t] \in Nat /\ reboots \in Nat /\ lost_sof[t] \in Nat
    BY LogonAssumption DEF TypeOK, TalTypes, NetTypes, NccTypes
  <2>3. PICK p \in Accounts : p = Now(t)
    BY <2>2 DEF Accounts, Now
  <2>4. p[1] <= m[1] /\ m[1] <= q[1]
    BY ONLY <2>1, <2>2, <2>3, ThroughCounts
  <2>5. p[1] = alarms[t] /\ m[1] \in Nat /\ q[1] \in Nat
    BY <2>3 DEF Now, Accounts
  <2>6. q[1] <= reboots + lost_sof[t]
    BY <2>1, <2>2, <2>5 DEF Paid
  <2> QED BY <2>2, <2>4, <2>5, <2>6
<1>2. IInv /\ Ledger /\ [Next]_vars => Ledger'
  BY LedgerStep
<1> QED BY <1>1, <1>2, Invariance, InitLedger, PTL DEF Spec
=============================================================================
