-------------------------- MODULE RelayFloorProofs --------------------------
(***************************************************************************)
(* Proofs about RelayFloor, for every set of sessions and every setting of *)
(* the timeouts: its type correctness, that it implements the abstract     *)
(* floor of ChannelFloor, that it refuses nobody without cause, and what   *)
(* the transmit timeout grants a speaker in air time and notices.          *)
(***************************************************************************)
EXTENDS MCRelayFloor, MCTransmitLimit, TLAPS

-----------------------------------------------------------------------------
(* Ages. *)

\* An age stays within its cap as it grows.
LEMMA OlderType ==
    ASSUME NEW cap \in Nat, NEW a \in AgeUpTo(cap)
    PROVE  Older(a, cap) \in AgeUpTo(cap)
  BY DEF Older, AgeUpTo, Unset

\* A fresh age and no age are within every cap.
LEMMA AgeZeroUnset ==
    ASSUME NEW cap \in Nat
    PROVE  0 \in AgeUpTo(cap) /\ Unset \in AgeUpTo(cap)
  BY DEF AgeUpTo

\* What the mixer keeps of a speaker stays well typed when a packet refreshes it
\* and when it ages.
LEMMA StreamType ==
    /\ NoStream \in Stream
    /\ \A n \in 0 .. MaxBuffered : [at |-> 0, buffered |-> n] \in Stream
    /\ \A st \in Stream : [st EXCEPT !.at = Older(@, EofTimeout + 1)] \in Stream
    /\ \A st \in Stream : st.buffered \in 0 .. MaxBuffered
  <1>1. EofTimeout + 1 \in Nat /\ MaxBuffered \in Nat
    BY FloorAssumption
  <1>2. NoStream \in Stream
    BY <1>1, AgeZeroUnset DEF NoStream, Stream
  <1>3. \A n \in 0 .. MaxBuffered : [at |-> 0, buffered |-> n] \in Stream
    BY <1>1, AgeZeroUnset DEF Stream
  <1>4. \A st \in Stream : [st EXCEPT !.at = Older(@, EofTimeout + 1)] \in Stream
    <2> SUFFICES ASSUME NEW st \in Stream
                 PROVE  [st EXCEPT !.at = Older(@, EofTimeout + 1)] \in Stream
      OBVIOUS
    <2>1. st.at \in AgeUpTo(EofTimeout + 1)
      BY DEF Stream
    <2>2. Older(st.at, EofTimeout + 1) \in AgeUpTo(EofTimeout + 1)
      BY <1>1, <2>1, OlderType
    <2> QED
      BY <2>2 DEF Stream
  <1>5. \A st \in Stream : st.buffered \in 0 .. MaxBuffered
    BY DEF Stream
  <1> QED
    BY <1>2, <1>3, <1>4, <1>5

-----------------------------------------------------------------------------
(* Type correctness.  Two helpers that several actions share come first. *)

\* Deleting a session's transmit-timeout entries keeps their types (markEOF).
LEMMA ForgetTxType ==
    ASSUME TypeOK, NEW s \in Session, ForgetTx(s)
    PROVE  /\ txStartedAt' \in [Session -> AgeUpTo(TransmitTimeout)]
           /\ txLastStopNoticeAt' \in [Session -> AgeUpTo(NoticeGap)]
           /\ txForceStopped' \in [Session -> BOOLEAN]
           /\ txCountdownNotified' \in [Session -> BOOLEAN]
  BY FloorAssumption, AgeZeroUnset DEF TypeOK, ForgetTx

\* udpReader moves to another step of the same packet.
LEMMA UdpGotoType ==
    ASSUME TypeOK, udp.sid \in Session, NEW step \in UdpStep, UdpGoto(step)
    PROVE  /\ udp' \in [step : UdpStep, sid : Session \union {NoSession}]
           /\ udp'.sid \in Session
  BY DEF TypeOK, UdpGoto

\* udpReader is done with its packet.
LEMMA UdpDoneType ==
    ASSUME UdpDone
    PROVE  /\ udp' \in [step : UdpStep, sid : Session \union {NoSession}]
           /\ udp'.step = "read"
  BY DEF UdpDone, UdpStep

\* Joining and leaving, step by step (wsHandler).
LEMMA WsStepsKeepType ==
    ASSUME TypeOK, NEW s \in Session, WsNext(s)
    PROVE  TypeOK'
  <1>1. CASE WsSetChannel(s)
    BY <1>1 DEF TypeOK, WsSetChannel, WsStep, busyVars, txVars
  <1>2. CASE AddParticipant(s)
    BY <1>2 DEF TypeOK, AddParticipant, WsStep, busyVars, txVars
  <1>3. CASE WsRemoveClient(s)
    BY <1>3 DEF TypeOK, WsRemoveClient, WsStep, busyVars, txVars
  <1>4. CASE RemoveParticipant(s)
    BY <1>4 DEF TypeOK, RemoveParticipant, WsStep, busyVars, txVars
  <1>5. CASE RemoveParticipantTx(s)
    <2>1. ForgetTx(s)
      BY <1>5 DEF RemoveParticipantTx
    <2> QED
      BY <1>5, <2>1, ForgetTxType DEF TypeOK, RemoveParticipantTx, WsStep, busyVars
  <1>6. CASE RemoveParticipantBusy(s)
    <2>1. Unset \in AgeUpTo(BusyTimeout)
      BY FloorAssumption, AgeZeroUnset
    <2> QED
      BY <1>6, <2>1 DEF TypeOK, RemoveParticipantBusy, ResetBusyHold, WsStep, busyVars, txVars
  <1> QED
    BY <1>1, <1>2, <1>3, <1>4, <1>5, <1>6 DEF WsNext

\* The transmit-timeout gate (canAcceptTxPacket under txMu).
LEMMA TxGateKeepsType ==
    ASSUME TypeOK, TxGate
    PROVE  TypeOK'
  <1> DEFINE s == udp.sid
  <1>1. s \in Session
    BY DEF TypeOK, TxGate
  <1>2. /\ UNCHANGED <<ws, participants, busyVars, input, states, mixer>>
        /\ GateOpen(s) \/ GateStart(s) \/ GateRefuse(s) \/ GatePass(s)
    BY DEF TxGate
  <1>3. {"floor", "stop", "countdown"} \subseteq UdpStep
    BY DEF UdpStep
  <1>4. 0 \in AgeUpTo(TransmitTimeout) /\ 0 \in AgeUpTo(NoticeGap)
    BY FloorAssumption, AgeZeroUnset
  <1> DEFINE TxType ==
        /\ txStartedAt \in [Session -> AgeUpTo(TransmitTimeout)]
        /\ txLastStopNoticeAt \in [Session -> AgeUpTo(NoticeGap)]
        /\ txForceStopped \in [Session -> BOOLEAN]
        /\ txCountdownNotified \in [Session -> BOOLEAN]
  <1> DEFINE UdpType ==
        /\ udp \in [step : UdpStep, sid : Session \union {NoSession}]
        /\ udp.step # "read" => udp.sid \in Session
  <1>5. CASE GateOpen(s)
    <2>1. TxType'
      BY <1>5 DEF TypeOK, GateOpen, txVars
    <2>2. UdpType'
      BY <1>1, <1>3, <1>5, UdpGotoType DEF GateOpen
    <2> QED
      BY <1>2, <2>1, <2>2 DEF TypeOK, busyVars
  <1>6. CASE GateStart(s)
    <2>1. TxType'
      BY <1>4, <1>6 DEF TypeOK, GateStart
    <2>2. UdpType'
      BY <1>1, <1>3, <1>6, UdpGotoType DEF GateStart
    <2> QED
      BY <1>2, <2>1, <2>2 DEF TypeOK, busyVars
  <1>7. CASE GateRefuse(s)
    <2>1. TxType'
      <3>1. /\ txForceStopped' = [txForceStopped EXCEPT ![s] = TRUE]
            /\ UNCHANGED <<txStartedAt, txCountdownNotified>>
        BY <1>7 DEF GateRefuse
      <3>2. \/ txLastStopNoticeAt' = [txLastStopNoticeAt EXCEPT ![s] = 0]
            \/ UNCHANGED txLastStopNoticeAt
        BY <1>7 DEF GateRefuse, StopNotice
      <3>3. txForceStopped' \in [Session -> BOOLEAN]
        BY <3>1 DEF TypeOK
      <3>4. txLastStopNoticeAt' \in [Session -> AgeUpTo(NoticeGap)]
        <4>1. CASE UNCHANGED txLastStopNoticeAt
          BY <4>1 DEF TypeOK
        <4>2. CASE txLastStopNoticeAt' = [txLastStopNoticeAt EXCEPT ![s] = 0]
          BY <1>4, <4>2 DEF TypeOK
        <4> QED
          BY <3>2, <4>1, <4>2
      <3> QED
        BY <3>1, <3>3, <3>4 DEF TypeOK
    <2>2. UdpType'
      BY <1>1, <1>3, <1>7, UdpGotoType, UdpDoneType DEF GateRefuse, StopNotice
    <2> QED
      BY <1>2, <2>1, <2>2 DEF TypeOK, busyVars
  <1>8. CASE GatePass(s)
    <2>1. TxType'
      BY <1>8 DEF TypeOK, GatePass
    <2>2. UdpType'
      BY <1>1, <1>3, <1>8, UdpGotoType DEF GatePass
    <2> QED
      BY <1>2, <2>1, <2>2 DEF TypeOK, busyVars
  <1> QED
    BY <1>2, <1>5, <1>6, <1>7, <1>8

\* The busy-mode decision (tryAcceptPacket under busyMu).
LEMMA TryAcceptPacketKeepsType ==
    ASSUME TypeOK, TryAcceptPacket
    PROVE  TypeOK'
  <1> DEFINE s == udp.sid
  <1>1. s \in Session
    BY DEF TypeOK, TryAcceptPacket
  <1>2. UNCHANGED <<ws, participants, txVars, input, states, mixer>>
    BY DEF TryAcceptPacket
  <1>3. {"enqueue", "unlock"} \subseteq UdpStep
    BY DEF UdpStep
  <1>4. 0 \in AgeUpTo(Hangover + 1) /\ 0 \in AgeUpTo(BusyTimeout)
    BY FloorAssumption, AgeZeroUnset
  <1> DEFINE BusyType ==
        /\ busySessionID \in Session \union {NoSession}
        /\ busyLastPacketAt \in AgeUpTo(Hangover + 1)
        /\ busyStartedAt \in AgeUpTo(BusyTimeout)
        /\ busyExplicitEOF \in BOOLEAN /\ busyParallelAllowed \in BOOLEAN
  <1> DEFINE UdpType ==
        /\ udp \in [step : UdpStep, sid : Session \union {NoSession}]
        /\ udp.step # "read" => udp.sid \in Session
  <1>5. CASE BusyMode /\ TakeFloor(s)
    <2>1. BusyType'
      BY <1>1, <1>4, <1>5 DEF TypeOK, TakeFloor
    <2>2. UdpType'
      BY <1>1, <1>3, <1>5, UdpGotoType DEF TakeFloor
    <2> QED
      BY <1>2, <2>1, <2>2 DEF TypeOK, txVars
  <1>6. CASE BusyMode /\ KeepFloor(s)
    <2>1. BusyType'
      BY <1>4, <1>6 DEF TypeOK, KeepFloor, ParallelDue
    <2>2. UdpType'
      <3>1. (IF ParallelDue THEN "unlock" ELSE "enqueue") \in UdpStep
        BY <1>3
      <3> QED
        BY <1>1, <1>6, <3>1, UdpGotoType DEF KeepFloor
    <2> QED
      BY <1>2, <2>1, <2>2 DEF TypeOK, txVars
  <1>7. CASE BusyMode /\ RefuseBusy(s)
    <2>1. BusyType'
      BY <1>7 DEF TypeOK, RefuseBusy, busyVars
    <2>2. UdpType'
      BY <1>7, UdpDoneType DEF RefuseBusy
    <2> QED
      BY <1>2, <2>1, <2>2 DEF TypeOK, txVars
  <1>8. CASE ~BusyMode /\ UdpGoto("enqueue") /\ UNCHANGED busyVars
    <2>1. UdpType'
      BY <1>1, <1>3, <1>8, UdpGotoType
    <2> QED
      BY <1>2, <1>8, <2>1 DEF TypeOK, txVars, busyVars
  <1> QED
    BY <1>5, <1>6, <1>7, <1>8 DEF TryAcceptPacket

\* Every step of udpReader.
LEMMA UdpStepsKeepType ==
    ASSUME TypeOK, UdpNext
    PROVE  TypeOK'
  <1>1. ASSUME NEW s \in Session, RoutePacket(s)
        PROVE  TypeOK'
    BY <1>1 DEF TypeOK, RoutePacket, UdpStep, busyVars, txVars
  <1>2. CASE TxGate
    BY <1>2, TxGateKeepsType
  <1>3. CASE NotifyTxStop
    BY <1>3, UdpDoneType DEF TypeOK, NotifyTxStop, busyVars, txVars
  <1>4. CASE NotifyTxCountdownStart
    BY <1>4 DEF TypeOK, NotifyTxCountdownStart, UdpGoto, UdpStep, busyVars, txVars
  <1>5. CASE TryAcceptPacket
    BY <1>5, TryAcceptPacketKeepsType
  <1>6. CASE NotifyBusyTimeoutElapsed
    BY <1>6 DEF TypeOK, NotifyBusyTimeoutElapsed, UdpGoto, UdpStep, busyVars, txVars
  <1>7. CASE PushInput
    <2>1. udp.sid \in Session /\ InputCap \in Nat \ {0}
      BY <1>7, FloorAssumption DEF TypeOK, PushInput
    <2>2. input' \in Seq(Session) /\ Len(input') <= InputCap
      BY <1>7, <2>1 DEF TypeOK, PushInput
    <2> QED
      BY <1>7, <2>2, UdpDoneType DEF TypeOK, PushInput, busyVars, txVars
  <1>8. CASE MarkEOFTx
    <2>1. udp.sid \in Session /\ ForgetTx(udp.sid)
      BY <1>8 DEF TypeOK, MarkEOFTx
    <2>2. udp' \in [step : UdpStep, sid : Session \union {NoSession}] /\ udp'.sid \in Session
      BY <1>8, <2>1, UdpGotoType DEF MarkEOFTx, UdpStep
    <2> QED
      BY <1>8, <2>1, <2>2, ForgetTxType DEF TypeOK, MarkEOFTx, busyVars
  <1>9. CASE MarkBusyEOF
    <2>1. 0 \in AgeUpTo(Hangover + 1)
      BY FloorAssumption, AgeZeroUnset
    <2> QED
      BY <1>9, <2>1, UdpDoneType DEF TypeOK, MarkBusyEOF, busyVars, txVars
  <1> QED
    BY <1>1, <1>2, <1>3, <1>4, <1>5, <1>6, <1>7, <1>8, <1>9 DEF UdpNext

\* Every step of the mixer loop.
LEMMA MixerStepsKeepType ==
    ASSUME TypeOK, MixerNext
    PROVE  TypeOK'
  <1>1. CASE MixerInput
    <2> DEFINE s == Head(input)
               n == states[s].buffered + 1
    <2>1. s \in Session /\ Tail(input) \in Seq(Session) /\ Len(Tail(input)) <= Len(input)
      BY <1>1 DEF TypeOK, MixerInput
    <2>2. Len(input') <= InputCap
      BY <1>1, <2>1, FloorAssumption DEF TypeOK, MixerInput
    <2>3. (IF n > MaxBuffered THEN MaxBuffered ELSE n) \in 0 .. MaxBuffered
      <3>1. states[s] \in Stream
        BY <2>1 DEF TypeOK
      <3>2. states[s].buffered \in 0 .. MaxBuffered
        BY <3>1, StreamType
      <3>3. MaxBuffered \in Nat
        BY FloorAssumption
      <3> HIDE DEF s
      <3> QED
        BY <3>2, <3>3
    <2>4. [at |-> 0, buffered |-> IF n > MaxBuffered THEN MaxBuffered ELSE n] \in Stream
      BY <2>3, StreamType
    <2>5. states' = [states EXCEPT ![s] =
                        [at |-> 0, buffered |-> IF n > MaxBuffered THEN MaxBuffered ELSE n]]
      BY <1>1 DEF MixerInput
    <2>6. states' \in [Session -> Stream]
      BY <2>4, <2>5 DEF TypeOK
    <2> QED
      BY <1>1, <2>1, <2>2, <2>6 DEF TypeOK, MixerInput, busyVars, txVars
  <1>2. CASE MixerTick
    <2>1. PICK played \in SUBSET {s \in Session : states[s].buffered > 0} :
             states' = [s \in Session |->
                 IF s \in played
                 THEN [at |-> 0, buffered |-> states[s].buffered - 1]
                 ELSE states[s]]
      BY <1>2 DEF MixerTick
    <2>2. ASSUME NEW s \in played
          PROVE  [at |-> 0, buffered |-> states[s].buffered - 1] \in Stream
      <3>1. states[s].buffered - 1 \in 0 .. MaxBuffered
        <4>1. states[s] \in Stream /\ states[s].buffered > 0
          BY <2>2 DEF TypeOK
        <4>2. states[s].buffered \in 0 .. MaxBuffered
          BY <4>1, StreamType
        <4>3. MaxBuffered \in Nat
          BY FloorAssumption
        <4> QED
          BY <4>1, <4>2, <4>3
      <3> QED
        BY <3>1, StreamType
    <2>3. states' \in [Session -> Stream]
      BY <2>1, <2>2 DEF TypeOK
    <2> QED
      BY <1>2, <2>3 DEF TypeOK, MixerTick, busyVars, txVars
  <1>3. CASE CleanupStreamStates
    <2>1. /\ Unset \in AgeUpTo(TransmitTimeout) /\ Unset \in AgeUpTo(NoticeGap)
          /\ NoStream \in Stream
      BY FloorAssumption, AgeZeroUnset, StreamType
    <2>2. states' \in [Session -> Stream]
      BY <1>3, <2>1 DEF TypeOK, CleanupStreamStates
    <2>3. /\ txStartedAt' \in [Session -> AgeUpTo(TransmitTimeout)]
          /\ txLastStopNoticeAt' \in [Session -> AgeUpTo(NoticeGap)]
      BY <1>3, <2>1 DEF TypeOK, CleanupStreamStates
    <2>4. txForceStopped' \in [Session -> BOOLEAN]
      BY <1>3 DEF TypeOK, CleanupStreamStates
    <2>5. mixer' \in [step : {"select", "clean"}, seen : SUBSET Session, ticked : BOOLEAN]
      BY <1>3 DEF TypeOK, CleanupStreamStates
    <2> QED
      BY <1>3, <2>2, <2>3, <2>4, <2>5 DEF TypeOK, CleanupStreamStates, busyVars
  <1> QED
    BY <1>1, <1>2, <1>3 DEF MixerNext

\* A packet period passes.
LEMMA TickKeepsType ==
    ASSUME TypeOK, Tick
    PROVE  TypeOK'
  <1>1. {Hangover + 1, BusyTimeout, TransmitTimeout, NoticeGap} \subseteq Nat
    BY FloorAssumption
  <1>2. /\ busyLastPacketAt' \in AgeUpTo(Hangover + 1)
        /\ busyStartedAt' \in AgeUpTo(BusyTimeout)
    BY <1>1, OlderType DEF TypeOK, Tick
  <1>3. txStartedAt' \in [Session -> AgeUpTo(TransmitTimeout)]
    <2>1. \A s \in Session : Older(txStartedAt[s], TransmitTimeout) \in AgeUpTo(TransmitTimeout)
      BY <1>1, OlderType DEF TypeOK
    <2> QED
      BY <2>1 DEF Tick
  <1>4. txLastStopNoticeAt' \in [Session -> AgeUpTo(NoticeGap)]
    <2>1. \A s \in Session : Older(txLastStopNoticeAt[s], NoticeGap) \in AgeUpTo(NoticeGap)
      BY <1>1, OlderType DEF TypeOK
    <2> QED
      BY <2>1 DEF Tick
  <1>5. states' \in [Session -> Stream]
    <2>1. \A s \in Session : [states[s] EXCEPT !.at = Older(@, EofTimeout + 1)] \in Stream
      BY StreamType DEF TypeOK
    <2> QED
      BY <2>1 DEF Tick
  <1>6. mixer' \in [step : {"select", "clean"}, seen : SUBSET Session, ticked : BOOLEAN]
    BY DEF TypeOK, Tick
  <1> QED
    BY <1>2, <1>3, <1>4, <1>5, <1>6 DEF TypeOK, Tick

\* A new channel is well typed (newChannelMixer).
LEMMA InitType == Init => TypeOK
  <1> SUFFICES ASSUME Init PROVE TypeOK
    OBVIOUS
  <1>1. /\ Unset \in AgeUpTo(Hangover + 1) /\ Unset \in AgeUpTo(BusyTimeout)
        /\ Unset \in AgeUpTo(TransmitTimeout) /\ Unset \in AgeUpTo(NoticeGap)
        /\ NoStream \in Stream
    BY FloorAssumption, AgeZeroUnset, StreamType
  <1>2. input \in Seq(Session) /\ Len(input) <= InputCap
    BY FloorAssumption DEF Init
  <1> QED
    BY <1>1, <1>2 DEF Init, TypeOK, WsStep, UdpStep

\* Type correctness is inductive by itself.
LEMMA NextKeepsType == TypeOK /\ [Next]_vars => TypeOK'
  <1> SUFFICES ASSUME TypeOK, [Next]_vars PROVE TypeOK'
    OBVIOUS
  <1>1. ASSUME NEW s \in Session, WsNext(s) PROVE TypeOK'
    BY <1>1, WsStepsKeepType
  <1>2. CASE UdpNext
    BY <1>2, UdpStepsKeepType
  <1>3. CASE MixerNext
    BY <1>3, MixerStepsKeepType
  <1>4. CASE Tick
    BY <1>4, TickKeepsType
  <1>5. CASE UNCHANGED vars
    BY <1>5 DEF TypeOK, vars, busyVars, txVars
  <1> QED
    BY <1>1, <1>2, <1>3, <1>4, <1>5 DEF Next

\* Whatever the handlers interleave, every variable keeps its type: in
\* particular an age never grows past the point where the code stops telling
\* ages apart, and udpReader's pending step always names a session.
THEOREM TypeCorrect == Spec => []TypeOK
  BY InitType, NextKeepsType, PTL DEF Spec

-----------------------------------------------------------------------------
(* RelayFloor implements ChannelFloor.  What the types do not say and the   *)
(* proof needs: a session is a participant exactly while its handler is     *)
(* between addParticipant and removeParticipant, so that the hold of a      *)
(* session is reset only after it left.                                     *)

Membership == participants = {s \in Session : ws[s] \in {"joined", "unlisted"}}

\* Membership holds at first and no step disturbs it.
LEMMA MembershipInductive ==
    /\ Init => Membership
    /\ TypeOK /\ Membership /\ [Next]_vars => Membership'
  <1>1. Init => Membership
    BY DEF Init, Membership
  <1>2. ASSUME TypeOK, Membership, [Next]_vars
        PROVE  Membership'
    <2>1. CASE UNCHANGED <<ws, participants>>
      BY <1>2, <2>1 DEF Membership
    <2>2. ASSUME NEW s \in Session, WsNext(s)
          PROVE  Membership'
      <3>1. ws \in [Session -> WsStep]
        BY <1>2 DEF TypeOK
      <3>2. CASE WsSetChannel(s)
        BY <1>2, <3>1, <3>2 DEF Membership, WsSetChannel
      <3>3. CASE AddParticipant(s)
        BY <1>2, <3>1, <3>3 DEF Membership, AddParticipant
      <3>4. CASE WsRemoveClient(s)
        BY <1>2, <3>1, <3>4 DEF Membership, WsRemoveClient
      <3>5. CASE RemoveParticipant(s)
        BY <1>2, <3>1, <3>5 DEF Membership, RemoveParticipant
      <3>6. CASE RemoveParticipantTx(s)
        BY <1>2, <3>1, <3>6 DEF Membership, RemoveParticipantTx
      <3>7. CASE RemoveParticipantBusy(s)
        BY <1>2, <3>1, <3>7 DEF Membership, RemoveParticipantBusy
      <3> QED
        BY <2>2, <3>2, <3>3, <3>4, <3>5, <3>6, <3>7 DEF WsNext
    <2>3. UdpNext => UNCHANGED <<ws, participants>>
      BY DEF UdpNext, RoutePacket, TxGate, NotifyTxStop, NotifyTxCountdownStart,
             TryAcceptPacket, NotifyBusyTimeoutElapsed, PushInput, MarkEOFTx, MarkBusyEOF
    <2>4. MixerNext => UNCHANGED <<ws, participants>>
      BY DEF MixerNext, MixerInput, MixerTick, CleanupStreamStates
    <2>5. Tick => UNCHANGED <<ws, participants>>
      BY DEF Tick
    <2>6. UNCHANGED vars => UNCHANGED <<ws, participants>>
      BY DEF vars
    <2> QED
      BY <1>2, <2>1, <2>2, <2>3, <2>4, <2>5, <2>6 DEF Next
  <1> QED
    BY <1>1, <1>2

\* Joining and leaving are Join, Leave and Vacate of the floor; only here does
\* the proof need Membership: a hold is reset after its holder has left.
LEMMA WsStepsRefine ==
    ASSUME TypeOK, Membership, NEW s \in Session, WsNext(s)
    PROVE  Floor!Next \/ UNCHANGED Floor!floorVars
  <1> USE DEF Floor!floorVars
  <1>1. CASE UNCHANGED <<participants, busyVars, udp>>
    BY <1>1 DEF Held, BusyWindowExpired, InAdmission, busyVars
  <1>2. CASE AddParticipant(s)
    <2>1. Floor!Join(s)
      BY <1>2 DEF AddParticipant, Floor!Join, Held, BusyWindowExpired, InAdmission, busyVars
    <2> QED
      BY <2>1 DEF Floor!Next
  <1>3. CASE RemoveParticipant(s)
    <2>1. Floor!Leave(s)
      BY <1>3 DEF RemoveParticipant, Floor!Leave, Held, BusyWindowExpired, InAdmission, busyVars
    <2> QED
      BY <2>1 DEF Floor!Next
  <1>4. CASE RemoveParticipantBusy(s) /\ busySessionID = s
    <2>1. s \notin participants
      BY <1>4 DEF Membership, RemoveParticipantBusy
    <2>2. Floor!Vacate
      BY <1>4, <2>1 DEF RemoveParticipantBusy, ResetBusyHold, Floor!Vacate, Held,
                        BusyWindowExpired, InAdmission
    <2> QED
      BY <2>2 DEF Floor!Next
  <1>5. CASE RemoveParticipantBusy(s) /\ busySessionID # s
    BY <1>1, <1>5 DEF RemoveParticipantBusy
  <1>6. CASE WsSetChannel(s) \/ WsRemoveClient(s) \/ RemoveParticipantTx(s)
    BY <1>1, <1>6 DEF WsSetChannel, WsRemoveClient, RemoveParticipantTx
  <1> QED
    BY <1>2, <1>3, <1>4, <1>5, <1>6 DEF WsNext

\* tryAcceptPacket grants the floor, lets its holder or, once opened, anybody
\* speak, or refuses, which the floor does not see.
LEMMA TryAcceptPacketRefines ==
    ASSUME TypeOK, TryAcceptPacket
    PROVE  Floor!Next \/ UNCHANGED Floor!floorVars
  <1> DEFINE s == udp.sid
  <1>1. /\ s \in Session /\ s # NoSession
        /\ InAdmission = NoSession
        /\ UNCHANGED participants
    BY FloorAssumption DEF TypeOK, TryAcceptPacket, InAdmission
  <1>2. ASSUME NEW step \in {"enqueue", "unlock"}, UdpGoto(step)
        PROVE  InAdmission' = s
    BY <1>2 DEF TypeOK, UdpGoto, InAdmission
  <1>3. CASE BusyMode /\ TakeFloor(s)
    <2>1. InAdmission' = s
      BY <1>2, <1>3 DEF TakeFloor
    <2>2. Held'
      BY <1>1, <1>3, FloorAssumption DEF TakeFloor, Held, BusyWindowExpired, PacketDur
    <2>3. ~Held \/ busySessionID \notin participants
      BY <1>3 DEF TakeFloor, FloorFree, Held
    <2>4. Floor!Grant(s)
      BY <1>1, <1>3, <2>1, <2>2, <2>3 DEF TakeFloor, Floor!Grant
    <2> QED
      BY <1>1, <2>4 DEF Floor!Next
  <1>4. CASE BusyMode /\ KeepFloor(s)
    <2>1. InAdmission' = s
      BY <1>2, <1>4 DEF KeepFloor
    <2>2. Held /\ busySessionID \in participants
      BY <1>4 DEF KeepFloor, FloorFree, Held
    <2>3. Held'
      BY <1>4, <2>2, FloorAssumption DEF KeepFloor, Held, BusyWindowExpired, PacketDur
    <2>4. /\ s = busySessionID \/ busyParallelAllowed'
          /\ busyParallelAllowed => busyParallelAllowed'
          /\ UNCHANGED busySessionID
      BY <1>4 DEF KeepFloor
    <2>5. Floor!Speak(s)
      BY <1>1, <2>1, <2>2, <2>3, <2>4 DEF Floor!Speak
    <2> QED
      BY <1>1, <2>5 DEF Floor!Next
  <1>5. CASE BusyMode /\ RefuseBusy(s)
    <2>1. InAdmission' = NoSession
      BY <1>5 DEF RefuseBusy, UdpDone, InAdmission
    <2>2. UNCHANGED <<Held, busySessionID, busyParallelAllowed>>
      BY <1>5 DEF RefuseBusy, busyVars, Held, BusyWindowExpired
    <2> QED
      BY <1>1, <2>1, <2>2 DEF Floor!floorVars
  <1>6. CASE ~BusyMode /\ UdpGoto("enqueue") /\ UNCHANGED busyVars
    <2>1. InAdmission' = s
      BY <1>2, <1>6
    <2>2. UNCHANGED <<Held, busySessionID, busyParallelAllowed>>
      BY <1>6 DEF busyVars, Held, BusyWindowExpired
    <2>3. Floor!Speak(s)
      BY <1>1, <1>6, <2>1, <2>2 DEF Floor!Speak
    <2> QED
      BY <1>1, <2>3 DEF Floor!Next
  <1> QED
    BY <1>3, <1>4, <1>5, <1>6 DEF TryAcceptPacket

\* udpReader's other steps queue the admitted packet, renew a hold at an EOF
\* marker (Linger), or are invisible.
LEMMA UdpStepsRefine ==
    ASSUME TypeOK, UdpNext
    PROVE  Floor!Next \/ UNCHANGED Floor!floorVars
  <1>1. CASE TryAcceptPacket
    BY <1>1, TryAcceptPacketRefines
  <1>2. CASE PushInput
    <2>1. Floor!Forward
      BY <1>2 DEF PushInput, UdpDone, Floor!Forward, Held, BusyWindowExpired, InAdmission,
                  busyVars
    <2> QED
      BY <2>1 DEF Floor!Next
  <1>3. CASE MarkBusyEOF
    <2>1. /\ UNCHANGED <<participants, InAdmission>>
          /\ udp.sid \in Session /\ udp.sid # NoSession
      BY <1>3, FloorAssumption DEF TypeOK, MarkBusyEOF, UdpDone, InAdmission
    <2>2. CASE BusyMode /\ busySessionID = udp.sid
      <3>1. /\ busyLastPacketAt' = 0 /\ UNCHANGED <<busySessionID, busyParallelAllowed>>
        BY <1>3, <2>2 DEF MarkBusyEOF
      <3>2. Held'
        BY <2>1, <2>2, <3>1, FloorAssumption DEF Held, BusyWindowExpired, PacketDur
      <3>3. Floor!Linger
        BY <2>1, <2>2, <3>1, <3>2 DEF Floor!Linger
      <3> QED
        BY <3>3 DEF Floor!Next
    <2>3. CASE ~(BusyMode /\ busySessionID = udp.sid)
      BY <1>3, <2>1, <2>3 DEF MarkBusyEOF, busyVars, Held, BusyWindowExpired, Floor!floorVars
    <2> QED
      BY <2>2, <2>3
  <1>4. CASE NotifyBusyTimeoutElapsed
    <2>1. UNCHANGED InAdmission
      BY <1>4 DEF TypeOK, NotifyBusyTimeoutElapsed, UdpGoto, InAdmission
    <2> QED
      BY <1>4, <2>1 DEF NotifyBusyTimeoutElapsed, busyVars, Held, BusyWindowExpired,
                        Floor!floorVars
  <1>5. CASE TxGate
    <2>1. UNCHANGED InAdmission
      BY <1>5 DEF TypeOK, TxGate, GateOpen, GateStart, GateRefuse, GatePass, StopNotice,
                  UdpGoto, UdpDone, InAdmission
    <2> QED
      BY <1>5, <2>1 DEF TxGate, busyVars, Held, BusyWindowExpired, Floor!floorVars
  <1>6. ASSUME \/ \E s \in Session : RoutePacket(s)
               \/ NotifyTxStop \/ NotifyTxCountdownStart \/ MarkEOFTx
        PROVE  Floor!Next \/ UNCHANGED Floor!floorVars
    <2>1. UNCHANGED <<participants, busyVars, InAdmission>>
      BY <1>6 DEF TypeOK, RoutePacket, NotifyTxStop, NotifyTxCountdownStart, MarkEOFTx,
                  UdpGoto, UdpDone, InAdmission
    <2> QED
      BY <2>1 DEF busyVars, Held, BusyWindowExpired, Floor!floorVars
  <1> QED
    BY <1>1, <1>2, <1>3, <1>4, <1>5, <1>6 DEF UdpNext

\* Time can only make a hold lapse.
LEMMA TickRefines ==
    ASSUME TypeOK, Tick
    PROVE  Floor!Next \/ UNCHANGED Floor!floorVars
  <1>1. /\ UNCHANGED <<participants, busySessionID, busyExplicitEOF, busyParallelAllowed,
                       InAdmission>>
        /\ busyLastPacketAt' = Older(busyLastPacketAt, Hangover + 1)
    BY DEF Tick, InAdmission
  <1>2. Held' => Held
    <2>1. /\ busyLastPacketAt \in Int /\ busyLastPacketAt' \in Int
          /\ busyLastPacketAt' >= busyLastPacketAt
      BY <1>1, FloorAssumption DEF TypeOK, AgeUpTo, Older, Unset
    <2>2. (IF busyExplicitEOF THEN PacketDur ELSE Hangover) \in Int
      BY FloorAssumption DEF PacketDur
    <2>3. \A limit \in Int : busyLastPacketAt > limit => busyLastPacketAt' > limit
      BY <2>1
    <2>4. BusyWindowExpired => BusyWindowExpired'
      BY <1>1, <2>2, <2>3 DEF BusyWindowExpired, PacketDur
    <2> QED
      BY <2>4 DEF Held
  <1>3. CASE Held'
    BY <1>1, <1>2, <1>3 DEF Floor!floorVars, Held
  <1>4. CASE ~Held'
    <2>1. Floor!Lapse
      BY <1>1, <1>4 DEF Floor!Lapse, Held
    <2> QED
      BY <2>1 DEF Floor!Next
  <1> QED
    BY <1>3, <1>4

\* A new channel has a free floor.
LEMMA InitRefines == Init => Floor!Init
  BY DEF Init, Floor!Init, Held, BusyWindowExpired, InAdmission

\* Every step of the relay is a step of the floor or invisible to it.
LEMMA NextRefines ==
    TypeOK /\ Membership /\ [Next]_vars => [Floor!Next]_(Floor!floorVars)
  <1> SUFFICES ASSUME TypeOK, Membership, [Next]_vars
               PROVE  Floor!Next \/ UNCHANGED Floor!floorVars
    OBVIOUS
  <1>1. ASSUME NEW s \in Session, WsNext(s)
        PROVE  Floor!Next \/ UNCHANGED Floor!floorVars
    BY <1>1, WsStepsRefine
  <1>2. CASE UdpNext
    BY <1>2, UdpStepsRefine
  <1>3. CASE MixerNext \/ UNCHANGED vars
    <2>1. UNCHANGED <<participants, busyVars, udp>>
      BY <1>3 DEF MixerNext, MixerInput, MixerTick, CleanupStreamStates, vars
    <2> QED
      BY <2>1 DEF busyVars, Held, BusyWindowExpired, InAdmission, Floor!floorVars
  <1>4. CASE Tick
    BY <1>4, TickRefines
  <1> QED
    BY <1>1, <1>2, <1>3, <1>4 DEF Next

\* The busy-mode code implements the floor: for every number of sessions, every
\* timeout and every interleaving of udpReader, the wsHandlers and the mixer
\* loop, each step of the relay is a step of ChannelFloor or invisible to it.
THEOREM FloorImplemented == Spec => FloorRefinement
  <1>1. Init => TypeOK /\ Membership
    BY InitType, MembershipInductive
  <1>2. TypeOK /\ Membership /\ [Next]_vars => (TypeOK /\ Membership)'
    BY NextKeepsType, MembershipInductive
  <1> QED
    BY <1>1, <1>2, InitRefines, NextRefines, PTL DEF Spec, FloorRefinement, Floor!Spec

-----------------------------------------------------------------------------
(* Who was heard.  The hold of a floor that has not been opened to all is   *)
(* no younger than what was heard of its holder.                            *)

HeardInv ==
    busySessionID # NoSession =>
       /\ busyLastPacketAt # Unset
       /\ ~busyParallelAllowed /\ busyLastPacketAt <= Hangover
            => heard[busySessionID] \in 0 .. busyLastPacketAt

LEMMA HeardKept ==
    ASSUME TypeOK, HeardInv, HNext, UNCHANGED busyVars, ~Ticked
    PROVE  HeardInv'
  <1>1. busySessionID \in Session \union {NoSession} /\ busyLastPacketAt \in Int
    BY FloorAssumption DEF TypeOK, AgeUpTo, Unset
  <1>2. /\ busySessionID' = busySessionID /\ busyLastPacketAt' = busyLastPacketAt
        /\ busyParallelAllowed' = busyParallelAllowed
    BY DEF busyVars
  <1>3. \A s \in Session : heard'[s] = 0 \/ heard'[s] = heard[s]
    BY DEF HNext, HeardNext
  <1> QED
    BY <1>1, <1>2, <1>3, FloorAssumption DEF TypeOK, HeardInv, AgeUpTo, Unset

LEMMA TryAcceptPacketHeard ==
    ASSUME TypeOK, HeardInv, HNext, TryAcceptPacket
    PROVE  HeardInv'
  <1> DEFINE s == udp.sid
  <1>1. s \in Session /\ s # NoSession /\ udp.step = "floor" /\ ~Ticked
    BY FloorAssumption DEF TypeOK, TryAcceptPacket, Ticked
  <1>2. CASE TakeFloor(s) \/ KeepFloor(s)
    <2>1. udp'.step \in {"unlock", "enqueue"}
      BY <1>1, <1>2 DEF TypeOK, TakeFloor, KeepFloor, UdpGoto
    <2>2. heard'[s] = 0
      BY <1>1, <2>1 DEF HNext, HeardNext, Admitted
    <2>3. busyLastPacketAt' = 0 /\ (busyParallelAllowed' \/ busySessionID' = s)
      BY <1>2 DEF TakeFloor, KeepFloor
    <2> QED
      BY <2>2, <2>3 DEF HeardInv, Unset
  <1>3. CASE UNCHANGED busyVars
    BY <1>1, <1>3, HeardKept
  <1> QED
    BY <1>2, <1>3 DEF TryAcceptPacket, RefuseBusy

LEMMA MarkBusyEOFHeard ==
    ASSUME TypeOK, HeardInv, HNext, MarkBusyEOF
    PROVE  HeardInv'
  <1>1. udp.sid \in Session /\ udp.step = "eofFloor" /\ udp'.step = "read" /\ ~Ticked
    BY DEF TypeOK, MarkBusyEOF, UdpDone, Ticked
  <1>2. CASE UNCHANGED busyVars
    BY <1>1, <1>2, HeardKept
  <1>3. CASE busySessionID = udp.sid /\ busyLastPacketAt' = 0 /\ busySessionID' = busySessionID
    <2>1. heard'[udp.sid] = 0
      BY <1>1 DEF HNext, HeardNext, EndedHold
    <2> QED
      BY <1>3, <2>1 DEF HeardInv, Unset
  <1> QED
    BY <1>2, <1>3 DEF MarkBusyEOF

LEMMA TickHeard ==
    ASSUME TypeOK, HeardInv, HNext, Tick
    PROVE  HeardInv'
  <1>1. /\ busySessionID' = busySessionID /\ busyParallelAllowed' = busyParallelAllowed
        /\ busyLastPacketAt' = Older(busyLastPacketAt, Hangover + 1)
    BY DEF Tick
  <1>2. /\ busySessionID \in Session \union {NoSession}
        /\ busyLastPacketAt \in AgeUpTo(Hangover + 1) /\ Hangover \in Nat
    BY FloorAssumption DEF TypeOK
  <1>3. Ticked /\ udp' = udp /\ udp.step = "read"
    BY DEF Tick, Quiet, Ticked, TypeOK
  <1>4. \A s \in Session :
           heard'[s] = IF heard[s] >= Hangover THEN Unset ELSE Older(heard[s], Hangover)
    BY <1>3 DEF HNext, HeardNext, Admitted, EndedHold
  <1> SUFFICES ASSUME busySessionID # NoSession
               PROVE  /\ busyLastPacketAt' # Unset
                      /\ ~busyParallelAllowed /\ busyLastPacketAt' <= Hangover
                           => heard'[busySessionID] \in 0 .. busyLastPacketAt'
    BY <1>1 DEF HeardInv
  <1>5. busyLastPacketAt \in 0 .. Hangover + 1
    BY <1>2 DEF HeardInv, AgeUpTo
  <1>6. busyLastPacketAt' = IF busyLastPacketAt >= Hangover + 1
                            THEN busyLastPacketAt ELSE busyLastPacketAt + 1
    BY <1>1, <1>2, <1>5 DEF Older, Unset
  <1>7. ASSUME ~busyParallelAllowed, busyLastPacketAt' <= Hangover
        PROVE  heard'[busySessionID] \in 0 .. busyLastPacketAt'
    <2> DEFINE h == heard[busySessionID]
    <2>1. busyLastPacketAt < Hangover /\ busyLastPacketAt' = busyLastPacketAt + 1
      BY <1>2, <1>5, <1>6, <1>7
    <2>2. h \in 0 .. busyLastPacketAt
      BY <1>2, <1>5, <1>7, <2>1 DEF HeardInv
    <2>3. heard'[busySessionID] = IF h >= Hangover THEN Unset ELSE Older(h, Hangover)
      BY <1>2, <1>4
    <2> HIDE DEF h
    <2>4. heard'[busySessionID] = h + 1
      BY <1>2, <1>5, <2>1, <2>2, <2>3 DEF Older, Unset
    <2> QED
      BY <1>2, <1>5, <2>1, <2>2, <2>4
  <1> QED
    BY <1>2, <1>5, <1>6, <1>7 DEF Unset

LEMMA NextHeard == TypeOK /\ HeardInv /\ [HNext]_<<vars, heard>> => HeardInv'
  <1> SUFFICES ASSUME TypeOK, HeardInv, [HNext]_<<vars, heard>> PROVE HeardInv'
    OBVIOUS
  <1>1. CASE UNCHANGED <<vars, heard>>
    BY <1>1 DEF vars, busyVars, HeardInv
  <1>2. CASE HNext
    <2>1. CASE TryAcceptPacket
      BY <1>2, <2>1, TryAcceptPacketHeard
    <2>2. CASE MarkBusyEOF
      BY <1>2, <2>2, MarkBusyEOFHeard
    <2>3. CASE Tick
      BY <1>2, <2>3, TickHeard
    <2>4. ASSUME NEW s \in Session, RemoveParticipantBusy(s) PROVE HeardInv'
      <3>1. UNCHANGED busyVars \/ busySessionID' = NoSession
        BY <2>4 DEF RemoveParticipantBusy, ResetBusyHold
      <3>2. ~Ticked
        BY <2>4 DEF RemoveParticipantBusy, Ticked
      <3> QED
        BY <1>2, <3>1, <3>2, HeardKept DEF HeardInv
    <2>5. ASSUME UNCHANGED busyVars, ~Ticked PROVE HeardInv'
      BY <1>2, <2>5, HeardKept
    <2>6. ASSUME NEW s \in Session, WsNext(s) PROVE HeardInv'
      <3>1. RemoveParticipantBusy(s) \/ UNCHANGED <<busyVars, mixer>>
        BY <2>6 DEF WsNext, WsSetChannel, AddParticipant, WsRemoveClient,
                    RemoveParticipant, RemoveParticipantTx
      <3> QED
        BY <2>4, <2>5, <3>1 DEF Ticked
    <2>7. CASE UdpNext
      <3>1. \/ TryAcceptPacket \/ MarkBusyEOF
            \/ UNCHANGED <<busyVars, mixer>>
        BY <2>7 DEF UdpNext, RoutePacket, TxGate, NotifyTxStop, NotifyTxCountdownStart,
                    NotifyBusyTimeoutElapsed, PushInput, MarkEOFTx
      <3> QED
        BY <2>1, <2>2, <2>5, <3>1 DEF Ticked
    <2>8. CASE MixerNext
      <3>1. UNCHANGED busyVars /\ (mixer.ticked => mixer'.ticked)
        BY <2>8 DEF MixerNext, MixerInput, MixerTick, CleanupStreamStates, TypeOK
      <3> QED
        BY <2>5, <3>1 DEF Ticked
    <2> QED
      BY <1>2, <2>3, <2>6, <2>7, <2>8 DEF HNext, Next
  <1> QED
    BY <1>1, <1>2

\* A packet is refused for a busy channel only while another session that is in
\* the channel was heard within the hangover, for any number of sessions and any
\* timeouts (tryAcceptPacket).
THEOREM RefusalsJustified == HSpec => RefusalJustified
  <1>1. HInit => TypeOK /\ HeardInv
    BY InitType DEF HInit, Init, HeardInv
  <1>2. TypeOK /\ HeardInv /\ [HNext]_<<vars, heard>> => (TypeOK /\ HeardInv)'
    <2>1. [HNext]_<<vars, heard>> => [Next]_vars
      BY DEF HNext
    <2> QED
      BY <2>1, NextKeepsType, NextHeard
  <1>3. TypeOK /\ HeardInv /\ HNext =>
           \A s \in Session : RefusedBusy(s) =>
              \E o \in participants \ {s} : heard[o] # Unset
    <2> SUFFICES ASSUME TypeOK, HeardInv, HNext, NEW s \in Session, RefusedBusy(s)
                 PROVE  \E o \in participants \ {s} : heard[o] # Unset
      OBVIOUS
    <2>1. TryAcceptPacket
      <3>1. udp.step = "floor" /\ udp' # udp
        BY DEF RefusedBusy
      <3> QED
        BY <3>1 DEF HNext, Next, WsNext, WsSetChannel, AddParticipant, WsRemoveClient,
                    RemoveParticipant, RemoveParticipantTx, RemoveParticipantBusy,
                    UdpNext, RoutePacket, TxGate, NotifyTxStop, NotifyTxCountdownStart,
                    NotifyBusyTimeoutElapsed, PushInput, MarkEOFTx, MarkBusyEOF,
                    MixerNext, MixerInput, MixerTick, CleanupStreamStates, Tick
    <2>2. RefuseBusy(s)
      BY <2>1 DEF RefusedBusy, TryAcceptPacket, TakeFloor, KeepFloor, UdpGoto, TypeOK
    <2>3. /\ busySessionID \in participants \ {s} /\ busySessionID # NoSession
          /\ ~busyParallelAllowed
          /\ ~(busyLastPacketAt > (IF busyExplicitEOF THEN PacketDur ELSE Hangover))
      BY <2>2 DEF RefuseBusy, FloorFree, BusyWindowExpired
    <2>4. busyLastPacketAt <= Hangover /\ busyLastPacketAt \in Int
      BY <2>3, FloorAssumption DEF TypeOK, PacketDur, AgeUpTo, Unset
    <2>5. heard[busySessionID] \in 0 .. busyLastPacketAt
      BY <2>3, <2>4 DEF HeardInv
    <2> QED
      BY <2>3, <2>4, <2>5 DEF Unset
  <1> QED
    BY <1>1, <1>2, <1>3, PTL DEF HSpec, RefusalJustified

-----------------------------------------------------------------------------
(* The transmit timeout.  After a tx_stop either its entry is there, or the *)
(* timer was forgotten with it and has to run out again.                    *)

Timer == txStartedAt[speaker]
LastNotice == txLastStopNoticeAt[speaker]

NoticeInv ==
    stopped # Unset =>
       /\ stopped \in 0 .. NoticeGap - 1
       /\ LastNotice # Unset => LastNotice = stopped
       /\ LastNotice = Unset =>
             ~txForceStopped[speaker] /\ (Timer = Unset \/ Timer <= stopped)

\* The types of what is kept of one session.
LEMMA SpeakerTyped ==
    ASSUME TypeOK
    PROVE  /\ Timer \in AgeUpTo(TransmitTimeout) /\ LastNotice \in AgeUpTo(NoticeGap)
           /\ Timer \in Int /\ LastNotice \in Int
           /\ txForceStopped[speaker] \in BOOLEAN
  BY FloorAssumption, SpeakerAssumption DEF TypeOK, Timer, LastNotice, AgeUpTo, Unset

\* A step of nobody's gate leaves the notices alone, or forgets the entry and
\* the timer together.
LEMMA NoticeKept ==
    ASSUME NoticeInv, LimitNext, ~Stopped, ~PeriodOver,
           \/ UNCHANGED <<Timer, LastNotice, txForceStopped[speaker]>>
           \/ Timer' = Unset /\ LastNotice' = Unset /\ ~txForceStopped'[speaker]
    PROVE  NoticeInv'
  <1>1. stopped' = Unset \/ stopped' = stopped
    BY DEF LimitNext
  <1> QED
    BY <1>1 DEF NoticeInv

LEMMA ForgetTxForgets ==
    ASSUME TypeOK, NEW s \in Session, ForgetTx(s)
    PROVE  \/ UNCHANGED <<Timer, LastNotice, txForceStopped[speaker]>>
           \/ Timer' = Unset /\ LastNotice' = Unset /\ ~txForceStopped'[speaker]
  BY SpeakerAssumption DEF TypeOK, ForgetTx, Timer, LastNotice

\* What the gate does to the speaker of the packet.
LEMMA TxGateNotices ==
    ASSUME TypeOK, NoticeInv, LimitNext, TxGate
    PROVE  NoticeInv' /\ (Stopped => stopped = Unset)
  <1> DEFINE s == udp.sid
  <1>1. s \in Session /\ udp.step = "gate" /\ ~PeriodOver
    BY DEF TypeOK, TxGate, PeriodOver
  <1>2. speaker \in Session /\ NoticeGap \in Nat /\ NoticeGap >= 1
        /\ TransmitTimeout \in Nat /\ (TransmitTimeout = 0 \/ TransmitTimeout >= NoticeGap)
    BY FloorAssumption, SpeakerAssumption
  <1>3. CASE s # speaker
    <2>1. UNCHANGED <<Timer, LastNotice, txForceStopped[speaker]>>
      BY <1>1, <1>2, <1>3 DEF TxGate, GateOpen, GateStart, GateRefuse, GatePass, StopNotice,
                              txVars, TypeOK, Timer, LastNotice
    <2>2. ~Stopped
      BY <1>3 DEF Stopped
    <2> QED
      BY <1>1, <2>1, <2>2, NoticeKept
  <1>4. CASE s = speaker /\ (GateOpen(s) \/ GatePass(s))
    <2>1. UNCHANGED <<Timer, LastNotice, txForceStopped[speaker]>>
      BY <1>1, <1>4 DEF GateOpen, GatePass, txVars, Timer, LastNotice
    <2>2. ~Stopped
      BY <1>1, <1>4 DEF Stopped, GateOpen, GatePass, UdpGoto, TypeOK
    <2> QED
      BY <1>1, <2>1, <2>2, NoticeKept
  <1>5. CASE s = speaker /\ GateStart(s)
    <2>1. Timer' = 0 /\ UNCHANGED <<LastNotice, txForceStopped[speaker]>>
      BY <1>1, <1>5 DEF GateStart, Timer, LastNotice, TypeOK
    <2>2. ~Stopped
      BY <1>1, <1>5 DEF Stopped, GateStart, UdpGoto, TypeOK
    <2>3. stopped' = Unset \/ stopped' = stopped
      BY <1>1, <2>2 DEF LimitNext
    <2> QED
      BY <1>2, <2>1, <2>2, <2>3 DEF NoticeInv
  <1>6. CASE s = speaker /\ GateRefuse(s)
    <2>1. /\ TransmitTimeout > 0 /\ Timer' = Timer /\ Timer # Unset
          /\ txForceStopped[speaker] \/ Timer >= TransmitTimeout
          /\ StopNotice(speaker)
      BY <1>6 DEF GateRefuse, Timer
    <2>2. LastNotice \in Int /\ Timer \in Int
      BY SpeakerTyped
    <2>3. CASE NoticeDue(speaker)
      <3>1. LastNotice' = 0
        BY <1>2, <2>1, <2>3 DEF StopNotice, LastNotice, TypeOK
      <3>2. stopped = Unset
        <4> SUFFICES ASSUME stopped # Unset PROVE FALSE
          OBVIOUS
        <4>1. LastNotice = Unset \/ LastNotice >= NoticeGap
          BY <2>3 DEF NoticeDue, LastNotice
        <4>2. stopped \in 0 .. NoticeGap - 1 /\ LastNotice = Unset
          BY <1>2, <2>2, <4>1 DEF NoticeInv
        <4> QED
          BY <1>2, <2>1, <2>2, <4>2 DEF NoticeInv
      <3>3. Stopped
        BY <1>1, <1>6, <2>1, <2>3 DEF Stopped, StopNotice, UdpGoto, TypeOK
      <3>4. stopped' = 0 \/ stopped' = Unset
        BY <3>3 DEF LimitNext
      <3> QED
        BY <1>2, <3>1, <3>2, <3>4 DEF NoticeInv, Unset
    <2>4. CASE ~NoticeDue(speaker)
      <3>1. LastNotice' = LastNotice /\ LastNotice # Unset
        BY <2>1, <2>4 DEF StopNotice, NoticeDue, LastNotice
      <3>2. ~Stopped
        BY <2>1, <2>4 DEF StopNotice, Stopped, UdpDone
      <3>3. stopped' = Unset \/ stopped' = stopped
        BY <1>1, <3>2 DEF LimitNext
      <3> QED
        BY <3>1, <3>2, <3>3 DEF NoticeInv
    <2> QED
      BY <2>3, <2>4
  <1> QED
    BY <1>3, <1>4, <1>5, <1>6 DEF TxGate

LEMMA TickNotices ==
    ASSUME TypeOK, NoticeInv, LimitNext, Tick
    PROVE  NoticeInv'
  <1>1. /\ Timer' = Older(Timer, TransmitTimeout)
        /\ LastNotice' = Older(LastNotice, NoticeGap)
        /\ txForceStopped' = txForceStopped
    BY SpeakerAssumption DEF Tick, Timer, LastNotice
  <1>2. NoticeGap \in Nat /\ NoticeGap >= 1 /\ TransmitTimeout \in Nat
    BY FloorAssumption
  <1>3. Timer \in Int /\ LastNotice \in Int
        /\ Timer \in AgeUpTo(TransmitTimeout) /\ LastNotice \in AgeUpTo(NoticeGap)
    BY SpeakerTyped
  <1>4. ~Stopped
    BY DEF Stopped, Tick, Quiet
  <1>5. \/ stopped' = Unset \/ stopped' = stopped
        \/ stopped' = IF stopped + 1 >= NoticeGap THEN Unset ELSE Older(stopped, NoticeGap)
    BY <1>4 DEF LimitNext
  <1>6. PeriodOver /\ udp' = udp /\ input' = input
    BY DEF Tick, Quiet, PeriodOver, TypeOK
  <1>7. \/ stopped' = Unset
        \/ stopped' = IF stopped + 1 >= NoticeGap THEN Unset ELSE Older(stopped, NoticeGap)
    BY <1>4, <1>6 DEF LimitNext
  <1> SUFFICES ASSUME stopped' # Unset PROVE NoticeInv'
    BY DEF NoticeInv
  <1>8. CASE stopped = Unset
    BY <1>2, <1>7, <1>8 DEF Older, Unset
  <1>9. CASE stopped # Unset
    <2>1. stopped \in 0 .. NoticeGap - 1
      BY <1>9 DEF NoticeInv
    <2>2. stopped' = stopped + 1 /\ stopped + 1 < NoticeGap
      BY <1>2, <1>7, <2>1 DEF Older, Unset
    <2>3. LastNotice # Unset => LastNotice' = stopped'
      BY <1>1, <1>2, <1>3, <1>9, <2>1, <2>2 DEF NoticeInv, Older, Unset
    <2>4. (LastNotice = Unset <=> LastNotice' = Unset) /\ (Timer = Unset => Timer' = Unset)
      BY <1>1, <1>2, <1>3 DEF Older, Unset, AgeUpTo
    <2>5. Timer <= stopped => Timer' <= stopped'
      BY <1>1, <1>2, <1>3, <2>1, <2>2 DEF Older
    <2> QED
      BY <1>1, <1>2, <1>9, <2>1, <2>2, <2>3, <2>4, <2>5 DEF NoticeInv
  <1> QED
    BY <1>8, <1>9

LEMMA CleanupNotices ==
    ASSUME TypeOK, NoticeInv, LimitNext, CleanupStreamStates
    PROVE  NoticeInv'
  <1>1. \/ UNCHANGED <<Timer, LastNotice, txForceStopped[speaker]>>
        \/ Timer' = Unset /\ LastNotice' = Unset /\ ~txForceStopped'[speaker]
    BY SpeakerAssumption DEF CleanupStreamStates, Timer, LastNotice, TypeOK
  <1>2. ~Stopped /\ ~PeriodOver
    BY DEF CleanupStreamStates, Stopped, PeriodOver, TypeOK
  <1> QED
    BY <1>1, <1>2, NoticeKept

LEMMA NextNotices ==
    ASSUME TypeOK, NoticeInv, LimitNext
    PROVE  NoticeInv' /\ (Stopped => stopped = Unset)
  <1>1. CASE TxGate
    BY <1>1, TxGateNotices
  <1>2. ASSUME UNCHANGED txVars, udp.step # "gate" \/ udp' = udp, ~PeriodOver
        PROVE  NoticeInv' /\ ~Stopped
    <2>1. UNCHANGED <<Timer, LastNotice, txForceStopped[speaker]>>
      BY <1>2 DEF txVars, Timer, LastNotice
    <2>2. ~Stopped
      BY <1>2 DEF Stopped
    <2> QED
      BY <1>2, <2>1, <2>2, NoticeKept
  <1>3. ASSUME NEW s \in Session, WsNext(s)
        PROVE  NoticeInv' /\ ~Stopped
    <2>1. UNCHANGED <<udp, mixer>>
      BY <1>3 DEF WsNext, WsSetChannel, AddParticipant, WsRemoveClient,
                  RemoveParticipant, RemoveParticipantTx, RemoveParticipantBusy
    <2>2. ForgetTx(s) \/ UNCHANGED txVars
      BY <1>3 DEF WsNext, WsSetChannel, AddParticipant, WsRemoveClient,
                  RemoveParticipant, RemoveParticipantTx, RemoveParticipantBusy
    <2>3. ~Stopped /\ ~PeriodOver
      BY <2>1 DEF Stopped, PeriodOver
    <2> QED
      BY <1>2, <2>1, <2>2, <2>3, ForgetTxForgets, NoticeKept
  <1>4. CASE MarkEOFTx
    <2>1. ForgetTx(udp.sid) /\ udp.sid \in Session
      BY <1>4 DEF MarkEOFTx, TypeOK
    <2>2. ~Stopped /\ ~PeriodOver
      BY <1>4 DEF MarkEOFTx, Stopped, PeriodOver
    <2> QED
      BY <2>1, <2>2, ForgetTxForgets, NoticeKept
  <1>5. CASE UdpNext
    <2>1. \/ TxGate \/ MarkEOFTx
          \/ UNCHANGED <<txVars, mixer>> /\ udp.step # "gate"
      BY <1>5 DEF UdpNext, RoutePacket, NotifyTxStop, NotifyTxCountdownStart, TryAcceptPacket,
                  NotifyBusyTimeoutElapsed, PushInput, MarkBusyEOF
    <2> QED
      BY <1>1, <1>2, <1>4, <2>1 DEF PeriodOver
  <1>6. CASE MixerNext
    <2>1. CASE CleanupStreamStates
      BY <2>1, CleanupNotices DEF CleanupStreamStates, Stopped
    <2>2. CASE MixerInput \/ MixerTick
      <3>1. UNCHANGED <<txVars, udp>> /\ ~PeriodOver
        BY <2>2 DEF MixerInput, MixerTick, PeriodOver
      <3> QED
        BY <1>2, <3>1
    <2> QED
      BY <1>6, <2>1, <2>2 DEF MixerNext
  <1>7. CASE Tick
    BY <1>7, TickNotices DEF Tick, Stopped
  <1> QED
    BY <1>3, <1>5, <1>6, <1>7 DEF LimitNext, Next

LEMMA LimitSteps == [LimitNext]_<<vars, sent>> => [Next]_vars
  BY DEF LimitNext

\* Two tx_stop notices to one session are at least NoticeGap apart, for any
\* timeouts: whoever deletes the entry that throttles them deletes the timer too,
\* and that takes no less to run out again (shouldNotifyTxStopLocked).
THEOREM NoticesThrottled == LimitSpec => StopNoticesThrottled
  <1>1. LimitInit => TypeOK /\ NoticeInv
    BY InitType DEF LimitInit, NoticeInv
  <1>2. TypeOK /\ NoticeInv /\ [LimitNext]_<<vars, sent>> => (TypeOK /\ NoticeInv)'
    <2>1. ASSUME NoticeInv, UNCHANGED <<vars, sent>> PROVE NoticeInv'
      BY <2>1 DEF vars, txVars, sent, NoticeInv, Timer, LastNotice
    <2> QED
      BY <2>1, LimitSteps, NextKeepsType, NextNotices
  <1>3. TypeOK /\ NoticeInv /\ LimitNext => (Stopped => stopped = Unset)
    BY NextNotices
  <1> QED
    BY <1>1, <1>2, <1>3, PTL DEF LimitSpec, StopNoticesThrottled

-----------------------------------------------------------------------------
(* Air time.  A running timer is at most an EOF timeout younger than the    *)
(* air time; when none runs, the speaker has been silent all along.  Ages   *)
(* change only with the period, and no packet is on its way by then.        *)

Left == ws[speaker] \in {"removed", "forgotten", "gone"}
AirFresh == air \in {Unset, 0}

\* A packet of the speaker that passed the gate and was not taken yet.
Pending ==
    \/ udp.sid = speaker /\ udp.step \in {"countdown", "floor", "unlock", "enqueue"}
    \/ \E i \in DOMAIN input : input[i] = speaker

AirTyped == air \in AgeUpTo(AirLimit) /\ silent \in AgeUpTo(EofTimeout)

\* As long as the speaker counts as on air the mixer keeps what it has of it.
SilenceTold ==
    /\ air = Unset <=> silent = Unset
    /\ silent # Unset => states[speaker].at = Unset \/ states[speaker].at <= silent

TimerCovers ==
    air # Unset => IF Timer = Unset THEN air <= silent
                   ELSE Timer < TransmitTimeout => air <= Timer + EofTimeout

PendingCovered == Pending => air < AirLimit /\ (Timer = Unset => AirFresh)

\* Before the speaker is registered, and in the clean-up that did not see it yet.
JoinsFresh ==
    /\ ws[speaker] = "new" => air = Unset /\ ~Pending /\ udp.sid # speaker
    /\ ws[speaker] = "bound" => AirFresh
    /\ mixer.step = "clean" /\ speaker \notin mixer.seen => AirFresh

AirInv ==
    /\ AirTyped
    /\ ~Left => SilenceTold /\ TimerCovers /\ PendingCovered /\ JoinsFresh

LEMMA LimitBounds ==
    /\ EofTimeout \in Nat \ {0} /\ TransmitTimeout \in Nat /\ AirLimit \in Nat
    /\ AirLimit = TransmitTimeout + EofTimeout /\ speaker \in Session
    /\ speaker # NoSession
  BY FloorAssumption, SpeakerAssumption DEF AirLimit

LEMMA AirTypeKept ==
    ASSUME AirTyped, LimitNext
    PROVE  AirTyped'
  <1>1. /\ 0 \in AgeUpTo(AirLimit) /\ Unset \in AgeUpTo(AirLimit)
        /\ 0 \in AgeUpTo(EofTimeout) /\ Unset \in AgeUpTo(EofTimeout)
    BY LimitBounds, AgeZeroUnset
  <1>2. Older(air, AirLimit) \in AgeUpTo(AirLimit) /\ Older(silent, EofTimeout) \in AgeUpTo(EofTimeout)
    BY LimitBounds, OlderType DEF AirTyped
  <1> QED
    BY <1>1, <1>2 DEF LimitNext, AirTyped

\* The history does not move but with a packet taken, an EOF marker or time.
LEMMA AirKept ==
    ASSUME LimitNext, ws[speaker] # "gone", ~EndedTx, ~PeriodOver,
           udp' # udp \/ input' = input
    PROVE  air' = air /\ silent' = silent
  BY DEF LimitNext, Taken

\* A step that brings no packet nearer and leaves timer and stream alone.
LEMMA AirUndisturbed ==
    ASSUME AirInv, LimitNext, ~Left, air' = air, silent' = silent,
           Timer' = Timer \/ (Timer' = Unset /\ AirFresh),
           states'[speaker].at \in {states[speaker].at, Unset, 0},
           Pending' => Pending, JoinsFresh'
    PROVE  AirInv'
  <1>1. AirTyped' /\ AirTyped
    BY AirTypeKept DEF AirInv
  <1>2. SilenceTold /\ TimerCovers /\ PendingCovered
    BY DEF AirInv
  <1>3. SilenceTold'
    BY <1>1, <1>2, LimitBounds DEF SilenceTold, AirTyped, AgeUpTo, Unset
  <1>4. TimerCovers'
    <2>1. CASE Timer' = Timer
      BY <1>2, <2>1 DEF TimerCovers
    <2>2. CASE Timer' = Unset /\ AirFresh
      BY <1>1, <1>2, <2>2, LimitBounds DEF TimerCovers, SilenceTold, AirFresh, AirTyped,
                                           AgeUpTo, Unset
    <2> QED
      BY <2>1, <2>2
  <1>5. PendingCovered'
    BY <1>2 DEF PendingCovered, AirFresh
  <1> QED
    BY <1>1, <1>3, <1>4, <1>5 DEF AirInv

LEMMA WsAir ==
    ASSUME TypeOK, Membership, AirInv, LimitNext, NEW s \in Session, WsNext(s)
    PROVE  AirInv'
  <1> USE DEF WsNext, WsSetChannel, AddParticipant, WsRemoveClient,
              RemoveParticipant, RemoveParticipantTx, RemoveParticipantBusy
  <1>1. UNCHANGED <<udp, input, states, mixer>> /\ (Left => Left')
    BY LimitBounds DEF Left, TypeOK
  <1>2. ~Left' => Timer' = Timer
    BY LimitBounds DEF Left, TypeOK, Timer, ForgetTx, txVars
  <1>3. ~EndedTx /\ ~PeriodOver /\ ~Taken
    BY <1>1 DEF EndedTx, PeriodOver, Taken
  <1>4. CASE Left'
    BY <1>4, AirTypeKept DEF AirInv
  <1>5. CASE ~Left /\ ~Left'
    <2>1. air' = air /\ silent' = silent
      BY <1>1, <1>3, <1>5, AirKept DEF Left
    <2>2. Pending' <=> Pending
      BY <1>1 DEF Pending
    <2>3. /\ ws'[speaker] = "new" => ws[speaker] = "new"
          /\ ws'[speaker] = "bound" => ws[speaker] \in {"new", "bound"}
      BY LimitBounds DEF TypeOK
    <2>4. JoinsFresh
      BY <1>5 DEF AirInv
    <2>5. JoinsFresh'
      BY <1>1, <2>1, <2>2, <2>3, <2>4 DEF JoinsFresh, AirFresh
    <2> QED
      BY <1>1, <1>2, <1>5, <2>1, <2>2, <2>5, AirUndisturbed
  <1> QED
    BY <1>1, <1>4, <1>5

\* The gate lets a packet of the speaker through only with a timer that has not
\* run out.
LEMMA TxGateAir ==
    ASSUME TypeOK, AirInv, LimitNext, TxGate, TransmitTimeout > 0
    PROVE  AirInv'
  <1> DEFINE s == udp.sid
  <1>1. /\ s \in Session /\ udp.step = "gate" /\ udp' # udp
        /\ UNCHANGED <<ws, input, states, mixer>>
    BY DEF TypeOK, TxGate, GateOpen, GateStart, GateRefuse, GatePass, StopNotice,
           UdpGoto, UdpDone
  <1>2. ~EndedTx /\ ~PeriodOver
    BY <1>1 DEF EndedTx, PeriodOver
  <1>3. CASE Left
    BY <1>1, <1>3, AirTypeKept DEF AirInv, Left
  <1>4. CASE ~Left
    <2>1. air' = air /\ silent' = silent
      BY <1>1, <1>2, <1>4, AirKept DEF Left
    <2>2. JoinsFresh /\ TimerCovers /\ SilenceTold /\ AirTyped /\ PendingCovered
      BY <1>4 DEF AirInv
    <2>3. udp'.sid \in {s, NoSession}
      BY <1>1 DEF TypeOK, TxGate, GateOpen, GateStart, GateRefuse, GatePass, StopNotice,
                  UdpGoto, UdpDone
    <2>4. s # speaker => (Pending' => Pending)
      BY <1>1, <2>3, LimitBounds DEF Pending
    <2>5. s = speaker => ws[speaker] # "new"
      BY <2>2 DEF JoinsFresh
    <2>6. JoinsFresh'
      BY <1>1, <2>1, <2>2, <2>3, <2>4, <2>5, LimitBounds DEF JoinsFresh, AirFresh
    <2>7. CASE Timer' = Timer /\ (Pending' => Pending)
      BY <1>1, <1>4, <2>1, <2>6, <2>7, AirUndisturbed
    <2>8. CASE s = speaker /\ GateStart(s)
      <3>1. Timer = Unset /\ Timer' = 0
        BY <1>1, <2>8 DEF GateStart, Timer, TypeOK
      <3>2. air # Unset => air \in Nat /\ air <= EofTimeout /\ silent \in Nat
        BY <2>2, <3>1, LimitBounds DEF TimerCovers, SilenceTold, AirTyped, AgeUpTo, Unset
      <3>3. SilenceTold'
        BY <1>1, <2>1, <2>2 DEF SilenceTold
      <3>4. TimerCovers'
        BY <2>1, <3>1, <3>2, LimitBounds DEF TimerCovers, Unset
      <3>5. PendingCovered'
        BY <2>1, <3>1, <3>2, LimitBounds DEF PendingCovered, Unset
      <3> QED
        BY <2>6, <3>3, <3>4, <3>5, AirTypeKept DEF AirInv
    <2>9. CASE s = speaker /\ GatePass(s)
      <3>1. Timer' = Timer /\ Timer # Unset /\ Timer < TransmitTimeout /\ Timer \in Int
        BY <2>9, SpeakerTyped DEF GatePass, Timer
      <3>2. air < AirLimit
        BY <2>2, <3>1, LimitBounds DEF TimerCovers, AirTyped, AgeUpTo, Unset
      <3>3. SilenceTold' /\ TimerCovers'
        BY <1>1, <2>1, <2>2, <3>1 DEF SilenceTold, TimerCovers
      <3>4. PendingCovered'
        BY <2>1, <3>1, <3>2 DEF PendingCovered
      <3> QED
        BY <2>6, <3>3, <3>4, AirTypeKept DEF AirInv
    <2>10. CASE s = speaker /\ GateRefuse(s)
      <3>1. Timer' = Timer
        BY <2>10 DEF GateRefuse, Timer
      <3>2. udp'.step \in {"stop", "read"}
        BY <1>1, <2>10 DEF GateRefuse, StopNotice, UdpGoto, UdpDone, TypeOK
      <3>3. Pending' => Pending
        BY <1>1, <3>2 DEF Pending
      <3> QED
        BY <2>7, <3>1, <3>3
    <2>11. CASE s # speaker
      <3>1. Timer' = Timer
        BY <1>1, <2>11, LimitBounds DEF TxGate, GateOpen, GateStart, GateRefuse, GatePass,
                                        txVars, TypeOK, Timer
      <3> QED
        BY <2>4, <2>7, <2>11, <3>1
    <2>12. ~GateOpen(s)
      BY LimitBounds DEF GateOpen
    <2> QED
      BY <2>8, <2>9, <2>10, <2>11, <2>12 DEF TxGate
  <1> QED
    BY <1>3, <1>4

\* An EOF marker ends the air time along with the timer.
LEMMA MarkEOFTxAir ==
    ASSUME TypeOK, AirInv, LimitNext, MarkEOFTx
    PROVE  AirInv'
  <1> DEFINE s == udp.sid
  <1>1. /\ s \in Session /\ udp.step = "eof" /\ udp' = [udp EXCEPT !.step = "eofFloor"]
        /\ udp'.step = "eofFloor" /\ udp'.sid = s
        /\ UNCHANGED <<ws, input, states, mixer>> /\ ForgetTx(s)
    BY DEF TypeOK, MarkEOFTx, UdpGoto
  <1>2. ~PeriodOver /\ udp' # udp
    BY <1>1 DEF PeriodOver
  <1>3. CASE Left
    BY <1>1, <1>3, AirTypeKept DEF AirInv, Left
  <1>4. CASE ~Left
    <2>1. JoinsFresh /\ TimerCovers /\ SilenceTold /\ AirTyped /\ PendingCovered
      BY <1>4 DEF AirInv
    <2>2. Pending' => Pending
      BY <1>1 DEF Pending
    <2>3. CASE s = speaker
      <3>1. air' = Unset /\ silent' = Unset
        BY <1>1, <1>2, <2>3 DEF LimitNext, EndedTx, Taken
      <3>2. SilenceTold' /\ TimerCovers'
        BY <3>1 DEF SilenceTold, TimerCovers
      <3>3. PendingCovered'
        BY <3>1, LimitBounds DEF PendingCovered, AirFresh, Unset
      <3>4. JoinsFresh'
        BY <1>1, <2>1, <2>3, <3>1 DEF JoinsFresh, AirFresh
      <3> QED
        BY <3>2, <3>3, <3>4, AirTypeKept DEF AirInv
    <2>4. CASE s # speaker
      <3>1. air' = air /\ silent' = silent
        BY <1>1, <1>2, <1>4, <2>4, AirKept DEF EndedTx, Left
      <3>2. Timer' = Timer
        BY <1>1, <2>4, LimitBounds DEF ForgetTx, Timer, TypeOK
      <3>3. JoinsFresh'
        BY <1>1, <2>1, <2>2, <2>4, <3>1 DEF JoinsFresh, AirFresh
      <3> QED
        BY <1>1, <1>4, <2>2, <3>1, <3>2, <3>3, AirUndisturbed
    <2> QED
      BY <2>3, <2>4
  <1> QED
    BY <1>3, <1>4

LEMMA PushInputKeepsPending ==
    ASSUME TypeOK, PushInput
    PROVE  Pending' => Pending
  <1>1. /\ udp.step = "enqueue" /\ udp'.step = "read" /\ udp.sid \in Session
        /\ input \in Seq(Session)
        /\ input' = Append(IF Len(input) < InputCap THEN input ELSE Tail(input), udp.sid)
    BY DEF TypeOK, PushInput, UdpDone
  <1>2. \A i \in DOMAIN input' : input'[i] = udp.sid \/ \E j \in DOMAIN input : input'[i] = input[j]
    <2>1. CASE Len(input) < InputCap
      <3>1. input' = Append(input, udp.sid)
        BY <1>1, <2>1
      <3> QED
        BY <1>1, <3>1
    <2>2. CASE ~(Len(input) < InputCap)
      <3>1. Len(input) >= 1
        BY <1>1, <2>2, FloorAssumption
      <3>2. /\ Tail(input) \in Seq(Session) /\ Len(Tail(input)) = Len(input) - 1
            /\ \A i \in 1 .. Len(input) - 1 : Tail(input)[i] = input[i + 1]
        BY <1>1, <3>1
      <3>3. input' = Append(Tail(input), udp.sid)
        BY <1>1, <2>2
      <3> SUFFICES ASSUME NEW i \in DOMAIN input', input'[i] # udp.sid
                   PROVE  \E j \in DOMAIN input : input'[i] = input[j]
        OBVIOUS
      <3>4. i \in 1 .. Len(input) - 1 /\ input'[i] = Tail(input)[i]
        BY <1>1, <3>1, <3>2, <3>3
      <3>5. i + 1 \in DOMAIN input /\ input'[i] = input[i + 1]
        BY <1>1, <3>1, <3>2, <3>4
      <3> QED
        BY <3>5
    <2> QED
      BY <2>1, <2>2
  <1> QED
    BY <1>1, <1>2 DEF Pending

\* udpReader's other steps bring no new packet nearer.
LEMMA UdpAir ==
    ASSUME TypeOK, AirInv, LimitNext, UdpNext, TransmitTimeout > 0
    PROVE  AirInv'
  <1>1. CASE TxGate
    BY <1>1, TxGateAir
  <1>2. CASE MarkEOFTx
    BY <1>2, MarkEOFTxAir
  <1>3. CASE /\ ~TxGate /\ ~MarkEOFTx
    <2>1. UNCHANGED <<ws, txVars, states, mixer>>
      BY <1>3 DEF UdpNext, RoutePacket, NotifyTxStop, NotifyTxCountdownStart,
                  TryAcceptPacket, NotifyBusyTimeoutElapsed, PushInput, MarkBusyEOF
    <2>2. udp' # udp
      BY <1>3 DEF UdpNext, RoutePacket, NotifyTxStop, NotifyTxCountdownStart, TypeOK,
                  TryAcceptPacket, TakeFloor, KeepFloor, RefuseBusy,
                  NotifyBusyTimeoutElapsed, PushInput, MarkBusyEOF, UdpGoto, UdpDone
    <2>3. Pending' => Pending
      <3>1. CASE PushInput
        BY <3>1, PushInputKeepsPending
      <3>2. CASE ~PushInput
        <4>1. input' = input
          BY <1>3, <3>2 DEF UdpNext, RoutePacket, NotifyTxStop, NotifyTxCountdownStart,
                            TryAcceptPacket, NotifyBusyTimeoutElapsed, MarkBusyEOF
        <4>2. \/ udp'.step \notin {"countdown", "floor", "unlock", "enqueue"}
              \/ /\ udp'.sid = udp.sid
                 /\ udp.step \in {"countdown", "floor", "unlock", "enqueue"}
          BY <1>3, <3>2 DEF UdpNext, RoutePacket, NotifyTxStop, NotifyTxCountdownStart, TypeOK,
                  TryAcceptPacket, TakeFloor, KeepFloor, RefuseBusy,
                  NotifyBusyTimeoutElapsed, MarkBusyEOF, UdpGoto, UdpDone
        <4> QED
          BY <4>1, <4>2 DEF Pending
      <3> QED
        BY <3>1, <3>2
    <2>4. udp'.sid = udp.sid \/ udp'.sid = NoSession \/ ws[udp'.sid] # "new"
      BY <1>3 DEF UdpNext, RoutePacket, NotifyTxStop, NotifyTxCountdownStart, TypeOK,
                  TryAcceptPacket, TakeFloor, KeepFloor, RefuseBusy,
                  NotifyBusyTimeoutElapsed, PushInput, MarkBusyEOF, UdpGoto, UdpDone
    <2>5. ~EndedTx /\ ~PeriodOver
      BY <1>3, <2>1 DEF UdpNext, RoutePacket, NotifyTxStop, NotifyTxCountdownStart,
                  TryAcceptPacket, NotifyBusyTimeoutElapsed, PushInput, MarkBusyEOF,
                  EndedTx, PeriodOver
    <2>6. CASE Left
      BY <2>1, <2>6, AirTypeKept DEF AirInv, Left
    <2>7. CASE ~Left
      <3>1. air' = air /\ silent' = silent
        BY <2>2, <2>5, <2>7, AirKept DEF Left
      <3>2. JoinsFresh'
        BY <2>1, <2>3, <2>4, <2>7, <3>1, LimitBounds DEF AirInv, JoinsFresh, AirFresh
      <3> QED
        BY <2>1, <2>3, <2>7, <3>1, <3>2, AirUndisturbed DEF txVars, Timer
    <2> QED
      BY <2>6, <2>7
  <1> QED
    BY <1>1, <1>2, <1>3

LEMMA InputHead ==
    ASSUME TypeOK, MixerInput
    PROVE  /\ Head(input) \in Session
           /\ Head(input) = speaker => Pending
           /\ Pending' => Pending
           /\ input' # input
  <1>1. input \in Seq(Session) /\ input # <<>> /\ input' = Tail(input) /\ udp' = udp
    BY DEF TypeOK, MixerInput
  <1>2. 1 \in DOMAIN input /\ Head(input) = input[1] /\ Head(input) \in Session
    BY <1>1
  <1>3. /\ Len(Tail(input)) = Len(input) - 1 /\ Len(input) \in Nat
        /\ Tail(input) \in Seq(Session)
        /\ \A i \in 1 .. Len(input) - 1 : Tail(input)[i] = input[i + 1]
    BY <1>1, <1>2
  <1>4. \A i \in DOMAIN Tail(input) : i + 1 \in DOMAIN input /\ Tail(input)[i] = input[i + 1]
    BY <1>1, <1>3
  <1>5. (\E i \in DOMAIN input' : input'[i] = speaker)
           => \E i \in DOMAIN input : input[i] = speaker
    BY <1>1, <1>4
  <1>6. input' # input
    <2>1. Tail(input) # input
      <3>1. Len(Tail(input)) = Len(input) - 1 /\ Len(input) \in Int
        BY <1>3
      <3> DEFINE a == Len(Tail(input))
                 b == Len(input)
      <3>2. a = b - 1 /\ b \in Int
        BY <3>1
      <3> HIDE DEF a, b
      <3>3. a # b
        BY <3>2
      <3> QED
        BY <3>3 DEF a, b
    <2> QED
      BY <1>1, <2>1
  <1> QED
    BY <1>1, <1>2, <1>5, <1>6 DEF Pending

\* A packet taken begins the air time or goes on with it.
LEMMA MixerInputAir ==
    ASSUME TypeOK, AirInv, LimitNext, MixerInput
    PROVE  AirInv' /\ (Taken /\ ~Left => air' < AirLimit)
  <1>1. /\ UNCHANGED <<ws, txVars, udp, mixer>> /\ mixer.step = "select"
        /\ ~EndedTx /\ ~PeriodOver
    BY DEF MixerInput, EndedTx, PeriodOver
  <1>2. Timer' = Timer
    BY <1>1 DEF Timer, txVars
  <1>3. /\ Head(input) \in Session /\ (Head(input) = speaker => Pending)
        /\ (Pending' => Pending) /\ input' # input
    BY InputHead
  <1>4. \/ states'[speaker].at = states[speaker].at /\ Head(input) # speaker
        \/ states'[speaker].at = 0 /\ Head(input) = speaker
    BY <1>3, LimitBounds DEF MixerInput, TypeOK
  <1>5. Taken <=> Head(input) = speaker
    BY <1>1, <1>3 DEF Taken
  <1>6. CASE Left
    BY <1>1, <1>6, AirTypeKept DEF AirInv, Left
  <1>7. CASE ~Left
    <2>1. JoinsFresh /\ TimerCovers /\ SilenceTold /\ AirTyped /\ PendingCovered
      BY <1>7 DEF AirInv
    <2>2. CASE ~Taken
      <3>1. air' = air /\ silent' = silent
        BY <1>1, <1>7, <2>2 DEF LimitNext, Left
      <3>2. JoinsFresh'
        BY <1>1, <1>3, <2>1, <3>1 DEF JoinsFresh, AirFresh
      <3> QED
        BY <1>2, <1>3, <1>4, <1>5, <1>7, <2>2, <3>1, <3>2, AirUndisturbed
    <2>3. CASE Taken
      <3>1. air' = (IF air = Unset THEN 0 ELSE air) /\ silent' = 0
        BY <2>3 DEF LimitNext
      <3>2. air < AirLimit /\ (Timer = Unset => AirFresh)
        BY <1>3, <1>5, <2>1, <2>3 DEF PendingCovered
      <3>3. air' < AirLimit /\ air' # Unset /\ (Timer = Unset => air' = 0)
        BY <2>1, <3>1, <3>2, LimitBounds DEF AirFresh, AirTyped, AgeUpTo, Unset
      <3>4. SilenceTold'
        BY <1>4, <1>5, <2>3, <3>1, <3>3 DEF SilenceTold, Unset
      <3>5. TimerCovers'
        <4>1. Timer \in Int /\ Timer >= -1
          BY SpeakerTyped, LimitBounds DEF AgeUpTo, Unset
        <4>2. CASE Timer = Unset
          BY <1>2, <3>1, <3>3, <4>2 DEF TimerCovers
        <4>3. CASE Timer # Unset /\ air = Unset
          BY <1>2, <3>1, <4>1, <4>3, SpeakerTyped, LimitBounds DEF TimerCovers, AgeUpTo, Unset
        <4>4. CASE Timer # Unset /\ air # Unset
          BY <1>2, <2>1, <3>1, <4>4 DEF TimerCovers
        <4> QED
          BY <4>2, <4>3, <4>4
      <3>6. PendingCovered'
        BY <1>2, <3>3 DEF PendingCovered, AirFresh
      <3>7. JoinsFresh'
        <4>1. ws[speaker] # "new" /\ (ws[speaker] = "bound" => air' = 0)
          BY <1>3, <1>5, <2>1, <2>3, <3>1 DEF JoinsFresh, AirFresh
        <4> QED
          BY <1>1, <4>1 DEF JoinsFresh, AirFresh
      <3> QED
        BY <3>3, <3>4, <3>5, <3>6, <3>7, AirTypeKept DEF AirInv
    <2> QED
      BY <2>2, <2>3
  <1> QED
    BY <1>6, <1>7

LEMMA MixerTickAir ==
    ASSUME TypeOK, Membership, AirInv, LimitNext, MixerTick
    PROVE  AirInv'
  <1>1. /\ UNCHANGED <<ws, txVars, udp, input>> /\ mixer'.step = "clean"
        /\ mixer'.seen = participants /\ ~mixer.ticked
        /\ ~EndedTx /\ ~PeriodOver
    BY DEF MixerTick, EndedTx, PeriodOver
  <1>2. Timer' = Timer /\ (Pending' <=> Pending)
    BY <1>1 DEF Timer, txVars, Pending
  <1>3. states'[speaker].at \in {states[speaker].at, 0}
    BY LimitBounds DEF MixerTick, TypeOK
  <1>4. CASE Left
    BY <1>1, <1>4, AirTypeKept DEF AirInv, Left
  <1>5. CASE ~Left
    <2>1. air' = air /\ silent' = silent
      BY <1>1, <1>5, AirKept DEF Left
    <2>2. JoinsFresh
      BY <1>5 DEF AirInv
    <2>3. speaker \notin participants => AirFresh
      BY <1>5, <2>2, LimitBounds DEF Membership, Left, TypeOK, WsStep, JoinsFresh, AirFresh
    <2>4. JoinsFresh'
      BY <1>1, <1>2, <2>1, <2>2, <2>3 DEF JoinsFresh, AirFresh
    <2> QED
      BY <1>1, <1>2, <1>3, <1>5, <2>1, <2>4, AirUndisturbed
  <1> QED
    BY <1>4, <1>5

\* The clean-up forgets the timer of a speaker it did not see, whose air time is
\* fresh, or that fell silent, whose air time is over.
LEMMA CleanupAir ==
    ASSUME TypeOK, AirInv, LimitNext, CleanupStreamStates
    PROVE  AirInv'
  <1>1. /\ UNCHANGED <<ws, udp, input>> /\ mixer'.step = "select" /\ mixer.step = "clean"
        /\ mixer'.ticked = mixer.ticked /\ ~EndedTx /\ ~PeriodOver
    BY DEF CleanupStreamStates, EndedTx, PeriodOver, TypeOK
  <1>2. Pending' <=> Pending
    BY <1>1 DEF Pending
  <1>3. IF Stale(speaker) THEN states'[speaker].at = Unset /\ Timer' = Unset
        ELSE states'[speaker] = states[speaker] /\ Timer' = Timer
    BY LimitBounds DEF CleanupStreamStates, NoStream, Timer
  <1>4. CASE Left
    BY <1>1, <1>4, AirTypeKept DEF AirInv, Left
  <1>5. CASE ~Left
    <2>1. JoinsFresh /\ SilenceTold /\ AirTyped
      BY <1>5 DEF AirInv
    <2>2. air' = air /\ silent' = silent
      BY <1>1, <1>5, AirKept DEF Left
    <2>3. Stale(speaker) => AirFresh
      <3>1. CASE speaker \notin mixer.seen
        BY <1>1, <2>1, <3>1 DEF JoinsFresh
      <3>2. CASE states[speaker].at # Unset /\ states[speaker].at > EofTimeout
        <4>1. silent = Unset
          <5>1. states[speaker].at \in Int
            BY LimitBounds DEF TypeOK, Stream, AgeUpTo, Unset
          <5> QED
            BY <2>1, <3>2, <5>1, LimitBounds DEF SilenceTold, AirTyped, AgeUpTo, Unset
        <4> QED
          BY <2>1, <4>1 DEF SilenceTold, AirFresh
      <3> QED
        BY <3>1, <3>2 DEF Stale
    <2>4. JoinsFresh'
      BY <1>1, <1>2, <2>1, <2>2 DEF JoinsFresh, AirFresh
    <2> QED
      BY <1>1, <1>2, <1>3, <1>5, <2>2, <2>3, <2>4, AirUndisturbed
  <1> QED
    BY <1>4, <1>5

LEMMA TickAir ==
    ASSUME TypeOK, AirInv, LimitNext, Tick
    PROVE  AirInv'
  <1>1. /\ UNCHANGED <<ws, udp, input>> /\ udp.step = "read" /\ input = <<>>
        /\ mixer.step = "select" /\ mixer'.step = "select"
        /\ ws[speaker] \in {"new", "joined", "gone"} /\ PeriodOver
    BY LimitBounds DEF Tick, Quiet, PeriodOver, TypeOK
  <1>2. ~Pending' /\ ~EndedTx /\ ~Taken
    BY <1>1 DEF Pending, EndedTx, Taken
  <1>3. Timer' = Older(Timer, TransmitTimeout)
        /\ states'[speaker].at = Older(states[speaker].at, EofTimeout + 1)
    BY LimitBounds DEF Tick, Timer, TypeOK, Stream
  <1>4. CASE Left
    BY <1>1, <1>4, AirTypeKept DEF AirInv, Left
  <1>5. CASE ~Left
    <2>1. JoinsFresh /\ SilenceTold /\ AirTyped /\ TimerCovers /\ ws[speaker] # "gone"
      BY <1>5 DEF AirInv, Left
    <2>2. /\ air' = IF silent >= EofTimeout THEN Unset ELSE Older(air, AirLimit)
          /\ silent' = IF silent >= EofTimeout THEN Unset ELSE Older(silent, EofTimeout)
      BY <1>1, <1>2, <2>1 DEF LimitNext
    <2>3. PendingCovered'
      BY <1>2 DEF PendingCovered
    <2>4. JoinsFresh'
      <3>1. ws'[speaker] # "bound" /\ mixer'.step # "clean" /\ ws' = ws /\ udp' = udp
        BY <1>1
      <3>2. air = Unset => air' = Unset
        BY <2>2 DEF Older
      <3> QED
        BY <1>2, <2>1, <3>1, <3>2 DEF JoinsFresh
    <2>5. CASE air = Unset
      <3>1. silent = Unset /\ air' = Unset /\ silent' = Unset
        BY <2>1, <2>2, <2>5, LimitBounds DEF SilenceTold, Older, Unset
      <3>2. SilenceTold' /\ TimerCovers'
        BY <3>1 DEF SilenceTold, TimerCovers
      <3> QED
        BY <2>3, <2>4, <3>2, AirTypeKept DEF AirInv
    <2>6. CASE air # Unset /\ silent >= EofTimeout
      <3>1. air' = Unset /\ silent' = Unset
        BY <2>2, <2>6
      <3>2. SilenceTold' /\ TimerCovers'
        BY <3>1 DEF SilenceTold, TimerCovers
      <3> QED
        BY <2>3, <2>4, <3>2, AirTypeKept DEF AirInv
    <2>7. CASE air # Unset /\ ~(silent >= EofTimeout)
      <3>1. /\ silent \in Nat /\ silent < EofTimeout /\ air \in 0 .. AirLimit
        BY <2>1, <2>7, LimitBounds DEF SilenceTold, AirTyped, AgeUpTo, Unset
      <3>2. silent' = silent + 1 /\ air' = IF air >= AirLimit THEN air ELSE air + 1
        BY <2>2, <2>7, <3>1, LimitBounds DEF Older, Unset
      <3>3. air' \in Nat /\ silent' \in Nat /\ air' <= air + 1
        BY <3>1, <3>2, LimitBounds
      <3>4. SilenceTold'
        <4>1. states[speaker].at \in AgeUpTo(EofTimeout + 1)
          BY LimitBounds DEF TypeOK, Stream
        <4>2. CASE states[speaker].at = Unset
          BY <1>3, <3>3, <4>2 DEF SilenceTold, Older, Unset
        <4>3. CASE states[speaker].at # Unset
          <5>1. states[speaker].at <= silent /\ states[speaker].at \in Nat
            BY <2>1, <3>1, <4>1, <4>3, LimitBounds DEF SilenceTold, AgeUpTo, Unset
          <5>2. states'[speaker].at <= silent'
            BY <1>3, <3>1, <3>2, <5>1, LimitBounds DEF Older, Unset
          <5> QED
            BY <3>3, <5>2 DEF SilenceTold, Unset
        <4> QED
          BY <4>2, <4>3
      <3>5. TimerCovers'
        <4>1. Timer \in AgeUpTo(TransmitTimeout)
          BY SpeakerTyped
        <4>2. CASE Timer = Unset
          <5>1. Timer' = Unset /\ air <= silent
            BY <1>3, <2>1, <2>7, <4>2 DEF TimerCovers, Older
          <5> QED
            BY <3>1, <3>2, <3>3, <5>1 DEF TimerCovers
        <4>3. CASE Timer # Unset
          <5>1. Timer \in Nat /\ Timer' \in Nat
                /\ Timer' = IF Timer >= TransmitTimeout THEN Timer ELSE Timer + 1
            BY <1>3, <4>1, <4>3, LimitBounds DEF Older, AgeUpTo, Unset
          <5>2. Timer' < TransmitTimeout =>
                   Timer' = Timer + 1 /\ air <= Timer + EofTimeout
            BY <2>1, <2>7, <4>3, <5>1, LimitBounds DEF TimerCovers
          <5>3. Timer' < TransmitTimeout => air' <= Timer' + EofTimeout
            BY <3>1, <3>3, <5>1, <5>2, LimitBounds
          <5> QED
            BY <5>1, <5>3 DEF TimerCovers, Unset
        <4> QED
          BY <4>2, <4>3
      <3> QED
        BY <2>3, <2>4, <3>4, <3>5, AirTypeKept DEF AirInv
    <2> QED
      BY <2>5, <2>6, <2>7
  <1> QED
    BY <1>4, <1>5

LEMMA NextAir ==
    ASSUME TypeOK, Membership, AirInv, LimitNext, TransmitTimeout > 0
    PROVE  AirInv' /\ (Taken /\ speaker \in participants => air' < AirLimit)
  <1>1. speaker \in participants => ~Left
    BY DEF Membership, Left
  <1>2. ASSUME NEW s \in Session, WsNext(s) PROVE AirInv' /\ ~Taken
    BY <1>2, WsAir DEF Taken, WsNext, WsSetChannel, AddParticipant, WsRemoveClient,
                       RemoveParticipant, RemoveParticipantTx, RemoveParticipantBusy
  <1>3. CASE UdpNext
    <2>1. ~Taken
      BY <1>3 DEF UdpNext, RoutePacket, TxGate, NotifyTxStop, NotifyTxCountdownStart, TypeOK,
                  TryAcceptPacket, NotifyBusyTimeoutElapsed, PushInput, MarkEOFTx,
                  MarkBusyEOF, UdpDone, Taken
    <2> QED
      BY <1>3, <2>1, UdpAir
  <1>4. CASE MixerInput
    BY <1>1, <1>4, MixerInputAir
  <1>5. CASE MixerTick
    BY <1>5, MixerTickAir DEF MixerTick, Taken
  <1>6. CASE CleanupStreamStates
    BY <1>6, CleanupAir DEF CleanupStreamStates, Taken
  <1>7. CASE Tick
    BY <1>7, TickAir DEF Tick, Taken
  <1> QED
    BY <1>2, <1>3, <1>4, <1>5, <1>6, <1>7 DEF LimitNext, Next, MixerNext

\* With a transmit timeout set, no session in the channel is taken from for longer
\* than that and an EOF timeout without a pause, for any timeouts and however
\* clean-up, joins and EOF markers forget the timer meanwhile (canAcceptTxPacket,
\* cleanupStreamStates).
THEOREM AirtimeKept ==
    ASSUME TransmitTimeout > 0
    PROVE  LimitSpec => AirtimeBounded
  <1>1. LimitInit => TypeOK /\ Membership /\ AirInv
    <2> SUFFICES ASSUME LimitInit PROVE AirInv
      BY InitType, MembershipInductive DEF LimitInit
    <2>1. air = Unset /\ silent = Unset /\ ~Pending /\ mixer.step = "select"
          /\ udp.sid # speaker
      BY LimitBounds DEF LimitInit, Init, Pending
    <2>2. AirTyped
      BY <2>1, LimitBounds, AgeZeroUnset DEF AirTyped
    <2> QED
      BY <2>1, <2>2 DEF AirInv, SilenceTold, TimerCovers, PendingCovered, JoinsFresh, AirFresh
  <1>2. TypeOK /\ Membership /\ AirInv /\ [LimitNext]_<<vars, sent>>
           => (TypeOK /\ Membership /\ AirInv)'
    <2>1. ASSUME AirInv, UNCHANGED <<vars, sent>> PROVE AirInv'
      BY <2>1 DEF vars, txVars, sent, AirInv, AirTyped, SilenceTold, TimerCovers, PendingCovered,
                  JoinsFresh, AirFresh, Pending, Left, Timer
    <2> QED
      BY <2>1, LimitSteps, NextKeepsType, MembershipInductive, NextAir
  <1>3. TypeOK /\ Membership /\ AirInv /\ LimitNext
           => (Taken /\ speaker \in participants => air' < AirLimit)
    BY NextAir
  <1> QED
    BY <1>1, <1>2, <1>3, PTL DEF LimitSpec, AirtimeBounded
=============================================================================
