----------------------------- MODULE RelayFloor -----------------------------
(***************************************************************************)
(* Uplink admission of one relay channel (backend/cmd/relay/mixer.go with  *)
(* the parts of hub.go and ws_server.go that call it): the busy-mode floor *)
(* and the transmit timeout.                                               *)
(*                                                                         *)
(* Three kinds of goroutines share this state, each action is one of their *)
(* critical sections:                                                      *)
(*   Udp...    the single udpReader: routePacket, push, markEOF            *)
(*   Ws...     one wsHandler per session: switchChannel, removeClient      *)
(*   Mixer...  the channel's mixer loop: input, ticker.C                   *)
(*                                                                         *)
(* Times are kept as ages, in packet periods (packetDur is 1), that one    *)
(* Tick advances together; an age stops growing where the code stops       *)
(* telling ages apart.  Goroutines are prompt: a packet period ends only   *)
(* when every handler has returned, the channel is drained and the mixer   *)
(* has had its tick; within a period they interleave in every order.       *)
(***************************************************************************)
EXTENDS Integers, Sequences

CONSTANTS
    Session,          \* session ids (nextSessionID never repeats one here)
    NoSession,        \* session id 0
    BusyMode,         \* server.busy_mode
    BusyTimeout,      \* server.busy_timeout, 0 disables
    TransmitTimeout,  \* server.transmit_timeout, 0 disables
    CountdownLead,    \* TransmitTimeout less five seconds, at least 0
    NoticeGap,        \* the second between two tx_stop notices
    Hangover,         \* hangoverDur
    EofTimeout,       \* eofTimeoutDur
    InputCap,         \* capacity of channelMixer.input
    MaxBuffered       \* bound on the packets a jitter buffer is known to hold

ASSUME FloorAssumption ==
    /\ NoSession \notin Session
    /\ BusyMode \in BOOLEAN
    /\ {BusyTimeout, TransmitTimeout, CountdownLead, NoticeGap} \subseteq Nat
    /\ {Hangover, EofTimeout, InputCap} \subseteq Nat \ {0}
    /\ MaxBuffered \in Nat
    /\ CountdownLead <= TransmitTimeout
    \* newChannelMixer: at least two packets, and a packet more than the hangover
    /\ Hangover >= 2
    /\ EofTimeout >= Hangover + 1
    \* transmit_timeout counts whole seconds, the notices keep one apart
    /\ NoticeGap >= 1
    /\ TransmitTimeout = 0 \/ TransmitTimeout >= NoticeGap

PacketDur == 1
Unset == -1                        \* no map entry, or a zero time.Time
AgeUpTo(cap) == (0 .. cap) \union {Unset}
Older(a, cap) == IF a = Unset \/ a >= cap THEN a ELSE a + 1

VARIABLES
    ws,                     \* progress of each session's wsHandler
    participants,
    busySessionID, busyLastPacketAt, busyExplicitEOF,
    busyStartedAt, busyParallelAllowed,
    txStartedAt, txForceStopped, txLastStopNoticeAt, txCountdownNotified,
    input,                  \* channel from udpReader to the mixer loop
    udp,                    \* what udpReader is doing, and for which session
    states,                 \* the mixer loop's speakerStreamState per session
    mixer                   \* the mixer loop: step, snapshot, ticked already?

busyVars == <<busySessionID, busyLastPacketAt, busyExplicitEOF,
              busyStartedAt, busyParallelAllowed>>
txVars == <<txStartedAt, txForceStopped, txLastStopNoticeAt, txCountdownNotified>>
vars == <<ws, participants, busyVars, txVars, input, udp, states, mixer>>

WsStep == {"new", "bound", "joined", "unlisted", "removed", "forgotten", "gone"}
UdpStep == {"read", "gate", "stop", "countdown", "floor", "unlock", "enqueue",
            "eof", "eofFloor"}
\* at is the age of lastPacketAt, Unset when the session has no state
Stream == [at : AgeUpTo(EofTimeout + 1), buffered : 0 .. MaxBuffered]
NoStream == [at |-> Unset, buffered |-> 0]

TypeOK ==
    /\ ws \in [Session -> WsStep]
    /\ participants \subseteq Session
    /\ busySessionID \in Session \union {NoSession}
    /\ busyLastPacketAt \in AgeUpTo(Hangover + 1)
    /\ busyStartedAt \in AgeUpTo(BusyTimeout)
    /\ busyExplicitEOF \in BOOLEAN /\ busyParallelAllowed \in BOOLEAN
    /\ txStartedAt \in [Session -> AgeUpTo(TransmitTimeout)]
    /\ txLastStopNoticeAt \in [Session -> AgeUpTo(NoticeGap)]
    /\ txForceStopped \in [Session -> BOOLEAN]
    /\ txCountdownNotified \in [Session -> BOOLEAN]
    /\ input \in Seq(Session) /\ Len(input) <= InputCap
    /\ udp \in [step : UdpStep, sid : Session \union {NoSession}]
    /\ udp.step # "read" => udp.sid \in Session
    /\ states \in [Session -> Stream]
    /\ mixer \in [step : {"select", "clean"}, seen : SUBSET Session, ticked : BOOLEAN]

Init ==
    /\ ws = [s \in Session |-> "new"]
    /\ participants = {}
    /\ busySessionID = NoSession
    /\ busyLastPacketAt = Unset /\ busyStartedAt = Unset
    /\ busyExplicitEOF = FALSE /\ busyParallelAllowed = FALSE
    /\ txStartedAt = [s \in Session |-> Unset]
    /\ txLastStopNoticeAt = [s \in Session |-> Unset]
    /\ txForceStopped = [s \in Session |-> FALSE]
    /\ txCountdownNotified = [s \in Session |-> FALSE]
    /\ input = <<>>
    /\ udp = [step |-> "read", sid |-> NoSession]
    /\ states = [s \in Session |-> NoStream]
    /\ mixer = [step |-> "select", seen |-> {}, ticked |-> FALSE]

-----------------------------------------------------------------------------
(* The wsHandler goroutine of one session. *)

\* switchChannel: setChannel, then addParticipant.  From here on routePacket
\* finds the client and its channel.
WsSetChannel(s) ==
    /\ ws[s] = "new"
    /\ ws' = [ws EXCEPT ![s] = "bound"]
    /\ UNCHANGED <<participants, busyVars, txVars, input, udp, states, mixer>>

AddParticipant(s) ==
    /\ ws[s] = "bound"
    /\ ws' = [ws EXCEPT ![s] = "joined"]
    /\ participants' = participants \union {s}
    /\ UNCHANGED <<busyVars, txVars, input, udp, states, mixer>>

\* The connection ends: removeClient first takes the client off the hub's
\* list, then removeParticipant cleans up one lock at a time.
WsRemoveClient(s) ==
    /\ ws[s] = "joined"
    /\ ws' = [ws EXCEPT ![s] = "unlisted"]
    /\ UNCHANGED <<participants, busyVars, txVars, input, udp, states, mixer>>

RemoveParticipant(s) ==
    /\ ws[s] = "unlisted"
    /\ ws' = [ws EXCEPT ![s] = "removed"]
    /\ participants' = participants \ {s}
    /\ UNCHANGED <<busyVars, txVars, input, udp, states, mixer>>

\* delete() on the four transmit-timeout maps.
ForgetTx(s) ==
    /\ txStartedAt' = [txStartedAt EXCEPT ![s] = Unset]
    /\ txForceStopped' = [txForceStopped EXCEPT ![s] = FALSE]
    /\ txLastStopNoticeAt' = [txLastStopNoticeAt EXCEPT ![s] = Unset]
    /\ txCountdownNotified' = [txCountdownNotified EXCEPT ![s] = FALSE]

RemoveParticipantTx(s) ==
    /\ ws[s] = "removed"
    /\ ws' = [ws EXCEPT ![s] = "forgotten"]
    /\ ForgetTx(s)
    /\ UNCHANGED <<participants, busyVars, input, udp, states, mixer>>

ResetBusyHold ==
    /\ busySessionID' = NoSession
    /\ busyExplicitEOF' = FALSE
    /\ busyStartedAt' = Unset
    /\ busyParallelAllowed' = FALSE
    /\ UNCHANGED busyLastPacketAt

RemoveParticipantBusy(s) ==
    /\ ws[s] = "forgotten"
    /\ ws' = [ws EXCEPT ![s] = "gone"]
    /\ IF busySessionID = s THEN ResetBusyHold ELSE UNCHANGED busyVars
    /\ UNCHANGED <<participants, txVars, input, udp, states, mixer>>

-----------------------------------------------------------------------------
(* udpReader: one datagram at a time. *)

UdpGoto(step) == udp' = [udp EXCEPT !.step = step]
UdpDone == udp' = [step |-> "read", sid |-> NoSession]

\* routePacket: the client is on the hub's list and has a channel.  An EOF
\* marker goes to markTxEOF, audio to push; keepalives do not come here.
RoutePacket(s) ==
    /\ udp.step = "read"
    /\ ws[s] \in {"bound", "joined"}
    /\ \E step \in {"gate", "eof"} : udp' = [step |-> step, sid |-> s]
    /\ UNCHANGED <<ws, participants, busyVars, txVars, input, states, mixer>>

\* Mutant of NoticeDue: a period too early.
NoticeDueEarly(s) == txLastStopNoticeAt[s] = Unset \/ txLastStopNoticeAt[s] + 1 >= NoticeGap

\* shouldNotifyTxStopLocked
NoticeDue(s) == txLastStopNoticeAt[s] = Unset \/ txLastStopNoticeAt[s] >= NoticeGap

StopNotice(s) ==
    IF NoticeDue(s)
    THEN /\ txLastStopNoticeAt' = [txLastStopNoticeAt EXCEPT ![s] = 0]
         /\ UdpGoto("stop")
    ELSE /\ UNCHANGED txLastStopNoticeAt
         /\ UdpDone

\* canAcceptTxPacket, the section under txMu.
GateOpen(s) ==
    /\ TransmitTimeout = 0
    /\ UdpGoto("floor")
    /\ UNCHANGED txVars

GateStart(s) ==
    /\ TransmitTimeout > 0
    /\ txStartedAt[s] = Unset
    /\ txStartedAt' = [txStartedAt EXCEPT ![s] = 0]
    /\ txCountdownNotified' = [txCountdownNotified EXCEPT ![s] = FALSE]
    /\ UdpGoto("floor")
    /\ UNCHANGED <<txForceStopped, txLastStopNoticeAt>>

GateRefuse(s) ==
    /\ TransmitTimeout > 0
    /\ txStartedAt[s] # Unset
    /\ txForceStopped[s] \/ txStartedAt[s] >= TransmitTimeout
    /\ txForceStopped' = [txForceStopped EXCEPT ![s] = TRUE]
    /\ StopNotice(s)
    /\ UNCHANGED <<txStartedAt, txCountdownNotified>>

CountdownDue(s) == ~txCountdownNotified[s] /\ txStartedAt[s] >= CountdownLead

GatePass(s) ==
    /\ TransmitTimeout > 0
    /\ txStartedAt[s] # Unset
    /\ ~txForceStopped[s] /\ txStartedAt[s] < TransmitTimeout
    /\ IF CountdownDue(s)
       THEN /\ txCountdownNotified' = [txCountdownNotified EXCEPT ![s] = TRUE]
            /\ UdpGoto("countdown")
       ELSE /\ UNCHANGED txCountdownNotified
            /\ UdpGoto("floor")
    /\ UNCHANGED <<txStartedAt, txForceStopped, txLastStopNoticeAt>>

TxGate ==
    /\ udp.step = "gate"
    /\ \/ GateOpen(udp.sid)
       \/ GateStart(udp.sid)
       \/ GateRefuse(udp.sid)
       \/ GatePass(udp.sid)
    /\ UNCHANGED <<ws, participants, busyVars, input, states, mixer>>

\* notifyTxStop and notifyTxCountdownStart, after txMu is released; the
\* message goes out only if the client is still listed, nothing else changes.
NotifyTxStop ==
    /\ udp.step = "stop"
    /\ UdpDone
    /\ UNCHANGED <<ws, participants, busyVars, txVars, input, states, mixer>>

NotifyTxCountdownStart ==
    /\ udp.step = "countdown"
    /\ UdpGoto("floor")
    /\ UNCHANGED <<ws, participants, busyVars, txVars, input, states, mixer>>

-----------------------------------------------------------------------------
(* tryAcceptPacket, one section under busyMu. *)

BusyWindowExpired ==
    \/ busySessionID = NoSession
    \/ busyLastPacketAt > (IF busyExplicitEOF THEN PacketDur ELSE Hangover)

\* Mutants of FloorFree: a holder that left is not noticed; an EOF marker
\* frees the floor at once.
FloorFreeIfExpired == BusyWindowExpired
FloorFreeAfterEOF ==
    BusyWindowExpired \/ busySessionID \notin participants \/ busyExplicitEOF

\* A holder that is not a participant any more is reset first.
FloorFree == BusyWindowExpired \/ busySessionID \notin participants

ParallelDue ==
    /\ BusyTimeout > 0
    /\ ~busyParallelAllowed
    /\ busyStartedAt # Unset
    /\ busyStartedAt >= BusyTimeout

TakeFloor(s) ==
    /\ FloorFree
    /\ busySessionID' = s
    /\ busyLastPacketAt' = 0
    /\ busyExplicitEOF' = FALSE
    /\ busyStartedAt' = 0
    /\ busyParallelAllowed' = FALSE
    /\ UdpGoto("enqueue")

KeepFloor(s) ==
    /\ ~FloorFree
    /\ busyParallelAllowed \/ ParallelDue \/ busySessionID = s
    /\ busyParallelAllowed' = (busyParallelAllowed \/ ParallelDue)
    /\ busyLastPacketAt' = 0
    /\ busyExplicitEOF' = FALSE
    /\ UdpGoto(IF ParallelDue THEN "unlock" ELSE "enqueue")
    /\ UNCHANGED <<busySessionID, busyStartedAt>>

RefuseBusy(s) ==
    /\ ~FloorFree
    /\ ~busyParallelAllowed /\ ~ParallelDue /\ busySessionID # s
    /\ UdpDone
    /\ UNCHANGED busyVars

TryAcceptPacket ==
    /\ udp.step = "floor"
    /\ IF BusyMode
       THEN TakeFloor(udp.sid) \/ KeepFloor(udp.sid) \/ RefuseBusy(udp.sid)
       ELSE UdpGoto("enqueue") /\ UNCHANGED busyVars
    /\ UNCHANGED <<ws, participants, txVars, input, states, mixer>>

\* notifyBusyTimeoutElapsed, after busyMu is released (its effect on the
\* channel's ptt_lock is the subject of module RxLock).
NotifyBusyTimeoutElapsed ==
    /\ udp.step = "unlock"
    /\ UdpGoto("enqueue")
    /\ UNCHANGED <<ws, participants, busyVars, txVars, input, states, mixer>>

\* Mutant of PushInput: nothing is dropped from a full channel.
PushInputUnbounded ==
    /\ udp.step = "enqueue"
    /\ input' = Append(input, udp.sid)
    /\ UdpDone
    /\ UNCHANGED <<ws, participants, busyVars, txVars, states, mixer>>

\* push: hand the admitted packet to the mixer loop; a full channel loses its
\* oldest element to the new one.
PushInput ==
    /\ udp.step = "enqueue"
    /\ input' = Append(IF Len(input) < InputCap THEN input ELSE Tail(input), udp.sid)
    /\ UdpDone
    /\ UNCHANGED <<ws, participants, busyVars, txVars, states, mixer>>

\* markEOF: the transmit-timeout maps, then the busy hold.  What the mixer loop
\* does with the marker it is sent at the end touches nothing here.
MarkEOFTx ==
    /\ udp.step = "eof"
    /\ ForgetTx(udp.sid)
    /\ UdpGoto("eofFloor")
    /\ UNCHANGED <<ws, participants, busyVars, input, states, mixer>>

MarkBusyEOF ==
    /\ udp.step = "eofFloor"
    /\ IF BusyMode /\ busySessionID = udp.sid
       THEN /\ busyExplicitEOF' = TRUE
            /\ busyLastPacketAt' = 0
            /\ UNCHANGED <<busySessionID, busyStartedAt, busyParallelAllowed>>
       ELSE UNCHANGED busyVars
    /\ UdpDone
    /\ UNCHANGED <<ws, participants, txVars, input, states, mixer>>

-----------------------------------------------------------------------------
(* The mixer loop.  What it keeps per speaker is reduced to what decides    *)
(* when the transmit-timeout entry is forgotten: lastPacketAt, and whether  *)
(* buffered packets can still refresh it.                                   *)

MixerInput ==
    /\ mixer.step = "select"
    /\ input # <<>>
    /\ LET s == Head(input)
           n == states[s].buffered + 1
       IN states' = [states EXCEPT ![s] =
              [at |-> 0, buffered |-> IF n > MaxBuffered THEN MaxBuffered ELSE n]]
    /\ input' = Tail(input)
    /\ UNCHANGED <<ws, participants, busyVars, txVars, udp, mixer>>

\* mixAndBroadcast plays at most one buffered packet per speaker, and a packet
\* played refreshes lastPacketAt; cleanupStreamStates then copies participants.
MixerTick ==
    /\ mixer.step = "select"
    /\ ~mixer.ticked
    /\ \E played \in SUBSET {s \in Session : states[s].buffered > 0} :
          states' = [s \in Session |->
              IF s \in played
              THEN [at |-> 0, buffered |-> states[s].buffered - 1]
              ELSE states[s]]
    /\ mixer' = [step |-> "clean", seen |-> participants, ticked |-> TRUE]
    /\ UNCHANGED <<ws, participants, busyVars, txVars, input, udp>>

\* Mutant of Stale: forgotten at the EOF timeout, not after it.
StaleAtTimeout(s) ==
    /\ states[s].at # Unset
    /\ s \notin mixer.seen \/ states[s].at >= EofTimeout

\* Speakers that left, or were silent for longer than the EOF timeout.
Stale(s) ==
    /\ states[s].at # Unset
    /\ s \notin mixer.seen \/ states[s].at > EofTimeout

\* cleanupStreamStates under txMu; txCountdownNotified keeps its entry.
CleanupStreamStates ==
    /\ mixer.step = "clean"
    /\ states' = [s \in Session |-> IF Stale(s) THEN NoStream ELSE states[s]]
    /\ txStartedAt' = [s \in Session |-> IF Stale(s) THEN Unset ELSE txStartedAt[s]]
    /\ txForceStopped' = [s \in Session |-> txForceStopped[s] /\ ~Stale(s)]
    /\ txLastStopNoticeAt' =
          [s \in Session |-> IF Stale(s) THEN Unset ELSE txLastStopNoticeAt[s]]
    /\ mixer' = [mixer EXCEPT !.step = "select", !.seen = {}]
    /\ UNCHANGED <<ws, participants, busyVars, txCountdownNotified, input, udp>>

-----------------------------------------------------------------------------
Quiet ==
    /\ udp.step = "read"
    /\ input = <<>>
    /\ mixer.step = "select" /\ mixer.ticked
    /\ \A s \in Session : ws[s] \in {"new", "joined", "gone"}

Tick ==
    /\ Quiet
    /\ busyLastPacketAt' = Older(busyLastPacketAt, Hangover + 1)
    /\ busyStartedAt' = Older(busyStartedAt, BusyTimeout)
    /\ txStartedAt' = [s \in Session |-> Older(txStartedAt[s], TransmitTimeout)]
    /\ txLastStopNoticeAt' = [s \in Session |-> Older(txLastStopNoticeAt[s], NoticeGap)]
    /\ states' = [s \in Session |-> [states[s] EXCEPT !.at = Older(@, EofTimeout + 1)]]
    /\ mixer' = [mixer EXCEPT !.ticked = FALSE]
    /\ UNCHANGED <<ws, participants, busySessionID, busyExplicitEOF, busyParallelAllowed,
                   txForceStopped, txCountdownNotified, input, udp>>

WsNext(s) ==
    \/ WsSetChannel(s) \/ AddParticipant(s) \/ WsRemoveClient(s)
    \/ RemoveParticipant(s) \/ RemoveParticipantTx(s) \/ RemoveParticipantBusy(s)

UdpNext ==
    \/ \E s \in Session : RoutePacket(s)
    \/ TxGate \/ NotifyTxStop \/ NotifyTxCountdownStart
    \/ TryAcceptPacket \/ NotifyBusyTimeoutElapsed \/ PushInput
    \/ MarkEOFTx \/ MarkBusyEOF

MixerNext == MixerInput \/ MixerTick \/ CleanupStreamStates

Next == (\E s \in Session : WsNext(s)) \/ UdpNext \/ MixerNext \/ Tick

Spec == Init /\ [][Next]_vars

-----------------------------------------------------------------------------
(* The abstract floor. *)

Held == ~BusyWindowExpired
InAdmission == IF udp.step \in {"unlock", "enqueue"} THEN udp.sid ELSE NoSession

Floor == INSTANCE ChannelFloor WITH
    members  <- participants,
    owner    <- busySessionID,
    held     <- Held,
    open     <- busyParallelAllowed,
    admitted <- InAdmission

\* In busy mode admission is a floor: a packet is queued only for the session
\* that holds it, or for anybody after busy_timeout opened it, and nobody takes
\* it from a holder that is present and inside its hold window.
FloorRefinement == Floor!Spec
=============================================================================
