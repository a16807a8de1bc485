---------------------------- MODULE UdpLinkProofs ----------------------------
(***************************************************************************)
(* Proofs about the UDP link for every timing, window and bound, and about *)
(* the datagrams for every session, sequence number and link report.       *)
(***************************************************************************)
EXTENDS UdpLink, TLAPS

-----------------------------------------------------------------------------
(* Datagrams.                                                               *)

\* A WiFi report is a byte for every RSSI (link_signal.cpp:22-31).
LEMMA WifiByte ==
    ASSUME NEW rssi \in Int
    PROVE  wifiRssiToByte(rssi) \in Byte
BY DEF wifiRssiToByte, clampByte, Byte

\* A cellular report is a byte for every level (link_signal.cpp:33-36).
LEMMA CellByte ==
    ASSUME NEW level \in Int
    PROVE  cellLevelToByte(level) \in Byte
BY DEF cellLevelToByte, clampByte, Byte

\* The uplink byte never is the one an answer to a keepalive carries
\* (link_signal.cpp:76-99).
LEMMA CombinedByte ==
    ASSUME NEW wifi \in Byte \cup {NoReport}, NEW cell \in Byte \cup {NoReport}
    PROVE  combinedByte(wifi, cell) \in Byte \ {kKeepaliveAckSignal}
BY NoReportAssumption
   DEF combinedByte, Byte, kKeepaliveAckSignal, kDefaultTxSignalStrength

\* The length of a payload that is not empty.
LEMMA Positive == ASSUME NEW size \in Size, size # 0 PROVE size > 0
BY DEF Size

\* A header and a payload make a datagram (protocol.cpp's pack).
LEMMA Packed ==
    ASSUME NEW sid \in Nat, NEW seq \in Nat, NEW signal \in Byte, NEW size \in Size
    PROVE  pack(sid, seq, signal, size) \in Datagram
BY DEF pack, Datagram

\* The receiver's tests take every audio frame a session sends for audio and
\* for nothing else, whatever its sequence number, link report and length; the
\* guard against empty frames is what keeps it from an EOF marker or keepalive
\* (session.cpp:1084-1097, udp.cpp:36-71).
THEOREM AudioIsAudio ==
    ASSUME NEW sid \in Nat, NEW seq \in Nat, NEW size \in Size,
           NEW wifi \in Byte \cup {NoReport}, NEW cell \in Byte \cup {NoReport},
           NEW d \in OpusFrames(sid, seq, combinedByte(wifi, cell), size)
    PROVE  /\ d \in Datagram /\ isAudio(d)
           /\ ~isKeepaliveSignal(d) /\ ~isKeepaliveAck(d, sid) /\ ~isTxEofMarker(d)
<1> DEFINE byte == combinedByte(wifi, cell)
           n == seq + 1
<1>1. byte \in Byte
  BY CombinedByte
<1>2. size # 0
  BY DEF OpusFrames
<1>3. d = pack(sid, n, byte, size)
  BY <1>2 DEF OpusFrames
<1> HIDE DEF byte
<1>4. size > 0
  BY <1>2, Positive
<1>5. n \in Nat
  OBVIOUS
<1> HIDE DEF n
<1>6. d \in Datagram
  BY <1>1, <1>3, <1>5, Packed
<1>7. d.size = size
  BY <1>3 DEF pack
<1> QED
  BY <1>2, <1>4, <1>6, <1>7
     DEF isAudio, isKeepaliveSignal, isKeepaliveAck, isTxEofMarker

\* The control datagrams are told apart as well: a keepalive is no EOF marker
\* and no answer, an EOF marker is neither, for every sequence number.
THEOREM ControlToldApart ==
    ASSUME NEW sid \in Nat, NEW seq \in Nat
    PROVE  /\ isKeepaliveSignal(Keepalive(sid)) /\ isTxEofMarker(TxEof(sid, seq))
           /\ ~isTxEofMarker(Keepalive(sid)) /\ ~isKeepaliveSignal(TxEof(sid, seq))
           /\ ~isKeepaliveAck(Keepalive(sid), sid)
           /\ ~isKeepaliveAck(TxEof(sid, seq), sid)
BY DEF Keepalive, TxEof, pack, isKeepaliveSignal, isTxEofMarker, isKeepaliveAck,
       kKeepaliveSignal, kKeepaliveAckSignal

-----------------------------------------------------------------------------
(* The keepalive loop.                                                      *)

\* No answer is awaited longer than the link has been silent: what the loop
\* reads as the age of the oldest unanswered keepalive bounds the silence from
\* below.  Before Welcome there is nothing to await.
Waits ==
    /\ pending <= silence
    /\ loop.pc = "judge" => welcome /\ loop.read <= loop.heard
    /\ ~welcome => pending = Never /\ stamping = {}

IInv == TypeOK /\ Waits

USE DEF Never

LEMMA Timings ==
    ASSUME TypeOK
    PROVE  /\ timings.lost \in Nat /\ timings.poll \in 1..SentCap
           /\ interval \in Nat /\ interval + Jitter <= SentCap
           /\ WaitCap \in Nat /\ SentCap \in Nat /\ MaxFlight \in Nat
           /\ RecoveryWindow \in Nat /\ Jitter \in Nat
BY LinkAssumption DEF TypeOK, timings, interval, Profile

LEMMA InitWaits == Init => IInv
<1> SUFFICES ASSUME Init PROVE IInv
  OBVIOUS
<1>1. TypeOK
  <2>1. WaitCap \in Nat /\ SentCap \in Nat /\ MaxFlight \in Nat /\ RecoveryWindow \in Nat
    BY LinkAssumption
  <2>2. loop \in [pc : {"look", "judge", "done"}, sleep : 0..SentCap,
                  read : Never..WaitCap, heard : 0..WaitCap]
    BY <2>1 DEF Init
  <2>3. welcome \in BOOLEAN /\ lost \in BOOLEAN /\ localTx \in BOOLEAN
    BY DEF Init
  <2>4. stamping \subseteq Sender /\ profile \in Profile
    BY DEF Init, Profile
  <2>5. /\ pending \in Never..WaitCap /\ sent \in Never..SentCap
        /\ silence \in 0..WaitCap /\ recovery \in 0..RecoveryWindow
        /\ up \in 0..MaxFlight /\ down \in 0..MaxFlight
    BY <2>1 DEF Init
  <2> QED
    BY <2>2, <2>3, <2>4, <2>5 DEF TypeOK
<1>2. Waits
  BY DEF Init, Waits
<1> QED
  BY <1>1, <1>2 DEF IInv

\* The sending half of sendUdpKeepalive disturbs no clock.
LEMMA SendKeepsType ==
    ASSUME TypeOK, NEW s \in Sender, sendUdpPayload(s)
    PROVE  stamping' \subseteq Sender /\ up' \in 0..MaxFlight
BY LinkAssumption DEF TypeOK, sendUdpPayload

LEMMA NextWaits == IInv /\ [Next]_vars => IInv'
<1> SUFFICES ASSUME IInv, [Next]_vars
             PROVE  IInv'
  OBVIOUS
<1> USE DEF IInv
<1>t. TypeOK
  OBVIOUS
<1>c. /\ timings.lost \in Nat /\ timings.poll \in 1..SentCap
      /\ interval \in Nat /\ interval + Jitter <= SentCap
      /\ WaitCap \in Nat /\ SentCap \in Nat /\ MaxFlight \in Nat
      /\ RecoveryWindow \in Nat /\ Jitter \in Nat
  BY <1>t, Timings
<1>w. WaitCap <= SentCap /\ 1 <= SentCap
  BY LinkAssumption, <1>c
<1>1. CASE HandleWelcome
  <2>1. stamping' \subseteq Sender /\ up' \in 0..MaxFlight
    BY <1>1, <1>t, SendKeepsType DEF HandleWelcome, Sender
  <2> QED
    BY <1>1, <1>c, <2>1 DEF HandleWelcome, TypeOK, Waits
<1>2. CASE PunchUdpNat
  <2>1. stamping' \subseteq Sender /\ up' \in 0..MaxFlight
    BY <1>2, <1>t, SendKeepsType DEF PunchUdpNat, Sender
  <2> QED
    BY <1>2, <1>c, <2>1 DEF PunchUdpNat, TypeOK, Waits
<1>3. CASE \E p \in Profile : SetPowerProfile(p)
  BY <1>3 DEF SetPowerProfile, TypeOK, Waits
<1>4. CASE \E on \in BOOLEAN : SetLocalTx(on)
  BY <1>4 DEF SetLocalTx, TypeOK, Waits
<1>5. CASE \E s \in Sender : Stamp(s)
  BY <1>5, <1>c DEF Stamp, PendingAfter, TypeOK, Waits
<1>6. CASE LoopLook
  <2>1. CASE ~welcome
    BY <1>6, <1>w, <2>1, <1>c DEF LoopLook, loopSleeps, TypeOK, Waits
  <2>2. CASE welcome /\ pending # Never
    BY <1>6, <2>2, <1>c DEF LoopLook, TypeOK, Waits
  <2>3. CASE welcome /\ pending = Never
    <3>1. PICK d \in Delays(interval) : loopSleeps("look", d)
      BY <1>6, <2>3 DEF LoopLook
    <3>2. d \in 0..SentCap
      BY <3>1, <1>c DEF Delays
    <3>3. stamping' \subseteq Sender /\ up' \in 0..MaxFlight
      BY <1>6, <2>3, <1>t, SendKeepsType DEF LoopLook, Sender, TypeOK
    <3> QED
      BY <1>6, <2>3, <3>1, <3>2, <3>3, <1>c DEF LoopLook, loopSleeps, TypeOK, Waits
  <2> QED
    BY <2>1, <2>2, <2>3 DEF TypeOK
<1>7. CASE LoopJudge
  <2>1. welcome /\ loop.read \in Int /\ loop.pc = "judge"
    BY <1>7 DEF LoopJudge, Waits, TypeOK
  <2>2. CASE /\ lost' = TRUE /\ pending' = Never /\ loopSleeps("done", 0)
             /\ UNCHANGED <<stamping, up>>
    BY <1>7, <2>1, <2>2, <1>c DEF LoopJudge, loopSleeps, TypeOK, Waits
  <2>3. CASE /\ loopSleeps("look", timings.poll) /\ UNCHANGED <<lost, pending>>
             /\ IF Retransmits THEN sendUdpPayload("loop")
                ELSE UNCHANGED <<stamping, up>>
    <3>1. stamping' \subseteq Sender /\ up' \in 0..MaxFlight
      BY <2>3, <1>t, SendKeepsType DEF Sender, TypeOK
    <3>2. UNCHANGED <<welcome, sent, recovery, localTx, profile, down, silence>>
      BY <1>7 DEF LoopJudge
    <3>3. loop' = [pc |-> "look", sleep |-> timings.poll, read |-> Never, heard |-> 0]
      BY <2>3 DEF loopSleeps
    <3>4. TypeOK'
      BY <2>3, <3>1, <3>2, <3>3, <1>c DEF TypeOK
    <3> QED
      BY <2>1, <2>3, <3>2, <3>3, <3>4 DEF Waits
  <2> QED
    BY <1>7, <2>2, <2>3 DEF LoopJudge
<1>8. CASE RelayAnswers
  BY <1>8, <1>c DEF RelayAnswers, TypeOK, Waits
<1>9. CASE AckArrives
  BY <1>9, <1>c DEF AckArrives, PendingAnswered, TypeOK, Waits
<1>10. CASE Tick
  <2>1. /\ pending' \in Never..WaitCap /\ sent' \in Never..SentCap
        /\ silence' \in 0..WaitCap /\ recovery' \in 0..RecoveryWindow
       
    BY <1>10, <1>c DEF Tick, older, RecoveryLeft, TypeOK
  <2>2. pending' <= silence'
    BY <1>10, <1>c DEF Tick, older, TypeOK, Waits
  <2>3. loop' \in [pc : {"look", "judge", "done"}, sleep : 0..SentCap,
                   read : Never..WaitCap, heard : 0..WaitCap]
    BY <1>10, <1>c DEF Tick, TypeOK
  <2>4. ~welcome' => pending' = Never /\ stamping' = {}
    BY <1>10, <1>c DEF Tick, older, TypeOK, Waits
  <2> QED
    BY <1>10, <2>1, <2>2, <2>3, <2>4 DEF Tick, TypeOK, Waits
<1>11. CASE UNCHANGED vars
  BY <1>11 DEF vars, TypeOK, Waits
<1> QED
  BY <1>1, <1>2, <1>3, <1>4, <1>5, <1>6, <1>7, <1>8, <1>9, <1>10, <1>11 DEF Next

\* Type correctness of the link for every timing and bound.
THEOREM LinkTypeCorrect == Spec => []TypeOK
<1>1. IInv => TypeOK
  BY DEF IInv
<1> QED
  BY InitWaits, NextWaits, <1>1, PTL DEF Spec

\* keepaliveLoop gives a link up only after a loss timeout without an answer,
\* for every timing, profile change and order of sends and answers
\* (session.cpp:1350-1355).
THEOREM LossDeserved == Spec => LossIsDeserved
<1>1. IInv /\ [Next]_vars => [~lost /\ lost' => loop.heard >= timings.lost]_vars
  <2> SUFFICES ASSUME IInv, [Next]_vars, ~lost, lost'
               PROVE  loop.heard >= timings.lost
    OBVIOUS
  <2>1. LoopJudge /\ loop.read >= timings.lost
    BY DEF Next, vars, HandleWelcome, PunchUdpNat, SetPowerProfile, SetLocalTx,
           Stamp, LoopLook, LoopJudge, RelayAnswers, AckArrives, Tick
  <2>2. loop.read <= loop.heard /\ loop.read \in Int /\ loop.heard \in Int
    BY <2>1, Timings DEF LoopJudge, IInv, Waits, TypeOK
  <2>3. timings.lost \in Nat
    BY Timings DEF IInv
  <2> QED
    BY <2>1, <2>2, <2>3
<1> QED
  BY InitWaits, NextWaits, <1>1, PTL DEF Spec, LossIsDeserved

=============================================================================
