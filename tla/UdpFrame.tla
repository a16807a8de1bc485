------------------------------ MODULE UdpFrame ------------------------------
(***************************************************************************)
(* The datagrams of owalkie-core: a nine byte header (session, sequence,   *)
(* signal byte) and an Opus payload.  Keepalives, their answers, EOF       *)
(* markers and audio share the format and are told apart by its values.    *)
(* A payload is abstracted to its length; link_signal gives audio its      *)
(* signal byte.                                                            *)
(***************************************************************************)
EXTENDS Integers

CONSTANT NoReport   \* a link mode nothing was reported for

ASSUME NoReportAssumption == NoReport \notin 0..255

kKeepaliveSignal         == 255
kKeepaliveAckSignal      == 254
kDefaultTxSignalStrength == 255

Byte == 0..255

\* pack refuses a longer payload.
MaxOpusSize == 65535

Size == 0..MaxOpusSize

Datagram == [sid : Nat, seq : Nat, signal : Byte, size : Size]

pack(sid, seq, signal, size) ==
    [sid |-> sid, seq |-> seq, signal |-> signal, size |-> size]

isKeepaliveSignal(d) ==
    d.size = 0 /\ d.seq = 0 /\ d.signal = kKeepaliveSignal

isKeepaliveAck(d, sid) ==
    d.size = 0 /\ d.sid = sid /\ d.seq = 0 /\ d.signal = kKeepaliveAckSignal

isTxEofMarker(d) == d.size = 0 /\ d.seq > 0 /\ d.signal = 0

\* What udpReadLoop goes on to decode: more than a header.
isAudio(d) == d.size > 0

-----------------------------------------------------------------------------
(* What a session sends.  seq is the counter before the call.               *)

Keepalive(sid) == pack(sid, 0, kKeepaliveSignal, 0)

TxEof(sid, seq) == pack(sid, seq + 1, 0, 0)

\* sendOpusFrame returns before it counts or sends an empty frame.
OpusFrames(sid, seq, signal, size) ==
    IF size = 0 THEN {} ELSE {pack(sid, seq + 1, signal, size)}

-----------------------------------------------------------------------------
(* link_signal: the reported link quality as a byte.                        *)

clampByte(v) == IF v < 0 THEN 0 ELSE IF v > 255 THEN 255 ELSE v

\* Linear between -100 and -55 dBm, truncated.
wifiRssiToByte(rssi) ==
    IF rssi <= -100 THEN 0
    ELSE IF rssi >= -55 THEN 255
    ELSE clampByte(((rssi + 100) * 255) \div 45)

cellLevelToByte(level) ==
    LET l == IF level < 0 THEN 0 ELSE IF level > 4 THEN 4 ELSE level
    IN  clampByte((l * 255) \div 4)

\* Registry::combinedByte: the better of the two modes; nothing reported, or
\* the value an answer would carry, is sent as the default.
combinedByte(wifi, cell) ==
    LET best == IF wifi = NoReport THEN cell
                ELSE IF cell = NoReport \/ cell < wifi THEN wifi ELSE cell
    IN  IF best \in {NoReport, kKeepaliveAckSignal}
        THEN kDefaultTxSignalStrength
        ELSE best

=============================================================================
