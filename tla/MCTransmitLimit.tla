-------------------------- MODULE MCTransmitLimit ---------------------------
(***************************************************************************)
(* RelayFloor with a transmit timeout for TLC, with history variables that *)
(* record what each session sent independently of the code's own maps.     *)
(***************************************************************************)
EXTENDS RelayFloor, TLC

CONSTANT speaker

ASSUME SpeakerAssumption == speaker \in Session

\* What the speaker did.
VARIABLES
    air,      \* age of the first packet of its unbroken air time in the mixer
    silent,   \* age of the last packet the mixer took from it
    stopped   \* age of the last tx_stop sent to it

sent == <<air, silent, stopped>>

EndedTx == udp.step = "eof" /\ udp'.step # "eof" /\ udp.sid = speaker
Stopped == udp.step = "gate" /\ udp'.step = "stop" /\ udp.sid = speaker
Taken == udp' = udp /\ input' # input /\ Head(input) = speaker
PeriodOver == mixer.ticked /\ ~mixer'.ticked

\* One EOF timeout of grace: packets that reach the mixer before the session is
\* registered, or behind its own EOF marker, are not covered by a running timer.
AirLimit == TransmitTimeout + EofTimeout

\* Air time is unbroken while packets follow each other within the EOF
\* timeout and the session sends no EOF marker.  Ages beyond what the
\* properties ask about are dropped.
LimitNext ==
    /\ Next
    /\ air' = IF Taken THEN (IF air = Unset THEN 0 ELSE air)
              ELSE IF EndedTx \/ ws[speaker] = "gone" THEN Unset
              ELSE IF PeriodOver
              THEN (IF silent >= EofTimeout THEN Unset ELSE Older(air, AirLimit))
              ELSE air
    /\ silent' = IF Taken THEN 0
                 ELSE IF EndedTx \/ ws[speaker] = "gone" THEN Unset
                 ELSE IF PeriodOver
                 THEN (IF silent >= EofTimeout THEN Unset ELSE Older(silent, EofTimeout))
                 ELSE silent
    /\ stopped' = IF Stopped THEN 0
                  ELSE IF ws[speaker] = "gone" THEN Unset
                  ELSE IF PeriodOver
                  THEN (IF stopped + 1 >= NoticeGap THEN Unset ELSE Older(stopped, NoticeGap))
                  ELSE stopped

LimitInit == Init /\ air = Unset /\ silent = Unset /\ stopped = Unset
LimitSpec == LimitInit /\ [][LimitNext]_<<vars, sent>>

-----------------------------------------------------------------------------
\* However handlers and clean-up interleave, the mixer takes no packet from a
\* session in the channel whose unbroken air time has reached the transmit
\* timeout plus that grace (canAcceptTxPacket against cleanupStreamStates).
AirtimeBounded ==
    [][Taken /\ speaker \in participants => air' < AirLimit]_<<vars, sent>>

\* Two tx_stop notices to one session are at least a second apart, although the
\* entry that throttles them is deleted by markEOF, removeParticipant and
\* cleanupStreamStates (shouldNotifyTxStopLocked).
StopNoticesThrottled == [][Stopped => stopped = Unset]_<<vars, sent>>
=============================================================================
