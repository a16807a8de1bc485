-------------------------- MODULE MCSpeakerStream ---------------------------
(***************************************************************************)
(* SpeakerStream for TLC, with history variables that record what was      *)
(* played, what arrived too late, and whether an EOF has settled.          *)
(***************************************************************************)
EXTENDS SpeakerStream

VARIABLES
    top,      \* highest sequence number played
    late,     \* buffered packets that came after playout had begun above them
    ended,    \* the last thing handled for the speaker is an EOF marker
    rest      \* mixer ticks since then with nothing buffered

history == <<top, late, ended, rest>>

HReceive(q, gap) ==
    /\ Receive(q, gap)
    /\ late' = (IF q <= top \/ (jitter.started /\ q < jitter.head)
                THEN late \union {q} ELSE late) \intersect jitter'.packets
    /\ ended' = FALSE /\ rest' = 0
    /\ UNCHANGED top

HHandleEOF ==
    /\ HandleEOF
    /\ ended' = TRUE /\ rest' = 0
    /\ UNCHANGED <<top, late>>

HMixTick ==
    /\ MixTick
    /\ top' = IF Played > top THEN Played ELSE top
    /\ late' = late \intersect jitter'.packets
    /\ rest' = IF ended /\ jitter.packets = {} /\ rest <= SettleWindow THEN rest + 1 ELSE rest
    /\ UNCHANGED ended

HMissTick == MissTick /\ UNCHANGED history

HLeave == Leave /\ UNCHANGED history

HNext ==
    \/ \E q \in Arrivals, gap \in Gaps : HReceive(q, gap)
    \/ HHandleEOF \/ HMixTick \/ HMissTick \/ HLeave

HInit == Init /\ top = 0 /\ late = {} /\ ended = FALSE /\ rest = 0
HSpec == HInit /\ [][HNext]_<<vars, history>>
HFairSpec == HSpec /\ WF_<<vars, history>>(HMixTick)

-----------------------------------------------------------------------------
\* The packets of a speaker are played in the order of their numbers, none
\* twice: all that is ever played below an earlier packet is one that also
\* arrived behind it (pop, over all ways the head moves).
PlayoutOrdered ==
    [][HMixTick /\ Played # NoPacket => Played > top \/ Played \in late]_<<vars, history>>

\* As long as nothing late is buffered, a playout that has begun takes a packet
\* at every tick until the queue is empty, whatever was lost in between.
LossNeverStalls ==
    [][HMixTick /\ jitter.started /\ jitter.packets # {} /\ late = {}
         => Played # NoPacket]_<<vars, history>>

\* Once an explicit EOF has settled with nothing buffered, the next packet meets
\* a decoder without a past (maybeFlushDecoderAfterEOF, jitter.go:21).
DecoderFreshAfterEOF == rest > SettleWindow => ~decoder

\* A speaker from whom nothing more arrives is forgotten with all that was
\* buffered of it, played or stuck (cleanupStreamStates).
SilentSpeakerForgotten ==
    <>[][~\E q \in Arrivals, gap \in Gaps : HReceive(q, gap)]_<<vars, history>>
        => <>[](~Known /\ jitter.packets = {} /\ ~decoder)
=============================================================================
