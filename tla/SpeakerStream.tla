--------------------------- MODULE SpeakerStream ----------------------------
(***************************************************************************)
(* What the relay's mixer loop keeps of one speaker: the jitter buffer and *)
(* the speakerStreamState around it (backend/cmd/relay/jitter.go, and the  *)
(* per-speaker parts of runLoop, mixAndBroadcast and cleanupStreamStates   *)
(* in mixer.go).                                                           *)
(*                                                                         *)
(* All of it runs in the mixer goroutine; what is uncertain is the order   *)
(* in which packets, EOF markers and ticks reach it.  Packets come over    *)
(* UDP and through a channel that drops its oldest, EOF markers through a  *)
(* channel of their own: they are lost, repeated, reordered and late.      *)
(*                                                                         *)
(* Ages count mixer periods since an event; it may have happened anywhere  *)
(* in its period, so more than n periods are over when the age exceeds n.  *)
(***************************************************************************)
EXTENDS Integers, JitterBuffer

CONSTANTS
    JitterAdapt,         \* server.jitter_adapt_enabled
    ConcealThreshold,    \* jitterAdaptConcealThreshold
    StableTicks,         \* jitterAdaptStableDecreaseTicks
    BurstGap,            \* three packets: a longer gap begins a new burst
    SettleWindow,        \* five packets of quiet before the decoder is dropped
    EofTimeout,          \* eofTimeoutDur
    MaxSeq,              \* bound on the packets one session sends
    Reorder,             \* bound on how many numbers late a packet comes
    Loss                 \* bound on consecutive packets lost

ASSUME StreamAssumption ==
    /\ JitterAdapt \in BOOLEAN
    /\ {ConcealThreshold, StableTicks, BurstGap, EofTimeout, MaxSeq} \subseteq Nat \ {0}
    /\ {SettleWindow, Reorder, Loss} \subseteq Nat

VARIABLES
    present,          \* the session is a participant of the channel
    newest,           \* highest sequence number received
    jitter, lastPacketAt, lastPCM, decoderFlushPending, eofAt,
    concealStreak, stableTicks,   \* its speakerStreamState
    eofMarked,        \* eofMarked[sessionID], kept apart from the state
    decoder           \* its Opus decoder has decoded something

streamVars == <<jitter, lastPacketAt, lastPCM, decoderFlushPending, eofAt,
                concealStreak, stableTicks>>
vars == <<present, newest, streamVars, eofMarked, decoder>>

Unset == -1                        \* no state, or a zero time.Time
AgeUpTo(cap) == (0 .. cap) \union {Unset}
Older(a, cap) == IF a = Unset \/ a >= cap THEN a ELSE a + 1

Known == lastPacketAt # Unset

TypeOK ==
    /\ present \in BOOLEAN /\ newest \in 0 .. MaxSeq
    /\ jitter.packets \subseteq 1 .. MaxSeq
    /\ jitter.head \in 0 .. MaxSeq + 1
    /\ jitter.started \in BOOLEAN
    /\ jitter.minStart \in MinPackets .. MaxPackets
    /\ Cardinality(jitter.packets) <= MaxKeep(jitter.minStart)
    /\ lastPacketAt \in AgeUpTo(EofTimeout + 1)
    /\ eofAt \in AgeUpTo(SettleWindow + 1)
    /\ lastPCM \in BOOLEAN /\ decoderFlushPending \in BOOLEAN
    /\ concealStreak \in 0 .. ConcealThreshold - 1
    /\ stableTicks \in 0 .. StableTicks - 1
    /\ eofMarked \in BOOLEAN /\ decoder \in BOOLEAN

\* newSpeakerStreamState, and what is there without one.
Init ==
    /\ present = TRUE
    /\ newest = 0
    /\ jitter = NewBuffer
    /\ lastPacketAt = Unset /\ eofAt = Unset
    /\ lastPCM = FALSE /\ decoderFlushPending = FALSE
    /\ concealStreak = 0 /\ stableTicks = 0
    /\ eofMarked = FALSE
    /\ decoder = FALSE

-----------------------------------------------------------------------------
(* case pkt := <-m.input. *)

\* A burst that never reached the start threshold and was followed by a gap.
Leftover(gap) == gap /\ ~jitter.started /\ jitter.packets # {}

Receive(q, gap) ==
    /\ newest' = IF q > newest THEN q ELSE newest
    /\ jitter' = Push(IF Leftover(gap) THEN Reset(jitter) ELSE jitter, q)
    /\ lastPCM' = (lastPCM /\ ~Leftover(gap))
    /\ decoder' = (decoder /\ ~Leftover(gap))
    /\ lastPacketAt' = 0
    /\ eofMarked' = (eofMarked /\ ~gap)
    /\ UNCHANGED <<present, decoderFlushPending, eofAt, concealStreak, stableTicks>>

\* What the network may deliver next, and whether it counts as after a gap.
Arrivals == {q \in (newest - Reorder) .. (newest + 1 + Loss) : q >= 1 /\ q <= MaxSeq}
Gaps == IF Known THEN {lastPacketAt > BurstGap, lastPacketAt >= BurstGap} ELSE {FALSE}

\* Mutant of HandleEOF: the decoder is only marked while packets are buffered.
HandleEOFWhenBuffered ==
    /\ eofMarked' = TRUE
    /\ IF jitter.packets # {}
       THEN /\ jitter' = ForceStart(jitter)
            /\ decoderFlushPending' = TRUE
            /\ eofAt' = 0
       ELSE UNCHANGED <<jitter, decoderFlushPending, eofAt>>
    /\ UNCHANGED <<present, newest, lastPacketAt, lastPCM, concealStreak, stableTicks, decoder>>

\* case sid := <-m.eof.
HandleEOF ==
    /\ eofMarked' = TRUE
    /\ IF Known
       THEN /\ jitter' = ForceStart(jitter)
            /\ decoderFlushPending' = TRUE
            /\ eofAt' = 0
       ELSE UNCHANGED <<jitter, decoderFlushPending, eofAt>>
    /\ UNCHANGED <<present, newest, lastPacketAt, lastPCM, concealStreak, stableTicks, decoder>>

-----------------------------------------------------------------------------
(* case <-ticker.C: mixAndBroadcast, then cleanupStreamStates. *)

Age == Older(lastPacketAt, EofTimeout + 1)
EofAge == Older(eofAt, SettleWindow + 1)

\* maybeFlushDecoderAfterEOF
Flush == decoderFlushPending /\ jitter.packets = {} /\ EofAge > SettleWindow

\* A short burst that paused is force-started before the pop.
Poppable == IF jitter.packets # {} /\ ~jitter.started /\ Age > 1
            THEN ForceStart(jitter) ELSE jitter

Played == Upcoming(Poppable)

\* Decoding fails, or yields nothing, for a reason the model does not see.
Conceal(decoded) ==
    ~decoded /\ ~eofMarked /\ Age <= EofTimeout /\ lastPCM /\ ~Flush

\* adaptJitterOnTick
Deeper == concealStreak + 1 >= ConcealThreshold
Shallower == stableTicks + 1 >= StableTicks

Adapt(b, decoded) ==
    IF ~JitterAdapt \/ eofMarked THEN
       jitter' = b /\ UNCHANGED <<concealStreak, stableTicks>>
    ELSE IF Conceal(decoded) THEN
       /\ jitter' = IF Deeper /\ b.minStart < MaxPackets
                    THEN SetMinStart(b, b.minStart + 1) ELSE b
       /\ concealStreak' = IF Deeper THEN 0 ELSE concealStreak + 1
       /\ stableTicks' = 0
    ELSE IF decoded THEN
       /\ jitter' = IF Shallower /\ b.minStart > MinPackets
                    THEN SetMinStart(b, b.minStart - 1) ELSE b
       /\ concealStreak' = 0
       /\ stableTicks' = IF Shallower THEN 0 ELSE stableTicks + 1
    ELSE jitter' = b /\ UNCHANGED <<concealStreak, stableTicks>>

\* Mutant of Stale: what is buffered keeps a silent speaker.
StaleWhenDrained(decoded) ==
    ~present \/ (~decoded /\ Age > EofTimeout /\ jitter.packets = {})

Stale(decoded) == ~present \/ (~decoded /\ Age > EofTimeout)

\* The state is deleted, and eofMarked and the decoder with it.
Forget ==
    /\ jitter' = NewBuffer
    /\ lastPacketAt' = Unset /\ eofAt' = Unset
    /\ lastPCM' = FALSE /\ decoderFlushPending' = FALSE
    /\ concealStreak' = 0 /\ stableTicks' = 0
    /\ eofMarked' = FALSE
    /\ decoder' = FALSE

Keep(decoded) ==
    /\ Adapt(Pop(Poppable), decoded)
    /\ lastPacketAt' = IF decoded THEN 0 ELSE Age
    /\ lastPCM' = (decoded \/ (lastPCM /\ ~Flush))
    /\ decoder' = (decoded \/ (decoder /\ ~Flush))
    /\ decoderFlushPending' = (decoderFlushPending /\ ~Flush)
    /\ eofAt' = IF Flush THEN Unset ELSE EofAge
    /\ UNCHANGED eofMarked

MixTick ==
    /\ Known
    /\ \E decoded \in {FALSE, Played # NoPacket} :
          IF Stale(decoded) THEN Forget ELSE Keep(decoded)
    /\ UNCHANGED <<present, newest>>

\* The mixer goroutine is held up (it writes to the clients itself): a period
\* passes and its tick is dropped.
MissTick ==
    /\ Known
    /\ lastPacketAt' = Age
    /\ eofAt' = EofAge
    /\ UNCHANGED <<present, newest, jitter, lastPCM, decoderFlushPending,
                   concealStreak, stableTicks, eofMarked, decoder>>

\* removeParticipant, in the session's wsHandler.
Leave ==
    /\ present
    /\ present' = FALSE
    /\ decoder' = FALSE
    /\ UNCHANGED <<newest, streamVars, eofMarked>>

-----------------------------------------------------------------------------
Next ==
    \/ \E q \in Arrivals, gap \in Gaps : Receive(q, gap)
    \/ HandleEOF
    \/ MixTick
    \/ MissTick
    \/ Leave

Spec == Init /\ [][Next]_vars

\* The mixer loop's ticker does not stop.
FairSpec == Spec /\ WF_vars(MixTick)
=============================================================================
