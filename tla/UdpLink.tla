------------------------------- MODULE UdpLink -------------------------------
(***************************************************************************)
(* One connected session's UDP link: keepaliveLoop, the senders of         *)
(* keepalives on other threads, udpReadLoop, and a network that loses and  *)
(* delays datagrams between the session and the relay.                     *)
(*                                                                         *)
(* Time is counted in ticks.  Timestamps are kept as capped ages, with *)
(* Never for the timestamp 0 that the code takes as "not set".             *)
(***************************************************************************)
EXTENDS UdpFrame

CONSTANTS
    Timing,          \* Timing[p]: keepaliveTimingsFor each PowerProfile
    RecoveryWindow,  \* kUdpKeepaliveRecoveryWindowNs
    Jitter,          \* bound: how far a delay strays from its interval
    SentCap,         \* bound: older keepalives are not told apart
    WaitCap,         \* bound: nor are longer waits for an answer
    MaxFlight        \* bound: keepalives, and answers, under way at once

Profile == {"Foreground", "Background", "ActiveTx"}
Never == -1

\* The threads that send keepalives: keepaliveLoop, the ws thread in
\* handleWelcome, the caller of punchUdpNat.
Sender == {"loop", "welcome", "punch"}

ASSUME LinkAssumption ==
    /\ RecoveryWindow \in Nat /\ Jitter \in Nat /\ MaxFlight \in Nat
    /\ Timing \in [Profile -> [idle : Nat \ {0}, recovery : Nat \ {0},
                              rtx : Nat \ {0}, lost : Nat, poll : Nat \ {0}]]
    /\ WaitCap \in Nat /\ SentCap \in Nat /\ WaitCap <= SentCap
    /\ \A p \in Profile :
         /\ Timing[p].lost <= WaitCap /\ Timing[p].poll <= SentCap
         /\ Timing[p].idle + Jitter <= SentCap /\ Timing[p].recovery + Jitter <= SentCap

VARIABLES
    welcome,       \* welcome.sessionId # 0
    lost,          \* keepaliveLoop signalled "keepalive_lost"
    pending,       \* age of lastUdpKeepalivePendingSinceNs
    sent,          \* age of lastUdpKeepaliveSentNs
    recovery,      \* what is left of udpRecoveryUntilNs
    loop,          \* keepaliveLoop: its step, sleep and the pending age it read
    stamping,      \* senders between the datagram and the bookkeeping
    localTx,       \* sessionState.localTxActive
    profile,       \* powerProfile
    up,            \* keepalives on their way to the relay
    down,          \* answers on their way back
    silence        \* ticks since an answer arrived (history)

vars == <<welcome, lost, pending, sent, recovery, loop, stamping, localTx,
          profile, up, down, silence>>

timings == Timing[profile]

TypeOK ==
    /\ welcome \in BOOLEAN /\ lost \in BOOLEAN /\ localTx \in BOOLEAN
    /\ pending \in Never..WaitCap /\ sent \in Never..SentCap /\ silence \in 0..WaitCap
    /\ recovery \in 0..RecoveryWindow
    /\ loop \in [pc : {"look", "judge", "done"}, sleep : 0..SentCap,
                 read : Never..WaitCap, heard : 0..WaitCap]
    /\ stamping \subseteq Sender
    /\ profile \in Profile
    /\ up \in 0..MaxFlight /\ down \in 0..MaxFlight

Init ==
    /\ welcome = FALSE /\ lost = FALSE /\ localTx = FALSE
    /\ pending = Never /\ sent = Never
    /\ recovery = RecoveryWindow
    /\ loop = [pc |-> "look", sleep |-> 0, read |-> Never, heard |-> 0]
    /\ stamping = {}
    /\ profile = "Foreground"
    /\ up = 0 /\ down = 0
    /\ silence = 0

-----------------------------------------------------------------------------
(* sendUdpKeepalive: the datagram leaves, then the clock is noted.          *)

\* The network may take the datagram or drop it.
sendUdpPayload(s) ==
    /\ s \notin stamping
    /\ stamping' = stamping \cup {s}
    /\ \/ UNCHANGED up
       \/ up < MaxFlight /\ up' = up + 1

\* Mutant of PendingAfter: every keepalive restarts the wait for an answer.
PendingRestarted == 0

\* compare_exchange: the oldest unanswered keepalive keeps its time.
PendingAfter == IF pending = Never THEN 0 ELSE pending

Stamp(s) ==
    /\ s \in stamping
    /\ stamping' = stamping \ {s}
    /\ sent' = 0
    /\ pending' = PendingAfter
    /\ UNCHANGED <<welcome, lost, recovery, loop, localTx, profile, up, down,
                   silence>>

\* handleWelcome: recovery begins and a keepalive goes out.
HandleWelcome ==
    /\ ~welcome /\ ~lost
    /\ welcome' = TRUE
    /\ recovery' = RecoveryWindow
    /\ silence' = 0
    /\ sendUdpPayload("welcome")
    /\ UNCHANGED <<lost, pending, sent, loop, localTx, profile, down>>

\* Bound: the application punches once a tick at most.
PunchUdpNat ==
    /\ welcome /\ ~lost /\ sent # 0
    /\ sendUdpPayload("punch")
    /\ UNCHANGED <<welcome, lost, pending, sent, recovery, loop, localTx, profile,
                   down, silence>>

SetPowerProfile(p) ==
    /\ ~lost /\ profile' = p
    /\ UNCHANGED <<welcome, lost, pending, sent, recovery, loop, stamping, localTx,
                   up, down, silence>>

\* A transmission begins or ends.
SetLocalTx(on) ==
    /\ welcome /\ ~lost /\ localTx' = on
    /\ UNCHANGED <<welcome, lost, pending, sent, recovery, loop, stamping, profile,
                   up, down, silence>>

-----------------------------------------------------------------------------
(* keepaliveLoop.                                                           *)

\* jitteredKeepaliveDelayMs, never under a second.
Delays(interval) == {d \in (interval - Jitter)..(interval + Jitter) : d >= 1}

interval == IF recovery > 0 THEN timings.recovery ELSE timings.idle

skipIdleKeepalive == localTx \/ profile = "ActiveTx"

loopSleeps(pc, d) == loop' = [pc |-> pc, sleep |-> d, read |-> Never, heard |-> 0]

\* The top of the loop, a keepalive of its own finished: read the pending time.
LoopLook ==
    /\ loop.pc = "look" /\ loop.sleep = 0 /\ "loop" \notin stamping
    /\ \/ ~welcome /\ loopSleeps("look", 1) /\ UNCHANGED <<stamping, up>>
       \/ /\ welcome /\ pending # Never
          /\ loop' = [pc |-> "judge", sleep |-> 0, read |-> pending, heard |-> silence]
          /\ UNCHANGED <<stamping, up>>
       \/ /\ welcome /\ pending = Never
          /\ \E d \in Delays(interval) : loopSleeps("look", d)
          /\ IF ~skipIdleKeepalive /\ (sent = Never \/ sent >= interval)
             THEN sendUdpPayload("loop")
             ELSE UNCHANGED <<stamping, up>>
    /\ UNCHANGED <<welcome, lost, pending, sent, recovery, localTx, profile, down,
                   silence>>

Retransmits == sent = Never \/ sent >= timings.rtx

\* The rest of the round: give the link up, or ask again and poll.
LoopJudge ==
    /\ loop.pc = "judge"
    /\ \/ /\ loop.read >= timings.lost
          /\ lost' = TRUE /\ pending' = Never
          /\ loopSleeps("done", 0)
          /\ UNCHANGED <<stamping, up>>
       \/ /\ loop.read < timings.lost
          /\ loopSleeps("look", timings.poll)
          /\ IF Retransmits THEN sendUdpPayload("loop")
             ELSE UNCHANGED <<stamping, up>>
          /\ UNCHANGED <<lost, pending>>
    /\ UNCHANGED <<welcome, sent, recovery, localTx, profile, down, silence>>

-----------------------------------------------------------------------------
(* The network and the relay.                                               *)

\* routePacket and sendUDPKeepaliveAck; the answer may be dropped.
RelayAnswers ==
    /\ up > 0
    /\ up' = up - 1
    /\ \/ UNCHANGED down
       \/ down < MaxFlight /\ down' = down + 1
    /\ UNCHANGED <<welcome, lost, pending, sent, recovery, loop, stamping, localTx,
                   profile, silence>>

\* Mutant of PendingAnswered: the answer is not taken as one.
PendingKept == pending
PendingAnswered == Never

\* udpReadLoop sees isKeepaliveAck: the wait is over.
AckArrives ==
    /\ down > 0 /\ ~lost
    /\ down' = down - 1
    /\ pending' = PendingAnswered
    /\ silence' = 0
    /\ UNCHANGED <<welcome, lost, sent, recovery, loop, stamping, localTx, profile,
                   up>>

older(a, cap) == IF a = Never \/ a = cap THEN a ELSE a + 1

\* Mutant of RecoveryLeft: the deadline is subtracted from without a test.
RecoveryOverdrawn == recovery - 1
RecoveryLeft == IF recovery = 0 THEN 0 ELSE recovery - 1

\* Threads wake in time and a send takes no tick.
Tick ==
    /\ stamping = {} /\ loop.pc # "judge" /\ ~lost
    /\ loop.sleep > 0
    /\ loop' = [loop EXCEPT !.sleep = @ - 1]
    /\ pending' = older(pending, WaitCap)
    /\ sent' = older(sent, SentCap)
    /\ silence' = older(silence, WaitCap)
    /\ recovery' = RecoveryLeft
    /\ UNCHANGED <<welcome, lost, stamping, localTx, profile, up, down>>

-----------------------------------------------------------------------------

Next ==
    \/ HandleWelcome \/ PunchUdpNat
    \/ \E p \in Profile : SetPowerProfile(p)
    \/ \E on \in BOOLEAN : SetLocalTx(on)
    \/ \E s \in Sender : Stamp(s)
    \/ LoopLook \/ LoopJudge
    \/ RelayAnswers \/ AckArrives
    \/ Tick

\* Time passes and the session's threads run; the network promises nothing.
Fairness ==
    /\ WF_vars(Tick) /\ WF_vars(LoopLook) /\ WF_vars(LoopJudge)
    /\ \A s \in Sender : WF_vars(Stamp(s))

Spec == Init /\ [][Next]_vars /\ Fairness

\* The link is given up only when the loop saw a whole loss timeout without an
\* answer, although three threads send keepalives, the profile changes under
\* them and an answer may overtake the bookkeeping of its own keepalive
\* (session.cpp:1099-1114, 1290-1294, 1350-1363).
LossIsDeserved ==
    [][~lost /\ lost' => loop.heard >= timings.lost]_vars

=============================================================================
