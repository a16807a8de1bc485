---------------------------- MODULE JitterBuffer ----------------------------
(***************************************************************************)
(* The relay's per-speaker jitter buffer, speakerJitterBuffer of           *)
(* backend/cmd/relay/jitter.go, as operators on a record.  A packet is its *)
(* sequence number; a session numbers its packets from 1 and stays far     *)
(* from 2^32, so the numbers do not wrap.                                  *)
(***************************************************************************)
EXTENDS Naturals, FiniteSets

CONSTANTS
    MinPackets, MaxPackets,   \* server.jitter_min_packets, jitter_max_packets
    KeepFloor, KeepPerStart   \* maxKeep is at least 32, and 8 times minStart

ASSUME JitterAssumption ==
    /\ {MinPackets, MaxPackets, KeepFloor, KeepPerStart} \subseteq Nat \ {0}
    /\ MinPackets <= MaxPackets

NoPacket == 0

Lowest(S) == CHOOSE q \in S : \A p \in S : q <= p
Highest(S) == CHOOSE q \in S : \A p \in S : p <= q

MaxKeep(minStart) ==
    IF KeepPerStart * minStart < KeepFloor THEN KeepFloor ELSE KeepPerStart * minStart

NewBuffer == [packets |-> {}, head |-> 0, started |-> FALSE, minStart |-> MinPackets]

\* reset: the depth stays.
Reset(b) == [b EXCEPT !.packets = {}, !.head = 0, !.started = FALSE]

\* The loop that deletes the lowest number while there are more than maxKeep:
\* the highest stay, and head moves past what was deleted from its right.
Trim(b) ==
    LET kept == {q \in b.packets :
                    Cardinality({p \in b.packets : p > q}) < MaxKeep(b.minStart)}
        cut == b.packets \ kept
    IN IF cut = {} THEN b
       ELSE [b EXCEPT !.packets = kept,
                      !.head = IF b.started /\ Highest(cut) >= @ THEN Highest(cut) + 1 ELSE @]

\* Playout begins as soon as minStart packets are there.
StartAtLowest(b) == [b EXCEPT !.head = Lowest(b.packets), !.started = TRUE]

\* Mutant of Push: nothing is trimmed.
PushUntrimmed(b, q) ==
    LET filled == [b EXCEPT !.packets = @ \union {q}]
    IN IF ~b.started /\ Cardinality(filled.packets) >= b.minStart
       THEN StartAtLowest(filled) ELSE filled

Push(b, q) ==
    IF q \in b.packets THEN b
    ELSE LET filled == [b EXCEPT !.packets = @ \union {q}]
         IN Trim(IF ~b.started /\ Cardinality(filled.packets) >= b.minStart
                 THEN StartAtLowest(filled) ELSE filled)

ForceStart(b) == IF b.packets = {} THEN b ELSE StartAtLowest(b)

\* Mutants of Upcoming: a missing head is skipped to the newest packet, or only
\* when the queue is far ahead.
UpcomingNewest(b) ==
    IF b.packets = {} \/ (~b.started /\ Cardinality(b.packets) < b.minStart)
    THEN NoPacket
    ELSE IF b.head \in b.packets THEN b.head ELSE Highest(b.packets)

UpcomingWaits(b) ==
    IF b.packets = {} \/ (~b.started /\ Cardinality(b.packets) < b.minStart)
    THEN NoPacket
    ELSE IF b.started /\ b.head \in b.packets
    THEN b.head
    ELSE IF ~b.started \/ b.head + MaxKeep(b.minStart) \div 2 < Highest(b.packets)
    THEN Lowest(b.packets)
    ELSE NoPacket

\* What pop returns: the packet at head; else the lowest one, when playout
\* starts here, when head lies before the queue, or when the queue is far ahead.
Upcoming(b) ==
    IF b.packets = {} \/ (~b.started /\ Cardinality(b.packets) < b.minStart)
    THEN NoPacket
    ELSE IF b.started /\ b.head \in b.packets
    THEN b.head
    ELSE IF \/ ~b.started
            \/ b.head < Lowest(b.packets)
            \/ b.head + MaxKeep(b.minStart) \div 2 < Highest(b.packets)
    THEN Lowest(b.packets)
    ELSE NoPacket

\* The buffer that pop leaves.
Pop(b) ==
    IF b.packets = {} THEN [b EXCEPT !.started = FALSE]
    ELSE IF Upcoming(b) = NoPacket THEN b
    ELSE [b EXCEPT !.packets = @ \ {Upcoming(b)}, !.head = Upcoming(b) + 1, !.started = TRUE]

\* setMinStartClamped for n within its bounds.
SetMinStart(b, n) == IF n = b.minStart THEN b ELSE Trim([b EXCEPT !.minStart = n])
=============================================================================
