------------------------ MODULE SpeakerStreamProofs -------------------------
(***************************************************************************)
(* Proofs about one speaker's jitter buffer and stream state, for every    *)
(* configuration of the buffer and any loss, lateness and repetition.      *)
(***************************************************************************)
EXTENDS MCSpeakerStream, FiniteSetTheorems, TLAPS

Packets == 1 .. MaxSeq

Buffer == [packets : SUBSET Packets, head : 0 .. MaxSeq + 1, started : BOOLEAN,
           minStart : MinPackets .. MaxPackets]

\* The queue is no longer than it may be.
Fits(b) == Cardinality(b.packets) <= MaxKeep(b.minStart)

\* Once playout has begun, what is buffered lies ahead of it or came late (in l).
Orderly(b, l) == b.started => \A q \in b.packets : q >= b.head \/ q \in l

-----------------------------------------------------------------------------
(* The operators of the jitter buffer.                                      *)

LEMMA PacketsFinite ==
    ASSUME NEW S \in SUBSET Packets
    PROVE  IsFiniteSet(S) /\ Cardinality(S) \in Nat
<1>1. MaxSeq \in Nat
  BY StreamAssumption
<1>2. IsFiniteSet(Packets)
  BY <1>1, FS_Interval DEF Packets
<1> QED
  BY <1>2, FS_Subset, FS_CardinalityType

LEMMA OneMore ==
    ASSUME NEW S \in SUBSET Packets, NEW q
    PROVE  /\ IsFiniteSet(S \cup {q})
           /\ Cardinality(S \cup {q}) \in Nat
           /\ Cardinality(S \cup {q}) <= Cardinality(S) + 1
<1>1. IsFiniteSet(S) /\ Cardinality(S) \in Nat
  BY PacketsFinite
<1>2. IsFiniteSet(S \cup {q})
      /\ Cardinality(S \cup {q}) = IF q \in S THEN Cardinality(S) ELSE Cardinality(S) + 1
  BY <1>1, FS_AddElement
<1> QED
  BY <1>1, <1>2

\* A nonempty set of packets has a lowest one.
LEMMA LowestIs ==
    ASSUME NEW S \in SUBSET Packets, S # {}
    PROVE  Lowest(S) \in S /\ \A p \in S : Lowest(S) <= p
<1> DEFINE below(q) == {p \in S : p <= q}
           T == {below(q) : q \in S}
<1>1. \A p \in S : p \in Int
  BY StreamAssumption DEF Packets
<1>2. T # {} /\ T \subseteq FiniteSubsetsOf(S)
  BY PacketsFinite DEF FiniteSubsetsOf
<1>3. PICK x \in T : \A y \in T : <<y, x>> \notin StrictSubsetOrdering(S)
  BY <1>2, FS_StrictSubsetOrderingWellFounded, WFMin
<1>4. PICK q \in S : x = below(q)
  BY <1>3
<1>5. ASSUME NEW p \in S, p < q PROVE FALSE
  <2>1. below(p) \subseteq below(q) /\ q \notin below(p) /\ q \in below(q)
    BY <1>1, <1>5
  <2>2. below(p) \in T /\ below(p) \in SUBSET S /\ below(q) \in SUBSET S
    OBVIOUS
  <2>3. <<below(p), below(q)>> \in StrictSubsetOrdering(S)
    BY <2>1, <2>2 DEF StrictSubsetOrdering
  <2> QED
    BY <1>3, <1>4, <2>2, <2>3
<1>6. \A p \in S : q <= p
  BY <1>1, <1>5
<1> QED
  BY <1>6 DEF Lowest

\* And a highest one.
LEMMA HighestIs ==
    ASSUME NEW S \in SUBSET Packets, S # {}
    PROVE  Highest(S) \in S /\ \A p \in S : p <= Highest(S)
<1> DEFINE above(q) == {p \in S : p >= q}
           T == {above(q) : q \in S}
<1>1. \A p \in S : p \in Int
  BY StreamAssumption DEF Packets
<1>2. T # {} /\ T \subseteq FiniteSubsetsOf(S)
  BY PacketsFinite DEF FiniteSubsetsOf
<1>3. PICK x \in T : \A y \in T : <<y, x>> \notin StrictSubsetOrdering(S)
  BY <1>2, FS_StrictSubsetOrderingWellFounded, WFMin
<1>4. PICK q \in S : x = above(q)
  BY <1>3
<1>5. ASSUME NEW p \in S, p > q PROVE FALSE
  <2>1. above(p) \subseteq above(q) /\ q \notin above(p) /\ q \in above(q)
    BY <1>1, <1>5
  <2>2. above(p) \in T /\ above(p) \in SUBSET S /\ above(q) \in SUBSET S
    OBVIOUS
  <2>3. <<above(p), above(q)>> \in StrictSubsetOrdering(S)
    BY <2>1, <2>2 DEF StrictSubsetOrdering
  <2> QED
    BY <1>3, <1>4, <2>2, <2>3
<1>6. \A p \in S : p <= q
  BY <1>1, <1>5
<1> QED
  BY <1>6 DEF Highest

LEMMA KeepsSome ==
    ASSUME NEW n \in MinPackets .. MaxPackets
    PROVE  MaxKeep(n) \in Nat \ {0} /\ MaxKeep(n) \div 2 \in Nat
<1>1. n \in Nat /\ KeepPerStart \in Nat /\ KeepFloor \in Nat \ {0}
  BY JitterAssumption
<1>2. KeepPerStart * n \in Nat
  BY <1>1
<1>3. MaxKeep(n) \in Nat \ {0}
  <2> DEFINE k == KeepPerStart * n
  <2>1. MaxKeep(n) = IF k < KeepFloor THEN KeepFloor ELSE k
    BY DEF MaxKeep
  <2>2. k \in Nat
    BY <1>2
  <2> HIDE DEF k
  <2> QED
    BY <1>1, <2>1, <2>2
<1> QED
  BY <1>3

\* trim: the highest packets stay, as many as may, and head moves past the cut.
LEMMA TrimSound ==
    ASSUME NEW b \in Buffer, NEW l, Orderly(b, l)
    PROVE  /\ Trim(b) \in Buffer /\ Trim(b).packets \subseteq b.packets
           /\ Trim(b).started = b.started /\ Trim(b).minStart = b.minStart
           /\ Fits(Trim(b)) /\ Orderly(Trim(b), l)
<1> DEFINE S == b.packets
           K == MaxKeep(b.minStart)
           above(q) == {p \in S : p > q}
           kept == {q \in S : Cardinality(above(q)) < K}
           cut == S \ kept
<1>1. S \in SUBSET Packets /\ b.minStart \in MinPackets .. MaxPackets
      /\ b.head \in 0 .. MaxSeq + 1 /\ b.started \in BOOLEAN
  BY DEF Buffer
<1>2. K \in Nat \ {0}
  BY <1>1, KeepsSome
<1>3. \A p \in S : p \in Int /\ p >= 1 /\ p <= MaxSeq
  BY <1>1, StreamAssumption DEF Packets
<1>4. \A q \in S : above(q) \in SUBSET Packets
  BY <1>1
<1> HIDE DEF K
<1>5. Cardinality(kept) <= K
  <2>1. kept \in SUBSET Packets
    BY <1>1
  <2>2. CASE kept = {}
    <3>1. Cardinality(kept) = 0
      BY <2>2, FS_EmptySet
    <3> QED
      BY <1>2, <3>1
  <2>3. CASE kept # {}
    <3> DEFINE m == Lowest(kept)
    <3>1. m \in kept /\ \A p \in kept : m <= p
      BY <2>1, <2>3, LowestIs
    <3> HIDE DEF m
    <3>2. IsFiniteSet(above(m)) /\ Cardinality(above(m)) \in Nat
      BY <1>4, <3>1, PacketsFinite
    <3>3. Cardinality(above(m) \cup {m}) <= Cardinality(above(m)) + 1
          /\ IsFiniteSet(above(m) \cup {m})
      BY <1>4, <3>1, OneMore
    <3>4. kept \subseteq above(m) \cup {m}
      BY <1>3, <3>1
    <3>5. Cardinality(kept) <= Cardinality(above(m) \cup {m})
      BY <3>3, <3>4, FS_Subset
    <3>6. Cardinality(above(m)) < K
      BY <3>1
    <3>7. Cardinality(kept) \in Nat /\ Cardinality(above(m) \cup {m}) \in Nat
      BY <2>1, <3>3, PacketsFinite, FS_CardinalityType
    <3> HIDE DEF kept
    <3> QED
      BY <1>2, <3>2, <3>3, <3>5, <3>6, <3>7
  <2> QED
    BY <2>2, <2>3
<1>6. ASSUME NEW q \in kept, NEW c \in cut PROVE c < q
  <2>1. SUFFICES ASSUME q < c PROVE FALSE
    BY <1>3
  <2>2. above(c) \subseteq above(q)
    BY <1>3, <2>1
  <2>3. IsFiniteSet(above(q)) /\ Cardinality(above(q)) \in Nat
        /\ Cardinality(above(c)) \in Nat
    BY <1>4, PacketsFinite
  <2>4. Cardinality(above(c)) <= Cardinality(above(q))
    BY <2>2, <2>3, FS_Subset
  <2>5. Cardinality(above(q)) < K /\ ~(Cardinality(above(c)) < K)
    OBVIOUS
  <2> QED
    BY <1>2, <2>3, <2>4, <2>5
<1>7. Trim(b) = IF cut = {} THEN b
                ELSE [b EXCEPT !.packets = kept,
                      !.head = IF b.started /\ Highest(cut) >= b.head
                               THEN Highest(cut) + 1 ELSE b.head]
  BY DEF Trim, K
<1>8. kept \subseteq S /\ cut \subseteq S
  OBVIOUS
<1>9. CASE cut = {}
  <2>1. kept = S
    BY <1>9
  <2>2. Fits(b)
    BY <1>5, <2>1 DEF Fits, K
  <2> QED
    BY <1>7, <1>9, <2>2
<1>10. CASE cut # {}
  <2> DEFINE h == Highest(cut)
  <2>1. h \in cut
    BY <1>1, <1>10, HighestIs
  <2> HIDE DEF h
  <2>2. h \in Int /\ h >= 1 /\ h <= MaxSeq /\ MaxSeq \in Nat
    BY <1>3, <2>1, StreamAssumption
  <2>3. \A q \in kept : q >= h + 1
    BY <1>3, <1>6, <2>1, <2>2
  <2>4. \A q \in kept : q \in S /\ q \in Int
    BY <1>3
  <2> DEFINE t == [b EXCEPT !.packets = kept,
                            !.head = IF b.started /\ h >= b.head THEN h + 1 ELSE b.head]
  <2>5. Trim(b) = t
    BY <1>7, <1>10 DEF h
  <2> HIDE DEF kept, cut
  <2>6. /\ t.packets = kept /\ t.started = b.started /\ t.minStart = b.minStart
        /\ t.head = IF b.started /\ h >= b.head THEN h + 1 ELSE b.head
    BY DEF Buffer
  <2>7. t \in Buffer
    <3>1. kept \in SUBSET Packets
      BY <1>1, <1>8
    <3>2. t.head \in 0 .. MaxSeq + 1
      BY <1>1, <2>2, <2>6
    <3> QED
      BY <1>1, <3>1, <3>2 DEF Buffer
  <2>8. Fits(t)
    BY <1>5, <2>6 DEF Fits, K
  <2>9. Orderly(t, l)
    BY <2>3, <2>4, <2>6 DEF Orderly
  <2> HIDE DEF t
  <2> QED
    BY <1>8, <2>5, <2>6, <2>7, <2>8, <2>9
<1> QED
  BY <1>9, <1>10

\* Sound in every way: what the mixer keeps between two of its steps.
Sound(b, l) == b \in Buffer /\ Fits(b) /\ Orderly(b, l)

\* The late packets may grow, and lose what has left the queue.
LEMMA SoundWithin ==
    ASSUME NEW b, NEW l, NEW m, Sound(b, l), l \cap b.packets \subseteq m
    PROVE  Sound(b, m)
BY DEF Sound, Orderly

\* Playout that begins at the lowest packet has nothing behind it.
LEMMA StartSound ==
    ASSUME NEW b \in Buffer, b.packets # {}, NEW l
    PROVE  /\ StartAtLowest(b) \in Buffer /\ Orderly(StartAtLowest(b), l)
           /\ StartAtLowest(b).packets = b.packets
           /\ StartAtLowest(b).minStart = b.minStart
           /\ StartAtLowest(b).started = TRUE
<1> DEFINE h == Lowest(b.packets)
           t == [b EXCEPT !.head = h, !.started = TRUE]
<1>1. b.packets \in SUBSET Packets
  BY DEF Buffer
<1>2. h \in b.packets /\ \A p \in b.packets : h <= p
  BY <1>1, LowestIs
<1>3. StartAtLowest(b) = t
  BY DEF StartAtLowest
<1> HIDE DEF h
<1>4. /\ t.packets = b.packets /\ t.minStart = b.minStart
      /\ t.started = TRUE /\ t.head = h
  BY DEF Buffer
<1>5. h \in 0 .. MaxSeq + 1 /\ \A p \in b.packets : p \in Int /\ p >= h
  BY <1>1, <1>2, StreamAssumption DEF Packets
<1>6. t \in Buffer
  BY <1>5 DEF Buffer
<1>7. Orderly(t, l)
  BY <1>4, <1>5 DEF Orderly
<1> HIDE DEF t
<1> QED
  BY <1>3, <1>4, <1>6, <1>7

LEMMA ForceStartSound ==
    ASSUME NEW b, NEW l, Sound(b, l)
    PROVE  /\ Sound(ForceStart(b), l) /\ ForceStart(b).packets = b.packets
           /\ ForceStart(b).minStart = b.minStart
<1>1. CASE b.packets = {}
  BY <1>1 DEF ForceStart
<1>2. CASE b.packets # {}
  <2>1. ForceStart(b) = StartAtLowest(b)
    BY <1>2 DEF ForceStart
  <2>2. b \in Buffer /\ Fits(b)
    BY DEF Sound
  <2>3. /\ StartAtLowest(b) \in Buffer /\ Orderly(StartAtLowest(b), l)
        /\ StartAtLowest(b).packets = b.packets
        /\ StartAtLowest(b).minStart = b.minStart
    BY <1>2, <2>2, StartSound
  <2>4. Fits(StartAtLowest(b))
    BY <2>2, <2>3 DEF Fits
  <2> QED
    BY <2>1, <2>3, <2>4 DEF Sound
<1> QED
  BY <1>1, <1>2

\* push: a packet that comes behind the head must be among the late ones.
LEMMA PushSound ==
    ASSUME NEW b, NEW l, Sound(b, l), NEW q \in Packets,
           b.started /\ q < b.head => q \in l
    PROVE  Sound(Push(b, q), l) /\ Push(b, q).packets \subseteq b.packets \cup {q}
<1>1. b \in Buffer /\ Fits(b) /\ Orderly(b, l)
  BY DEF Sound
<1>2. CASE q \in b.packets
  <2>1. Push(b, q) = b
    BY <1>2 DEF Push
  <2> QED
    BY <2>1
<1>3. CASE q \notin b.packets
  <2> DEFINE filled == [b EXCEPT !.packets = b.packets \cup {q}]
             begun == IF ~b.started /\ Cardinality(filled.packets) >= b.minStart
                      THEN StartAtLowest(filled) ELSE filled
  <2>1. Push(b, q) = Trim(begun)
    BY <1>3 DEF Push
  <2>2. /\ filled.packets = b.packets \cup {q} /\ filled.head = b.head
        /\ filled.started = b.started
    BY <1>1 DEF Buffer
  <2>3. filled \in Buffer
    BY <1>1 DEF Buffer
  <2>4. Orderly(filled, l)
    <3>1. q \in Int /\ b.head \in Int
      BY <1>1, StreamAssumption DEF Packets, Buffer
    <3> HIDE DEF filled
    <3> QED
      BY <1>1, <2>2, <3>1 DEF Orderly
  <2> HIDE DEF filled
  <2>5. begun \in Buffer /\ Orderly(begun, l) /\ begun.packets = filled.packets
    <3>1. filled.packets # {}
      BY <2>2
    <3>2. /\ StartAtLowest(filled) \in Buffer /\ Orderly(StartAtLowest(filled), l)
          /\ StartAtLowest(filled).packets = filled.packets
      BY <2>3, <3>1, StartSound
    <3> QED
      BY <2>3, <2>4, <3>2
  <2> HIDE DEF begun
  <2>6. /\ Trim(begun) \in Buffer /\ Trim(begun).packets \subseteq begun.packets
        /\ Fits(Trim(begun)) /\ Orderly(Trim(begun), l)
    BY <2>5, TrimSound
  <2> QED
    BY <2>1, <2>2, <2>5, <2>6 DEF Sound
<1> QED
  BY <1>2, <1>3

\* pop gives nothing, or the packet at the head, or the lowest there is: what
\* it leaves lies above that, or came late.
LEMMA UpcomingIs ==
    ASSUME NEW b, NEW l, Sound(b, l)
    PROVE  /\ Upcoming(b) = NoPacket \/ Upcoming(b) \in b.packets
           /\ Upcoming(b) # NoPacket
                => \A p \in b.packets \ {Upcoming(b)} : p > Upcoming(b) \/ p \in l
<1>1. /\ b.packets \in SUBSET Packets /\ b.started \in BOOLEAN /\ b.head \in 0 .. MaxSeq + 1
      /\ b \in Buffer /\ Orderly(b, l)
  BY DEF Buffer, Sound
<1>2. \A p \in b.packets : p \in Int
  BY <1>1, StreamAssumption DEF Packets
<1>3. CASE Upcoming(b) = NoPacket
  BY <1>3
<1>4. CASE Upcoming(b) # NoPacket /\ b.started /\ b.head \in b.packets
  <2>1. Upcoming(b) = b.head
    BY <1>4 DEF Upcoming
  <2>2. \A p \in b.packets : p >= b.head \/ p \in l
    BY <1>1, <1>4 DEF Orderly
  <2> QED
    BY <1>2, <1>4, <2>1, <2>2
<1>5. CASE Upcoming(b) # NoPacket /\ ~(b.started /\ b.head \in b.packets)
  <2>1. Upcoming(b) = Lowest(b.packets) /\ b.packets # {}
    BY <1>5 DEF Upcoming
  <2>2. Lowest(b.packets) \in b.packets /\ \A p \in b.packets : Lowest(b.packets) <= p
    BY <1>1, <2>1, LowestIs
  <2> DEFINE h == Lowest(b.packets)
  <2> HIDE DEF h
  <2>3. h \in b.packets /\ \A p \in b.packets : h <= p
    BY <2>2 DEF h
  <2>4. Upcoming(b) = h
    BY <2>1 DEF h
  <2> QED
    BY <1>2, <2>3, <2>4
<1> QED
  BY <1>3, <1>4, <1>5

\* A playout that has begun and has nothing late takes a packet if there is one.
LEMMA UpcomingSome ==
    ASSUME NEW b, Sound(b, {}), b.started, b.packets # {}
    PROVE  Upcoming(b) # NoPacket
<1>1. b.packets \in SUBSET Packets /\ b.head \in 0 .. MaxSeq + 1 /\ Orderly(b, {})
  BY DEF Buffer, Sound
<1>2. \A p \in b.packets : p \in Int /\ p >= 1 /\ p >= b.head
  BY <1>1, StreamAssumption DEF Packets, Orderly
<1> DEFINE h == Lowest(b.packets)
<1>3. h \in b.packets
  BY <1>1, LowestIs
<1>4. Upcoming(b) = IF b.head \in b.packets THEN b.head
                    ELSE IF \/ b.head < h
                            \/ b.head + MaxKeep(b.minStart) \div 2 < Highest(b.packets)
                    THEN h ELSE NoPacket
  BY DEF Upcoming
<1> HIDE DEF h
<1>5. b.head \in Int
  BY <1>1, StreamAssumption
<1>6. b.head \in b.packets \/ b.head < h
  BY <1>2, <1>3, <1>5
<1>7. Upcoming(b) \in b.packets
  BY <1>3, <1>4, <1>6
<1> QED
  BY <1>2, <1>7 DEF NoPacket

LEMMA PopSound ==
    ASSUME NEW b, NEW l, Sound(b, l)
    PROVE  /\ Sound(Pop(b), l) /\ Pop(b).minStart = b.minStart
           /\ Pop(b).packets = b.packets \ {Upcoming(b)}
<1>1. /\ b \in Buffer /\ Fits(b) /\ Orderly(b, l) /\ b.packets \in SUBSET Packets
      /\ b.minStart \in MinPackets .. MaxPackets
  BY DEF Buffer, Sound
<1>2. CASE b.packets = {}
  <2> DEFINE t == [b EXCEPT !.started = FALSE]
  <2>1. Pop(b) = t
    BY <1>2 DEF Pop
  <2>2. t \in Buffer /\ t.packets = {} /\ t.minStart = b.minStart
    BY <1>1, <1>2 DEF Buffer
  <2> HIDE DEF t
  <2>3. Fits(t) /\ Orderly(t, l)
    BY <1>1, <1>2, <2>2 DEF Fits, Orderly
  <2> QED
    BY <1>2, <2>1, <2>2, <2>3 DEF Sound
<1>3. CASE b.packets # {} /\ Upcoming(b) = NoPacket
  <2>1. Pop(b) = b
    BY <1>3 DEF Pop
  <2>2. NoPacket \notin b.packets
    BY <1>1, StreamAssumption DEF Packets, NoPacket
  <2> QED
    BY <1>3, <2>1, <2>2
<1>4. CASE b.packets # {} /\ Upcoming(b) # NoPacket
  <2> DEFINE u == Upcoming(b)
             t == [b EXCEPT !.packets = b.packets \ {u}, !.head = u + 1, !.started = TRUE]
  <2>1. Pop(b) = t
    BY <1>4 DEF Pop
  <2>2. u \in b.packets /\ \A p \in b.packets \ {u} : p > u \/ p \in l
    BY <1>4, UpcomingIs
  <2> HIDE DEF u
  <2>3. /\ t.packets = b.packets \ {u} /\ t.head = u + 1 /\ t.started = TRUE
        /\ t.minStart = b.minStart
    BY <1>1 DEF Buffer
  <2>4. /\ u \in Int /\ u + 1 \in 0 .. MaxSeq + 1
        /\ \A p \in b.packets : p \in Int
    BY <1>1, <2>2, StreamAssumption DEF Packets
  <2>5. t \in Buffer
    <3>1. b.packets \ {u} \in SUBSET Packets
      BY <1>1
    <3> QED
      BY <1>1, <2>4, <3>1 DEF Buffer
  <2>6. Fits(t)
    <3>1. /\ Cardinality(b.packets \ {u}) <= Cardinality(b.packets)
          /\ Cardinality(b.packets \ {u}) \in Nat /\ Cardinality(b.packets) \in Nat
      <4>1. b.packets \ {u} \in SUBSET Packets /\ b.packets \ {u} \in SUBSET b.packets
        BY <1>1
      <4>2. IsFiniteSet(b.packets) /\ Cardinality(b.packets) \in Nat
            /\ Cardinality(b.packets \ {u}) \in Nat
        BY <1>1, <4>1, PacketsFinite
      <4> QED
        BY <4>1, <4>2, FS_Subset
    <3>2. Cardinality(b.packets) <= MaxKeep(b.minStart)
      BY <1>1 DEF Fits
    <3>3. MaxKeep(b.minStart) \in Nat
      BY <1>1, KeepsSome
    <3> HIDE DEF t
    <3> DEFINE c == Cardinality(b.packets \ {u})
               d == Cardinality(b.packets)
               k == MaxKeep(b.minStart)
    <3>4. Fits(t) <=> c <= k
      BY <2>3 DEF Fits
    <3>5. c \in Nat /\ d \in Nat /\ k \in Nat /\ c <= d /\ d <= k
      BY <3>1, <3>2, <3>3
    <3> HIDE DEF c, d, k
    <3> QED
      BY <3>4, <3>5
  <2> HIDE DEF t
  <2>7. Orderly(t, l)
    BY <2>2, <2>3, <2>4 DEF Orderly
  <2> QED
    BY <2>1, <2>3, <2>5, <2>6, <2>7 DEF Sound, u
<1> QED
  BY <1>2, <1>3, <1>4

\* setMinStartClamped: the queue is trimmed to what the new depth allows.
LEMMA SetMinStartSound ==
    ASSUME NEW b, NEW l, Sound(b, l), NEW n \in MinPackets .. MaxPackets
    PROVE  /\ Sound(SetMinStart(b, n), l)
           /\ SetMinStart(b, n).packets \subseteq b.packets
<1>1. CASE n = b.minStart
  BY <1>1 DEF SetMinStart
<1>2. CASE n # b.minStart
  <2> DEFINE t == [b EXCEPT !.minStart = n]
  <2>1. SetMinStart(b, n) = Trim(t)
    BY <1>2 DEF SetMinStart
  <2>2. b \in Buffer /\ Orderly(b, l)
    BY DEF Sound
  <2>3. /\ t \in Buffer /\ t.packets = b.packets /\ t.head = b.head
        /\ t.started = b.started
    BY <2>2 DEF Buffer
  <2> HIDE DEF t
  <2>4. Orderly(t, l)
    BY <2>2, <2>3 DEF Orderly
  <2>5. /\ Trim(t) \in Buffer /\ Trim(t).packets \subseteq t.packets
        /\ Fits(Trim(t)) /\ Orderly(Trim(t), l)
    BY <2>3, <2>4, TrimSound
  <2> QED
    BY <2>1, <2>3, <2>5 DEF Sound
<1> QED
  BY <1>1, <1>2
-----------------------------------------------------------------------------
(* The inductive invariant.                                                 *)

StateTyped ==
    /\ present \in BOOLEAN /\ newest \in 0 .. MaxSeq
    /\ lastPacketAt \in AgeUpTo(EofTimeout + 1)
    /\ eofAt \in AgeUpTo(SettleWindow + 1)
    /\ lastPCM \in BOOLEAN /\ decoderFlushPending \in BOOLEAN
    /\ concealStreak \in 0 .. ConcealThreshold - 1
    /\ stableTicks \in 0 .. StableTicks - 1
    /\ eofMarked \in BOOLEAN /\ decoder \in BOOLEAN
    /\ top \in 0 .. MaxSeq /\ ended \in BOOLEAN /\ rest \in Nat

\* What is buffered has not been overtaken by what was played, or came late.
Fresh == \A q \in jitter.packets : q > top \/ q \in late

\* A speaker without a state has neither a decoder with a past nor packets.
ForgottenIsClean == ~Known => ~decoder /\ jitter.packets = {}

\* After an EOF the decoder is on its way to be dropped, its age no less than
\* the quiet since; or it has been.
FlushComes ==
    ended /\ Known =>
       \/ decoderFlushPending /\ eofAt # Unset /\ rest <= eofAt /\ rest <= SettleWindow
       \/ ~decoder /\ jitter.packets = {}

RestFollowsEOF == rest > 0 => ended

StreamInv ==
    /\ StateTyped /\ Sound(jitter, late) /\ Fresh
    /\ ForgottenIsClean /\ FlushComes /\ RestFollowsEOF

LEMMA Bounds ==
    /\ MinPackets \in Nat \ {0} /\ MaxPackets \in Nat \ {0} /\ MinPackets <= MaxPackets
    /\ ConcealThreshold \in Nat \ {0} /\ StableTicks \in Nat \ {0}
    /\ BurstGap \in Nat \ {0} /\ EofTimeout \in Nat \ {0} /\ MaxSeq \in Nat \ {0}
    /\ SettleWindow \in Nat /\ Reorder \in Nat /\ Loss \in Nat
BY JitterAssumption, StreamAssumption

LEMMA NewBufferSound ==
    ASSUME NEW l
    PROVE  Sound(NewBuffer, l) /\ NewBuffer.packets = {}
<1>1. NewBuffer \in Buffer
  BY Bounds DEF NewBuffer, Buffer
<1>2. /\ NewBuffer.packets = {} /\ NewBuffer.started = FALSE
      /\ NewBuffer.minStart = MinPackets
  BY DEF NewBuffer
<1>3. Cardinality(NewBuffer.packets) = 0
  BY <1>2, FS_EmptySet
<1>4. MaxKeep(MinPackets) \in Nat
  BY Bounds, KeepsSome
<1>5. Fits(NewBuffer) /\ Orderly(NewBuffer, l)
  BY <1>2, <1>3, <1>4 DEF Fits, Orderly
<1> QED
  BY <1>1, <1>2, <1>5 DEF Sound

LEMMA ResetSound ==
    ASSUME NEW b, NEW l, Sound(b, l)
    PROVE  Sound(Reset(b), l) /\ Reset(b).packets = {} /\ Reset(b).started = FALSE
<1>1. b \in Buffer /\ b.minStart \in MinPackets .. MaxPackets
  BY DEF Sound, Buffer
<1>2. Reset(b) \in Buffer
  <2>1. {} \in SUBSET Packets /\ 0 \in 0 .. MaxSeq + 1 /\ FALSE \in BOOLEAN
    BY Bounds
  <2> QED
    BY <1>1, <2>1 DEF Reset, Buffer
<1>3. /\ Reset(b).packets = {} /\ Reset(b).started = FALSE
      /\ Reset(b).minStart = b.minStart
  BY <1>1 DEF Reset, Buffer
<1>4. Cardinality(Reset(b).packets) = 0
  BY <1>3, FS_EmptySet
<1>5. MaxKeep(b.minStart) \in Nat
  BY <1>1, KeepsSome
<1>6. Fits(Reset(b)) /\ Orderly(Reset(b), l)
  BY <1>3, <1>4, <1>5 DEF Fits, Orderly
<1> QED
  BY <1>2, <1>3, <1>6 DEF Sound

\* The record of ages: time passes up to the cap.
LEMMA OlderIs ==
    ASSUME NEW cap \in Nat, NEW a \in AgeUpTo(cap)
    PROVE  /\ Older(a, cap) \in AgeUpTo(cap)
           /\ a = Unset <=> Older(a, cap) = Unset
           /\ a # Unset => /\ a \in Nat /\ Older(a, cap) \in Nat
                           /\ Older(a, cap) = IF a >= cap THEN a ELSE a + 1
BY DEF Older, AgeUpTo, Unset

LEMMA StreamInit == HInit => StreamInv
<1> SUFFICES ASSUME HInit PROVE StreamInv
  OBVIOUS
<1>1. Sound(jitter, late) /\ jitter.packets = {}
  BY NewBufferSound DEF HInit, Init
<1>2. StateTyped
  <2>1. /\ 0 \in 0 .. MaxSeq /\ 0 \in Nat
        /\ 0 \in 0 .. ConcealThreshold - 1 /\ 0 \in 0 .. StableTicks - 1
    BY Bounds
  <2>2. \A c \in Nat : Unset \in AgeUpTo(c)
    BY DEF AgeUpTo
  <2>3. EofTimeout + 1 \in Nat /\ SettleWindow + 1 \in Nat
    BY Bounds
  <2> QED
    BY <2>1, <2>2, <2>3 DEF HInit, Init, StateTyped
<1>3. Fresh /\ ForgottenIsClean /\ FlushComes /\ RestFollowsEOF
  BY <1>1 DEF HInit, Init, Fresh, ForgottenIsClean, FlushComes, RestFollowsEOF, Known
<1> QED
  BY <1>1, <1>2, <1>3 DEF StreamInv

-----------------------------------------------------------------------------
(* One lemma per action.                                                    *)

LEMMA ReceiveKeeps ==
    ASSUME StreamInv, NEW q \in Arrivals, NEW gap \in Gaps, HReceive(q, gap)
    PROVE  StreamInv'
<1> USE DEF HReceive, Receive
<1> DEFINE base == IF Leftover(gap) THEN Reset(jitter) ELSE jitter
           own == IF q <= top \/ (jitter.started /\ q < jitter.head)
                  THEN late \cup {q} ELSE late
<1>1. Sound(jitter, late) /\ StateTyped /\ Fresh
  BY DEF StreamInv
<1>2. q \in Packets /\ q \in Int /\ q \in 0 .. MaxSeq /\ q >= 1 /\ gap \in BOOLEAN
  <2>1. newest \in Int /\ Reorder \in Nat /\ Loss \in Nat /\ MaxSeq \in Nat
    BY <1>1, Bounds DEF StateTyped
  <2>2. q \in (newest - Reorder) .. (newest + 1 + Loss) /\ q >= 1 /\ q <= MaxSeq
    BY DEF Arrivals
  <2>3. q \in Int
    BY <2>1, <2>2
  <2>4. q \in Packets /\ q \in 0 .. MaxSeq
    BY <2>1, <2>2, <2>3 DEF Packets
  <2>5. gap \in BOOLEAN
    <3>1. lastPacketAt \in Int /\ BurstGap \in Int
      BY <1>1, Bounds DEF StateTyped, AgeUpTo, Unset
    <3>2. (lastPacketAt > BurstGap) \in BOOLEAN /\ (lastPacketAt >= BurstGap) \in BOOLEAN
      BY <3>1
    <3> QED
      BY <3>2, Zenon DEF Gaps
  <2> QED
    BY <2>2, <2>3, <2>4, <2>5
<1>3. Sound(jitter, own)
  BY <1>1, SoundWithin
<1>4. Sound(base, own) /\ base.packets \subseteq jitter.packets
      /\ (base.started => base = jitter)
  BY <1>3, ResetSound
<1>5. base.started /\ q < base.head => q \in own
  BY <1>4
<1>6. jitter' = Push(base, q) /\ late' = own \cap jitter'.packets
  OBVIOUS
<1> HIDE DEF base
<1>7. Sound(Push(base, q), own) /\ Push(base, q).packets \subseteq base.packets \cup {q}
  BY <1>2, <1>4, <1>5, PushSound
<1>8. (q > top \/ q \in own) /\ late \subseteq own
  BY <1>1, <1>2 DEF StateTyped
<1> HIDE DEF own
<1>9. Sound(jitter', late')
  <2>1. own \cap jitter'.packets \subseteq late'
    BY <1>6
  <2>2. Sound(jitter', own)
    BY <1>6, <1>7
  <2> QED
    BY <2>1, <2>2, SoundWithin
<1>10. Fresh'
  <2> SUFFICES ASSUME NEW p \in jitter'.packets PROVE p > top \/ p \in late'
    BY DEF Fresh
  <2>1. p \in jitter.packets \cup {q}
    BY <1>4, <1>6, <1>7
  <2>2. p > top \/ p \in own
    BY <1>1, <1>8, <2>1 DEF Fresh
  <2> QED
    BY <1>6, <2>2
<1>11. StateTyped'
  <2>1. 0 \in Nat /\ 0 \in AgeUpTo(EofTimeout + 1)
    BY Bounds DEF AgeUpTo
  <2>2. Leftover(gap) \in BOOLEAN
    BY <1>1, <1>2 DEF Leftover, Sound, Buffer
  <2>3. (newest \in 0 .. MaxSeq)'
    BY <1>1, <1>2 DEF StateTyped
  <2>4. (lastPCM \in BOOLEAN)' /\ (decoder \in BOOLEAN)' /\ (eofMarked \in BOOLEAN)'
    BY <1>1, <1>2, <2>2 DEF StateTyped
  <2> QED
    BY <1>1, <2>1, <2>3, <2>4 DEF StateTyped
<1>12. ForgottenIsClean' /\ FlushComes' /\ RestFollowsEOF'
  BY DEF ForgottenIsClean, FlushComes, RestFollowsEOF, Known, Unset
<1> QED
  BY <1>9, <1>10, <1>11, <1>12 DEF StreamInv

LEMMA HandleEOFKeeps ==
    ASSUME StreamInv, HHandleEOF
    PROVE  StreamInv'
<1> USE DEF HHandleEOF, HandleEOF
<1>1. Sound(jitter, late) /\ StateTyped /\ Fresh /\ ForgottenIsClean
  BY DEF StreamInv
<1>2. Sound(jitter', late') /\ jitter'.packets = jitter.packets
  BY <1>1, ForceStartSound
<1>3. StateTyped'
  <2>1. 0 \in Nat /\ 0 \in AgeUpTo(SettleWindow + 1)
    BY Bounds DEF AgeUpTo
  <2>2. (eofAt \in AgeUpTo(SettleWindow + 1))' /\ (decoderFlushPending \in BOOLEAN)'
    BY <1>1, <2>1 DEF StateTyped
  <2> QED
    BY <1>1, <2>1, <2>2 DEF StateTyped
<1>4. Fresh' /\ ForgottenIsClean' /\ RestFollowsEOF'
  BY <1>1, <1>2 DEF Fresh, ForgottenIsClean, RestFollowsEOF, Known
<1>5. FlushComes'
  BY Bounds DEF FlushComes, Known, Unset
<1> QED
  BY <1>2, <1>3, <1>4, <1>5 DEF StreamInv

LEMMA MissTickKeeps ==
    ASSUME StreamInv, HMissTick
    PROVE  StreamInv'
<1> USE DEF HMissTick, MissTick, history
<1>1. Sound(jitter, late) /\ StateTyped /\ Fresh /\ FlushComes /\ RestFollowsEOF
  BY DEF StreamInv
<1>2. /\ Age \in AgeUpTo(EofTimeout + 1) /\ Age # Unset
      /\ EofAge \in AgeUpTo(SettleWindow + 1)
      /\ eofAt # Unset => EofAge # Unset /\ EofAge >= eofAt
  <2>1. EofTimeout + 1 \in Nat /\ SettleWindow + 1 \in Nat
    BY Bounds
  <2>2. lastPacketAt \in AgeUpTo(EofTimeout + 1) /\ eofAt \in AgeUpTo(SettleWindow + 1)
        /\ lastPacketAt # Unset
    BY <1>1 DEF StateTyped, Known
  <2>3. Age \in AgeUpTo(EofTimeout + 1) /\ Age # Unset
    BY <2>1, <2>2, OlderIs DEF Age
  <2>4. /\ EofAge \in AgeUpTo(SettleWindow + 1)
        /\ eofAt # Unset => /\ EofAge # Unset /\ eofAt \in Nat
                            /\ EofAge = IF eofAt >= SettleWindow + 1 THEN eofAt ELSE eofAt + 1
    BY <2>1, <2>2, OlderIs DEF EofAge
  <2> QED
    BY <2>3, <2>4
<1>3. Sound(jitter', late') /\ Fresh' /\ RestFollowsEOF'
  BY <1>1 DEF Fresh, RestFollowsEOF
<1>4. StateTyped'
  BY <1>1, <1>2 DEF StateTyped
<1>5. ForgottenIsClean'
  BY <1>2 DEF ForgottenIsClean, Known
<1>6. FlushComes'
  <2>1. rest \in Int /\ eofAt \in Int /\ EofAge \in Int
    BY <1>1, <1>2, Bounds DEF StateTyped, AgeUpTo, Unset
  <2> QED
    BY <1>1, <1>2, <2>1 DEF FlushComes, Known
<1> QED
  BY <1>3, <1>4, <1>5, <1>6 DEF StreamInv

LEMMA LeaveKeeps ==
    ASSUME StreamInv, HLeave
    PROVE  StreamInv'
<1> USE DEF HLeave, Leave, history, streamVars
<1>1. Sound(jitter', late')
  BY DEF StreamInv
<1>2. StateTyped'
  BY DEF StreamInv, StateTyped
<1>3. Fresh' /\ ForgottenIsClean' /\ RestFollowsEOF'
  BY DEF StreamInv, Fresh, ForgottenIsClean, RestFollowsEOF, Known
<1>4. FlushComes'
  BY DEF StreamInv, FlushComes, Known
<1> QED
  BY <1>1, <1>2, <1>3, <1>4 DEF StreamInv

-----------------------------------------------------------------------------
(* A tick of the mixer.                                                     *)

LEMMA PoppableSound ==
    ASSUME StreamInv
    PROVE  Sound(Poppable, late) /\ Poppable.packets = jitter.packets
BY ForceStartSound DEF StreamInv, Poppable

\* What a tick plays was buffered; played out of order, it came late.
LEMMA PlayedIs ==
    ASSUME StreamInv
    PROVE  /\ Played = NoPacket \/ Played \in jitter.packets
           /\ Played # NoPacket => Played > top \/ Played \in late
           /\ Played \in 0 .. MaxSeq
           /\ Played # NoPacket =>
                \A p \in jitter.packets \ {Played} : p > Played \/ p \in late
<1>1. Sound(Poppable, late) /\ Poppable.packets = jitter.packets
  BY PoppableSound
<1>2. /\ Played = NoPacket \/ Played \in jitter.packets
      /\ Played # NoPacket =>
           \A p \in jitter.packets \ {Played} : p > Played \/ p \in late
  BY <1>1, UpcomingIs DEF Played
<1>3. Fresh /\ jitter.packets \in SUBSET Packets
  BY DEF StreamInv, Sound, Buffer
<1>4. Played \in 0 .. MaxSeq
  BY <1>2, <1>3, Bounds DEF Packets, NoPacket
<1> QED
  BY <1>2, <1>3, <1>4 DEF Fresh

\* adaptJitterOnTick changes the depth, and trims.
LEMMA AdaptSound ==
    ASSUME StreamInv, NEW b, Sound(b, late), NEW decoded, Adapt(b, decoded)
    PROVE  /\ Sound(jitter', late) /\ jitter'.packets \subseteq b.packets
           /\ (concealStreak \in 0 .. ConcealThreshold - 1)'
           /\ (stableTicks \in 0 .. StableTicks - 1)'
<1>1. /\ concealStreak \in 0 .. ConcealThreshold - 1
      /\ stableTicks \in 0 .. StableTicks - 1
  BY DEF StreamInv, StateTyped
<1>2. b.minStart \in MinPackets .. MaxPackets
  BY DEF Sound, Buffer
<1>3. jitter' = b \/ \E n \in MinPackets .. MaxPackets : jitter' = SetMinStart(b, n)
  BY <1>2, Bounds DEF Adapt
<1>4. Sound(jitter', late) /\ jitter'.packets \subseteq b.packets
  BY <1>3, SetMinStartSound
<1>5. (concealStreak \in 0 .. ConcealThreshold - 1)'
  BY <1>1, Bounds DEF Adapt, Deeper
<1>6. (stableTicks \in 0 .. StableTicks - 1)'
  BY <1>1, Bounds DEF Adapt, Shallower
<1> QED
  BY <1>4, <1>5, <1>6

LEMMA ForgetKeeps ==
    ASSUME StreamInv, HMixTick, Forget
    PROVE  StreamInv'
<1> USE DEF HMixTick, Forget
<1>1. UNCHANGED <<present, newest>>
  BY DEF MixTick
<1>2. Sound(jitter', late') /\ jitter'.packets = {}
  BY NewBufferSound
<1>3. StateTyped'
  <2>1. StateTyped
    BY DEF StreamInv
  <2>2. (top \in 0 .. MaxSeq)' /\ (rest \in Nat)'
    BY <2>1, PlayedIs DEF StateTyped
  <2>3. /\ 0 \in 0 .. ConcealThreshold - 1 /\ 0 \in 0 .. StableTicks - 1
        /\ Unset \in AgeUpTo(EofTimeout + 1) /\ Unset \in AgeUpTo(SettleWindow + 1)
    BY Bounds DEF AgeUpTo
  <2> QED
    BY <1>1, <2>1, <2>2, <2>3 DEF StateTyped
<1>4. Fresh' /\ ForgottenIsClean' /\ FlushComes'
  BY <1>2 DEF Fresh, ForgottenIsClean, FlushComes, Known
<1>5. RestFollowsEOF'
  BY DEF StreamInv, RestFollowsEOF
<1> QED
  BY <1>2, <1>3, <1>4, <1>5 DEF StreamInv

LEMMA KeepKeeps ==
    ASSUME StreamInv, HMixTick, NEW decoded \in {FALSE, Played # NoPacket}, Keep(decoded)
    PROVE  StreamInv'
<1>1. /\ StateTyped /\ Sound(jitter, late) /\ Fresh
      /\ ForgottenIsClean /\ FlushComes /\ RestFollowsEOF
  BY DEF StreamInv
<1>2. /\ Known /\ UNCHANGED <<present, newest>>
      /\ top' = IF Played > top THEN Played ELSE top
      /\ late' = late \cap jitter'.packets
      /\ rest' = IF ended /\ jitter.packets = {} /\ rest <= SettleWindow THEN rest + 1 ELSE rest
      /\ ended' = ended
  BY DEF HMixTick, MixTick
<1>3. /\ Adapt(Pop(Poppable), decoded)
      /\ lastPacketAt' = IF decoded THEN 0 ELSE Age
      /\ lastPCM' = (decoded \/ (lastPCM /\ ~Flush))
      /\ decoder' = (decoded \/ (decoder /\ ~Flush))
      /\ decoderFlushPending' = (decoderFlushPending /\ ~Flush)
      /\ eofAt' = IF Flush THEN Unset ELSE EofAge
      /\ eofMarked' = eofMarked
  BY DEF Keep
<1>4. /\ Sound(Pop(Poppable), late)
      /\ Pop(Poppable).packets = jitter.packets \ {Played}
  BY PoppableSound, PopSound DEF Played
<1>5. /\ Sound(jitter', late) /\ jitter'.packets \subseteq jitter.packets \ {Played}
      /\ (concealStreak \in 0 .. ConcealThreshold - 1)'
      /\ (stableTicks \in 0 .. StableTicks - 1)'
  BY <1>3, <1>4, AdaptSound
<1>6. Sound(jitter', late')
  BY <1>2, <1>5, SoundWithin
<1>7. /\ Age \in AgeUpTo(EofTimeout + 1) /\ Age # Unset
      /\ EofAge \in AgeUpTo(SettleWindow + 1)
      /\ eofAt # Unset => /\ EofAge # Unset /\ eofAt \in Nat
                          /\ EofAge = IF eofAt >= SettleWindow + 1 THEN eofAt ELSE eofAt + 1
  <2>1. EofTimeout + 1 \in Nat /\ SettleWindow + 1 \in Nat
    BY Bounds
  <2>2. lastPacketAt \in AgeUpTo(EofTimeout + 1) /\ eofAt \in AgeUpTo(SettleWindow + 1)
        /\ lastPacketAt # Unset
    BY <1>1, <1>2 DEF StateTyped, Known
  <2>3. Age \in AgeUpTo(EofTimeout + 1) /\ Age # Unset
    BY <2>1, <2>2, OlderIs DEF Age
  <2>4. /\ EofAge \in AgeUpTo(SettleWindow + 1)
        /\ eofAt # Unset => /\ EofAge # Unset /\ eofAt \in Nat
                            /\ EofAge = IF eofAt >= SettleWindow + 1 THEN eofAt ELSE eofAt + 1
    BY <2>1, <2>2, OlderIs DEF EofAge
  <2> QED
    BY <2>3, <2>4
<1>8. StateTyped'
  <2>1. (top \in 0 .. MaxSeq)' /\ (rest \in Nat)' /\ (ended \in BOOLEAN)'
    BY <1>1, <1>2, PlayedIs DEF StateTyped
  <2>2. (lastPacketAt \in AgeUpTo(EofTimeout + 1))'
        /\ (eofAt \in AgeUpTo(SettleWindow + 1))'
    BY <1>3, <1>7, Bounds DEF AgeUpTo
  <2>3. decoded \in BOOLEAN /\ Flush \in BOOLEAN
    BY <1>1 DEF Flush, StateTyped
  <2>4. /\ (lastPCM \in BOOLEAN)' /\ (decoder \in BOOLEAN)'
        /\ (decoderFlushPending \in BOOLEAN)' /\ (eofMarked \in BOOLEAN)'
    BY <1>1, <1>3, <2>3 DEF StateTyped
  <2> QED
    BY <1>1, <1>2, <1>5, <2>1, <2>2, <2>4 DEF StateTyped
<1>9. Fresh'
  <2> SUFFICES ASSUME NEW p \in jitter'.packets PROVE p > top' \/ p \in late'
    BY DEF Fresh
  <2>1. p \in jitter.packets /\ p # Played
    BY <1>5
  <2>2. p > top \/ p \in late
    BY <1>1, <2>1 DEF Fresh
  <2>3. Played # NoPacket => p > Played \/ p \in late
    BY <2>1, PlayedIs
  <2>4. Played > top => Played # NoPacket
    BY <1>1 DEF StateTyped, NoPacket
  <2> QED
    BY <1>2, <2>2, <2>3, <2>4
<1>10. ForgottenIsClean'
  BY <1>3, <1>7 DEF ForgottenIsClean, Known, Unset
<1>11. RestFollowsEOF'
  BY <1>1, <1>2 DEF RestFollowsEOF
<1>12. FlushComes'
  <2> SUFFICES ASSUME ended
               PROVE  \/ /\ decoderFlushPending' /\ eofAt' # Unset
                         /\ rest' <= eofAt' /\ rest' <= SettleWindow
                      \/ ~decoder' /\ jitter'.packets = {}
    BY <1>2 DEF FlushComes
  <2>1. jitter.packets = {} => ~decoded /\ jitter'.packets = {}
    BY <1>5, PlayedIs
  <2>2. CASE ~decoder /\ jitter.packets = {}
    BY <1>3, <2>1, <2>2
  <2>3. CASE Flush
    BY <1>3, <2>1, <2>3 DEF Flush
  <2>4. CASE decoderFlushPending /\ eofAt # Unset /\ rest <= eofAt /\ rest <= SettleWindow
             /\ ~Flush
    <3>1. decoderFlushPending' /\ eofAt' = EofAge /\ eofAt' # Unset
      BY <1>3, <1>7, <2>4
    <3>2. /\ rest \in Nat /\ SettleWindow \in Nat /\ eofAt \in Nat
          /\ EofAge = IF eofAt >= SettleWindow + 1 THEN eofAt ELSE eofAt + 1
      BY <1>1, <1>7, <2>4, Bounds DEF StateTyped
    <3>3. CASE jitter.packets = {}
      <4>1. EofAge <= SettleWindow
        BY <2>4, <3>2, <3>3 DEF Flush
      <4>2. rest' = rest + 1
        BY <1>2, <2>4, <3>3
      <4> QED
        BY <2>4, <3>1, <3>2, <4>1, <4>2
    <3>4. CASE jitter.packets # {}
      BY <1>2, <2>4, <3>1, <3>2, <3>4
    <3> QED
      BY <3>3, <3>4
  <2> QED
    BY <1>1, <1>2, <2>2, <2>3, <2>4 DEF FlushComes
<1> QED
  BY <1>6, <1>8, <1>9, <1>10, <1>11, <1>12 DEF StreamInv

LEMMA StutterKeeps ==
    ASSUME StreamInv, UNCHANGED <<vars, history>>
    PROVE  StreamInv'
<1> USE DEF vars, streamVars, history
<1>1. Sound(jitter', late')
  BY DEF StreamInv
<1>2. StateTyped'
  BY DEF StreamInv, StateTyped
<1>3. Fresh' /\ ForgottenIsClean' /\ FlushComes' /\ RestFollowsEOF'
  BY DEF StreamInv, Fresh, ForgottenIsClean, FlushComes, RestFollowsEOF, Known
<1> QED
  BY <1>1, <1>2, <1>3 DEF StreamInv

LEMMA StreamNext == StreamInv /\ [HNext]_<<vars, history>> => StreamInv'
<1> SUFFICES ASSUME StreamInv, [HNext]_<<vars, history>> PROVE StreamInv'
  OBVIOUS
<1>1. CASE \E q \in Arrivals, gap \in Gaps : HReceive(q, gap)
  BY <1>1, ReceiveKeeps
<1>2. CASE HHandleEOF
  BY <1>2, HandleEOFKeeps
<1>3. CASE HMixTick
  <2>1. PICK decoded \in {FALSE, Played # NoPacket} :
           IF Stale(decoded) THEN Forget ELSE Keep(decoded)
    BY <1>3 DEF HMixTick, MixTick
  <2>2. CASE Forget
    BY <1>3, <2>2, ForgetKeeps
  <2>3. CASE Keep(decoded)
    BY <1>3, <2>3, KeepKeeps
  <2> QED
    BY <2>1, <2>2, <2>3
<1>4. CASE HMissTick
  BY <1>4, MissTickKeeps
<1>5. CASE HLeave
  BY <1>5, LeaveKeeps
<1>6. CASE UNCHANGED <<vars, history>>
  BY <1>6, StutterKeeps
<1> QED
  BY <1>1, <1>2, <1>3, <1>4, <1>5, <1>6 DEF HNext

LEMMA StreamAlways == HSpec => []StreamInv
BY StreamInit, StreamNext, PTL DEF HSpec

-----------------------------------------------------------------------------
\* A speaker's state keeps its shape: above all, the queue never outgrows
\* maxKeep of the depth in force, whatever arrives and however the depth is
\* adapted (trim, after push and after setMinStartClamped).
THEOREM StreamTypeCorrect == HSpec => []TypeOK
<1>1. StreamInv => TypeOK
  BY DEF StreamInv, StateTyped, Sound, Buffer, Packets, Fits, TypeOK
<1> QED
  BY <1>1, StreamAlways, PTL

\* After an explicit EOF that settled with nothing buffered, the speaker's next
\* packet meets a fresh decoder (maybeFlushDecoderAfterEOF).
THEOREM FreshAfterEOF == HSpec => []DecoderFreshAfterEOF
<1>1. StreamInv => DecoderFreshAfterEOF
  BY Bounds DEF StreamInv, StateTyped, ForgottenIsClean, FlushComes, RestFollowsEOF,
                DecoderFreshAfterEOF
<1> QED
  BY <1>1, StreamAlways, PTL

\* What mixAndBroadcast plays of a speaker rises from tick to tick; only a
\* packet that arrived behind the playout is ever played below an earlier one.
THEOREM PlayedInOrder == HSpec => PlayoutOrdered
<1>1. StreamInv => (HMixTick /\ Played # NoPacket => Played > top \/ Played \in late)
  BY PlayedIs
<1> QED
  BY <1>1, StreamAlways, PTL DEF HSpec, PlayoutOrdered

\* Lost packets hold nothing up: with playout begun and nothing late in the
\* queue, pop gives a packet at every tick that finds one buffered.
THEOREM LossHoldsNothingUp == HSpec => LossNeverStalls
<1>1. ASSUME StreamInv, jitter.started, jitter.packets # {}, late = {}
      PROVE  Played # NoPacket
  <2>1. Sound(jitter, {})
    BY <1>1 DEF StreamInv
  <2>2. Poppable = jitter
    BY <1>1 DEF Poppable
  <2> QED
    BY <1>1, <2>1, <2>2, UpcomingSome DEF Played
<1>2. StreamInv => (HMixTick /\ jitter.started /\ jitter.packets # {} /\ late = {}
                      => Played # NoPacket)
  BY <1>1
<1> QED
  BY <1>2, StreamAlways, PTL DEF HSpec, LossNeverStalls
=============================================================================
