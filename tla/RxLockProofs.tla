---------------------------- MODULE RxLockProofs ----------------------------
(***************************************************************************)
(* Proofs about what the clients of a channel are told, for any number of  *)
(* them, with and without busy mode and failures of the mixer loop.        *)
(***************************************************************************)
EXTENDS MCRxLock, SequenceTheorems, TLAPS

Message == {"start", "lock", "end", "unlock"}

Mixer == [msgs : Broadcasts, to : SUBSET Client, except : Client \union {NoClient}]

-----------------------------------------------------------------------------
(* Sequences of at most two messages: the first and the second.             *)

Heads(s, type) == Len(s) > 0 /\ s[1] = type
Follows(s, type) == Len(s) > 1 /\ s[2] = type

\* What the mixer loop has to write is short, and stays so as it goes on.
LEMMA BroadcastSeq ==
    ASSUME NEW s \in Broadcasts
    PROVE  /\ s \in Seq(Message) /\ Len(s) <= 2
           /\ s # <<>> => Head(s) \in Message /\ Tail(s) \in Broadcasts
<1>1. CASE s = <<>>
  BY <1>1
<1>2. CASE s = <<"start">>
  BY <1>2 DEF Message, Broadcasts
<1>3. CASE s = <<"start", "lock">>
  BY <1>3 DEF Message, Broadcasts
<1>4. CASE s = <<"lock">>
  BY <1>4 DEF Message, Broadcasts
<1>5. CASE s = <<"end">>
  BY <1>5 DEF Message, Broadcasts
<1>6. CASE s = <<"end", "unlock">>
  BY <1>6 DEF Message, Broadcasts
<1>7. CASE s = <<"unlock">>
  BY <1>7 DEF Message, Broadcasts
<1> QED
  BY <1>1, <1>2, <1>3, <1>4, <1>5, <1>6, <1>7 DEF Broadcasts

\* The same of what a client's handler has to replay.
LEMMA ReplaySeq ==
    ASSUME NEW s \in Replays
    PROVE  /\ s \in Seq(Message) /\ Len(s) <= 2
           /\ s # <<>> => Tail(s) \in Replays
           /\ \A type \in {"end", "unlock"} : ~Heads(s, type) /\ ~Follows(s, type)
<1>1. CASE s = <<>>
  BY <1>1 DEF Heads, Follows
<1>2. CASE s = <<"start">>
  BY <1>2 DEF Message, Replays, Heads, Follows
<1>3. CASE s = <<"start", "lock">>
  BY <1>3 DEF Message, Replays, Heads, Follows
<1>4. CASE s = <<"lock">>
  BY <1>4 DEF Message, Replays, Heads, Follows
<1> QED
  BY <1>1, <1>2, <1>3, <1>4 DEF Replays

LEMMA ShortSeq ==
    ASSUME NEW s \in Seq(Message), Len(s) <= 2, NEW type
    PROVE  /\ (\E i \in DOMAIN s : s[i] = type) <=> Heads(s, type) \/ Follows(s, type)
           /\ s # <<>> => /\ Heads(s, Head(s))
                          /\ Heads(Tail(s), type) <=> Follows(s, type)
                          /\ ~Follows(Tail(s), type)
           /\ ~Heads(<<>>, type) /\ ~Follows(<<>>, type)
<1>1. Len(s) \in Nat /\ DOMAIN s = 1..Len(s)
  OBVIOUS
<1>2. (\E i \in DOMAIN s : s[i] = type) <=> Heads(s, type) \/ Follows(s, type)
  BY <1>1 DEF Heads, Follows
<1>3. ASSUME s # <<>>
      PROVE  /\ Heads(s, Head(s))
             /\ Heads(Tail(s), type) <=> Follows(s, type)
             /\ ~Follows(Tail(s), type)
  <2>1. Len(Tail(s)) = Len(s) - 1 /\ Len(s) > 0 /\ Head(s) = s[1]
    BY <1>3
  <2>2. \A i \in 1..Len(Tail(s)) : Tail(s)[i] = s[i + 1]
    BY <1>3
  <2> QED
    BY <1>1, <2>1, <2>2 DEF Heads, Follows
<1>4. ~Heads(<<>>, type) /\ ~Follows(<<>>, type)
  BY DEF Heads, Follows
<1> QED
  BY <1>2, <1>3, <1>4

-----------------------------------------------------------------------------
(* Types.                                                                   *)

\* A new broadcast is one of the known ones, to everybody but one client.
LEMMA BroadcastTyped ==
    ASSUME NEW msgs \in Broadcasts, NEW except \in Client \union {NoClient},
           BroadcastTo(msgs, except)
    PROVE  mixer' \in Mixer
<1>1. CASE msgs = <<>>
  BY <1>1 DEF BroadcastTo, MixerIdle, Mixer, Broadcasts
<1>2. CASE msgs # <<>>
  BY <1>2 DEF BroadcastTo, Mixer
<1> QED
  BY <1>1, <1>2

\* Writing a message changes what one client was told.
LEMMA WriteTyped ==
    ASSUME TypeOK, NEW c \in Client, NEW type \in Message, Write(c, type)
    PROVE  receiving' \in [Client -> BOOLEAN] /\ locked' \in [Client -> BOOLEAN]
<1>1. (type = "start") \in BOOLEAN /\ (type = "lock") \in BOOLEAN
  OBVIOUS
<1> QED
  BY <1>1 DEF Write, TypeOK

LEMMA KnownBroadcasts ==
    /\ <<"start", "lock">> \in Broadcasts /\ <<"start">> \in Broadcasts
    /\ <<"end", "unlock">> \in Broadcasts /\ <<"end">> \in Broadcasts
BY DEF Broadcasts

\* A step of the mixer loop keeps the types (mixer_ws_broadcast.go:20-190).
LEMMA MixerTyped ==
    ASSUME TypeOK,
           \/ \E except \in Client \union {NoClient} : MixerFirstFrame(except)
           \/ MixerWrite \/ MixerFinishIdle \/ MixerFail
    PROVE  TypeOK'
<1>1. mixer \in Mixer
  BY DEF TypeOK, Mixer
<1> USE RxLockAssumption
<1>2. CASE \E except \in Client \union {NoClient} : MixerFirstFrame(except)
  <2>1. mixer' \in Mixer
    BY <1>2, BroadcastTyped, KnownBroadcasts DEF MixerFirstFrame
  <2> QED
    BY <1>2, <2>1 DEF MixerFirstFrame, TypeOK, Mixer, viewVars
<1>3. CASE MixerFinishIdle
  <2>1. mixer' \in Mixer
    BY <1>3, BroadcastTyped, KnownBroadcasts DEF MixerFinishIdle
  <2> QED
    BY <1>3, <2>1 DEF MixerFinishIdle, TypeOK, Mixer, viewVars
<1>4. CASE MixerFail
  BY <1>4 DEF MixerFail, TypeOK, viewVars
<1>5. CASE MixerNextMessage
  <2>1. mixer' \in Mixer
    BY <1>1, <1>5, BroadcastSeq, BroadcastTyped DEF MixerNextMessage, Mixer
  <2> QED
    BY <1>5, <2>1 DEF MixerNextMessage, TypeOK, Mixer, viewVars, serverVars
<1>6. ASSUME NEW c \in Client, MixerTell(c) PROVE TypeOK'
  <2>1. mixer' \in Mixer
    BY <1>1, <1>6 DEF MixerTell, Mixer
  <2>2. receiving' \in [Client -> BOOLEAN] /\ locked' \in [Client -> BOOLEAN]
    <3>1. CASE Write(c, Head(mixer.msgs))
      BY <1>1, <1>6, <3>1, BroadcastSeq, WriteTyped DEF MixerTell, Mixer
    <3>2. CASE UNCHANGED viewVars
      BY <3>2 DEF viewVars, TypeOK
    <3> QED
      BY <1>6, <3>1, <3>2 DEF MixerTell
  <2> QED
    BY <1>6, <2>1, <2>2 DEF MixerTell, TypeOK, Mixer, serverVars
<1> QED
  BY <1>2, <1>3, <1>4, <1>5, <1>6 DEF MixerWrite

\* A step of udpReader keeps the types (notifyBusyTimeoutElapsed).
LEMMA BusyTyped ==
    ASSUME TypeOK, BusyClearLock \/ BusyWrite
    PROVE  TypeOK'
<1>1. CASE BusyClearLock
  BY <1>1 DEF BusyClearLock, TypeOK, viewVars
<1>2. CASE BusySnapshot
  BY <1>2 DEF BusySnapshot, TypeOK, viewVars, serverVars
<1>3. CASE BusyDone
  BY <1>3 DEF BusyDone, TypeOK, viewVars, serverVars
<1>4. ASSUME NEW c \in Client, BusyTellUnlock(c) PROVE TypeOK'
  <2>1. receiving' \in [Client -> BOOLEAN] /\ locked' \in [Client -> BOOLEAN]
    <3>1. CASE Write(c, "unlock")
      BY <3>1, WriteTyped DEF Message
    <3>2. CASE UNCHANGED viewVars
      BY <3>2 DEF viewVars, TypeOK
    <3> QED
      BY <1>4, <3>1, <3>2 DEF BusyTellUnlock
  <2> QED
    BY <1>4, <2>1 DEF BusyTellUnlock, TypeOK, serverVars
<1> QED
  BY <1>1, <1>2, <1>3, <1>4 DEF BusyWrite

LEMMA StartLock == <<"start">> \o <<"lock">> = <<"start", "lock">>
<1> DEFINE r == <<"start">>
           l == <<"lock">>
           rl == <<"start", "lock">>
<1>1. r \in Seq(Message) /\ l \in Seq(Message) /\ rl \in Seq(Message)
  BY DEF Message
<1>2. Len(r) = 1 /\ Len(l) = 1 /\ Len(rl) = 2 /\ rl[1] = r[1] /\ rl[2] = l[1]
  OBVIOUS
<1> HIDE DEF r, l, rl
<1>3. /\ r \o l \in Seq(Message) /\ Len(r \o l) = 2
      /\ (r \o l)[1] = r[1] /\ (r \o l)[2] = l[1]
  BY <1>1, <1>2, ConcatProperties
<1>4. \A i \in 1..Len(r \o l) : (r \o l)[i] = rl[i]
  BY <1>2, <1>3
<1>5. r \o l = rl
  BY <1>1, <1>2, <1>3, <1>4, SeqEqual
<1> QED
  BY <1>5 DEF r, l, rl

\* What a handler reads is what it may replay (syncWsSessionStateToClient).
LEMMA ReplayRead ==
    ASSUME NEW running, NEW locks
    PROVE  (IF running THEN <<"start">> ELSE <<>>) \o (IF locks THEN <<"lock">> ELSE <<>>)
               \in Replays
<1>1. <<"start">> \o <<"lock">> = <<"start", "lock">>
  BY StartLock
<1>2. <<"start">> \o <<>> = <<"start">> /\ <<>> \o <<"lock">> = <<"lock">>
  OBVIOUS
<1>3. <<>> \o <<>> = <<>>
  OBVIOUS
<1> QED
  BY <1>1, <1>2, <1>3 DEF Replays

\* A step of a client's handler keeps the types (ws_server.go).
LEMMA WsTyped ==
    ASSUME TypeOK, NEW c \in Client,
           WsSetChannel(c) \/ WsRemoveClient(c) \/ WsProgress(c)
    PROVE  TypeOK'
<1> USE DEF WsStep
<1>1. CASE WsSetChannel(c)
  BY <1>1 DEF WsSetChannel, TypeOK, viewVars, serverVars
<1>2. CASE WsRemoveClient(c)
  BY <1>2 DEF WsRemoveClient, TypeOK, viewVars, serverVars
<1>3. CASE WsAddParticipant(c)
  BY <1>3 DEF WsAddParticipant, TypeOK, viewVars, serverVars
<1>4. CASE WsReadState(c)
  <2> DEFINE read == (IF rxOutSessionActive THEN <<"start">> ELSE <<>>)
                     \o (IF pttLockServerActive THEN <<"lock">> ELSE <<>>)
  <2>1. read \in Replays
    BY ReplayRead
  <2>2. replay' = [replay EXCEPT ![c] = read]
    BY <1>4 DEF WsReadState
  <2> HIDE DEF read
  <2>3. replay' \in [Client -> Replays]
    BY <2>1, <2>2 DEF TypeOK
  <2>5. ws' = [ws EXCEPT ![c] = "replaying"]
    BY <1>4 DEF WsReadState
  <2>6. ws' \in [Client -> WsStep]
    BY <2>5 DEF TypeOK
  <2>4. UNCHANGED <<rxOutSessionActive, pttLockServerActive, mixer, busy, participants,
                    receiving, locked>>
    BY <1>4 DEF WsReadState, viewVars, serverVars
  <2> HIDE DEF WsStep
  <2> QED
    BY <2>3, <2>4, <2>6 DEF TypeOK
<1>5. CASE WsReplay(c)
  <2>1. CASE replay[c] = <<>>
    BY <1>5, <2>1 DEF WsReplay, TypeOK, viewVars, serverVars
  <2>2. CASE replay[c] # <<>>
    <3>1. replay[c] \in Replays
      BY DEF TypeOK
    <3>2. Head(replay[c]) \in Message /\ Tail(replay[c]) \in Replays
      BY <2>2, <3>1, ReplaySeq
    <3>3. receiving' \in [Client -> BOOLEAN] /\ locked' \in [Client -> BOOLEAN]
      BY <1>5, <2>2, <3>2, WriteTyped DEF WsReplay
    <3>4. replay' \in [Client -> Replays]
      BY <1>5, <2>2, <3>2 DEF WsReplay, TypeOK
    <3> QED
      BY <1>5, <2>2, <3>3, <3>4 DEF WsReplay, TypeOK, serverVars
  <2> QED
    BY <2>1, <2>2
<1>6. CASE WsRemoveParticipant(c)
  BY <1>6 DEF WsRemoveParticipant, TypeOK, viewVars, serverVars
<1> QED
  BY <1>1, <1>2, <1>3, <1>4, <1>5, <1>6 DEF WsProgress

\* Whatever the mixer loop, udpReader and the handlers of any number of clients
\* do, the state of the channel keeps its types, and the mixer loop has at most
\* one of the known pairs of messages to write.
THEOREM RxTypeCorrect == Spec => []TypeOK
<1>1. Init => TypeOK
  <2> SUFFICES ASSUME Init PROVE TypeOK
    OBVIOUS
  <2>1. <<>> \in Broadcasts /\ <<>> \in Replays
    BY DEF Broadcasts, Replays
  <2>2. mixer \in Mixer
    BY <2>1 DEF Init, MixerIdle, Mixer
  <2> QED
    BY <2>1, <2>2 DEF Init, TypeOK, Mixer, WsStep
<1>2. TypeOK /\ [Next]_vars => TypeOK'
  <2> SUFFICES ASSUME TypeOK, [Next]_vars PROVE TypeOK'
    OBVIOUS
  <2>1. CASE UNCHANGED vars
    BY <2>1 DEF TypeOK, vars, serverVars, viewVars
  <2>2. CASE Next
    BY <2>2, MixerTyped, BusyTyped, WsTyped DEF Next
  <2> QED
    BY <2>1, <2>2
<1> QED
  BY <1>1, <1>2, PTL DEF Spec

-----------------------------------------------------------------------------
(* What is still to be written to a client, and how each step changes it.   *)

\* The mixer loop still has a message of this type for c.
OnWay(type, c) ==
    /\ c # mixer.except
    /\ (Heads(mixer.msgs, type) /\ c \in mixer.to) \/ Follows(mixer.msgs, type)

\* Its own handler has one.
InReplay(type, c) == Heads(replay[c], type) \/ Follows(replay[c], type)

LEMMA PendingForm ==
    ASSUME NEW m \in Mixer, NEW r \in Replays, NEW c \in Client, NEW type
    PROVE  /\ (\E i \in DOMAIN r : r[i] = type) <=> Heads(r, type) \/ Follows(r, type)
           /\ (\E i \in DOMAIN m.msgs :
                  m.msgs[i] = type /\ c # m.except /\ (i = 1 => c \in m.to))
                <=> /\ c # m.except
                    /\ (Heads(m.msgs, type) /\ c \in m.to) \/ Follows(m.msgs, type)
<1> DEFINE s == m.msgs
<1>1. s \in Seq(Message) /\ Len(s) <= 2
  BY BroadcastSeq DEF Mixer
<1>2. (\E i \in DOMAIN r : r[i] = type) <=> Heads(r, type) \/ Follows(r, type)
  BY ReplaySeq, ShortSeq
<1>3. DOMAIN s = 1..Len(s) /\ Len(s) \in Nat
  BY <1>1
<1> HIDE DEF s
<1>4. ASSUME NEW i \in DOMAIN s, s[i] = type, i = 1 => c \in m.to
      PROVE  (Heads(s, type) /\ c \in m.to) \/ Follows(s, type)
  BY <1>1, <1>3, <1>4 DEF Heads, Follows
<1>5. ASSUME Heads(s, type)
      PROVE  1 \in DOMAIN s /\ s[1] = type
  BY <1>3, <1>5 DEF Heads
<1>6. ASSUME Follows(s, type)
      PROVE  2 \in DOMAIN s /\ s[2] = type /\ 2 # 1
  BY <1>3, <1>6 DEF Follows
<1>7. (\E i \in DOMAIN s : s[i] = type /\ c # m.except /\ (i = 1 => c \in m.to))
        <=> /\ c # m.except
            /\ (Heads(s, type) /\ c \in m.to) \/ Follows(s, type)
  BY <1>4, <1>5, <1>6
<1> QED
  BY <1>2, <1>7 DEF s

\* Pending in these terms, before and after a step.
LEMMA PendingParts ==
    ASSUME NEW c \in Client, NEW type
    PROVE  /\ TypeOK => (Pending(type, c) <=> OnWay(type, c) \/ InReplay(type, c))
           /\ TypeOK' => (Pending(type, c)' <=> OnWay(type, c)' \/ InReplay(type, c)')
<1>1. ASSUME TypeOK
      PROVE  Pending(type, c) <=> OnWay(type, c) \/ InReplay(type, c)
  <2>1. mixer \in Mixer /\ replay[c] \in Replays
    BY <1>1 DEF TypeOK, Mixer
  <2> QED
    BY <2>1, PendingForm DEF Pending, OnWay, InReplay
<1>2. ASSUME TypeOK'
      PROVE  Pending(type, c)' <=> OnWay(type, c)' \/ InReplay(type, c)'
  <2>1. mixer' \in Mixer /\ replay'[c] \in Replays
    BY <1>2 DEF TypeOK, Mixer
  <2> QED
    BY <2>1, PendingForm DEF Pending, OnWay, InReplay
<1> QED
  BY <1>1, <1>2

\* With nothing to write, the mixer loop has nothing for anybody.
LEMMA NothingOnWay ==
    ASSUME mixer.msgs = <<>>, NEW c, NEW type
    PROVE  ~OnWay(type, c)
BY DEF OnWay, Heads, Follows

\* A handler never replays the end of anything.
LEMMA ReplaysNoEnd ==
    ASSUME TypeOK, NEW c \in Client
    PROVE  ~InReplay("end", c) /\ ~InReplay("unlock", c)
BY ReplaySeq DEF TypeOK, InReplay

\* A new broadcast of one or two messages is on its way to everybody but one.
LEMMA NewOnWay ==
    ASSUME NEW msgs \in Broadcasts \ {<<>>}, NEW except, BroadcastTo(msgs, except),
           NEW c \in Client, NEW type
    PROVE  OnWay(type, c)' <=> c # except /\ (Heads(msgs, type) \/ Follows(msgs, type))
BY DEF BroadcastTo, OnWay

\* The first message is written to one client: for the others nothing changes.
LEMMA ToldOnWay ==
    ASSUME TypeOK, mixer.except \notin mixer.to, NEW d \in Client, MixerTell(d),
           NEW c \in Client, NEW type
    PROVE  /\ c # d => (OnWay(type, c)' <=> OnWay(type, c))
           /\ OnWay(Head(mixer.msgs), d)
           /\ OnWay(type, d) /\ type # Head(mixer.msgs) => OnWay(type, d)'
           /\ OnWay(type, c)' => OnWay(type, c)
<1>1. mixer.msgs \in Seq(Message) /\ Len(mixer.msgs) <= 2 /\ mixer.msgs # <<>>
  BY BroadcastSeq DEF TypeOK, MixerTell
<1>2. mixer' = [mixer EXCEPT !.to = @ \ {d}] /\ d \in mixer.to
  BY DEF MixerTell
<1>3. mixer'.msgs = mixer.msgs /\ mixer'.except = mixer.except
      /\ mixer'.to = mixer.to \ {d}
  BY <1>2 DEF TypeOK
<1>4. Heads(mixer.msgs, Head(mixer.msgs))
  BY <1>1, ShortSeq
<1>5. Heads(mixer.msgs, type) => type = Head(mixer.msgs)
  BY <1>1 DEF Heads
<1> QED
  BY <1>2, <1>3, <1>4, <1>5 DEF OnWay

\* The next message goes to everybody the first went to.
LEMMA NextOnWay ==
    ASSUME TypeOK, MixerNextMessage, NEW c \in Client, NEW type
    PROVE  OnWay(type, c)' <=> OnWay(type, c)
<1>1. /\ mixer.msgs \in Seq(Message) /\ Len(mixer.msgs) <= 2 /\ mixer.msgs # <<>>
      /\ Tail(mixer.msgs) \in Broadcasts
  BY BroadcastSeq DEF TypeOK, MixerNextMessage
<1>2. /\ Heads(Tail(mixer.msgs), type) <=> Follows(mixer.msgs, type)
      /\ ~Follows(Tail(mixer.msgs), type)
  BY <1>1, ShortSeq
<1>3. OnWay(type, c) <=> c # mixer.except /\ Follows(mixer.msgs, type)
  BY DEF OnWay, MixerNextMessage
<1>4. CASE Tail(mixer.msgs) = <<>>
  <2>1. mixer'.msgs = <<>>
    BY <1>4 DEF MixerNextMessage, BroadcastTo, MixerIdle
  <2>2. ~Heads(Tail(mixer.msgs), type)
    <3>1. ~Heads(<<>>, type)
      BY DEF Heads
    <3> QED
      BY <1>4, <3>1
  <2>3. ~OnWay(type, c)'
    BY <2>1 DEF OnWay, Heads, Follows
  <2> QED
    BY <1>2, <1>3, <2>2, <2>3
<1>5. CASE Tail(mixer.msgs) # <<>>
  <2> DEFINE tail == Tail(mixer.msgs)
  <2>1. BroadcastTo(tail, mixer.except)
    BY DEF MixerNextMessage
  <2>2. tail \in Broadcasts \ {<<>>}
    BY <1>1, <1>5
  <2> HIDE DEF tail
  <2>3. OnWay(type, c)' <=> c # mixer.except /\ (Heads(tail, type) \/ Follows(tail, type))
    BY <2>1, <2>2, NewOnWay
  <2> QED
    BY <1>2, <1>3, <2>3 DEF tail
<1> QED
  BY <1>4, <1>5

-----------------------------------------------------------------------------
(* The invariant.  The agreements say nothing of the messages that are still *)
(* to be written; each one on its way tells the truth, or marks its client.  *)

Synced == {"replaying", "settled"}

\* The lock is part of a session, and no end of one is left when the next began.
ServerInv ==
    /\ pttLockServerActive => rxOutSessionActive /\ BusyMode
    /\ mixer.except \notin mixer.to
    /\ rxOutSessionActive => \A c \in Client : ~OnWay("end", c)

LockInv(c) ==
    /\ Pending("lock", c) /\ c \notin adrift => pttLockServerActive
    /\ locked[c] /\ c \notin adrift => pttLockServerActive \/ UnlockComing(c)

SessionInv(c) ==
    /\ Pending("start", c) /\ c \notin misled => rxOutSessionActive
    /\ receiving[c] /\ c \notin misled => rxOutSessionActive \/ Pending("end", c)
    /\ rxOutSessionActive /\ c # excluded /\ ws[c] \in Synced
           => receiving[c] \/ Pending("start", c)

ClientInv(c) ==
    /\ c \notin Listening => ~locked[c] /\ ~receiving[c]
    /\ LockInv(c) /\ SessionInv(c)

RxInv == ServerInv /\ \A c \in Client : ClientInv(c)

LEMMA Marks ==
    ASSUME HNext, NEW c \in Client
    PROVE  /\ c \in adrift' <=> /\ c \in adrift \/ c \in NewlyAdrift
                                /\ locked'[c] \/ Pending("lock", c)'
           /\ c \in misled' <=> /\ c \in misled \/ c \in NewlyMisled
                                /\ receiving'[c] \/ Pending("start", c)'
BY DEF HNext, NewlyAdrift, NewlyMisled

LEMMA ExcludedKept ==
    ASSUME HNext, rxOutSessionActive, rxOutSessionActive'
    PROVE  excluded' = excluded
BY DEF HNext, SessionCleared

\* A step that tells clients what is on its way to them, or what it reads, but
\* changes neither the session nor the lock.
LEMMA TellingKeeps ==
    ASSUME HNext, NEW c \in Client, ClientInv(c),
           UNCHANGED <<rxOutSessionActive, pttLockServerActive>>,
           (c \notin Listening)' => ~locked'[c] /\ ~receiving'[c],
           Pending("lock", c)' => Pending("lock", c) \/ pttLockServerActive,
           locked'[c] => locked[c] \/ Pending("lock", c),
           locked'[c] /\ UnlockComing(c) => UnlockComing(c)' \/ c \in adrift',
           Pending("start", c)' => Pending("start", c) \/ rxOutSessionActive,
           receiving'[c] => receiving[c] \/ Pending("start", c),
           receiving'[c] /\ Pending("end", c) => Pending("end", c)',
           rxOutSessionActive /\ ws'[c] \in Synced
               /\ (ws[c] \in Synced => receiving[c] \/ Pending("start", c))
               => receiving'[c] \/ Pending("start", c)'
    PROVE  ClientInv(c)'
<1>1. LockInv(c)'
  BY Marks DEF ClientInv, LockInv
<1>2. SessionInv(c)'
  <2>1. rxOutSessionActive => excluded' = excluded
    BY ExcludedKept
  <2> QED
    BY <2>1, Marks DEF ClientInv, SessionInv
<1> QED
  BY <1>1, <1>2 DEF ClientInv

-----------------------------------------------------------------------------
(* One lemma for each goroutine, and one for what it tells the clients.     *)

\* A client is told of what it is written, the others of nothing.
LEMMA WriteTells ==
    ASSUME TypeOK, NEW d \in Client, NEW type \in Message, Write(d, type), NEW c \in Client
    PROVE  /\ c # d => locked'[c] = locked[c] /\ receiving'[c] = receiving[c]
           /\ locked'[d] = IF type = "lock" THEN TRUE
                           ELSE IF type = "unlock" THEN FALSE ELSE locked[d]
           /\ receiving'[d] = IF type = "start" THEN TRUE
                              ELSE IF type = "end" THEN FALSE ELSE receiving[d]
BY DEF Write, TypeOK, Message

\* The mixer loop writes the first message to one client (broadcastChannelWSJSONExcept).
LEMMA MixerTellKeeps ==
    ASSUME TypeOK, TypeOK', RxInv, HNext, NEW d \in Client, MixerTell(d)
    PROVE  RxInv'
<1> DEFINE type == Head(mixer.msgs)
<1>1. UNCHANGED <<rxOutSessionActive, pttLockServerActive, busy, ws, replay>>
  BY DEF MixerTell, serverVars
<1>2. type \in Message
  BY BroadcastSeq DEF TypeOK, MixerTell
<1>3. mixer.except \notin mixer.to
  BY DEF RxInv, ServerInv
<1>4. ServerInv'
  <2>1. mixer'.except = mixer.except /\ mixer'.to = mixer.to \ {d}
    BY DEF MixerTell, TypeOK
  <2>2. \A c \in Client : OnWay("end", c)' => OnWay("end", c)
    BY <1>3, ToldOnWay
  <2> QED
    BY <1>1, <1>3, <2>1, <2>2 DEF RxInv, ServerInv
<1> HIDE DEF type
<1>5. ASSUME NEW c \in Client PROVE ClientInv(c)'
  <2>1. ClientInv(c)
    BY DEF RxInv
  <2>2. \A t \in Message : InReplay(t, c)' <=> InReplay(t, c)
    BY <1>1 DEF InReplay
  <2>3. \A t \in Message :
           /\ c # d => (Pending(t, c)' <=> Pending(t, c))
           /\ Pending(t, c)' => Pending(t, c)
           /\ Pending(t, d) /\ t # type => Pending(t, d)'
    BY <1>3, <2>2, ToldOnWay, PendingParts DEF type, InReplay, MixerTell
  <2>4. Pending(type, d)
    BY <1>2, <1>3, ToldOnWay, PendingParts DEF type
  <2>5. (c \in Listening)' <=> c \in Listening
    BY <1>1 DEF Listening
  <2>6. UnlockComing(c) /\ (c = d => type # "unlock") => UnlockComing(c)'
    BY <1>1, <2>3 DEF UnlockComing, Message
  <2>7. CASE c # d \/ d \notin Listening
    <3>1. locked'[c] = locked[c] /\ receiving'[c] = receiving[c]
      <4>1. CASE UNCHANGED viewVars
        BY <4>1 DEF viewVars
      <4>2. CASE c # d /\ Write(d, type)
        BY <1>2, <4>2, WriteTells
      <4> QED
        BY <2>7, <4>1, <4>2 DEF MixerTell, type
    <3>2. CASE c # d
      BY <1>1, <2>1, <2>3, <2>5, <2>6, <3>1, <3>2, TellingKeeps
         DEF ClientInv, Message
    <3>3. CASE c = d /\ c \notin Listening
      <4>1. ~locked'[c] /\ ~receiving'[c] /\ ws'[c] \notin Synced /\ ws[c] \notin Synced
        BY <1>1, <2>1, <3>1, <3>3 DEF ClientInv, Listening, Synced
      <4> QED
        BY <1>1, <2>1, <2>3, <4>1, TellingKeeps DEF Message
    <3> QED
      BY <2>7, <3>2, <3>3
  <2>8. CASE c = d /\ d \in Listening
    <3>1. /\ locked'[c] = IF type = "lock" THEN TRUE
                          ELSE IF type = "unlock" THEN FALSE ELSE locked[c]
          /\ receiving'[c] = IF type = "start" THEN TRUE
                             ELSE IF type = "end" THEN FALSE ELSE receiving[c]
      BY <1>2, <2>8, WriteTells DEF MixerTell, type
    <3>2. type = "end" => ~rxOutSessionActive
      BY <1>3, ToldOnWay DEF RxInv, ServerInv, type
    <3>3. (c \notin Listening)' => ~locked'[c] /\ ~receiving'[c]
      BY <2>5, <2>8
    <3>4. locked'[c] => locked[c] \/ Pending("lock", c)
      BY <2>4, <2>8, <3>1
    <3>5. receiving'[c] => receiving[c] \/ Pending("start", c)
      BY <2>4, <2>8, <3>1
    <3>6. locked'[c] /\ UnlockComing(c) => UnlockComing(c)'
      BY <2>6, <3>1
    <3>7. receiving'[c] /\ Pending("end", c) => Pending("end", c)'
      BY <2>3, <2>8, <3>1 DEF Message
    <3>8. rxOutSessionActive /\ (receiving[c] \/ Pending("start", c))
             => receiving'[c] \/ Pending("start", c)'
      BY <2>3, <2>8, <3>1, <3>2 DEF Message
    <3>9. (Pending("lock", c)' => Pending("lock", c))
          /\ (Pending("start", c)' => Pending("start", c))
      BY <2>3 DEF Message
    <3> QED
      BY <1>1, <2>1, <3>3, <3>4, <3>5, <3>6, <3>7, <3>8, <3>9, TellingKeeps
  <2> QED
    BY <2>7, <2>8
<1> QED
  BY <1>4, <1>5 DEF RxInv

\* Nothing of what is on its way to a client changes.
LEMMA SameMessages ==
    ASSUME TypeOK, TypeOK', NEW c \in Client, UNCHANGED mixer, replay'[c] = replay[c], NEW type
    PROVE  Pending(type, c)' <=> Pending(type, c)
<1>1. OnWay(type, c)' <=> OnWay(type, c)
  BY DEF OnWay
<1>2. InReplay(type, c)' <=> InReplay(type, c)
  BY DEF InReplay
<1> QED
  BY <1>1, <1>2, PendingParts

\* As long as the mixer loop does nothing and nobody changes the session.
LEMMA ServerKept ==
    ASSUME ServerInv, UNCHANGED <<rxOutSessionActive, pttLockServerActive, mixer>>
    PROVE  ServerInv'
BY DEF ServerInv, OnWay

\* The mixer loop goes on to the next message.
LEMMA MixerNextKeeps ==
    ASSUME TypeOK, TypeOK', RxInv, HNext, MixerNextMessage
    PROVE  RxInv'
<1>1. UNCHANGED <<rxOutSessionActive, pttLockServerActive, busy, ws, replay, receiving, locked>>
  BY DEF MixerNextMessage, serverVars, viewVars
<1>2. mixer'.except \notin mixer'.to
  <2>1. CASE Tail(mixer.msgs) = <<>>
    BY <2>1 DEF MixerNextMessage, BroadcastTo, MixerIdle
  <2>2. CASE Tail(mixer.msgs) # <<>>
    BY <2>2 DEF MixerNextMessage, BroadcastTo
  <2> QED
    BY <2>1, <2>2
<1>3. ServerInv'
  BY <1>1, <1>2, NextOnWay DEF RxInv, ServerInv
<1>4. ASSUME NEW c \in Client PROVE ClientInv(c)'
  <2>1. ClientInv(c)
    BY DEF RxInv
  <2>2. \A t \in Message : Pending(t, c)' <=> Pending(t, c)
    <3>1. \A t \in Message : InReplay(t, c)' <=> InReplay(t, c)
      BY <1>1 DEF InReplay
    <3> QED
      BY <3>1, NextOnWay, PendingParts
  <2>3. UnlockComing(c)' <=> UnlockComing(c)
    BY <1>1, <2>2 DEF UnlockComing, Message
  <2>4. (c \in Listening)' <=> c \in Listening
    BY <1>1 DEF Listening
  <2> QED
    BY <1>1, <2>1, <2>2, <2>3, <2>4, TellingKeeps DEF ClientInv, Message
<1> QED
  BY <1>3, <1>4 DEF RxInv

\* udpReader unlocks the participants (notifyBusyTimeoutElapsed, after the lock).
LEMMA BusyWriteKeeps ==
    ASSUME TypeOK, TypeOK', RxInv, HNext, BusyWrite
    PROVE  RxInv'
<1>1. UNCHANGED <<rxOutSessionActive, pttLockServerActive, mixer, ws, replay>>
  BY DEF BusyWrite, BusySnapshot, BusyDone, BusyTellUnlock, serverVars
<1>2. ServerInv'
  BY <1>1, ServerKept DEF RxInv
<1>3. ASSUME NEW c \in Client PROVE ClientInv(c)'
  <2>1. ClientInv(c)
    BY DEF RxInv
  <2>2. \A t \in Message : Pending(t, c)' <=> Pending(t, c)
    BY <1>1, SameMessages
  <2>3. (c \in Listening)' <=> c \in Listening
    BY <1>1 DEF Listening
  <2>4. receiving'[c] = receiving[c] /\ (locked'[c] => locked[c])
    <3>1. ASSUME NEW d \in Client, BusyTellUnlock(d)
          PROVE  receiving'[c] = receiving[c] /\ (locked'[c] => locked[c])
      <4>1. CASE Write(d, "unlock")
        BY <4>1, WriteTells DEF Message
      <4>2. CASE UNCHANGED viewVars
        BY <4>2 DEF viewVars
      <4> QED
        BY <3>1, <4>1, <4>2 DEF BusyTellUnlock
    <3> QED
      BY <3>1 DEF BusyWrite, BusySnapshot, BusyDone, viewVars
  <2>5. locked'[c] /\ UnlockComing(c) => UnlockComing(c)' \/ c \in adrift'
    <3>1. CASE BusySnapshot
      <4>1. c \in participants => c \in busy'.to
        BY <3>1 DEF BusySnapshot
      <4>2. BusySnapped
        BY <3>1 DEF BusySnapshot, BusySnapped
      <4>3. locked'[c] /\ c \notin participants => c \in adrift'
        BY <4>2, Marks DEF NewlyAdrift
      <4> QED
        BY <4>1, <4>3 DEF UnlockComing
    <3>2. CASE BusyDone
      BY <2>2, <3>2 DEF BusyDone, UnlockComing, Message
    <3>3. ASSUME NEW d \in Client, BusyTellUnlock(d)
          PROVE  locked'[c] /\ UnlockComing(c) => UnlockComing(c)'
      <4>1. busy'.to = busy.to \ {d} /\ busy'.step = busy.step /\ busy.step = "write"
        BY <3>3 DEF BusyTellUnlock, TypeOK
      <4>2. CASE c # d
        BY <2>2, <4>1, <4>2 DEF UnlockComing, Message
      <4>3. CASE c = d /\ c \in Listening
        BY <3>3, <4>3, WriteTells DEF BusyTellUnlock, Message
      <4>4. CASE c = d /\ c \notin Listening
        <5>1. ~locked[c]
          BY <2>1, <4>4 DEF ClientInv
        <5> QED
          BY <2>4, <5>1
      <4> QED
        BY <4>2, <4>3, <4>4
    <3> QED
      BY <3>1, <3>2, <3>3 DEF BusyWrite
  <2>6. (c \notin Listening)' => ~locked'[c] /\ ~receiving'[c]
    BY <2>1, <2>3, <2>4 DEF ClientInv
  <2> QED
    BY <1>1, <2>1, <2>2, <2>4, <2>5, <2>6, TellingKeeps DEF Message
<1> QED
  BY <1>2, <1>3 DEF RxInv

\* A step of a handler that writes nothing to c and reads nothing for it.
LEMMA HandlerSilent ==
    ASSUME TypeOK, TypeOK', RxInv, HNext, NEW c \in Client,
           UNCHANGED <<rxOutSessionActive, pttLockServerActive, mixer, busy>>,
           replay'[c] = replay[c], locked'[c] => locked[c], receiving'[c] => receiving[c],
           (c \notin Listening)' => ~locked'[c] /\ ~receiving'[c],
           ws'[c] \in Synced => ws[c] \in Synced /\ receiving'[c] = receiving[c]
    PROVE  ClientInv(c)'
<1>1. ClientInv(c)
  BY DEF RxInv
<1>2. \A t \in Message : Pending(t, c)' <=> Pending(t, c)
  BY SameMessages
<1>3. UnlockComing(c)' <=> UnlockComing(c)
  BY <1>2 DEF UnlockComing, Message
<1> QED
  BY <1>1, <1>2, <1>3, TellingKeeps DEF Message

\* What the handler of d does is nothing to the other clients.
LEMMA OthersKeep ==
    ASSUME TypeOK, TypeOK', RxInv, HNext, NEW c \in Client,
           UNCHANGED <<rxOutSessionActive, pttLockServerActive, mixer, busy>>,
           replay'[c] = replay[c], ws'[c] = ws[c],
           locked'[c] = locked[c], receiving'[c] = receiving[c]
    PROVE  ClientInv(c)'
<1>1. (c \in Listening)' <=> c \in Listening
  BY DEF Listening
<1>2. c \notin Listening => ~locked[c] /\ ~receiving[c]
  BY DEF RxInv, ClientInv
<1> QED
  BY <1>1, <1>2, HandlerSilent

\* The state a handler reads for its client is the state, and it will replay it
\* (syncWsSessionStateToClient, under rxWsMu).
LEMMA ReadStateKeeps ==
    ASSUME TypeOK, TypeOK', RxInv, HNext, NEW d \in Client, WsReadState(d)
    PROVE  ClientInv(d)'
<1> DEFINE read == (IF rxOutSessionActive THEN <<"start">> ELSE <<>>)
                   \o (IF pttLockServerActive THEN <<"lock">> ELSE <<>>)
<1>1. UNCHANGED <<rxOutSessionActive, pttLockServerActive, mixer, busy, receiving, locked>>
  BY DEF WsReadState, serverVars, viewVars
<1>2. replay'[d] = read
  BY DEF WsReadState, TypeOK
<1>3. /\ (Heads(read, "lock") \/ Follows(read, "lock")) => pttLockServerActive
      /\ rxOutSessionActive => Heads(read, "start")
  <2>1. CASE rxOutSessionActive /\ pttLockServerActive
    <3>1. read = <<"start", "lock">>
      BY <2>1, StartLock
    <3> HIDE DEF read
    <3> QED
      BY <2>1, <3>1 DEF Heads
  <2>2. CASE rxOutSessionActive /\ ~pttLockServerActive
    <3>1. read = <<"start">>
      BY <2>2
    <3> HIDE DEF read
    <3> QED
      BY <2>2, <3>1 DEF Heads, Follows
  <2>3. CASE ~rxOutSessionActive /\ pttLockServerActive
    BY <2>3
  <2>4. CASE ~rxOutSessionActive /\ ~pttLockServerActive
    <3>1. read = <<>>
      BY <2>4
    <3> HIDE DEF read
    <3> QED
      BY <2>4, <3>1 DEF Heads, Follows
  <2> QED
    BY <2>1, <2>2, <2>3, <2>4 DEF TypeOK
<1> HIDE DEF read
<1>4. ClientInv(d)
  BY DEF RxInv
<1>5. \A t \in Message : OnWay(t, d)' <=> OnWay(t, d)
  BY <1>1 DEF OnWay
<1>6. /\ InReplay("lock", d)' => pttLockServerActive
      /\ rxOutSessionActive => InReplay("start", d)'
  BY <1>2, <1>3 DEF InReplay
<1>7. Pending("lock", d)' => Pending("lock", d) \/ pttLockServerActive
  BY <1>5, <1>6, PendingParts DEF Message
<1>8. rxOutSessionActive => Pending("start", d)'
  BY <1>6, PendingParts
<1>9. \A t \in {"end", "unlock"} : Pending(t, d) => Pending(t, d)'
  BY <1>5, ReplaysNoEnd, PendingParts DEF Message
<1>10. UnlockComing(d) => UnlockComing(d)'
  BY <1>1, <1>9 DEF UnlockComing
<1>11. Pending("start", d)' => Pending("start", d) \/ rxOutSessionActive
  <2>1. InReplay("start", d)' => rxOutSessionActive
    <3>1. CASE ~rxOutSessionActive
      <4>1. ~pttLockServerActive
        BY <3>1 DEF RxInv, ServerInv
      <4>2. read = <<>>
        BY <3>1, <4>1 DEF read
      <4> QED
        BY <1>2, <4>2 DEF InReplay, Heads, Follows
    <3> QED
      BY <3>1
  <2> QED
    BY <1>5, <2>1, PendingParts DEF Message
<1>12. (d \in Listening)'
  BY DEF WsReadState, Listening, TypeOK
<1> QED
  BY <1>1, <1>4, <1>7, <1>8, <1>9, <1>10, <1>11, <1>12, TellingKeeps

\* A handler writes its client the first message it read.
LEMMA ReplayKeeps ==
    ASSUME TypeOK, TypeOK', RxInv, HNext, NEW d \in Client, WsReplay(d), replay[d] # <<>>
    PROVE  ClientInv(d)'
<1> DEFINE type == Head(replay[d])
<1>1. UNCHANGED <<rxOutSessionActive, pttLockServerActive, mixer, busy, ws>>
  BY DEF WsReplay, serverVars
<1>2. replay[d] \in Seq(Message) /\ Len(replay[d]) <= 2 /\ Tail(replay[d]) \in Replays
  BY ReplaySeq DEF TypeOK
<1>3. replay'[d] = Tail(replay[d])
  BY DEF WsReplay, TypeOK
<1>4. type \in Message
  BY <1>2
<1>5. \A t \in Message : InReplay(t, d)' <=> Follows(replay[d], t)
  BY <1>2, <1>3, ShortSeq DEF InReplay
<1>6. Heads(replay[d], type)
  BY <1>2, ShortSeq
<1>7. \A t \in Message : Heads(replay[d], t) => t = type
  BY <1>6 DEF Heads
<1>8. Write(d, type)
  BY DEF WsReplay
<1> HIDE DEF type
<1>9. type \in {"start", "lock"}
  BY <1>4, <1>6, ReplaysNoEnd DEF InReplay, Message
<1>10. \A t \in Message : OnWay(t, d)' <=> OnWay(t, d)
  BY <1>1 DEF OnWay
<1>11. \A t \in Message : /\ Pending(t, d)' => Pending(t, d)
                          /\ Pending(t, d) => Pending(t, d)' \/ t = type
  BY <1>5, <1>7, <1>10, PendingParts DEF InReplay
<1>12. Pending(type, d)
  BY <1>6, PendingParts DEF InReplay
<1>13. /\ locked'[d] = IF type = "lock" THEN TRUE ELSE locked[d]
       /\ receiving'[d] = IF type = "start" THEN TRUE ELSE receiving[d]
  BY <1>4, <1>8, <1>9, WriteTells
<1>14. UnlockComing(d) => UnlockComing(d)'
  BY <1>1, <1>9, <1>11 DEF UnlockComing, Message
<1>15. Pending("end", d) => Pending("end", d)'
  BY <1>9, <1>11 DEF Message
<1>16. receiving[d] \/ Pending("start", d) => receiving'[d] \/ Pending("start", d)'
  BY <1>11, <1>13 DEF Message
<1>17. locked'[d] => locked[d] \/ Pending("lock", d)
  BY <1>12, <1>13
<1>18. receiving'[d] => receiving[d] \/ Pending("start", d)
  BY <1>12, <1>13
<1>19. d \in Listening /\ (d \in Listening)' /\ ws[d] \in Synced
  BY <1>1 DEF WsReplay, Listening, Synced
<1>20. (Pending("lock", d)' => Pending("lock", d))
       /\ (Pending("start", d)' => Pending("start", d))
  BY <1>11 DEF Message
<1>21. ClientInv(d)
  BY DEF RxInv
<1> QED
  BY <1>1, <1>14, <1>15, <1>16, <1>17, <1>18, <1>19, <1>20, <1>21, TellingKeeps

\* The handler of one client: join, replay, removal (ws_server.go, hub.go).
LEMMA WsKeeps ==
    ASSUME TypeOK, TypeOK', RxInv, HNext, NEW d \in Client,
           WsSetChannel(d) \/ WsRemoveClient(d) \/ WsProgress(d)
    PROVE  RxInv'
<1>1. UNCHANGED <<rxOutSessionActive, pttLockServerActive, mixer, busy>>
  BY DEF WsSetChannel, WsRemoveClient, WsProgress, WsAddParticipant, WsReadState,
         WsReplay, WsRemoveParticipant, serverVars
<1>2. ServerInv'
  BY <1>1, ServerKept DEF RxInv
<1>3. ASSUME NEW c \in Client, c # d PROVE ClientInv(c)'
  <2>1. ws'[c] = ws[c] /\ replay'[c] = replay[c]
    BY <1>3 DEF WsSetChannel, WsRemoveClient, WsProgress, WsAddParticipant, WsReadState,
                WsReplay, WsRemoveParticipant, TypeOK
  <2>2. locked'[c] = locked[c] /\ receiving'[c] = receiving[c]
    <3>1. CASE WsReplay(d) /\ replay[d] # <<>>
      <4>1. Head(replay[d]) \in Message
        BY <3>1, ReplaySeq DEF TypeOK
      <4> QED
        BY <1>3, <3>1, <4>1, WriteTells DEF WsReplay
    <3>2. CASE WsRemoveClient(d)
      BY <1>3, <3>2 DEF WsRemoveClient, TypeOK
    <3>3. CASE UNCHANGED viewVars
      BY <3>3 DEF viewVars
    <3> QED
      BY <3>1, <3>2, <3>3 DEF WsSetChannel, WsProgress, WsAddParticipant, WsReadState,
                WsReplay, WsRemoveParticipant
  <2> QED
    BY <1>1, <2>1, <2>2, OthersKeep
<1>4. ClientInv(d)'
  <2> DEFINE quiet == WsSetChannel(d) \/ WsAddParticipant(d) \/ WsRemoveParticipant(d)
  <2>1. ClientInv(d)
    BY DEF RxInv
  <2>2. CASE quiet
    <3>1. UNCHANGED <<replay, locked, receiving>>
      BY <2>2 DEF WsSetChannel, WsAddParticipant, WsRemoveParticipant, viewVars
    <3>2. ws'[d] \notin Synced /\ ((d \notin Listening)' => d \notin Listening)
      BY <2>2 DEF WsSetChannel, WsAddParticipant, WsRemoveParticipant, TypeOK, Synced,
                  Listening
    <3> QED
      BY <1>1, <2>1, <3>1, <3>2, HandlerSilent DEF ClientInv
  <2>3. CASE WsRemoveClient(d)
    <3>1. replay'[d] = replay[d] /\ ~locked'[d] /\ ~receiving'[d] /\ ws'[d] = "unlisted"
      BY <2>3 DEF WsRemoveClient, TypeOK
    <3> QED
      BY <1>1, <3>1, HandlerSilent DEF Synced
  <2>4. CASE WsReplay(d) /\ replay[d] = <<>>
    <3>1. UNCHANGED <<replay, locked, receiving>> /\ ws[d] = "replaying" /\ ws'[d] = "settled"
      BY <2>4 DEF WsReplay, TypeOK, viewVars
    <3>2. (d \in Listening)'
      BY <3>1 DEF Listening
    <3> QED
      BY <1>1, <3>1, <3>2, HandlerSilent DEF Synced
  <2>5. CASE WsReplay(d) /\ replay[d] # <<>>
    BY <2>5, ReplayKeeps
  <2>6. CASE WsReadState(d)
    BY <2>6, ReadStateKeeps
  <2> QED
    BY <2>2, <2>3, <2>4, <2>5, <2>6 DEF WsProgress
<1> QED
  BY <1>2, <1>3, <1>4 DEF RxInv

\* Before the mixer loop begins a broadcast, what is pending for c is in its
\* replay, which no step of the loop changes.
LEMMA OnlyReplays ==
    ASSUME TypeOK, TypeOK', mixer.msgs = <<>>, replay' = replay, NEW c \in Client,
           NEW type \in Message
    PROVE  /\ Pending(type, c) <=> InReplay(type, c)
           /\ Pending(type, c)' <=> OnWay(type, c)' \/ Pending(type, c)
<1>1. InReplay(type, c)' <=> InReplay(type, c)
  BY DEF InReplay
<1>2. ~OnWay(type, c)
  BY NothingOnWay
<1> QED
  BY <1>1, <1>2, PendingParts

\* A session starts, and with busy mode the lock (noteOutboundMixedUDP).
LEMMA MixerFirstKeeps ==
    ASSUME TypeOK, TypeOK', RxInv, HNext, NEW except \in Client \union {NoClient},
           MixerFirstFrame(except)
    PROVE  RxInv'
<1> DEFINE msgs == IF BusyMode THEN <<"start", "lock">> ELSE <<"start">>
<1>1. /\ UNCHANGED <<busy, ws, replay, receiving, locked>>
      /\ mixer.msgs = <<>> /\ ~rxOutSessionActive /\ rxOutSessionActive'
      /\ BroadcastTo(msgs, except)
  BY DEF MixerFirstFrame, viewVars
<1>2. msgs \in Broadcasts \ {<<>>}
  <2>1. <<"start", "lock">> # <<>> /\ <<"start">> # <<>>
    OBVIOUS
  <2> QED
    BY <2>1, KnownBroadcasts
<1>3. /\ Heads(msgs, "start") /\ ~Heads(msgs, "end") /\ ~Follows(msgs, "end")
      /\ Follows(msgs, "lock") => BusyMode
      /\ ~Heads(msgs, "lock")
  <2>1. CASE BusyMode
    <3>1. msgs = <<"start", "lock">>
      BY <2>1
    <3> HIDE DEF msgs
    <3> QED
      BY <2>1, <3>1 DEF Heads, Follows
  <2>2. CASE ~BusyMode
    <3>1. msgs = <<"start">>
      BY <2>2
    <3> HIDE DEF msgs
    <3> QED
      BY <2>2, <3>1 DEF Heads, Follows
  <2> QED
    BY <2>1, <2>2
<1>4. mixer'.except = except /\ mixer'.to = Client \ {except}
  BY <1>1, <1>2 DEF BroadcastTo
<1> HIDE DEF msgs
<1>5. \A c \in Client : \A t \in Message :
         OnWay(t, c)' <=> c # except /\ (Heads(msgs, t) \/ Follows(msgs, t))
  BY <1>1, <1>2, NewOnWay
<1>6. ~pttLockServerActive /\ (pttLockServerActive' <=> BusyMode)
  BY <1>1, RxLockAssumption DEF RxInv, ServerInv, MixerFirstFrame, TypeOK
<1>7. ServerInv'
  BY <1>1, <1>3, <1>4, <1>5, <1>6 DEF ServerInv, Message
<1>8. ASSUME NEW c \in Client PROVE ClientInv(c)'
  <2>1. ClientInv(c)
    BY DEF RxInv
  <2>2. \A t \in Message : Pending(t, c)' <=> OnWay(t, c)' \/ Pending(t, c)
    BY <1>1, OnlyReplays
  <2>3. UnlockComing(c) => UnlockComing(c)'
    BY <1>1, <2>2 DEF UnlockComing, Message
  <2>4. LockInv(c)'
    <3>1. Pending("lock", c)' /\ c \notin adrift' => pttLockServerActive'
      <4>1. OnWay("lock", c)' => pttLockServerActive'
        BY <1>3, <1>5, <1>6 DEF Message
      <4>2. Pending("lock", c) => c \in adrift
        BY <1>6, <2>1 DEF ClientInv, LockInv
      <4> QED
        BY <2>2, <4>1, <4>2, Marks DEF Message
    <3>2. locked'[c] /\ c \notin adrift' => UnlockComing(c)'
      BY <1>1, <1>6, <2>1, <2>3, Marks DEF ClientInv, LockInv
    <3> QED
      BY <3>1, <3>2 DEF LockInv
  <2>5. SessionInv(c)'
    <3>1. excluded' = except
      BY <1>1, <1>4 DEF HNext
    <3>2. c # except => OnWay("start", c)'
      BY <1>3, <1>5 DEF Message
    <3>3. c # except => Pending("start", c)'
      BY <2>2, <3>2 DEF Message
    <3> QED
      BY <1>1, <3>1, <3>3 DEF SessionInv
  <2>6. (c \notin Listening)' => ~locked'[c] /\ ~receiving'[c]
    BY <1>1, <2>1 DEF ClientInv, Listening
  <2> QED
    BY <2>4, <2>5, <2>6 DEF ClientInv
<1> QED
  BY <1>7, <1>8 DEF RxInv

\* The session ends, and the lock with it (finishRxBroadcastIdle).
LEMMA MixerFinishKeeps ==
    ASSUME TypeOK, TypeOK', RxInv, HNext, MixerFinishIdle
    PROVE  RxInv'
<1> DEFINE msgs == IF BusyMode /\ pttLockServerActive THEN <<"end", "unlock">> ELSE <<"end">>
<1>1. /\ UNCHANGED <<busy, ws, replay, receiving, locked>>
      /\ mixer.msgs = <<>> /\ rxOutSessionActive /\ ~rxOutSessionActive'
      /\ BroadcastTo(msgs, NoClient)
  BY DEF MixerFinishIdle, viewVars
<1>2. ~pttLockServerActive' /\ (pttLockServerActive => BusyMode)
  BY DEF MixerFinishIdle, RxInv, ServerInv
<1>3. msgs \in Broadcasts \ {<<>>}
  <2>1. <<"end", "unlock">> # <<>> /\ <<"end">> # <<>>
    OBVIOUS
  <2> QED
    BY <2>1, KnownBroadcasts
<1>4. /\ Heads(msgs, "end") /\ (pttLockServerActive => Follows(msgs, "unlock"))
      /\ \A t \in {"start", "lock"} : ~Heads(msgs, t) /\ ~Follows(msgs, t)
  <2>1. CASE BusyMode /\ pttLockServerActive
    <3>1. msgs = <<"end", "unlock">>
      BY <2>1
    <3> HIDE DEF msgs
    <3> QED
      BY <2>1, <3>1 DEF Heads, Follows
  <2>2. CASE ~(BusyMode /\ pttLockServerActive)
    <3>1. msgs = <<"end">>
      BY <2>2
    <3> HIDE DEF msgs
    <3> QED
      BY <1>2, <2>2, <3>1 DEF Heads, Follows
  <2> QED
    BY <2>1, <2>2
<1>5. mixer'.except = NoClient /\ mixer'.to = Client \ {NoClient}
  BY <1>1, <1>3 DEF BroadcastTo
<1> HIDE DEF msgs
<1>6. \A c \in Client : \A t \in Message :
         OnWay(t, c)' <=> Heads(msgs, t) \/ Follows(msgs, t)
  BY <1>1, <1>3, NewOnWay, RxLockAssumption
<1>7. ServerInv'
  BY <1>1, <1>2, <1>5 DEF ServerInv
<1>8. ASSUME NEW c \in Client PROVE ClientInv(c)'
  <2>1. ClientInv(c)
    BY DEF RxInv
  <2>2. \A t \in Message : Pending(t, c)' <=> OnWay(t, c)' \/ Pending(t, c)
    BY <1>1, OnlyReplays
  <2>3. UnlockComing(c) \/ pttLockServerActive => UnlockComing(c)'
    BY <1>1, <1>4, <1>6, <2>2 DEF UnlockComing, Message
  <2>4. /\ Pending("end", c)'
        /\ Pending("lock", c)' => Pending("lock", c)
        /\ Pending("start", c)' => Pending("start", c)
    BY <1>4, <1>6, <2>2 DEF Message
  <2>5. LockInv(c)'
    <3>1. Pending("lock", c)' => c \in adrift'
      <4>1. ASSUME Pending("lock", c)', c \notin adrift' PROVE FALSE
        <5>1. Pending("lock", c) /\ c \notin adrift /\ c \notin NewlyAdrift
          BY <2>4, <4>1, Marks
        <5>2. pttLockServerActive
          BY <2>1, <5>1 DEF ClientInv, LockInv
        <5> QED
          BY <1>2, <5>1, <5>2 DEF NewlyAdrift, LockCleared
      <4> QED
        BY <4>1
    <3>2. locked'[c] /\ c \notin adrift' => UnlockComing(c)'
      BY <1>1, <2>1, <2>3, Marks DEF ClientInv, LockInv
    <3> QED
      BY <3>1, <3>2 DEF LockInv
  <2>6. SessionInv(c)'
    <3>1. Pending("start", c)' => c \in misled'
      <4>1. Pending("start", c) => c \in NewlyMisled
        BY <1>1 DEF NewlyMisled, SessionCleared
      <4> QED
        BY <2>4, <4>1, Marks
    <3> QED
      BY <1>1, <2>4, <3>1 DEF SessionInv
  <2>7. (c \notin Listening)' => ~locked'[c] /\ ~receiving'[c]
    BY <1>1, <2>1 DEF ClientInv, Listening
  <2> QED
    BY <2>5, <2>6, <2>7 DEF ClientInv
<1> QED
  BY <1>7, <1>8 DEF RxInv

\* The mixer loop restarts without a word (resetAfterLoopFailure): the clients
\* that were told of a session or a lock are marked.
LEMMA MixerFailKeeps ==
    ASSUME TypeOK, TypeOK', RxInv, HNext, MixerFail
    PROVE  RxInv'
<1>1. /\ UNCHANGED <<mixer, busy, ws, replay, receiving, locked>>
      /\ ~rxOutSessionActive' /\ ~pttLockServerActive'
  BY DEF MixerFail, viewVars
<1>2. ServerInv'
  BY <1>1 DEF RxInv, ServerInv
<1>3. pttLockServerActive => LockCleared /\ Failed
  BY <1>1 DEF RxInv, ServerInv, LockCleared, Failed, SessionCleared
<1>4. rxOutSessionActive => SessionCleared /\ Failed
  BY <1>1 DEF Failed, SessionCleared
<1>5. ASSUME NEW c \in Client PROVE ClientInv(c)'
  <2>1. ClientInv(c)
    BY DEF RxInv
  <2>2. \A t \in Message : Pending(t, c)' <=> Pending(t, c)
    BY <1>1, SameMessages
  <2>3. UnlockComing(c)' <=> UnlockComing(c)
    BY <1>1, <2>2 DEF UnlockComing, Message
  <2>4. (pttLockServerActive => c \in NewlyAdrift) /\ (rxOutSessionActive => c \in NewlyMisled)
    BY <1>3, <1>4 DEF NewlyAdrift, NewlyMisled
  <2>5. LockInv(c)'
    BY <1>1, <2>1, <2>2, <2>3, <2>4, Marks DEF ClientInv, LockInv, Message
  <2>6. SessionInv(c)'
    BY <1>1, <2>1, <2>2, <2>4, Marks DEF ClientInv, SessionInv, Message
  <2>7. (c \notin Listening)' => ~locked'[c] /\ ~receiving'[c]
    BY <1>1, <2>1 DEF ClientInv, Listening
  <2> QED
    BY <2>5, <2>6, <2>7 DEF ClientInv
<1> QED
  BY <1>2, <1>5 DEF RxInv

\* udpReader clears the lock, and will tell those who participate by then
\* (notifyBusyTimeoutElapsed).
LEMMA BusyClearKeeps ==
    ASSUME TypeOK, TypeOK', RxInv, HNext, BusyClearLock
    PROVE  RxInv'
<1>1. /\ UNCHANGED <<rxOutSessionActive, mixer, ws, replay, receiving, locked>>
      /\ pttLockServerActive /\ ~pttLockServerActive' /\ busy'.step = "snapshot"
  BY DEF BusyClearLock, viewVars, TypeOK
<1>2. ServerInv'
  BY <1>1 DEF RxInv, ServerInv, OnWay
<1>3. ASSUME NEW c \in Client PROVE ClientInv(c)'
  <2>1. ClientInv(c)
    BY DEF RxInv
  <2>2. \A t \in Message : Pending(t, c)' <=> Pending(t, c)
    BY <1>1, SameMessages
  <2>3. Pending("lock", c) => c \in NewlyAdrift
    BY <1>1 DEF NewlyAdrift, LockCleared
  <2>4. LockInv(c)'
    BY <1>1, <2>2, <2>3, Marks DEF LockInv, UnlockComing, Message
  <2>5. SessionInv(c)'
    <3>1. rxOutSessionActive => excluded' = excluded
      BY <1>1, ExcludedKept
    <3> QED
      BY <1>1, <2>1, <2>2, <3>1, Marks DEF ClientInv, SessionInv, Message
  <2>6. (c \notin Listening)' => ~locked'[c] /\ ~receiving'[c]
    BY <1>1, <2>1 DEF ClientInv, Listening
  <2> QED
    BY <2>4, <2>5, <2>6 DEF ClientInv
<1> QED
  BY <1>2, <1>3 DEF RxInv

-----------------------------------------------------------------------------
(* The agreements.                                                          *)

\* A step that only repeats the state.
LEMMA StutterKeeps ==
    ASSUME RxInv, UNCHANGED <<vars, history>>
    PROVE  RxInv'
<1>1. UNCHANGED <<rxOutSessionActive, pttLockServerActive, mixer, busy, ws, replay,
                  receiving, locked, adrift, misled, excluded>>
  BY DEF vars, serverVars, viewVars, history
<1>2. ServerInv'
  BY <1>1 DEF RxInv, ServerInv, OnWay
<1>3. ASSUME NEW c \in Client PROVE ClientInv(c)'
  <2>1. ClientInv(c)
    BY DEF RxInv
  <2>2. \A t \in Message : Pending(t, c)' <=> Pending(t, c)
    BY <1>1 DEF Pending
  <2>3. (LockInv(c)' <=> LockInv(c)) /\ (SessionInv(c)' <=> SessionInv(c))
    BY <1>1, <2>2 DEF LockInv, SessionInv, UnlockComing, Message
  <2> QED
    BY <1>1, <2>1, <2>3 DEF ClientInv, Listening
<1> QED
  BY <1>2, <1>3 DEF RxInv

LEMMA InitRxInv ==
    ASSUME HInit
    PROVE  TypeOK /\ RxInv
<1>1. TypeOK
  <2>1. <<>> \in Broadcasts /\ <<>> \in Replays
    BY DEF Broadcasts, Replays
  <2>2. mixer \in Mixer
    BY <2>1 DEF HInit, Init, MixerIdle, Mixer
  <2> QED
    BY <2>1, <2>2 DEF HInit, Init, TypeOK, Mixer, WsStep
<1>2. ServerInv
  BY DEF HInit, Init, MixerIdle, ServerInv
<1>3. ASSUME NEW c \in Client PROVE ClientInv(c)
  <2>1. \A t \in Message : ~Pending(t, c)
    <3>1. \A t \in Message : ~OnWay(t, c) /\ ~InReplay(t, c)
      BY DEF HInit, Init, MixerIdle, OnWay, InReplay, Heads, Follows
    <3> QED
      BY <1>1, <3>1, PendingParts
  <2>2. ~locked[c] /\ ~receiving[c] /\ ~rxOutSessionActive
    BY DEF HInit, Init
  <2> QED
    BY <2>1, <2>2 DEF ClientInv, LockInv, SessionInv, Message
<1> QED
  BY <1>1, <1>2, <1>3 DEF RxInv

\* The invariant is inductive.
LEMMA RxInvariant == HSpec => [](TypeOK /\ RxInv)
<1>1. HInit => TypeOK /\ RxInv
  BY InitRxInv
<1>2. TypeOK /\ RxInv /\ [HNext]_<<vars, history>> => (TypeOK /\ RxInv)'
  <2> SUFFICES ASSUME TypeOK, RxInv, [HNext]_<<vars, history>>
               PROVE  TypeOK' /\ RxInv'
    OBVIOUS
  <2>1. CASE UNCHANGED <<vars, history>>
    <3>1. TypeOK'
      BY <2>1 DEF TypeOK, vars, serverVars, viewVars
    <3> QED
      BY <2>1, <3>1, StutterKeeps
  <2>2. CASE HNext
    <3>1. Next
      BY <2>2 DEF HNext
    <3>2. TypeOK'
      BY <3>1, MixerTyped, BusyTyped, WsTyped DEF Next
    <3> QED
      BY <2>2, <3>1, <3>2, MixerFirstKeeps, MixerTellKeeps, MixerNextKeeps,
         MixerFinishKeeps, MixerFailKeeps, BusyClearKeeps, BusyWriteKeeps, WsKeeps
         DEF Next, MixerWrite
  <2> QED
    BY <2>1, <2>2
<1> QED
  BY <1>1, <1>2, PTL DEF HSpec

\* For any number of clients: one that shows PTT locked is right, or its
\* ptt_unlock is on the way, or one of the three races of MCRxLock caught it;
\* no other interleaving of the mixer loop, udpReader and the client's own
\* handler leaves it locked (mixer_ws_broadcast.go).
THEOREM LocksAgree == HSpec => []LockAgreement
<1>1. RxInv => LockAgreement
  BY DEF RxInv, ClientInv, LockInv, LockAgreement, Listening
<1> QED
  BY <1>1, RxInvariant, PTL

\* The same for rx_broadcast_start and rx_broadcast_end.
THEOREM SessionsAgree == HSpec => []SessionAgreement
<1>1. RxInv => SessionAgreement
  BY DEF RxInv, ClientInv, SessionInv, SessionAgreement, Listening
<1> QED
  BY <1>1, RxInvariant, PTL

\* A running session is known to every client whose join is complete, or on its
\* way to it, by broadcast or by replay, whenever it joined
\* (syncWsSessionStateToClient), but for the one whose solo began the session.
THEOREM SessionsReachEveryone == HSpec => []SessionReachesEveryone
<1>1. RxInv => SessionReachesEveryone
  BY DEF RxInv, ClientInv, SessionInv, SessionReachesEveryone, Synced
<1> QED
  BY <1>1, RxInvariant, PTL
=============================================================================
