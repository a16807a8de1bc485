------------------------------- MODULE RxLock -------------------------------
(***************************************************************************)
(* How one relay channel tells its WebSocket clients that a mixed-audio    *)
(* session runs (rx_broadcast_start, rx_broadcast_end) and that the server *)
(* locks PTT (ptt_lock, ptt_unlock): mixer_ws_broadcast.go, with the parts *)
(* of mixer.go, hub.go and ws_server.go that call it or feed it.           *)
(*                                                                         *)
(* The state is guarded by rxWsMu, but every message is written after the  *)
(* lock is released, by three kinds of goroutines:                         *)
(*   Mixer...  the mixer loop: a mixed frame went out, or the idle probe   *)
(*   Busy...   udpReader, when busy_timeout opens the floor                *)
(*   Ws...     one wsHandler per client: join, replay of the live state,   *)
(*             and removal                                                 *)
(* One WebSocket delivers in order, so a client's view changes as messages *)
(* are written to it.  How long the channel must be silent before the      *)
(* probe fires (eofTimeoutDur) is left to choice.                          *)
(***************************************************************************)
EXTENDS FiniteSets, Sequences

CONSTANTS
    Client,          \* WebSocket sessions, each used for one connection
    NoClient,        \* nobody is excluded from a broadcast
    BusyMode,        \* server.busy_mode
    ParallelUnlock,  \* server.busy_timeout > 0
    MayFail          \* the mixer loop may panic and be restarted

ASSUME RxLockAssumption ==
    /\ NoClient \notin Client
    /\ {BusyMode, ParallelUnlock, MayFail} \subseteq BOOLEAN

VARIABLES
    rxOutSessionActive,     \* a mixed-audio session runs
    pttLockServerActive,    \* the server holds PTT locked
    mixer,                  \* broadcasts the mixer loop has still to write
    busy,                   \* what udpReader is doing, and who it still unlocks
    ws,                     \* progress of each client's wsHandler
    replay,                 \* messages its wsHandler has still to write to c
    participants,
    receiving, locked       \* what c was told last

serverVars == <<rxOutSessionActive, pttLockServerActive>>
viewVars == <<receiving, locked>>
vars == <<serverVars, mixer, busy, ws, replay, participants, viewVars>>

\* Messages reach the clients on the hub's list whose channel is this one.
WsStep == {"new", "bound", "joined", "replaying", "settled", "unlisted", "gone"}
Listening == {c \in Client : ws[c] \in {"bound", "joined", "replaying", "settled"}}

\* What is left of start, lock and of end, unlock.
Broadcasts == {<<>>, <<"start">>, <<"start", "lock">>, <<"lock">>,
               <<"end">>, <<"end", "unlock">>, <<"unlock">>}
Replays == {<<>>, <<"start">>, <<"lock">>, <<"start", "lock">>}

TypeOK ==
    /\ rxOutSessionActive \in BOOLEAN /\ pttLockServerActive \in BOOLEAN
    /\ mixer \in [msgs : Broadcasts, to : SUBSET Client, except : Client \union {NoClient}]
    /\ busy \in [step : {"idle", "snapshot", "write"}, to : SUBSET Client]
    /\ ws \in [Client -> WsStep]
    /\ replay \in [Client -> Replays]
    /\ participants \subseteq Client
    /\ receiving \in [Client -> BOOLEAN] /\ locked \in [Client -> BOOLEAN]

MixerIdle == [msgs |-> <<>>, to |-> {}, except |-> NoClient]

Init ==
    /\ rxOutSessionActive = FALSE /\ pttLockServerActive = FALSE
    /\ mixer = MixerIdle
    /\ busy = [step |-> "idle", to |-> {}]
    /\ ws = [c \in Client |-> "new"]
    /\ replay = [c \in Client |-> <<>>]
    /\ participants = {}
    /\ receiving = [c \in Client |-> FALSE] /\ locked = [c \in Client |-> FALSE]

\* writeJSON to one client
Write(c, type) ==
    /\ receiving' = IF type \in {"start", "end"}
                    THEN [receiving EXCEPT ![c] = type = "start"] ELSE receiving
    /\ locked' = IF type \in {"lock", "unlock"}
                 THEN [locked EXCEPT ![c] = type = "lock"] ELSE locked

-----------------------------------------------------------------------------
(* The mixer loop. *)

\* broadcastChannelWSJSONExcept, once for each message, in any order of clients.
BroadcastTo(msgs, except) ==
    mixer' = IF msgs = <<>> THEN MixerIdle
             ELSE [msgs |-> msgs, to |-> Client \ {except}, except |-> except]

\* noteOutboundMixedUDP for the first frame after idle.  The frame was not sent
\* to `except`, the only speaker; for later frames nothing changes but the time.
MixerFirstFrame(except) ==
    /\ mixer.msgs = <<>>
    /\ except # NoClient => ws[except] # "new"
    /\ ~rxOutSessionActive
    /\ rxOutSessionActive' = TRUE
    /\ pttLockServerActive' = (BusyMode \/ pttLockServerActive)
    /\ BroadcastTo(IF BusyMode THEN <<"start", "lock">> ELSE <<"start">>, except)
    /\ UNCHANGED <<busy, ws, replay, participants, viewVars>>

\* Mutants of MixerFinishIdle: ptt_unlock before rx_broadcast_end; one of them
\* is never sent.
MixerFinishSwapped ==
    /\ mixer.msgs = <<>> /\ rxOutSessionActive
    /\ rxOutSessionActive' = FALSE /\ pttLockServerActive' = FALSE
    /\ BroadcastTo(IF pttLockServerActive THEN <<"unlock", "end">> ELSE <<"end">>, NoClient)
    /\ UNCHANGED <<busy, ws, replay, participants, viewVars>>

MixerFinishLocked ==
    /\ mixer.msgs = <<>> /\ rxOutSessionActive
    /\ rxOutSessionActive' = FALSE /\ pttLockServerActive' = FALSE
    /\ BroadcastTo(<<"end">>, NoClient)
    /\ UNCHANGED <<busy, ws, replay, participants, viewVars>>

MixerFinishUnlockOnly ==
    /\ mixer.msgs = <<>> /\ rxOutSessionActive
    /\ rxOutSessionActive' = FALSE /\ pttLockServerActive' = FALSE
    /\ BroadcastTo(IF pttLockServerActive THEN <<"unlock">> ELSE <<"end">>, NoClient)
    /\ UNCHANGED <<busy, ws, replay, participants, viewVars>>

\* probeRxBroadcastWsIdle finds the session idle, finishRxBroadcastIdle ends it.
\* Whether ptt_unlock follows is decided here, under the lock.
MixerFinishIdle ==
    /\ mixer.msgs = <<>>
    /\ rxOutSessionActive
    /\ rxOutSessionActive' = FALSE
    /\ IF BusyMode /\ pttLockServerActive
       THEN pttLockServerActive' = FALSE /\ BroadcastTo(<<"end", "unlock">>, NoClient)
       ELSE UNCHANGED pttLockServerActive /\ BroadcastTo(<<"end">>, NoClient)
    /\ UNCHANGED <<busy, ws, replay, participants, viewVars>>

MixerTell(c) ==
    /\ mixer.msgs # <<>>
    /\ c \in mixer.to
    /\ IF c \in Listening THEN Write(c, Head(mixer.msgs)) ELSE UNCHANGED viewVars
    /\ mixer' = [mixer EXCEPT !.to = @ \ {c}]
    /\ UNCHANGED <<serverVars, busy, ws, replay, participants>>

MixerNextMessage ==
    /\ mixer.msgs # <<>>
    /\ mixer.to = {}
    /\ BroadcastTo(Tail(mixer.msgs), mixer.except)
    /\ UNCHANGED <<serverVars, busy, ws, replay, participants, viewVars>>

\* resetAfterLoopFailure: the state is cleared and nobody is told.
MixerFail ==
    /\ MayFail
    /\ mixer.msgs = <<>>
    /\ rxOutSessionActive' = FALSE
    /\ pttLockServerActive' = FALSE
    /\ UNCHANGED <<mixer, busy, ws, replay, participants, viewVars>>

-----------------------------------------------------------------------------
(* notifyBusyTimeoutElapsed, in udpReader.  When busy mode opens the floor  *)
(* is the subject of module RelayFloor; here it may at any time.            *)

\* Mutant of BusyClearLock: the participants are not told.
BusyClearSilently ==
    /\ BusyMode /\ ParallelUnlock /\ busy.step = "idle"
    /\ pttLockServerActive
    /\ pttLockServerActive' = FALSE
    /\ UNCHANGED <<rxOutSessionActive, mixer, busy, ws, replay, participants, viewVars>>

BusyClearLock ==
    /\ BusyMode /\ ParallelUnlock
    /\ busy.step = "idle"
    /\ pttLockServerActive
    /\ pttLockServerActive' = FALSE
    /\ busy' = [busy EXCEPT !.step = "snapshot"]
    /\ UNCHANGED <<rxOutSessionActive, mixer, ws, replay, participants, viewVars>>

BusySnapshot ==
    /\ busy.step = "snapshot"
    /\ busy' = [step |-> "write", to |-> participants]
    /\ UNCHANGED <<serverVars, mixer, ws, replay, participants, viewVars>>

\* One client of the snapshot, if it is still on the hub's list.
BusyTellUnlock(c) ==
    /\ busy.step = "write"
    /\ c \in busy.to
    /\ IF c \in Listening THEN Write(c, "unlock") ELSE UNCHANGED viewVars
    /\ busy' = [busy EXCEPT !.to = @ \ {c}]
    /\ UNCHANGED <<serverVars, mixer, ws, replay, participants>>

BusyDone ==
    /\ busy.step = "write"
    /\ busy.to = {}
    /\ busy' = [step |-> "idle", to |-> {}]
    /\ UNCHANGED <<serverVars, mixer, ws, replay, participants, viewVars>>

-----------------------------------------------------------------------------
(* The wsHandler of one client. *)

\* switchChannel: setChannel (broadcasts reach c from now on), addParticipant.
WsSetChannel(c) ==
    /\ ws[c] = "new"
    /\ ws' = [ws EXCEPT ![c] = "bound"]
    /\ UNCHANGED <<serverVars, mixer, busy, replay, participants, viewVars>>

WsAddParticipant(c) ==
    /\ ws[c] = "bound"
    /\ ws' = [ws EXCEPT ![c] = "joined"]
    /\ participants' = participants \union {c}
    /\ UNCHANGED <<serverVars, mixer, busy, replay, viewVars>>

\* Mutant of WsReadState: a running session is not replayed.
WsReadLockOnly(c) ==
    /\ ws[c] = "joined"
    /\ ws' = [ws EXCEPT ![c] = "replaying"]
    /\ replay' = [replay EXCEPT ![c] = IF pttLockServerActive THEN <<"lock">> ELSE <<>>]
    /\ UNCHANGED <<serverVars, mixer, busy, participants, viewVars>>

\* syncWsSessionStateToClient reads the state under rxWsMu ...
WsReadState(c) ==
    /\ ws[c] = "joined"
    /\ ws' = [ws EXCEPT ![c] = "replaying"]
    /\ replay' = [replay EXCEPT ![c] =
          (IF rxOutSessionActive THEN <<"start">> ELSE <<>>)
          \o (IF pttLockServerActive THEN <<"lock">> ELSE <<>>)]
    /\ UNCHANGED <<serverVars, mixer, busy, participants, viewVars>>

\* ... and writes what it read afterwards.
WsReplay(c) ==
    /\ ws[c] = "replaying"
    /\ IF replay[c] = <<>>
       THEN /\ ws' = [ws EXCEPT ![c] = "settled"]
            /\ UNCHANGED <<replay, viewVars>>
       ELSE /\ Write(c, Head(replay[c]))
            /\ replay' = [replay EXCEPT ![c] = Tail(@)]
            /\ UNCHANGED ws
    /\ UNCHANGED <<serverVars, mixer, busy, participants>>

\* The connection ends: removeClient, then removeParticipant.
WsRemoveClient(c) ==
    /\ ws[c] = "settled"
    /\ ws' = [ws EXCEPT ![c] = "unlisted"]
    /\ receiving' = [receiving EXCEPT ![c] = FALSE]
    /\ locked' = [locked EXCEPT ![c] = FALSE]
    /\ UNCHANGED <<serverVars, mixer, busy, replay, participants>>

WsRemoveParticipant(c) ==
    /\ ws[c] = "unlisted"
    /\ ws' = [ws EXCEPT ![c] = "gone"]
    /\ participants' = participants \ {c}
    /\ UNCHANGED <<serverVars, mixer, busy, replay, viewVars>>

-----------------------------------------------------------------------------
MixerWrite == MixerNextMessage \/ \E c \in Client : MixerTell(c)
BusyWrite == BusySnapshot \/ BusyDone \/ \E c \in Client : BusyTellUnlock(c)
WsProgress(c) == WsAddParticipant(c) \/ WsReadState(c) \/ WsReplay(c) \/ WsRemoveParticipant(c)

Next ==
    \/ \E except \in Client \union {NoClient} : MixerFirstFrame(except)
    \/ MixerWrite \/ MixerFinishIdle \/ MixerFail
    \/ BusyClearLock \/ BusyWrite
    \/ \E c \in Client : WsSetChannel(c) \/ WsRemoveClient(c) \/ WsProgress(c)

Spec == Init /\ [][Next]_vars

\* Every goroutine goes on with what it began, and nobody speaks for ever: a
\* session that runs is some time silent for longer than the EOF timeout.
Fairness ==
    /\ WF_vars(MixerWrite)
    /\ WF_vars(BusyWrite)
    /\ \A c \in Client : WF_vars(WsProgress(c))
    /\ WF_vars(MixerFinishIdle)

FairSpec == Spec /\ Fairness
=============================================================================
