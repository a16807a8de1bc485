----------------------------- MODULE WindowsPtt -----------------------------
(***************************************************************************)
(* Push-to-talk of the Windows client: MainFrame's handlers on the UI      *)
(* thread, the messages other threads post to it with CallAfter, the quick *)
(* release guard, and the uplink RelayClient opens in the core.            *)
(*                                                                         *)
(* A handler that stops the engine waits inside AudioCapture's engineCall; *)
(* after names what the handler does when that returns.  open is the       *)
(* core's clientTxOpen: commands reach it in the order they are submitted. *)
(***************************************************************************)
EXTENDS AudioCapture, Sequences

CONSTANTS
    QueueCap,        \* bound: messages waiting for the UI thread
    BlockThreshold   \* kPttReleaseBurstBlockThreshold

ASSUME PttAssumption == QueueCap \in Nat /\ QueueCap >= 2 /\ BlockThreshold \in Nat \ {0}

VARIABLES
    after,     \* what the handler under way does next
    queue,     \* CallAfter: messages to the UI thread
    toggle,    \* pttToggleMode_
    suppress,  \* suppressHoldPttUntilRelease_
    pressed,   \* globalPttPressed_, in toggle mode globalPttToggleHookDown_
    hook,      \* the global keyboard hook is installed
    locked,    \* serverPttLocked_
    count,     \* pttReleaseBurstCount_
    blocked,   \* pttReleaseBurstBlocked_
    decay,     \* the decay timer that holds the newest ticket
    ready,     \* relay_->IsConnected()
    open,      \* the session's clientTxOpen
    uplink     \* txUplinkOpened_

input == <<toggle, suppress, pressed, hook>>
burst == <<count, blocked, decay>>
relay == <<ready, open, uplink>>
pttVars  == <<audio, after, queue, input, locked, burst, relay>>

Message == {"begin", "end", "toggle", "txstop", "lock", "unlock", "welcome",
            "connected", "disconnected"}
Talk == <<audio, burst, relay, after>>   \* what BeginPttTx and EndPttTx change

PttTypeOK ==
    /\ AudioTypeOK
    /\ after \in {"idle", "roger", "close", "call", "abort", "welcome",
                  "disconnect", "exit", "gone"}
    /\ queue \in Seq(Message) /\ Len(queue) <= QueueCap
    /\ {toggle, suppress, pressed, hook, locked, blocked, ready, open, uplink}
         \subseteq BOOLEAN
    /\ count \in 0..BlockThreshold
    /\ decay \in {"none", "asleep", "posted"}
    /\ after = "gone" => ~captureActive /\ pump = "none" /\ ~ready

PttInit ==
    /\ AudioInit
    /\ after = "idle" /\ queue = <<>>
    /\ toggle \in BOOLEAN /\ suppress = FALSE /\ pressed = FALSE /\ hook = FALSE
    /\ locked = FALSE /\ count = 0 /\ blocked = FALSE /\ decay = "none"
    /\ ready = FALSE /\ open = FALSE /\ uplink = FALSE

UiIdle    == after = "idle" /\ engineCall = NoCall
UiAt(a)   == after = a /\ engineCall = NoCall
Room(n)   == Len(queue) + n <= QueueCap
Posts(m)  == Room(1) /\ queue' = Append(queue, m)

-----------------------------------------------------------------------------
(* Beginning and ending to talk.                                           *)

BurstReset == count' = 0 /\ blocked' = FALSE /\ decay' = "none"

\* Mutant of BurstExtended: the ticket is drawn, and nobody sleeps on it.
BurstExtendedUnarmed == decay' = "none" /\ UNCHANGED <<count, blocked>>

\* ExtendPttReleaseBurstDecayTimer: a new ticket makes the old timer void.
BurstExtended == decay' = "asleep" /\ UNCHANGED <<count, blocked>>

BurstRecorded ==
    /\ count' = IF count < BlockThreshold THEN count + 1 ELSE count
    /\ blocked' = (blocked \/ count + 1 >= BlockThreshold)
    /\ decay' = "asleep"

BeginPttTx ==
    IF ~ready \/ transmitting \/ locked
    THEN UNCHANGED Talk
    ELSE IF blocked
    THEN BurstExtended /\ UNCHANGED <<audio, relay, after>>
    ELSE /\ uplink' = FALSE
         /\ StartTransmit \/ UNCHANGED audio
         /\ UNCHANGED <<burst, ready, open, after>>

EndPttTx ==
    IF ~ready \/ ~transmitting
    THEN UNCHANGED Talk
    ELSE /\ BurstRecorded
         /\ EngineCalled("stop")
         /\ after' = "roger"
         /\ UNCHANGED relay

TogglePttTx ==
    CASE ~ready                -> UNCHANGED Talk
      [] ready /\ transmitting -> EndPttTx
      [] OTHER                 -> BeginPttTx

\* A frame in the engine's PCM callback opens the uplink it finds closed.
FrameOpens ==
    /\ open' = (open \/ (ready /\ ~uplink))
    /\ uplink' = (uplink \/ ready)
    /\ UNCHANGED ready

\* The roger signal is streamed through the same callback, on the UI thread.
Roger ==
    /\ UiAt("roger")
    /\ FrameOpens
    /\ after' = "close"
    /\ UNCHANGED <<audio, queue, input, locked, burst>>

TxClosed ==
    /\ UiAt("close")
    /\ open' = FALSE /\ uplink' = FALSE
    /\ after' = "idle"
    /\ UNCHANGED <<audio, queue, input, locked, burst, ready>>

CallClicked ==
    /\ UiIdle /\ ready /\ ~transmitting /\ ~locked
    /\ open' = TRUE /\ uplink' = TRUE
    /\ after' = "call"
    /\ UNCHANGED <<audio, queue, input, locked, burst, ready>>

\* A pattern without points fails, and then nobody calls TxClose.
CallStreamed ==
    /\ UiAt("call")
    /\ FrameOpens
    /\ after' \in {"close", "idle"}
    /\ UNCHANGED <<audio, queue, input, locked, burst>>

-----------------------------------------------------------------------------
(* The user: mouse and Space on the button, the global hook, the dialogs.  *)

MouseDown ==
    /\ UiIdle /\ ~toggle /\ ~suppress
    /\ BeginPttTx
    /\ UNCHANGED <<queue, input, locked>>

\* Also when the pointer leaves the button.
MouseUp ==
    /\ UiIdle /\ ~toggle
    /\ suppress' = FALSE
    /\ EndPttTx
    /\ UNCHANGED <<queue, toggle, pressed, hook, locked>>

ButtonClicked ==
    /\ UiIdle /\ toggle
    /\ TogglePttTx
    /\ UNCHANGED <<queue, input, locked>>

HookDown ==
    /\ UiIdle /\ hook /\ ~pressed
    /\ pressed' = TRUE
    /\ IF suppress /\ ~toggle THEN UNCHANGED queue
                              ELSE Posts(IF toggle THEN "toggle" ELSE "begin")
    /\ UNCHANGED <<Talk, toggle, suppress, hook, locked>>

HookUp ==
    /\ UiIdle /\ hook /\ pressed
    /\ pressed' = FALSE
    /\ IF toggle THEN UNCHANGED <<suppress, queue>>
                 ELSE suppress' = FALSE /\ Posts("end")
    /\ UNCHANGED <<Talk, toggle, hook, locked>>

SettingsAccepted(newToggle) ==
    /\ UiIdle
    /\ IF toggle /\ ~newToggle THEN EndPttTx ELSE UNCHANGED Talk
    /\ toggle' = newToggle /\ pressed' = FALSE
    /\ UNCHANGED <<queue, suppress, hook, locked>>

DisconnectClicked ==
    /\ UiIdle
    /\ EngineCalled("stop")
    /\ after' = "disconnect"
    /\ UNCHANGED <<queue, input, locked, burst, relay>>

\* RelayClient::Disconnect posts its onConnected(false) behind what waits.
Disconnects ==
    /\ UiAt("disconnect") /\ Posts("disconnected")
    /\ ready' = FALSE /\ open' = FALSE
    /\ BurstReset
    /\ pressed' = FALSE /\ suppress' = FALSE /\ hook' = FALSE
    /\ after' = "idle"
    /\ UNCHANGED <<audio, toggle, locked, uplink>>

ExitRequested ==
    /\ UiIdle
    /\ EngineCalled("exit")
    /\ after' = "exit"
    /\ UNCHANGED <<queue, input, locked, burst, relay>>

Exits ==
    /\ UiAt("exit")
    /\ ready' = FALSE /\ open' = FALSE /\ hook' = FALSE
    /\ after' = "gone" /\ queue' = <<>>
    /\ UNCHANGED <<audio, toggle, suppress, pressed, locked, burst, uplink>>

-----------------------------------------------------------------------------
(* The messages the UI thread takes from its queue.                        *)

Takes(m) == /\ UiIdle /\ queue # <<>> /\ Head(queue) = m
            /\ queue' = Tail(queue)

HandleBegin  == Takes("begin") /\ BeginPttTx /\ UNCHANGED <<input, locked>>
HandleEnd    == Takes("end") /\ EndPttTx /\ UNCHANGED <<input, locked>>
HandleToggle == Takes("toggle") /\ TogglePttTx /\ UNCHANGED <<input, locked>>

OnTxStop ==
    /\ Takes("txstop")
    /\ suppress' = (suppress \/ (ready /\ transmitting /\ ~toggle))
    /\ EndPttTx
    /\ UNCHANGED <<toggle, pressed, hook, locked>>

\* Mutant of OnServerPttLock: the button is locked, the talk under way goes on.
OnServerPttLockNoAbort ==
    /\ Takes("lock")
    /\ locked' = TRUE
    /\ UNCHANGED <<Talk, input>>

\* OnServerPttLockFromRelay: the abort comes first, then the flag.
OnServerPttLock ==
    /\ Takes("lock")
    /\ IF transmitting
       THEN EngineCalled("stop") /\ after' = "abort" /\ UNCHANGED locked
       ELSE locked' = TRUE /\ UNCHANGED <<audio, after>>
    /\ UNCHANGED <<input, burst, relay>>

LockAborts ==
    /\ UiAt("abort")
    /\ open' = FALSE /\ uplink' = FALSE
    /\ locked' = TRUE
    /\ after' = "idle"
    /\ UNCHANGED <<audio, queue, input, burst, ready>>

OnServerPttUnlock ==
    /\ Takes("unlock")
    /\ locked' = FALSE
    /\ UNCHANGED <<Talk, input>>

\* Reconfigure stops a capture that is running: the talk is over, though
\* nobody closes an uplink it opened on the new session.
OnWelcome ==
    /\ Takes("welcome")
    /\ EngineCalled("reconfigure")
    /\ after' = "welcome"
    /\ UNCHANGED <<input, locked, burst, relay>>

Welcomed ==
    /\ UiAt("welcome")
    /\ locked' = FALSE
    /\ after' = "idle"
    /\ UNCHANGED <<audio, queue, input, burst, relay>>

OnConnected(up) ==
    /\ Takes(IF up THEN "connected" ELSE "disconnected")
    /\ locked' = (up /\ locked)
    /\ hook' = up
    /\ BurstReset
    /\ UNCHANGED <<audio, after, relay, toggle, suppress, pressed>>

DecayPosted ==
    /\ decay = "asleep"
    /\ decay' = "posted"
    /\ UNCHANGED <<audio, after, queue, input, locked, count, blocked, relay>>

DecayHandled ==
    /\ UiIdle /\ decay = "posted"
    /\ BurstReset
    /\ UNCHANGED <<audio, after, queue, input, locked, relay>>

-----------------------------------------------------------------------------
(* The other threads: the pump's callback, the core and its events.        *)

PumpSends ==
    /\ PumpReturns
    /\ FrameOpens
    /\ UNCHANGED <<after, queue, input, locked, burst>>

SessionReady ==
    /\ after # "gone" /\ ~ready /\ Room(2)
    /\ ready' = TRUE
    /\ queue' = queue \o <<"welcome", "connected">>
    /\ UNCHANGED <<audio, after, input, locked, burst, open, uplink>>

SessionLost ==
    /\ ready
    /\ ready' = FALSE /\ open' = FALSE
    /\ UNCHANGED <<audio, after, queue, input, locked, burst, uplink>>

ServerSays(m) ==
    /\ ready /\ Posts(m)
    /\ UNCHANGED <<Talk, input, locked>>

\* Mutant of WatchdogCloses: Open does not set txOpenAtNs, and the watchdog
\* takes the uplink for one that was never opened.
WatchdogBlind ==
    /\ open /\ uplink /\ pump # "frame" /\ ~UiAt("roger") /\ ~UiAt("call")
    /\ open' = FALSE
    /\ UNCHANGED <<audio, after, queue, input, locked, burst, ready, uplink>>

\* The core closes an uplink that has been silent for kTxOpenWatchdogNs.
WatchdogCloses ==
    /\ open /\ pump # "frame" /\ ~UiAt("roger") /\ ~UiAt("call")
    /\ open' = FALSE
    /\ UNCHANGED <<audio, after, queue, input, locked, burst, ready, uplink>>

-----------------------------------------------------------------------------
OtherThreads == CallbackEnters \/ CallbackStores \/ PumpTakes \/ PumpEnds

UserSteps ==
    \/ MouseDown \/ MouseUp \/ ButtonClicked \/ HookDown \/ HookUp \/ CallClicked
    \/ DisconnectClicked \/ ExitRequested
    \/ \E newToggle \in BOOLEAN : SettingsAccepted(newToggle)

Messages ==
    \/ HandleBegin \/ HandleEnd \/ HandleToggle \/ OnTxStop
    \/ OnServerPttLock \/ OnServerPttUnlock \/ OnWelcome
    \/ \E up \in BOOLEAN : OnConnected(up)

Continues ==
    \/ Roger \/ TxClosed \/ CallStreamed \/ Disconnects \/ Exits
    \/ LockAborts \/ Welcomed
    \/ EngineSteps /\ UNCHANGED <<after, queue, input, locked, burst, relay>>

PttNext ==
    \/ UserSteps \/ Messages \/ Continues
    \/ DecayPosted \/ DecayHandled
    \/ OtherThreads /\ UNCHANGED <<after, queue, input, locked, burst, relay>>
    \/ PumpSends
    \/ SessionReady \/ SessionLost \/ WatchdogCloses
    \/ \E m \in {"txstop", "lock", "unlock"} : ServerSays(m)

PttSpec == PttInit /\ [][PttNext]_pttVars

\* Threads are scheduled, the UI thread goes on with a handler it began, and
\* the core's transmit worker looks at its watchdog every 200 ms.
PttFairness ==
    /\ WF_pttVars(Continues)
    /\ WF_pttVars(PumpSends)
    /\ WF_pttVars((CallbackStores \/ PumpEnds)
                 /\ UNCHANGED <<after, queue, input, locked, burst, relay>>)
    /\ WF_pttVars(WatchdogCloses)

PttFairSpec == PttSpec /\ PttFairness
=============================================================================
