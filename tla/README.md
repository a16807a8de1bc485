# O-Walkie: specifications

TLA+ modules for O-Walkie, a push-to-talk voice relay and its clients, with the
TLC configurations that check them and machine-checked proofs about them. Each
module says in its header which source it stands for; `PROJECT.json` maps every
definition to its lines.

    tlc -workers 2 -config RelayFloor.cfg MCRelayFloor
    tlapm RelayFloorProofs.tla

## 1. The system

| Component | State | Operations | Hard part |
|---|---|---|---|
| **Relay hub, WebSocket server, UDP reader** (`backend/cmd/relay/hub.go`, `client.go`, `ws_server.go`, `udp_reader.go`) | client list, each client's channel and UDP address, channels | connect, bind to a channel, disconnect, route a datagram, broadcast a message or a frame | one goroutine per client and one UDP reader call into every mixer; broadcasts write to clients under the list's lock |
| **Channel mixer** (`mixer.go`) | participants, busy-mode hold, transmit-timeout maps, input and EOF channels, per-speaker states, decoders | admit or refuse a packet, EOF marker, tick, clean-up, add and remove a participant, restart after a panic | five locks, never held together for one logical step; ages of things compared by different goroutines |
| **RX session and PTT lock** (`mixer_ws_broadcast.go`) | a mixed-audio session runs, the server locks PTT | first frame, idle probe, replay to a joining client, unlock when the floor opens | decided under a lock, told to the clients after it |
| **Speaker jitter buffer and stream** (`jitter.go`, parts of `mixer.go`) | buffered packets, head, depth, EOF mark, pending flush, adaptive streaks | push, pop, force start, reset, adapt, conceal, flush the decoder | loss, reordering and late packets; EOF markers on a channel of their own |
| **Repeater** (`mixer_repeater.go`) | recorded PCM per client | capture, EOF, finalization, playback | overlapping playback goroutines |
| **Relay signal processing** (`dsp_*.go`, `module_pipeline.go`, `opus_runtime.go`, ...) | filters | sample in, sample out | none that is not numerical |
| **Relay configuration** (`config_*.go`) | parameters | load, clamp | none |
| **owalkie-core Session** (`owalkie-core/src/session.cpp`) | transport threads, stop and teardown flags, session state, TX queue and worker | connect, halt, disconnect, reconnect, submit to the TX queue, keepalive | threads that tear down what others use; flags reset by a reconnect; the TX worker's start and stop |
| **owalkie-core SessionManager** (`session_manager.cpp`) | sessions by id, an operation lock each, detached cleanups | prepare, connect, disconnect, release, submit | try-lock retries with a deadline; pointers used after the registry's lock |
| **owalkie-core C API** (`c_api.cpp`) | a bridge per session | prepare, deliver, disconnect | which event or call ends the bridge |
| **owalkie-core protocol, helpers** (`udp.cpp`, `link_signal.cpp`, ...) | none | pack and tell datagrams apart, report the link | control datagrams share the audio header |
| **owalkie-core activity probe** (`activity_probe.cpp`) | none | one query with a deadline | none |
| **Android client** (`WalkieService.kt`, `NativeRelayBridge.kt`, `RxPcmJitterBuffer.kt`, `owalkie_jni.cpp`) | connection and PTT state, playback ring, a binding per session | PTT, events from the core, reconnect, playback, erasing a binding | event delivery against polled state; a Java listener deleted while native threads call it |
| **Windows client** (`RelayClient.cpp`, `MainFrame.cpp`, `AudioEngine.cpp`) | session id, reconnect thread, PTT state, capture device and pump, profiles, signal patterns | connect, reconnect, talk, call, edit settings, exit | callbacks on the thread they stop; a lock held while a device is stopped; saves in several steps |

How they interact. A client opens a WebSocket, is put on the hub's list, binds
to a channel (`switchChannel`: `setChannel`, then `addParticipant`), and is sent
the channel's live state. Its audio arrives over UDP: `udpReader` looks the
session up, and calls `push` or `markEOF` of its channel's mixer. `push` asks
the transmit timeout, then busy mode, and hands an admitted packet to the mixer
loop through a channel that drops its oldest element. Each packet period the
loop takes one packet of each speaker, mixes, encodes and sends the frame to
the channel's clients, and cleans up after silent speakers; the first frame
after silence starts an RX session and, in busy mode, locks PTT at the clients
over their WebSockets; the idle probe ends it. When a connection ends,
`removeClient` and `removeParticipant` undo all that, one lock at a time.

What makes each component correct:

- *admission*: one speaker at a time unless `busy_timeout` opened the floor; a
  speaker is refused only on account of somebody who is there and speaking;
  no transmission longer than `transmit_timeout`; `tx_stop` only then, and not
  more than once a second;
- *RX session and lock*: what a client was told agrees, in the end, with what
  the server holds, and no client stays locked;
- *speaker stream*: packets are played in order, at most once, without a stall
  that loss alone causes, and one transmission leaves nothing behind for the next;
- *core session*: threads are started and joined safely, a session that looks
  connected is served, a released one stays down and is destroyed at last,
  every accepted submit is processed or discarded by an abort, each begun
  transmission is ended, a link is given up only if it was silent;
- *bridges*: a callback runs on a live listener, a binding goes with its session;
- *clients*: a lost session is connected again, the engine follows the button,
  an uplink is closed, the application can exit, and what is on screen and in
  the engine is what was saved.

The hazards, each at its line, are in `PROJECT.json`.

## 2. Modules

| Module | Models | Kind |
|---|---|---|
| `ChannelFloor` | what busy mode promises of a channel | abstract specification |
| `RelayFloor` | admission in `mixer.go`: busy-mode hold and transmit timeout, with `udpReader`, the `wsHandler`s and the mixer loop's clean-up | detailed specification |
| `RelayFloorProofs` | type correctness of `RelayFloor`; it implements `ChannelFloor`; refusals are justified; air time and `transmit_stop` notices are bounded | proofs |
| `MCRelayFloor`, `MCTransmitLimit` | `RelayFloor` with history variables | model checking |
| `RxLock`, `MCRxLock` | `mixer_ws_broadcast.go` with what it tells the clients | detailed specification |
| `RxLockProofs` | types of `RxLock`; locks and sessions agree; sessions reach everyone | proofs |
| `JitterBuffer` | `speakerJitterBuffer` as operators on a record | operators |
| `SpeakerStream`, `MCSpeakerStream` | one speaker in the mixer loop, over `JitterBuffer` | detailed specification |
| `SpeakerStreamProofs` | the jitter buffer's operators; types, order, loss and EOF of a speaker | proofs |
| `TxPipeline`, `MCTxPipeline` | the uplink command queue of a core `Session`: `submitTx`, the TX worker, `stopTxPipeline` | detailed specification |
| `TxPipelineProofs` | type correctness of `TxPipeline`; every transmission is closed towards the relay first; the three views of a transmission agree | proofs |
| `SessionLifecycle`, `MCSessionLifecycle` | a managed session from `connect` to its destruction: `session_manager.cpp` and the transport of `session.cpp` | detailed specification |
| `SessionLifecycleProofs` | every safety property of `SessionLifecycle` | proofs |
| `UdpFrame` | the datagram header, its kinds, the link report | operators |
| `UdpLink`, `MCUdpLink` | keepalives, their answers and the loss of the link, over `UdpFrame` | detailed specification |
| `UdpLinkProofs` | datagram kinds are disjoint; a loss is deserved | proofs |
| `CallbackBridge`, `MCCallbackBridge` | the JNI bridge of Android and the C API's | detailed specification |
| `CallbackBridgeProofs` | types; counted callbacks end on a live listener | proofs |
| `RelayClient`, `MCRelayClient` | the Windows client's session and reconnect loop | detailed specification |
| `AudioCapture` | the capture device, its callback, its pump and `mu_` of `AudioEngine` | component |
| `WindowsPtt`, `MCWindowsPtt` | push-to-talk in `MainFrame`, composed with `AudioCapture` | detailed specification |
| `SignalPatterns` | Roger and call patterns of the Windows client with their two files | component |
| `ConnectionProfiles` | its server profiles with their file and controls | component |
| `MCClientSettings` | both | model checking |
| `WindowsClientProofs` | every safety property of the Windows client's three runs | proofs |

**RelayFloor.** The variables carry the names of `channelMixer`'s fields; `udp`,
`ws` and `mixer` say where `udpReader`, each `wsHandler` and the mixer loop are
between two critical sections. An action is one critical section: `TxGate` is
the part of `canAcceptTxPacket` under `txMu`, `TryAcceptPacket` the one under
`busyMu`, `PushInput` the send to the input channel. `removeParticipant` is
three actions because it takes three locks. A time is the age of its event in
packet periods, `Unset` when the map has no entry or the time is zero, and
stops growing where the code stops telling ages apart. Of a speaker's stream
state only what keeps the transmit timer alive is here: `lastPacketAt`, and how
many packets may still refresh it. The abstract `held` is the hold window,
`admitted` is the packet between `busyMu` and the input channel.

**RxLock.** `rxOutSessionActive` and `pttLockServerActive` change under
`rxWsMu`; every message is a later action per client. `mixer` holds the
broadcasts the loop still writes and to whom, `busy` the unlock of an opened
floor, `replay` what a joining client's handler read and has still to write.
`receiving` and `locked` are what each client was told last: a WebSocket keeps
order, so they change as messages are written to it.

**SpeakerStream** and **JitterBuffer.** A packet is its sequence number. The
operators of `JitterBuffer` are the methods of `speakerJitterBuffer`: `Upcoming`
is what `pop` returns, `Pop` the buffer it leaves. `Receive`, `HandleEOF` and
`MixTick` are the three cases of `runLoop`'s select; `MixTick` runs the whole
tick of one speaker in the code's order: flush, force start, pop, decode or
conceal, adapt, clean up. `MissTick` is a tick lost because the loop itself
writes to clients. Whether a played packet can be decoded is left to choice.

**TxPipeline.** Three kinds of threads: callers of `submitTx` and
`waitTxQueueIdle` (`call` says where each is: checked, waiting for room, pushed
and about to call `ensureTxWorkerStarted`), the worker (`worker` is its next
step, `item` the command it carries out, `"Watchdog"` when the watchdog ends the
transmission), and the teardown (`teardown` is its next step in
`stopTxPipeline`). What happens under `txQueueMu` is one action; the flags and
the thread handle, which the code reads and writes outside it, change in actions
of their own. `ensureTxWorkerStarted` is one action although the teardown's
stores to the flags may fall between its own: the orders that differ lead to
states the model reaches anyway. `link` stands for `connected`, `stopRequested`
and `welcome.sessionId`, which `haltTransport` and `signalRecoverableLoss`
change together; `"cleared"` is a transport that the bounded wait of `connect()`
gave up on and cleared, `"fresh"` one that `reconnectTeardown` (or the teardown
thread) has made ready. `voice` is what the relay got since the last EOF marker.
There is one teardown at a time here; that teardowns meet is the subject of
`SessionLifecycle`. Time is left
to choice: the watchdog may fire whenever the queue is empty, a submission's
400 ms and a wait's time limit may be over at any moment.

**SessionLifecycle.** `ses` holds the atomics of `Session::Impl` by name, `mgr`
the managed session with its `sessionOpMu`. Three kinds of worker serve a
connection; `worker[a][w]` is the thread connect attempt `a` started, and
`handle[w]` says which attempt's thread the `std::thread` member holds, so that a
detached thread runs on beside its successor, as it does in the code when a wait
passes its deadline. `conn` is the one thread inside `SessionManager::connect`
(sessions have one reconnect loop, and `sessionOpMu` serialises the rest),
`closer` those in `disconnect` and `haltAndRelease`, one of them inside a
callback of the WebSocket thread. `td` is `teardownThread_`, `cleanup` the
cleanup thread that ends in `~Session`. A dial is a few stages that end when
they like, but look at `stopRequested` last. `WaitPastDeadline` is enabled
whenever the transport has not stopped: nothing but a teardown sets
`transportFullyStopped`, so the wait after a lost connection always runs into
its deadline.

**UdpLink** and **UdpFrame.** A datagram is a record of the header's fields and
its length. In `UdpLink` timestamps are ages in ticks; `stamping` are the senders
between the datagram and the bookkeeping of `sendUdpKeepalive`, so an answer may
arrive before its keepalive is noted. `up` and `down` count datagrams under way,
which the network drops or delays. Threads wake in time and a send takes no tick.

**CallbackBridge.** One session and its bridge, `front` says which. A delivery
is three steps in JNI (look at the listener, raise the depth, call), one in C;
an erase takes the binding from the map, waits for the depth, deletes. Callers
are the workers, the thread inside `connect`, and the closers, who deliver
`Disconnected` themselves. `unseen`, `missed` and `gaveUp` mark the three orders
in which the code cannot keep its promise.

**RelayClient.** Thread 0 is the UI thread, thread *n* the reconnect loop the
*n*-th Connect started. `TryReconnect` is modelled once, for both. A fatal event
runs on its session's WebSocket thread, `fatal[s]`, or, when `connect` rejects
the parameters, on the thread inside `connect`. Of the core it keeps what
`SessionLifecycle` shows: `haltAndRelease` takes a session once `connect` let go.
`link[s]` is the transport itself, `events` what the session's threads report of
it afterwards, each in a step of its own: `events.connected` is
`sessionState.connected`, which the loop goes by, and it may say other than `link`.

**WindowsPtt** and **AudioCapture.** The UI thread runs one handler at a time;
`after` names what the handler does when the engine call it waits in returns.
`queue` holds what other threads posted with `CallAfter`. `mu` is held across
steps only while the device is stopped, which waits for the callback under way.
`open` is the core's `clientTxOpen`, on the strength of `TxPipeline`: commands
take effect in the order they are submitted.

**SignalPatterns** and **ConnectionProfiles.** A handler changes memory at once
and leaves in `todo` (`saving`) what it does then, in its order: truncate a file,
write it, tell the engine. The program may end between any two; a start reads the
files as they are. A pattern is an id and a name, a profile's text fields are one
value.

## 3. Runs

| Run | Expect | Instance | Shows |
|---|---|---|---|
| `RelayFloor` | pass | 2 sessions, busy mode, `BusyTimeout` 3, `Hangover` 2 | `FloorRefinement`: admission implements `ChannelFloor`. `RefusalJustified`: a refusal names a present holder heard within the hangover. 1.6 million states |
| `TransmitLimit` | pass | 1 session, `TransmitTimeout` 5, `EofTimeout` 4, `InputCap` 2 | `AirtimeBounded`: the mixer takes no packet of an unbroken air time beyond the timeout plus one EOF timeout. `StopNoticesThrottled`. 0.2 million states |
| `RxLock` | pass | 2 clients, busy mode, opening floor, mixer restarts | `LockAgreement`, `SessionAgreement`: outside the marked races a client that was told is right, or the retraction is on its way. `SessionReachesEveryone`: a settled client knows the running session. `LockedClientsAreReleased`. 0.5 million states |
| `SpeakerStream` | pass | `MaxSeq` 4, 2 numbers late, 1 lost in a row, depth 1..2 with adaptation, 3 or 4 packets kept | `PlayoutOrdered`, `LossNeverStalls`, `DecoderFreshAfterEOF`, `SilentSpeakerForgotten`. 0.3 million states |
| `TxPipeline` | pass | UI thread (Open, VoiceEnd, Close, Abort, wait) and capture thread (Pcm), `Capacity` 1, `Backlog` 2 | `TxStateAgrees`: a connected session at rest has told the application exactly of an open, watched transmission. `VoiceIsClosed`: the relay is sent a transmission's EOF marker before the application hears of its end; only an `Abort` leaves one open there. `WorkNotStranded`, `SilenceEndsTx`, `TeardownOfRunningEnds`. 0.3 million states |
| `SessionLifecycle` | pass | 2 connect attempts, WebSocket and one I/O worker, 2 closers | `ThreadStartSafe`: no thread is assigned over a joinable one. `ConnectedIsServed`: a session that looks connected has its reader and nobody disconnects it. `DisconnectedOnce`, `CleanupJoinsWorkers`, `ReleasedStaysDown`, `ClosedIsDestroyed` |
| `UdpLink` | pass | ticks, `MaxFlight` 2, three profiles | `LossIsDeserved`: a link is given up only after a whole loss timeout without an answer. `SilentLinkIsLost`. 0.1 million states |
| `CallbackBridge` | pass | 3 session threads, 2 closers, both bridges | `CountedCallsFinish`, `BindingGoesWithSession`. 0.5 million states |
| `RelayClient` | pass | 2 sessions, 2 slots | `OnlyFatalEventsForget`: every session the core still holds is the current one or was forgotten on a fatal event. `LostIsReconnected`: a current session that is down comes back, unless its events go on saying that it is connected (`Misreported`). 0.1 million states |
| `WindowsPtt` | pass | 2 messages queued, threshold 2 | `EngineSettles`: between handlers the engine is off, or captures with one pump and without a server lock. `BurstTimerArmed`, `UplinkCloses` |
| `ExitHang` | violation | as `WindowsPtt` | `ExitIsNotBlocked`: the application does not exit (`AudioEngine.h:48`) |
| `ClientSettings` | pass | 2 ids, 2 names, 2 + 1 patterns; 3 profiles, 2 contents | `ChosenSignalPlays`: the signal played is the one selected, also after an end between the two files. `ScreenShowsActiveProfile`: the fields on screen are those of the profile a save overwrites. 1.7 million states |

**What ExitHang found.** `PrepareForExit` takes `mu_` and stops the capture
device, and stopping a device waits for the callback it is in. The callback
looks at `transmitting_`, then takes `mu_`. If the flag falls between its look
and its lock, each waits for the other. `StopTransmit` and `Reconfigure` stop the
device under `mu_` as well, so talking can hang the same way; the claim in the
header is about exit.

**Two things the models had to allow.** `handleWelcome` makes the session ready
first and emits `Connected` last, on the WebSocket thread. A loss that the UDP or
the keepalive thread signals in between halts the transport and emits
`ConnectionLost`; `Connected` comes after it and raises `sessionState.connected`
again. The reconnect loop takes this flag for a transport that is up
(`RelayClient.cpp:216-220`) and sleeps until the user disconnects, against
`windows-client-cpp/README.md:42`. `Misreported` marks such a session;
`LostIsReconnected` excepts it and no other that is down.

An `Abort` tells the application the end of its transmission on a live link and
sends no EOF marker (`session.cpp:690-704`). No comment or doc promises one, so
this is not a finding; `cutOff` records it, and `VoiceIsClosed` says that nothing
else leaves a transmission open at the relay, which then waits for its own
timeouts.

Known races that a property excepts, because the code has them: a client that
joins while a session ends may stay locked (`adrift`, `misled` in `MCRxLock`); a
late packet stalls playout (`late` in `MCSpeakerStream`); a submission that
starts the worker hangs or kills a teardown (`TeardownHung`, `terminated`); a
callback that looked at the listener before the erase and counted itself after
(`unseen`); a binding registered after its session was taken (`missed`); a
`connect` on the reconnect thread that is refused joins itself (`crashed`); a
session whose last event is false (`Misreported`). The
hazards in `PROJECT.json` name each at its line.

**Why the bounds are enough.** Admission is decided by one holder and one
challenger, so two sessions give every conflict there is; a third only repeats
one of the two. The two properties of the transmit timeout speak of one
session, and sessions meet in that code only in the input channel, whose drops
the one session already causes to itself with `InputCap` 2; in `RelayFloor` the
channel holds one packet so that dropping is the rule. `EofTimeout` and
`Hangover` are the smallest values that keep the order the code enforces
(`FloorAssumption`), `BusyTimeout` and `TransmitTimeout` larger than both where
that order matters. In `RxLock` the server's side does not depend on the number
of clients; two are enough for one to be told before and one after any change.
In `SpeakerStream` the thresholds (four concealed ticks, eighty stable ones, 32
packets kept) are scaled down together so that each is passed within a few
packets: `KeepFloor` 3 and `KeepPerStart` 2 make trimming and the jump of half
a queue happen with four packets, and a change of depth changes what is kept.
`Reorder` and `Loss` bound one delivery, not the run: they add up over a run.

In `TxPipeline` one command at capacity and two behind it are enough for every
command to find room, to find none, and to go past the capacity; two callers
give every pair of submissions in flight, and connections, teardowns and
reconnects are not bounded. No client submits Opus, which differs from Pcm only
in not waiting for room; the run leaves it out, the proofs do not.

In `SessionLifecycle` two attempts give a detached worker of the first beside
the connection of the second, which is what a stale worker can disturb; a third
only repeats it. The UDP and keepalive workers do the same here, so the run has
one of them and the WebSocket worker. In `UdpLink` the timings keep their order
with jitter: retransmission < loss < idle in the foreground, loss far below idle
in the background. In `RelayClient` two sessions and two slots give late
events of one session beside the next, and let the table fill with sessions a
fatal event made the client forget; the link of each may be lost and dialled
again without bound. One welcome and one loss of the current session are
reported at a time: of two losses at once only one is told, and a report that a
detached thread has left over may meet the connection after it, which is what
matters. In `WindowsPtt` two
messages is the least a welcome posts, and any two orders of messages meet. In
`ClientSettings` the ids of patterns are tick counts, and may come again; the two
halves share nothing, so that each behaviour exercises one of them.

The history variables of the MC modules do not constrain anything: they record
what was sent, heard, told or played, so that a property need not trust the
code's own bookkeeping. In `MCRxLock`, `adrift` and `misled` mark exactly the
clients that one of the named races may have left with a stale message (a
message read before and written after the state changed, a restart without a
word, an unlock sent to participants only); the properties then say that there
is no other way.

**Assumptions of the models.** In `RelayFloor` goroutines are prompt: a packet
period ends only when every handler has returned and the mixer had its tick;
within the period they interleave freely. A handler blocked for longer (a
client that does not read) is not part of it. In `RxLock` writes return. In
`SpeakerStream` the loop may miss ticks. Session ids and sequence numbers do not
wrap: a session numbers its packets from 1, fifty a second. In `UdpLink` threads
wake in time. `ClientSettings` says nothing of a client whose pattern file was
read back torn or not written at all (`spoiled`): the code then loses or keeps
the patterns without a word.

**Fairness.** Safety properties assume none. `LockedClientsAreReleased` assumes
that every goroutine goes on with what it began (nothing in these paths waits
for another except on locks held briefly), and `WF(MixerFinishIdle)`: a session
that runs is some time silent for longer than the EOF timeout, so the probe the
ticker calls finds it idle. `SilentSpeakerForgotten` assumes the mixer's ticker
(`WF(MixTick)`) and nothing of the network; that nothing more arrives is its
premise. No fairness is assumed of clients. The liveness properties of
`TxPipeline` assume that a call once begun goes on, that the worker and a
teardown go on, and that a session that is down is torn down at last: both
applications call `connect()` again on a timer until they disconnect, and either
runs `stopTxPipeline`. That nothing more is submitted is a premise, not an
assumption: no fairness makes a caller submit or stop submitting.

`terminated`, when `ensureTxWorkerStarted` assigns over a joinable thread and
the process ends, and `TeardownHung`, when it lowers the stop flag of a teardown
that then joins a worker which never ends, are excepted by these properties and
nothing else is. Both need a submission that starts the worker while
`stopTxPipeline` runs.

`ClosedIsDestroyed` assumes that threads which can run do, that a dial ends (its
stages have timeouts) and that callbacks return; not that anybody connects, loses
a link, or is told anything. `SilentLinkIsLost` assumes that time passes and the
session's threads run. `LostIsReconnected` assumes strong fairness of a dial that
succeeds and of its welcome: a server that can be reached again and again is
reached at last; and that a thread which has begun to report a welcome or a loss
goes on, also when it was detached. `UplinkCloses` assumes that handlers go on and that the TX
worker looks at its watchdog. `BindingGoesWithSession` assumes that every thread
with something to do is scheduled, and strong fairness of a close, which tries
`sessionOpMu` every few milliseconds. No run assumes that the network delivers
or that a user acts.

Deadlock is checked in the relay's runs, where a channel with its ticker never
stops, and in `ClientSettings`. It is not where the process may have ended, the
session be destroyed or the link be lost for good.

## 4. Proofs

`RelayFloorProofs`, for every set of sessions, all timeouts and any capacity of
the input channel, from `FloorAssumption` (what `newChannelMixer` enforces:
`Hangover` at least two periods, `EofTimeout` at least one more; and what the
units give: `transmit_timeout` counts whole seconds, notices keep one apart) and,
for the last two, `SpeakerAssumption`, that the session they follow is one:

- `TypeCorrect == Spec => []TypeOK`. `TypeOK` is inductive: one lemma per
  goroutine, one step per action. The parts with content are that ages stay
  within their caps and the input channel within its capacity.
- `FloorImplemented == Spec => FloorRefinement`, the property the run
  `RelayFloor` checks. The step simulation has one lemma per goroutine: the
  `wsHandler`s join, leave and vacate; `tryAcceptPacket` grants or lets speak,
  the one place where `owner`, `open` and `admitted` change together; time only
  lapses a hold. `TypeOK` is not enough: `RemoveParticipantBusy` resets a hold,
  which the floor allows only of an owner that left. `Membership` supplies it:
  the participants are exactly the sessions whose handler is between
  `addParticipant` and `removeParticipant`. It is inductive together with
  `TypeOK`.
- `RefusalsJustified == HSpec => RefusalJustified`, an action property.
  `HeardInv` ties the code's clock to the history: while the hold is exclusive
  and within the hangover, the holder was heard no longer ago than
  `busyLastPacketAt` says, however the hold was granted, moved or let go.
- `NoticesThrottled == LimitSpec => StopNoticesThrottled`. The entry that
  throttles the notices is deleted with every end of a transmission; `NoticeInv`
  says why none comes early even so: once it is deleted the session is not force
  stopped, and its transmit timer, not set or younger than the last notice, has
  at least the notice interval to run.
- `AirtimeKept == ASSUME TransmitTimeout > 0 PROVE LimitSpec => AirtimeBounded`.
  `AirInv` says of a speaker that has not left: the mixer's stream of it is no
  older than its silence, so that the clean-up is not early to see it end
  (`SilenceTold`); a running timer covers its air time but for one EOF timeout
  (`TimerCovers`); so do its packets admitted and not yet taken
  (`PendingCovered`), also around its registration and in the clean-up that did
  not see it yet (`JoinsFresh`). `TypeOK` and `Membership` support both.

`RxLockProofs`, for any set of clients, both modes of the channel and any of the
failures of the model, from `RxLockAssumption`:

- `RxTypeCorrect == Spec => []TypeOK`.
- `LocksAgree`, `SessionsAgree` and `SessionsReachEveryone`, the three
  invariants of the run `RxLock` under `HSpec`. None is inductive: each speaks
  of what clients were told, and a message read before a change is told after
  it. `RxInv` pairs every message still on its way with the state it was read
  from. Per client, `LockInv` and `SessionInv` say that a `ptt_lock` or
  `rx_broadcast_start` which is pending, in a broadcast or in a replay, tells the
  truth or its client is marked; on the server's side, `ServerInv` says that a
  lock exists only within a session and in busy mode, that no end is on its way
  while a session runs, and that the client a broadcast leaves out is not among
  those it is written to. The proof has lemmas about what is on its way to a
  client before and after a step (`NextOnWay`, `PendingParts`) and one per action.

`SpeakerStreamProofs`, for every configuration of the buffer and any loss,
lateness and repetition, from `JitterAssumption` and `StreamAssumption`:

- What each method of the buffer keeps, once for all its callers: `TrimSound`,
  `PushSound`, `PopSound`, `ForceStartSound`, `SetMinStartSound`. They rest on
  `LowestIs` and `HighestIs` (a finite nonempty set of packets has a least and a
  greatest element, from the well-foundedness of strict inclusion on its finite
  subsets) and, for `trim`, on counting: the packets with fewer than `maxKeep`
  above them are at most `maxKeep` many, and all lie above those that go.
- `StreamTypeCorrect == HSpec => []TypeOK`, in which the bound on the queue has
  content; `PlayedInOrder == HSpec => PlayoutOrdered` and `LossHoldsNothingUp ==
  HSpec => LossNeverStalls`, both action properties; `FreshAfterEOF == HSpec =>
  []DecoderFreshAfterEOF`. In `StreamInv`, `Orderly` says that with playout begun
  every buffered packet lies at `head` or above or came late, `Fresh` that none
  has been overtaken by what was played, and `FlushComes` that after an EOF the
  flush is pending with an age no less than the quiet since, or is done.

`TxPipelineProofs`, for any threads, any commands they submit, any capacity and
backlog, from `TxPipelineAssumption`:

- `TxTypeCorrect == Spec => []TypeOK`. The part with content is that no `Pcm`
  command lies beyond the capacity, although a caller waits for room with the
  lock released and others push past the capacity meanwhile.
- `TransmissionsClosed == Spec => []VoiceIsClosed`, which the run `TxPipeline`
  checks. It is not inductive, since it says nothing of the steps between.
  `VoiceInv` adds that the relay has forgotten a client that is down, that a
  teardown runs only then, that the worker has cleared `clientTxOpen` before it
  sends the markers, that a transmission that is open was announced as soon as
  its `Open` is carried out, and that one the relay takes for open while the
  application does not was cut off by an `Abort`.
- `TxStatesAgree == Spec => []TxStateAgrees`. It needs more than agreement
  between commands: a worker may be started again in the middle of a teardown
  and live into the next connection. `TxInv` adds what the worker owes in the
  middle of opening and closing, that one which outlives a joined teardown does
  neither, and that a transport made ready has no transmission left over.

`SessionLifecycleProofs`, for any number of I/O workers and connect attempts,
from `LifecycleAssumption`, all five safety properties of the run:

- `ThreadsStartSafely`, `ConnectedServed` (which contains `TypeOK`), `HeardOnce`,
  `CleanupJoined`, and `StaysDown`, an action property. One invariant,
  `LifeInv`, serves all: it says who may touch the transport. `connect` works
  only while it holds `sessionOpMu` of a session that is registered; whoever
  unregisters one has withdrawn the intent; nothing of the end has begun while it
  is registered; while `connect` prepares and after the end began the transport
  is down; and no thread is joinable while `connect` prepares or when the cleanup
  has waited.

`UdpLinkProofs`, for any timings that fit the caps, from `LinkAssumption`:

- `AudioIsAudio` and `ControlToldApart`: a frame `sendOpusFrame` sends is audio
  for the receiver and nothing else; a keepalive, its answer and an EOF marker
  are never taken for one another.
- `LinkTypeCorrect == Spec => []TypeOK` and `LossDeserved == Spec =>
  LossIsDeserved`. The invariant behind both, `Waits`, says that a keepalive has
  been pending no longer than the link was silent, and that the age the loop has
  read is no more than the silence at that time.

`CallbackBridgeProofs`, for any set of closers, from `BridgeAssumption`:

- `BridgeTypeCorrect` and `CountedAreSafe == Spec => []CountedCallsFinish`. The
  invariant adds three things: only who is in a call is counted; from the moment
  an eraser that did not give up goes to delete, whoever is counted came late;
  and a session that was not prepared has nobody on its way.

`WindowsClientProofs`, about the three specifications of the Windows client,
which share no variables; from `ClientAssumption`, `PttAssumption`,
`ProfilesAssumption` and `PatternsAssumption`:

- `NothingDropped == Spec => []OnlyFatalEventsForget`, for any number of sessions
  and slots. Besides the property itself `ClientInv` says that the client knows
  no session when it prepares the next (`PreparesForNone`), that ids are given
  out in order and none is known before it is given (`GivenInOrder`), and that
  there is a newest session when `StartLoop` starts its loop (`StartsNewest`).
- `PttTypeCorrect`, `EngineAlwaysSettles` and `BurstTimersArmed`, for any queue
  and threshold. `EngineSettles` speaks of the moments between two handlers;
  `PttInv` adds what holds inside them: how far a call that stops the engine has
  taken it down (`Stopping`), and that the engine runs only while nothing is to
  follow and the server holds no lock (`Talks`).
- `ScreenShowsActive`, for any number of profiles and any contents. The list may
  come back from the file, so `ScreenInv` adds that a file which reads back names
  one of its profiles (`StoredSound`).
- `ChosenAlwaysPlays`, for any ids, names and lists. The program may end between
  any two effects of a handler, so `SignalInv` relates memory, the engine and
  both files to what the handler still has to do: what no effect is to bring up
  to date is up to date (`UpToDate`), and the selection in one file is there in
  the other, now and after whichever write comes first (`FilesSound`). That an
  upsert saves the patterns first and a deletion the selection first is what
  makes it inductive. `WithoutSound`, about the recursive function that deletes
  from a list, is proved without induction, from a least counterexample.

Every safety property the passing runs check is proved. Only model-checked are
the liveness properties, which the provers do not cover.

## 5. Not modelled

- Mixing, the outbound burst tail and all signal processing (sound, not control);
  JSON, Opus, signal synthesis; relay configuration; vendored audio code.
- In the relay: the catch-up frame, UDP address learning, activity timestamps,
  the client list's lock under a client that does not read, the repeater.
- In the core: the activity probe, which shares nothing with a session;
  `notifyNetworkChanged`, `resetUdpTransport` and `drainPendingNetworkRecreate`,
  which nothing calls; `submitTx` on a session that is destroyed under it.
- Clients: the Kotlin side of Android (event filtering, playback ring); on
  Windows playback, devices, hot-key parsing, accessibility and layout.
  Its README says that audio settings live in `audio.json`; the code writes
  `config.json`, which `SignalPatterns` follows.

## 6. Plan

The core and both native clients are modelled. Next, in this order:

1. `HubLock`: broadcasts under `clientsMu` with a client that does not read.
2. Repeater capture and playback, with the EOF channel at its capacity.
3. The Android service: events delivered late against the polled state.
4. With each of them, the invariant that proves its safety properties.
