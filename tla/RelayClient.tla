----------------------------- MODULE RelayClient -----------------------------
(***************************************************************************)
(* RelayClient of the Windows client: the UI thread's Connect and          *)
(* Disconnect, the reconnect loop thread, and the fatal events a session's *)
(* WebSocket thread delivers.  The client knows one session, sessionId_;   *)
(* SessionManager keeps every session that was prepared and not released.  *)
(*                                                                         *)
(* Thread 0 is the UI thread, thread n the loop that the n-th Connect      *)
(* starts.  Of a session only what the loop looks at is kept: its link,    *)
(* and what its events said of it last, which its threads emit after they  *)
(* have raised or halted the link.                                         *)
(***************************************************************************)
EXTENDS Naturals, FiniteSets

CONSTANTS
    MaxSession,  \* bound: sessions prepared
    Slots        \* kMaxManagedSessions

ASSUME ClientAssumption == MaxSession \in Nat \ {0} /\ Slots \in Nat \ {0}

Id     == 1..MaxSession
None   == 0
Ui     == 0
Thread == {Ui} \cup Id

VARIABLES
    sessionId,      \* sessionId_, read and written without a lock
    running,        \* reconnectLoopRunning_
    inFlight,       \* connectInFlight_
    handle,         \* reconnectThread_: the loop it can join, or None
    pc,             \* pc[t]: where thread t is
    target,         \* target[t]: the session t's manager.connect works on
    reconnecting,   \* the Disconnect under way is the head of a Connect
    fatal,          \* fatal[s]: s's ws thread in HandleSessionEvent, fatal event
    registered,     \* the sessions SessionManager holds
    bad,            \* sessions prepared with parameters connect rejects
    link,           \* link[s]: the transport and the welcome of s
    events,         \* what the threads of session sessionId_ report of it
    forgotten,      \* history: what clearManagedSession forgot
    crashed         \* std::terminate was called

client == <<sessionId, running, inFlight, handle, reconnecting>>
core   == <<registered, bad, link, events>>
vars   == <<client, pc, target, fatal, core, forgotten, crashed>>

ThreadPc == {"none", "idle", "stop", "join", "release", "prepare", "start",
             "top", "enter", "check", "halt", "dial", "await", "reject", "rejectJoin",
             "rejectClear", "sleep", "ended"}

\* connected is sessionState.connected, which only Connected raises; signaled is
\* connectionLostSignaled.  greeting: a WebSocket thread is in handleWelcome;
\* loss: where a thread is in signalRecoverableLoss.  Nobody looks at what is
\* reported of another session than the current one: it is left out.
Report == [connected : BOOLEAN, greeting : BOOLEAN, signaled : BOOLEAN,
           loss : {"none", "halted", "telling"}]

Quiet == [connected |-> FALSE, greeting |-> FALSE, signaled |-> FALSE, loss |-> "none"]

TypeOK ==
    /\ sessionId \in {None} \cup Id
    /\ handle \in {None} \cup Id
    /\ {running, inFlight, reconnecting, crashed} \subseteq BOOLEAN
    /\ pc \in [Thread -> ThreadPc] /\ target \in [Thread -> {None} \cup Id]
    /\ fatal \in [Id -> {"none", "stop", "join", "clear"}]
    /\ registered \subseteq Id /\ bad \subseteq Id /\ forgotten \subseteq Id
    /\ Cardinality(registered) <= Slots
    /\ link \in [Id -> {"none", "down", "dialled", "ready"}]
    /\ events \in Report

Init ==
    /\ sessionId = None /\ running = FALSE /\ inFlight = FALSE
    /\ handle = None /\ reconnecting = FALSE
    /\ pc = [t \in Thread |-> IF t = Ui THEN "idle" ELSE "none"]
    /\ target = [t \in Thread |-> None]
    /\ fatal = [s \in Id |-> "none"]
    /\ registered = {} /\ bad = {} /\ link = [s \in Id |-> "none"]
    /\ events = Quiet
    /\ forgotten = {} /\ crashed = FALSE

At(t, from)   == ~crashed /\ pc[t] = from
Goes(t, to)   == pc' = [pc EXCEPT ![t] = to]
Returns(t)    == IF t = Ui THEN "idle" ELSE "sleep"
IsConnected   == sessionId \in registered /\ link[sessionId] = "ready"
TransportUp   == sessionId \in registered /\ events.connected

-----------------------------------------------------------------------------
(* Disconnect and Connect, on the UI thread.                               *)

\* Bound: Connect is called while an id is left, or to find the table full.
DisconnectCalled(again) ==
    /\ At(Ui, "idle")
    /\ again => \/ \E s \in Id : link[s] = "none"
                \/ sessionId = None /\ Cardinality(registered) = Slots
    /\ reconnecting' = again
    /\ Goes(Ui, "stop")
    /\ UNCHANGED <<sessionId, running, inFlight, handle, target, fatal, core,
                   forgotten, crashed>>

\* StopReconnectLoop: only the caller that lowers the flag joins the thread.
StopJoins == running /\ handle # None

DisconnectStops ==
    /\ At(Ui, "stop")
    /\ running' = FALSE
    /\ Goes(Ui, IF StopJoins THEN "join" ELSE "release")
    /\ UNCHANGED <<sessionId, inFlight, handle, reconnecting, target, fatal,
                   core, forgotten, crashed>>

Joined(t, to) ==
    /\ pc[handle] = "ended"
    /\ handle' = None
    /\ Goes(t, to)

DisconnectJoins ==
    /\ At(Ui, "join")
    /\ Joined(Ui, "release")
    /\ UNCHANGED <<sessionId, running, inFlight, reconnecting, target, fatal,
                   core, forgotten, crashed>>

\* haltAndRelease: it makes a connect under way give up, and takes the session
\* once that connect has let go of sessionOpMu.
AfterRelease == IF reconnecting THEN "prepare" ELSE "idle"

\* Mutant of DisconnectReleases: Disconnect leaves a session that is not ready
\* alone, as if only a live session had something to release.
ReleasesOnlyReady ==
    /\ At(Ui, "release")
    /\ \A t \in Thread : pc[t] \in {"halt", "dial", "await"} => target[t] # sessionId
    /\ registered' = IF IsConnected THEN registered \ {sessionId} ELSE registered
    /\ link' = [s \in Id |-> IF s = sessionId THEN "down" ELSE link[s]]
    /\ sessionId' = None /\ events' = Quiet
    /\ Goes(Ui, AfterRelease)
    /\ UNCHANGED <<running, inFlight, handle, reconnecting, target, fatal, bad,
                   forgotten, crashed>>

DisconnectReleases ==
    /\ At(Ui, "release")
    /\ \A t \in Thread : pc[t] \in {"halt", "dial", "await"} => target[t] # sessionId
    /\ registered' = registered \ {sessionId}
    /\ link' = [s \in Id |-> IF s = sessionId THEN "down" ELSE link[s]]
    /\ sessionId' = None /\ events' = Quiet
    /\ Goes(Ui, AfterRelease)
    /\ UNCHANGED <<running, inFlight, handle, reconnecting, target, fatal, bad,
                   forgotten, crashed>>

\* prepareConnection gives the next id, unless the table is full.
Prepare(s, rejected) ==
    /\ At(Ui, "prepare")
    /\ link[s] = "none" /\ \A r \in 1..(s - 1) : link[r] # "none"
    /\ Cardinality(registered) < Slots
    /\ registered' = registered \cup {s}
    /\ link' = [link EXCEPT ![s] = "down"]
    /\ bad' = IF rejected THEN bad \cup {s} ELSE bad
    /\ sessionId' = s /\ events' = Quiet
    /\ Goes(Ui, "start")
    /\ UNCHANGED <<running, inFlight, handle, reconnecting, target, fatal,
                   forgotten, crashed>>

TableFull ==
    /\ At(Ui, "prepare")
    /\ Cardinality(registered) = Slots
    /\ Goes(Ui, "idle")
    /\ UNCHANGED <<client, target, fatal, core, forgotten, crashed>>

\* StartReconnectLoop assigns reconnectThread_; assigning over a joinable
\* std::thread terminates the program.
StartLoop ==
    /\ At(Ui, "start")
    /\ LET t == CHOOSE s \in Id : /\ link[s] # "none"
                                 /\ \A r \in Id : r > s => link[r] = "none"
       IN IF running
          THEN Goes(Ui, "enter") /\ UNCHANGED <<running, handle, crashed>>
          ELSE /\ running' = TRUE
               /\ crashed' = (handle # None)
               /\ handle' = t
               /\ pc' = [pc EXCEPT ![Ui] = "enter", ![t] = "top"]
    /\ UNCHANGED <<sessionId, inFlight, reconnecting, target, fatal, core,
                   forgotten>>

-----------------------------------------------------------------------------
(* The reconnect loop.                                                     *)

LoopLooks(t) ==
    /\ At(t, "top")
    /\ Goes(t, CASE ~running -> "ended"
                 [] running /\ (sessionId = None \/ IsConnected \/ TransportUp \/ inFlight)
                        -> "top"
                 [] OTHER -> "enter")
    /\ UNCHANGED <<client, target, fatal, core, forgotten, crashed>>

LoopWakes(t) ==
    /\ At(t, "sleep")
    /\ Goes(t, "top")
    /\ UNCHANGED <<client, target, fatal, core, forgotten, crashed>>

-----------------------------------------------------------------------------
(* TryReconnect, on the UI thread and on the loop, and manager.connect.    *)

TryEnter(t) ==
    /\ At(t, "enter")
    /\ IF sessionId = None \/ inFlight
       THEN Goes(t, Returns(t)) /\ UNCHANGED inFlight
       ELSE Goes(t, "check") /\ inFlight' = TRUE
    /\ UNCHANGED <<sessionId, running, handle, reconnecting, target, fatal, core,
                   forgotten, crashed>>

\* ConnectGuard lowers connectInFlight_ on every return.
Leaves(t) ==
    /\ Goes(t, Returns(t))
    /\ inFlight' = FALSE
    /\ target' = [target EXCEPT ![t] = None]

\* Mutant of TryChecks: a connect that finds the session ready returns without
\* its guard, and the flag stays up.
TryChecksUnguarded(t) ==
    /\ At(t, "check")
    /\ IF sessionId \notin registered \/ IsConnected
       THEN Goes(t, Returns(t)) /\ UNCHANGED <<target, inFlight>>
       ELSE /\ Goes(t, "halt")
            /\ target' = [target EXCEPT ![t] = sessionId]
            /\ UNCHANGED inFlight
    /\ UNCHANGED <<sessionId, running, handle, reconnecting, fatal, core,
                   forgotten, crashed>>

TryChecks(t) ==
    /\ At(t, "check")
    /\ IF sessionId \notin registered \/ IsConnected
       THEN Leaves(t)
       ELSE /\ Goes(t, "halt")
            /\ target' = [target EXCEPT ![t] = sessionId]
            /\ UNCHANGED inFlight
    /\ UNCHANGED <<sessionId, running, handle, reconnecting, fatal, core,
                   forgotten, crashed>>

\* connect found the session not ready, and halts its transport even if the
\* welcome has come since.
TryHalts(t) ==
    /\ At(t, "halt")
    /\ link' = [link EXCEPT ![target[t]] = "down"]
    /\ Goes(t, "dial")
    /\ UNCHANGED <<client, target, fatal, registered, bad, events, forgotten, crashed>>

\* reconnectTeardown takes back what the events said.  It does not wait for the
\* threads of the attempt before, which may be on the point of an event.
Reports(s, r) == events' = IF s = sessionId THEN r ELSE events

Forgives(s) == Reports(s, [events EXCEPT !.connected = FALSE, !.signaled = FALSE])

DialSucceeds(t) ==
    /\ At(t, "dial") /\ target[t] \notin bad
    /\ link' = [link EXCEPT ![target[t]] = "dialled"]
    /\ Forgives(target[t])
    /\ Goes(t, "await")
    /\ UNCHANGED <<client, target, fatal, registered, bad, forgotten, crashed>>

DialFails(t) ==
    /\ At(t, "dial") /\ target[t] \notin bad
    /\ Forgives(target[t])
    /\ Leaves(t)
    /\ UNCHANGED <<sessionId, running, handle, reconnecting, fatal, registered,
                   bad, link, forgotten, crashed>>

\* The welcome has come, the transport has gone, or 2.5 s have passed.
AwaitReturns(t) ==
    /\ At(t, "await")
    /\ Leaves(t)
    /\ UNCHANGED <<sessionId, running, handle, reconnecting, fatal, core,
                   forgotten, crashed>>

\* InvalidArg or Unsupported: connect emits ConnectionFailed on its own thread.
\* StopReconnectLoop then joins the loop; on the loop itself the join throws.
DialRejected(t) ==
    /\ At(t, "dial") /\ target[t] \in bad
    /\ running' = FALSE
    /\ crashed' = (StopJoins /\ handle = t)
    /\ Goes(t, IF StopJoins THEN "rejectJoin" ELSE "rejectClear")
    /\ UNCHANGED <<sessionId, inFlight, handle, reconnecting, target, fatal,
                   core, forgotten>>

RejectJoins(t) ==
    /\ At(t, "rejectJoin")
    /\ Joined(t, "rejectClear")
    /\ UNCHANGED <<sessionId, running, inFlight, reconnecting, target, fatal,
                   core, forgotten, crashed>>

\* clearManagedSession.  The manager's releaseSession then waits in vain for
\* the sessionOpMu this connect holds: the session stays registered.
Forgets == /\ forgotten' = forgotten \cup ({sessionId} \ {None})
           /\ sessionId' = None /\ events' = Quiet

RejectClears(t) ==
    /\ At(t, "rejectClear")
    /\ Forgets
    /\ Leaves(t)
    /\ UNCHANGED <<running, handle, reconnecting, fatal, registered, bad, link, crashed>>

-----------------------------------------------------------------------------
(* The threads of a session and their events.  Bounds: of the current one,  *)
(* one welcome and one loss are being reported at a time.                   *)

\* handleWelcome: the session is ready, Connected is emitted at the end.
Welcome(s) ==
    /\ ~crashed /\ s \in registered /\ link[s] = "dialled"
    /\ s = sessionId => ~events.greeting
    /\ link' = [link EXCEPT ![s] = "ready"]
    /\ Reports(s, [events EXCEPT !.greeting = TRUE])
    /\ UNCHANGED <<client, pc, target, fatal, registered, bad, forgotten, crashed>>

ReportOnly == UNCHANGED <<client, pc, target, fatal, registered, bad, link,
                          forgotten, crashed>>

\* The Connected event, whatever became of the link since.
Greets ==
    /\ ~crashed /\ events.greeting
    /\ events' = [events EXCEPT !.greeting = FALSE, !.connected = TRUE]
    /\ ReportOnly

\* signalRecoverableLoss, on the UDP, the keepalive or the WebSocket thread.
Lost(s) ==
    /\ ~crashed /\ s \in registered /\ link[s] \in {"dialled", "ready"}
    /\ s = sessionId => events.loss = "none"
    /\ link' = [link EXCEPT ![s] = "down"]
    /\ Reports(s, [events EXCEPT !.loss = "halted"])
    /\ UNCHANGED <<client, pc, target, fatal, registered, bad, forgotten, crashed>>

\* Of several losses one is told, whichever exchanges the flag first.
LossSignals ==
    /\ ~crashed /\ events.loss = "halted"
    /\ events' = [events EXCEPT !.signaled = TRUE,
                     !.loss = IF events.signaled THEN "none" ELSE "telling"]
    /\ ReportOnly

\* ConnectionLost is not fatal: the client only shows a status.
LossTold ==
    /\ ~crashed /\ events.loss = "telling"
    /\ events' = [events EXCEPT !.loss = "none", !.connected = FALSE]
    /\ ReportOnly

\* A server message of another protocol version, on the WebSocket thread.  The
\* callback was copied before it runs: the event reaches the client whatever
\* happens meanwhile.
ProtocolError(s) ==
    /\ ~crashed /\ s \in registered /\ link[s] \in {"dialled", "ready"}
    /\ fatal[s] = "none" /\ (s = sessionId => ~events.greeting)
    /\ link' = [link EXCEPT ![s] = "down"]
    /\ Reports(s, [events EXCEPT !.connected = FALSE])
    /\ fatal' = [fatal EXCEPT ![s] = "stop"]
    /\ UNCHANGED <<client, pc, target, registered, bad, forgotten, crashed>>

FatalStops(s) ==
    /\ ~crashed /\ fatal[s] = "stop"
    /\ running' = FALSE
    /\ fatal' = [fatal EXCEPT ![s] = IF StopJoins THEN "join" ELSE "clear"]
    /\ UNCHANGED <<sessionId, inFlight, handle, reconnecting, pc, target, core,
                   forgotten, crashed>>

FatalJoins(s) ==
    /\ ~crashed /\ fatal[s] = "join" /\ pc[handle] = "ended"
    /\ handle' = None
    /\ fatal' = [fatal EXCEPT ![s] = "clear"]
    /\ UNCHANGED <<sessionId, running, inFlight, reconnecting, pc, target, core,
                   forgotten, crashed>>

\* Events carry no session id: whatever session is current is forgotten.
FatalClears(s) ==
    /\ ~crashed /\ fatal[s] = "clear"
    /\ Forgets
    /\ fatal' = [fatal EXCEPT ![s] = "none"]
    /\ UNCHANGED <<running, inFlight, handle, reconnecting, pc, target, registered,
                   bad, link, crashed>>

-----------------------------------------------------------------------------
UiSteps ==
    \/ DisconnectStops \/ DisconnectJoins \/ DisconnectReleases \/ TableFull
    \/ StartLoop \/ \E s \in Id, rejected \in BOOLEAN : Prepare(s, rejected)

TrySteps(t) ==
    \/ TryEnter(t) \/ TryChecks(t) \/ TryHalts(t) \/ DialSucceeds(t)
    \/ DialFails(t) \/ AwaitReturns(t) \/ DialRejected(t) \/ RejectJoins(t) \/ RejectClears(t)

LoopSteps(t) == LoopLooks(t) \/ LoopWakes(t)

ReportSteps == Greets \/ LossSignals \/ LossTold

FatalSteps(s) == FatalStops(s) \/ FatalJoins(s) \/ FatalClears(s)

Next ==
    \/ \E again \in BOOLEAN : DisconnectCalled(again)
    \/ UiSteps
    \/ \E t \in Thread : TrySteps(t)
    \/ \E t \in Id : LoopSteps(t)
    \/ \E s \in Id : Welcome(s) \/ Lost(s) \/ ProtocolError(s) \/ FatalSteps(s)
    \/ ReportSteps

Spec == Init /\ [][Next]_vars

\* Threads are scheduled; a server that can be reached again and again is
\* reached at last, and so is its welcome.
Fairness ==
    /\ WF_vars(UiSteps \/ TrySteps(Ui))
    /\ \A t \in Id : WF_vars(LoopSteps(t) \/ TrySteps(t))
    /\ \A s \in Id : WF_vars(FatalSteps(s))
    /\ WF_vars(Greets) /\ WF_vars(LossSignals \/ LossTold)
    /\ SF_vars(\E t \in Thread : DialSucceeds(t))
    /\ SF_vars(\E s \in Id : Welcome(s))

FairSpec == Spec /\ Fairness

\* The client never drops a live session: each one SessionManager still holds
\* is the current one, unless a fatal event made the client forget it.  Lost
\* connections, loops that wake late and quick Disconnect-Connect pairs all
\* release what they replace (RelayClient.cpp:135-166, 246-258).  The types of
\* the client's state, and the size of the table, are part of it.
OnlyFatalEventsForget == TypeOK /\ registered \subseteq {sessionId} \cup forgotten

=============================================================================
