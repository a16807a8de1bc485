-------------------------- MODULE SessionLifecycle --------------------------
(***************************************************************************)
(* The life of one managed session of owalkie-core: SessionManager's       *)
(* connect, disconnect, haltAndRelease and cleanup threads, and the        *)
(* transport flags, worker threads and teardown thread of Session::Impl.   *)
(*                                                                         *)
(* Three worker kinds serve a connection: wsIoLoop, udpReadLoop and        *)
(* keepaliveLoop.  The last two behave alike here, so IoWorker is a set.   *)
(* worker[a][w] is the thread of kind w that connect attempt a started,    *)
(* handle[w] the attempt whose thread the std::thread member still holds   *)
(* (0: not joinable).  A detached thread runs on with handle[w] # a.       *)
(***************************************************************************)
EXTENDS Naturals

CONSTANTS
    Ws,          \* the WebSocket worker, wsThread
    IoWorker,    \* the UDP and keepalive workers
    App,         \* a caller of disconnect/haltAndRelease on a thread of its own
    Callback,    \* the same calls made from an event callback on the ws thread
    MaxAttempt   \* bound: connect attempts that reach connectInternal

ASSUME LifecycleAssumption ==
    /\ MaxAttempt \in Nat \ {0}
    /\ Ws \notin IoWorker
    /\ App # Callback

Worker  == {Ws} \cup IoWorker
Closer  == {App, Callback}
Attempt == 1..MaxAttempt

VARIABLES
    mgr,      \* ManagedSession: registered, userIntent, sessionOpMu, params
    ses,      \* the atomics of Session::Impl, the stream and the callbacks
    worker,   \* worker[a][w]: where that thread is
    handle,   \* handle[w]: the attempt whose thread is joinable
    conn,     \* the thread in SessionManager::connect
    closer,   \* closer[c]: the threads in disconnect or haltAndRelease
    td,       \* teardownThread_
    cleanup,  \* the cleanup thread, then ~Session
    heard     \* Disconnected events the application's callback received

vars == <<mgr, ses, worker, handle, conn, closer, td, cleanup, heard>>

WorkerPc  == {"none", "run", "loss", "callback", "finalize", "ended"}
ConnPc    == {"idle", "lock", "wait", "clean", "hook", "begin", "resolve", "tcp",
              "handshake", "up", "welcome", "failed"}
Dialling  == {"resolve", "tcp", "handshake"}
CloserPc  == {"idle", "take", "try", "taken"}
CleanupPc == {"none", "wait", "destroy", "last", "gone"}

TypeOK ==
    /\ mgr \in [registered : BOOLEAN, userIntent : BOOLEAN,
                opMu : {"free", "conn"} \cup Closer, badParams : BOOLEAN]
    /\ ses \in [stopRequested : BOOLEAN, connected : BOOLEAN, welcome : BOOLEAN,
                disconnectStarted : BOOLEAN, disconnectEventEmitted : BOOLEAN,
                transportFullyStopped : BOOLEAN, wsCompletesTeardown : BOOLEAN,
                lostSignaled : BOOLEAN, wsStream : BOOLEAN, callbacks : BOOLEAN]
    /\ worker \in [Attempt -> [Worker -> WorkerPc]]
    /\ \A a \in Attempt, w \in IoWorker : worker[a][w] # "finalize"
    /\ handle \in [Worker -> 0..MaxAttempt]
    /\ conn \in [pc : ConnPc, attempt : 0..MaxAttempt]
    /\ closer \in [Closer -> [pc : CloserPc, halt : BOOLEAN, on : 0..MaxAttempt]]
    /\ td \in {"none", "run", "ended"}
    /\ cleanup \in CleanupPc
    /\ heard \in 0..2

Init ==
    /\ \E bad \in BOOLEAN :
         mgr = [registered |-> TRUE, userIntent |-> TRUE, opMu |-> "free",
                badParams |-> bad]
    /\ ses = [stopRequested |-> FALSE, connected |-> FALSE, welcome |-> FALSE,
              disconnectStarted |-> FALSE, disconnectEventEmitted |-> FALSE,
              transportFullyStopped |-> TRUE, wsCompletesTeardown |-> FALSE,
              lostSignaled |-> FALSE, wsStream |-> FALSE, callbacks |-> TRUE]
    /\ worker = [a \in Attempt |-> [w \in Worker |-> "none"]]
    /\ handle = [w \in Worker |-> 0]
    /\ conn = [pc |-> "idle", attempt |-> 0]
    /\ closer = [c \in Closer |-> [pc |-> "idle", halt |-> FALSE, on |-> 0]]
    /\ td = "none"
    /\ cleanup = "none"
    /\ heard = 0

-----------------------------------------------------------------------------
(* What the helpers of Session::Impl leave behind.                          *)

isSessionReady == ses.connected /\ ses.welcome

\* cancelOngoingConnect: stop the dial loops and close the sockets.
Cancelled(s) == [s EXCEPT !.stopRequested = TRUE]

\* Mutant of Halted: connected stays set.
HaltedStillConnected(s) == Cancelled(s)

\* haltTransportInternal.
Halted(s) == [Cancelled(s) EXCEPT !.connected = FALSE]

\* releaseWsStream, for use only once wsIoLoop has exited.
StreamReleased(s) == [s EXCEPT !.wsStream = FALSE]

\* clearTransportState: TX pipeline, stream and UDP socket are dropped.
Cleared(s) == [StreamReleased(s) EXCEPT !.connected = FALSE]

\* The transport is down for good: what a completed wait records.
Stopped(s) == [s EXCEPT !.transportFullyStopped = TRUE]

\* emitDisconnectedOnce: the flag, and whether the application hears it.
DisconnectedEmitted(s) == [s EXCEPT !.disconnectEventEmitted = TRUE]
\* Mutant of hears: without the exchange.
hearsAgain(s) == IF s.callbacks THEN 1 ELSE 0
hears(s) == IF s.callbacks /\ ~s.disconnectEventEmitted THEN 1 ELSE 0

\* A join on the handle of w returns: nothing joinable, or the thread ended.
joins(w) == handle[w] # 0 => worker[handle[w]][w] = "ended"

alive(a, w) == worker[a][w] \notin {"none", "ended"}

\* finalizeTransportTeardown after its joins.
Finalized(s) ==
    Stopped(DisconnectedEmitted([Cleared(s) EXCEPT !.welcome = FALSE]))

-----------------------------------------------------------------------------
(* SessionManager::connect, one thread.                                     *)

connGoes(pc) == conn' = [conn EXCEPT !.pc = pc]

connReturns == connGoes("idle") /\ mgr' = [mgr EXCEPT !.opMu = "free"]

\* Look the session up; a ready or abandoned session returns at once.
ConnectLookup ==
    /\ conn.pc = "idle"
    /\ conn.attempt < MaxAttempt
    /\ mgr.registered /\ mgr.userIntent /\ ~isSessionReady
    /\ connGoes("lock")
    /\ UNCHANGED <<mgr, ses, worker, handle, closer, td, cleanup, heard>>

\* Take sessionOpMu, check again, cancel what is under way and halt.
ConnectLock ==
    /\ conn.pc = "lock"
    /\ mgr.opMu = "free"
    /\ \/ /\ ~mgr.userIntent \/ isSessionReady
          /\ connGoes("idle")
          /\ UNCHANGED <<mgr, ses>>
       \/ /\ mgr.userIntent /\ ~isSessionReady
          /\ connGoes("wait")
          /\ mgr' = [mgr EXCEPT !.opMu = "conn"]
          /\ ses' = Halted(ses)
    /\ UNCHANGED <<worker, handle, closer, td, cleanup, heard>>

\* The wait's normal end: the transport already stopped, join what is left.
WaitedForStop ==
    /\ ses.transportFullyStopped
    /\ \A w \in Worker : joins(w)
    /\ handle' = [w \in Worker |-> 0]
    /\ UNCHANGED ses

\* Mutant of WaitPastDeadline: the threads stay joinable.
WaitPastDeadlineAttached ==
    /\ ~ses.transportFullyStopped
    /\ ses' = Stopped(Cleared(Halted(ses)))
    /\ UNCHANGED handle

\* Its deadline: detach the workers, whatever they are doing, and clear the
\* transport.  Nothing but a teardown sets transportFullyStopped, so the wait
\* after a lost connection always ends here.
WaitPastDeadline ==
    /\ ~ses.transportFullyStopped
    /\ handle' = [w \in Worker |-> 0]
    /\ ses' = Stopped(Cleared(Halted(ses)))

\* waitUntilTransportStopped(kConnectTransportWaitMs) of connect.
ConnectWait ==
    /\ conn.pc = "wait"
    /\ WaitedForStop \/ WaitPastDeadline
    /\ connGoes("clean")
    /\ UNCHANGED <<mgr, worker, closer, td, cleanup, heard>>

\* reconnectTeardown and clearConnectionLostSignaled.
Recycled(s) ==
    [Cleared(s) EXCEPT !.lostSignaled = FALSE, !.disconnectStarted = FALSE,
                       !.disconnectEventEmitted = FALSE, !.stopRequested = FALSE,
                       !.wsCompletesTeardown = FALSE, !.welcome = FALSE]

ConnectTeardown ==
    /\ conn.pc = "clean"
    /\ \/ ~mgr.userIntent /\ connReturns /\ UNCHANGED ses
       \/ mgr.userIntent /\ connGoes("hook") /\ ses' = Recycled(ses) /\ UNCHANGED mgr
    /\ UNCHANGED <<worker, handle, closer, td, cleanup, heard>>

\* The intent checks on either side of the platform's preConnectHook.
ConnectHook ==
    /\ conn.pc = "hook"
    /\ \/ ~mgr.userIntent /\ connReturns
       \/ mgr.userIntent /\ connGoes("begin") /\ UNCHANGED mgr
    /\ UNCHANGED <<ses, worker, handle, closer, td, cleanup, heard>>

\* connectInternal up to the dial: bad parameters are refused before any flag
\* but stopRequested is touched, good ones reset the flags of the transport.
ConnectBegin ==
    /\ conn.pc = "begin"
    /\ \/ /\ mgr.badParams
          /\ conn' = [pc |-> "failed", attempt |-> conn.attempt + 1]
          /\ ses' = [ses EXCEPT !.stopRequested = FALSE]
       \/ /\ ~mgr.badParams
          /\ conn' = [pc |-> "resolve", attempt |-> conn.attempt + 1]
          /\ ses' = [ses EXCEPT !.stopRequested = FALSE, !.wsCompletesTeardown = FALSE,
                                !.disconnectEventEmitted = FALSE,
                                !.disconnectStarted = FALSE,
                                !.transportFullyStopped = FALSE, !.welcome = FALSE]
    /\ UNCHANGED <<mgr, worker, handle, closer, td, cleanup, heard>>

\* Every stage of the dial runs the io_context in slices until its operation
\* completes, and looks at stopRequested last, whatever the outcome.
StageDone(stage, next) ==
    /\ conn.pc = stage
    /\ ~ses.stopRequested
    /\ connGoes(next)

\* resolveWithTimeout; a stream still there is given up, its threads joined.
Resolved ==
    /\ StageDone("resolve", "tcp")
    /\ IF ses.wsStream
       THEN (\A w \in Worker : joins(w)) /\ handle' = [w \in Worker |-> 0]
       ELSE UNCHANGED handle
    /\ ses' = [ses EXCEPT !.wsStream = TRUE]
    /\ UNCHANGED <<mgr, worker, closer, td, cleanup, heard>>

\* connectTcpWithTimeout.
TcpConnected ==
    /\ StageDone("tcp", "handshake")
    /\ UNCHANGED <<mgr, ses, worker, handle, closer, td, cleanup, heard>>

\* handshakeWithTimeout.
HandshakeDone ==
    /\ StageDone("handshake", "up")
    /\ UNCHANGED <<mgr, ses, worker, handle, closer, td, cleanup, heard>>

\* A stage that timed out, was refused or was cancelled: closeSockets, which
\* finds nothing new to close, and joinThreads, which clears.
DialFails ==
    /\ conn.pc \in Dialling
    /\ \A w \in Worker : joins(w)
    /\ handle' = [w \in Worker |-> 0]
    /\ ses' = Cleared(ses)
    /\ connReturns
    /\ UNCHANGED <<worker, closer, td, cleanup, heard>>

\* connected is set and the three threads are started.
StartWorkers ==
    /\ conn.pc = "up"
    /\ ses' = [ses EXCEPT !.connected = TRUE, !.lostSignaled = FALSE]
    /\ worker' = [worker EXCEPT ![conn.attempt] = [w \in Worker |-> "run"]]
    /\ handle' = [w \in Worker |-> conn.attempt]
    /\ connGoes("welcome")
    /\ UNCHANGED <<mgr, closer, td, cleanup, heard>>

\* connect waits up to 2.5 s for Welcome and returns with or without it.
ConnectReturns ==
    /\ conn.pc = "welcome"
    /\ connReturns
    /\ UNCHANGED <<ses, worker, handle, closer, td, cleanup, heard>>

\* Refused parameters: connect calls releaseSession while it holds the
\* session's own mutex, which can only cancel until kTeardownWaitMs is over.
ReleaseFromConnect ==
    /\ conn.pc = "failed"
    /\ \/ /\ mgr.userIntent
          /\ mgr' = [mgr EXCEPT !.userIntent = FALSE]
          /\ ses' = Cancelled(ses)
          /\ UNCHANGED conn
       \/ /\ ~mgr.userIntent
          /\ connReturns
          /\ UNCHANGED ses
    /\ UNCHANGED <<worker, handle, closer, td, cleanup, heard>>

-----------------------------------------------------------------------------
(* The workers.                                                             *)

workerGoes(a, w, pc) == worker' = [worker EXCEPT ![a][w] = pc]

\* The loop condition fails; the ws thread picks a deferred teardown up.
WorkerEnds(a, w) ==
    /\ worker[a][w] = "run"
    /\ ses.stopRequested \/ ~ses.connected
    /\ \/ /\ w = Ws /\ ses.wsCompletesTeardown
          /\ workerGoes(a, w, "finalize")
          /\ ses' = [ses EXCEPT !.wsCompletesTeardown = FALSE]
       \/ /\ ~(w = Ws /\ ses.wsCompletesTeardown)
          /\ workerGoes(a, w, "ended")
          /\ UNCHANGED ses
    /\ UNCHANGED <<mgr, handle, conn, closer, td, cleanup, heard>>

\* finishDisconnectFromWsThread: join the others, clear, tell, mark stopped.
WsFinalizes(a) ==
    /\ worker[a][Ws] = "finalize"
    /\ \A w \in Worker : joins(w) \/ (w = Ws /\ handle[w] = a)
    /\ handle' = [w \in Worker |-> IF w = Ws /\ handle[w] = a THEN a ELSE 0]
    /\ ses' = Finalized(ses)
    /\ heard' = heard + hears(ses)
    /\ workerGoes(a, Ws, "ended")
    /\ UNCHANGED <<mgr, conn, closer, td, cleanup>>

\* Welcome, a server message or received audio: a callback into the client.
WorkerDelivers(a, w) ==
    /\ worker[a][w] = "run"
    /\ ses.connected /\ ~ses.stopRequested
    /\ \/ w = Ws /\ ~ses.welcome /\ ses' = [ses EXCEPT !.welcome = TRUE]
       \/ ses.welcome /\ UNCHANGED ses
       \/ w = Ws /\ ses' = [ses EXCEPT !.connected = FALSE]  \* protocol mismatch
    /\ workerGoes(a, w, "callback")
    /\ UNCHANGED <<mgr, handle, conn, closer, td, cleanup, heard>>

\* The client's callback returns, after any close it makes itself.
CallbackReturns(a, w) ==
    /\ worker[a][w] = "callback"
    /\ ~(w = Ws /\ closer[Callback].pc # "idle" /\ closer[Callback].on = a)
    /\ workerGoes(a, w, "run")
    /\ UNCHANGED <<mgr, ses, handle, conn, closer, td, cleanup, heard>>

\* A UDP error, or no keepalive answer: the thread looks at stopRequested ...
LossDetected(a, w) ==
    /\ w \in IoWorker
    /\ worker[a][w] = "run"
    /\ ses.connected /\ ~ses.stopRequested
    /\ workerGoes(a, w, "loss")
    /\ UNCHANGED <<mgr, ses, handle, conn, closer, td, cleanup, heard>>

\* The read or the write under way on the ws thread fails: connected falls
\* first, whichever connection it stands for by now.
WsIoFails(a, next) ==
    /\ worker[a][Ws] = "run"
    /\ ~ses.stopRequested
    /\ ses' = [ses EXCEPT !.connected = FALSE]
    /\ workerGoes(a, Ws, next)
    /\ UNCHANGED <<mgr, handle, conn, closer, td, cleanup, heard>>

ReadFails(a) == WsIoFails(a, "loss")

\* A write that was aborted, as a detached thread's is once its sockets were
\* closed, is not reported; any other is.
WriteFails(a) == WsIoFails(a, IF handle[Ws] = a THEN "loss" ELSE "run")

\* ... and signalRecoverableLoss acts, however late: it halts the transport
\* of the day and the first to set the latch tells the client.
LossSignalled(a, w) ==
    /\ worker[a][w] = "loss"
    /\ \/ /\ ses.disconnectStarted
          /\ workerGoes(a, w, "run")
          /\ UNCHANGED ses
       \/ /\ ~ses.disconnectStarted
          /\ ses' = [Halted(ses) EXCEPT !.welcome = FALSE, !.lostSignaled = TRUE]
          /\ workerGoes(a, w, IF ses.lostSignaled THEN "run" ELSE "callback")
    /\ UNCHANGED <<mgr, handle, conn, closer, td, cleanup, heard>>

-----------------------------------------------------------------------------
(* disconnect and haltAndRelease.                                           *)

closerGoes(c, pc) == closer' = [closer EXCEPT ![c].pc = pc]

\* A call, from an application thread or from inside a ws callback.
CloseCalled(c, halt, a) ==
    /\ closer[c].pc = "idle"
    /\ mgr.registered
    /\ c = Callback => worker[a][Ws] = "callback"
    /\ closer' = [closer EXCEPT ![c] = [pc |-> "take", halt |-> halt, on |-> a]]
    /\ UNCHANGED <<mgr, ses, worker, handle, conn, td, cleanup, heard>>

\* Mutant of CloseSignals: the dial is cancelled, the intent left standing.
CloseSignalsStop(c) ==
    /\ closer[c].pc = "take"
    /\ \/ mgr.registered /\ ses' = Cancelled(ses) /\ closerGoes(c, "try")
       \/ ~mgr.registered /\ closerGoes(c, "idle") /\ UNCHANGED ses
    /\ UNCHANGED <<mgr, worker, handle, conn, td, cleanup, heard>>

\* takeSessionForTeardown: look up; signalUserDisconnect every round.
CloseSignals(c) ==
    /\ closer[c].pc = "take"
    /\ \/ /\ mgr.registered
          /\ mgr' = [mgr EXCEPT !.userIntent = FALSE]
          /\ ses' = Cancelled(ses)
          /\ closerGoes(c, "try")
       \/ ~mgr.registered /\ closerGoes(c, "idle") /\ UNCHANGED <<mgr, ses>>
    /\ UNCHANGED <<worker, handle, conn, td, cleanup, heard>>

\* try_lock: unregister and own the session, or sleep and go round again.
\* Only a connect stuck in its own releaseSession outlasts the whole wait.
CloseTries(c) ==
    /\ closer[c].pc = "try"
    /\ \/ /\ mgr.opMu = "free" /\ mgr.registered
          /\ mgr' = [mgr EXCEPT !.registered = FALSE, !.opMu = c]
          /\ closerGoes(c, "taken")
       \/ mgr.opMu = "free" /\ ~mgr.registered /\ closerGoes(c, "idle") /\ UNCHANGED mgr
       \/ mgr.opMu # "free" /\ closerGoes(c, "take") /\ UNCHANGED mgr
       \/ conn.pc = "failed" /\ closerGoes(c, "idle") /\ UNCHANGED mgr
    /\ UNCHANGED <<ses, worker, handle, conn, td, cleanup, heard>>

\* disconnectInternal on the session s, called on the ws thread or not: the
\* first caller tells the client and hands the teardown to a thread.
DisconnectInternal(s, onWsThread) ==
    IF s.disconnectStarted
    THEN /\ ses' = Halted(s)
         /\ UNCHANGED <<td, heard>>
    ELSE /\ ses' = [DisconnectedEmitted(Halted(s)) EXCEPT
                      !.disconnectStarted = TRUE, !.transportFullyStopped = FALSE,
                      !.wsCompletesTeardown = onWsThread]
         /\ heard' = heard + hears(s)
         /\ td' = IF onWsThread THEN td ELSE "run"

\* The owner ends the session, gives sessionOpMu back and schedules the
\* cleanup thread.
CloseTaken(c) ==
    /\ closer[c].pc = "taken"
    /\ \/ /\ closer[c].halt
          /\ ses' = Halted([ses EXCEPT !.callbacks = FALSE])
          /\ UNCHANGED <<td, heard>>
       \/ /\ ~closer[c].halt
          /\ DisconnectInternal(ses, c = Callback /\ handle[Ws] = closer[c].on)
    /\ mgr' = [mgr EXCEPT !.opMu = "free"]
    /\ closerGoes(c, "idle")
    /\ cleanup' = "wait"
    /\ UNCHANGED <<worker, handle, conn>>

-----------------------------------------------------------------------------
(* The teardown thread, the cleanup thread and the destructor.              *)

\* finalizeTransportTeardown on teardownThread_.
TeardownFinalizes ==
    /\ td = "run"
    /\ \A w \in Worker : joins(w)
    /\ handle' = [w \in Worker |-> 0]
    /\ ses' = Finalized(ses)
    /\ heard' = heard + hears(ses)
    /\ td' = "ended"
    /\ UNCHANGED <<mgr, worker, conn, closer, cleanup>>

\* Mutants of CleanupWaits: it joins nobody; it polls for the flag although no
\* teardown thread will set it.
CleanupWaitsForNobody ==
    /\ cleanup = "wait"
    /\ td # "run"
    /\ ses' = Stopped(ses)
    /\ cleanup' = "destroy"
    /\ UNCHANGED <<mgr, worker, handle, conn, closer, td, heard>>

CleanupPolls ==
    /\ cleanup = "wait"
    /\ ses.transportFullyStopped
    /\ \A w \in Worker : joins(w)
    /\ handle' = [w \in Worker |-> 0]
    /\ cleanup' = "destroy"
    /\ UNCHANGED <<mgr, ses, worker, conn, closer, td, heard>>

\* waitUntilTransportStopped(-1): join the teardown thread if there is one,
\* else go straight to joining the workers.
CleanupWaits ==
    /\ cleanup = "wait"
    /\ td # "run"
    /\ \A w \in Worker : joins(w)
    /\ handle' = [w \in Worker |-> 0]
    /\ ses' = Stopped(ses)
    /\ cleanup' = "destroy"
    /\ UNCHANGED <<mgr, worker, conn, closer, td, heard>>

\* ~Session: disconnectInternal once more, on the cleanup thread ...
DestructorDisconnects ==
    /\ cleanup = "destroy"
    /\ DisconnectInternal(ses, FALSE)
    /\ cleanup' = "last"
    /\ UNCHANGED <<mgr, worker, handle, conn, closer>>

\* ... and its wait, after which the Impl is freed.
DestructorWaits ==
    /\ cleanup = "last"
    /\ td # "run"
    /\ \A w \in Worker : joins(w)
    /\ handle' = [w \in Worker |-> 0]
    /\ ses' = Stopped(ses)
    /\ cleanup' = "gone"
    /\ UNCHANGED <<mgr, worker, conn, closer, td, heard>>

-----------------------------------------------------------------------------

ConnectStep ==
    \/ ConnectLookup \/ ConnectLock \/ ConnectWait \/ ConnectTeardown
    \/ ConnectHook \/ ConnectBegin
    \/ Resolved \/ TcpConnected \/ HandshakeDone \/ DialFails
    \/ StartWorkers \/ ConnectReturns \/ ReleaseFromConnect

WorkerStep(a, w) ==
    \/ WorkerEnds(a, w) \/ WorkerDelivers(a, w) \/ CallbackReturns(a, w)
    \/ LossDetected(a, w) \/ LossSignalled(a, w)

CloseStep(c) == CloseSignals(c) \/ CloseTries(c) \/ CloseTaken(c)

CleanupStep ==
    TeardownFinalizes \/ CleanupWaits \/ DestructorDisconnects \/ DestructorWaits

Next ==
    \/ ConnectStep
    \/ \E a \in Attempt :
         \/ \E w \in Worker : WorkerStep(a, w)
         \/ WsFinalizes(a) \/ ReadFails(a) \/ WriteFails(a)
         \/ \E halt \in BOOLEAN : CloseCalled(Callback, halt, a)
    \/ \E halt \in BOOLEAN : CloseCalled(App, halt, 0)
    \/ \E c \in Closer : CloseStep(c)
    \/ CleanupStep

\* Threads that can run do run, dials end, and callbacks return.  Nobody has
\* to connect, to close, to lose the link or to receive anything.
Fairness ==
    /\ WF_vars(ConnectLock \/ ConnectWait \/ ConnectTeardown \/ ConnectHook)
    /\ WF_vars(ConnectBegin \/ DialFails \/ StartWorkers \/ ConnectReturns
               \/ ReleaseFromConnect)
    /\ \A a \in Attempt :
         /\ \A w \in Worker :
              WF_vars(WorkerEnds(a, w) \/ CallbackReturns(a, w) \/ LossSignalled(a, w))
         /\ WF_vars(WsFinalizes(a))
    /\ \A c \in Closer : WF_vars(CloseStep(c))
    /\ WF_vars(TeardownFinalizes)
    /\ WF_vars(CleanupWaits \/ DestructorDisconnects \/ DestructorWaits)

Spec == Init /\ [][Next]_vars

FairSpec == Spec /\ Fairness

=============================================================================
