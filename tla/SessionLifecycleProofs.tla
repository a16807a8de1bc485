----------------------- MODULE SessionLifecycleProofs -----------------------
(***************************************************************************)
(* Proofs about the life of a managed session, for any number of I/O       *)
(* workers and of connect attempts.                                        *)
(***************************************************************************)
EXTENDS MCSessionLifecycle, TLAPS

-----------------------------------------------------------------------------
(* The invariant.  What the properties say of the transport follows from    *)
(* who may touch it: connect only while it holds sessionOpMu of a session   *)
(* that is registered, the teardown only once it is not.                    *)

Preparing == {"clean", "hook", "begin"}
Undecided == {"lock", "wait"} \cup Preparing
Raising   == Dialling \cup {"up"}
Holding   == {"wait", "welcome", "failed"} \cup Preparing \cup Raising

\* connect works on a session that is still its own.
ConnectHolds == conn.pc \in Holding => mgr.opMu = "conn" /\ mgr.registered

\* Who unregisters the session has withdrawn the intent before.
IntentWithdrawn ==
    /\ ~mgr.registered => ~mgr.userIntent
    /\ \A c \in Closer :
         /\ closer[c].pc \in {"try", "taken"} => ~mgr.userIntent
         /\ closer[c].pc = "taken" => ~mgr.registered

\* Nothing of the end has begun as long as the session is registered.
EndsUnregistered ==
    mgr.registered =>
        /\ td = "none" /\ cleanup = "none" /\ heard = 0
        /\ ~ses.wsCompletesTeardown /\ ~ses.disconnectStarted
        /\ \A a \in Attempt : worker[a][Ws] # "finalize"

\* The transport is down while connect prepares it and after the end began.
DownMeanwhile ==
    \/ ses.disconnectStarted \/ cleanup # "none"
    \/ conn.pc \in {"wait", "failed"} \cup Preparing \cup Raising
    => ~ses.connected

ToldAtMostOnce == heard \in {0, 1} /\ (heard = 1 => ses.disconnectEventEmitted)

\* No thread is joinable while connect prepares, and none when cleanup waited.
NothingJoinable ==
    conn.pc \in Preparing \cup Raising \/ cleanup \in {"destroy", "last", "gone"}
    => \A w \in Worker : handle[w] = 0

AttemptsCounted ==
    /\ conn.pc \in Undecided => conn.attempt < MaxAttempt
    /\ conn.pc \in Raising => conn.attempt # 0
    /\ conn.pc \in {"tcp", "handshake", "up"} => ses.wsStream

Served ==
    ses.connected =>
        /\ ses.wsStream /\ conn.attempt # 0 /\ handle[Ws] = conn.attempt
        /\ ~ses.stopRequested => alive(conn.attempt, Ws)

LifeInv ==
    /\ TypeOK
    /\ ConnectHolds /\ IntentWithdrawn /\ EndsUnregistered /\ DownMeanwhile
    /\ ToldAtMostOnce /\ NothingJoinable /\ AttemptsCounted /\ Served

-----------------------------------------------------------------------------
(* Types.                                                                   *)

Mgr == [registered : BOOLEAN, userIntent : BOOLEAN,
        opMu : {"free", "conn"} \cup Closer, badParams : BOOLEAN]
Ses == [stopRequested : BOOLEAN, connected : BOOLEAN, welcome : BOOLEAN,
        disconnectStarted : BOOLEAN, disconnectEventEmitted : BOOLEAN,
        transportFullyStopped : BOOLEAN, wsCompletesTeardown : BOOLEAN,
        lostSignaled : BOOLEAN, wsStream : BOOLEAN, callbacks : BOOLEAN]
Threads == [Attempt -> [Worker -> WorkerPc]]
Conn == [pc : ConnPc, attempt : 0..MaxAttempt]
Closing == [pc : CloserPc, halt : BOOLEAN, on : 0..MaxAttempt]

NoneFinalizes == \A a \in Attempt, w \in IoWorker : worker[a][w] # "finalize"
ThreadsTyped == worker \in Threads /\ NoneFinalizes /\ handle \in [Worker -> 0..MaxAttempt]
StagesTyped == /\ conn \in Conn /\ closer \in [Closer -> Closing]
               /\ td \in {"none", "run", "ended"} /\ cleanup \in CleanupPc

LEMMA TypeParts ==
    /\ TypeOK <=> mgr \in Mgr /\ ses \in Ses /\ ThreadsTyped /\ StagesTyped /\ heard \in 0..2
    /\ TypeOK' <=> mgr' \in Mgr /\ ses' \in Ses /\ ThreadsTyped' /\ StagesTyped' /\ heard' \in 0..2
BY DEF TypeOK, Mgr, Ses, Threads, Conn, Closing, NoneFinalizes, ThreadsTyped, StagesTyped

\* What the helpers of Session::Impl make of its flags are such flags.
LEMMA FlagsTyped ==
    ASSUME NEW s \in Ses
    PROVE  /\ Cancelled(s) \in Ses /\ Halted(s) \in Ses /\ Cleared(s) \in Ses
           /\ Stopped(s) \in Ses /\ DisconnectedEmitted(s) \in Ses
           /\ Recycled(s) \in Ses /\ Finalized(s) \in Ses
<1>1. Cancelled(s) \in Ses
  BY DEF Ses, Cancelled
<1>2. Halted(s) \in Ses
  BY DEF Ses, Cancelled, Halted
<1>3. Cleared(s) \in Ses
  BY DEF Ses, StreamReleased, Cleared
<1>4. Stopped(s) \in Ses
  BY DEF Ses, Stopped
<1>5. DisconnectedEmitted(s) \in Ses
  BY DEF Ses, DisconnectedEmitted
<1>6. Recycled(s) \in Ses
  BY <1>3 DEF Ses, Recycled
<1>7. Finalized(s) \in Ses
  <2> DEFINE t == [Cleared(s) EXCEPT !.welcome = FALSE]
  <2>1. t \in Ses
    BY <1>3 DEF Ses
  <2> HIDE DEF t
  <2>2. Stopped(DisconnectedEmitted(t)) \in Ses
    BY <2>1 DEF Ses, Stopped, DisconnectedEmitted
  <2> QED
    BY <2>2 DEF Finalized, t
<1> QED
  BY <1>1, <1>2, <1>3, <1>4, <1>5, <1>6, <1>7

LEMMA DisconnectTyped ==
    ASSUME NEW onWsThread \in BOOLEAN, ses \in Ses, td \in {"none", "run", "ended"},
           DisconnectInternal(ses, onWsThread)
    PROVE  ses' \in Ses /\ td' \in {"none", "run", "ended"}
<1>1. DisconnectedEmitted(Halted(ses)) \in Ses /\ Halted(ses) \in Ses
  BY FlagsTyped
<1> QED
  BY <1>1 DEF DisconnectInternal, Ses

LEMMA FlagsKeepType ==
    ASSUME TypeOK, Next
    PROVE  ses' \in Ses
<1>1. ses \in Ses /\ td \in {"none", "run", "ended"}
  BY TypeParts DEF StagesTyped
<1>2. CASE ConnectStep
  <2>1. CASE ConnectWait
    <3>1. Stopped(Cleared(Halted(ses))) \in Ses
      BY <1>1, FlagsTyped
    <3> QED
      BY <1>1, <2>1, <3>1 DEF ConnectWait, WaitedForStop, WaitPastDeadline
  <2>2. CASE ConnectBegin
    BY <1>1, <2>2 DEF ConnectBegin, Ses
  <2>3. CASE Resolved \/ StartWorkers
    BY <1>1, <2>3 DEF Resolved, StartWorkers, Ses
  <2> QED
    BY <1>1, <1>2, <2>1, <2>2, <2>3, FlagsTyped
       DEF ConnectStep, ConnectLookup, ConnectLock, ConnectTeardown, ConnectHook,
           TcpConnected, HandshakeDone, DialFails, ConnectReturns, ReleaseFromConnect
<1>3. ASSUME NEW a \in Attempt, NEW w \in Worker, WorkerStep(a, w)
      PROVE  ses' \in Ses
  <2>1. CASE LossSignalled(a, w)
    <3> DEFINE h == Halted(ses)
    <3>2. h \in Ses
      BY <1>1, FlagsTyped
    <3> HIDE DEF h
    <3>3. [h EXCEPT !.welcome = FALSE, !.lostSignaled = TRUE] \in Ses
      BY <3>2 DEF Ses
    <3>1. [Halted(ses) EXCEPT !.welcome = FALSE, !.lostSignaled = TRUE] \in Ses
      BY <3>3 DEF h
    <3> QED
      BY <1>1, <2>1, <3>1 DEF LossSignalled
  <2>2. CASE WorkerEnds(a, w) \/ WorkerDelivers(a, w)
    BY <1>1, <2>2 DEF WorkerEnds, WorkerDelivers, Ses
  <2> QED
    BY <1>1, <1>3, <2>1, <2>2 DEF WorkerStep, CallbackReturns, LossDetected
<1>4. ASSUME NEW a \in Attempt, WsFinalizes(a) \/ ReadFails(a) \/ WriteFails(a)
      PROVE  ses' \in Ses
  <2>1. CASE WsFinalizes(a)
    BY <1>1, <2>1, FlagsTyped DEF WsFinalizes
  <2>2. CASE ReadFails(a) \/ WriteFails(a)
    BY <1>1, <2>2 DEF ReadFails, WriteFails, WsIoFails, Ses
  <2> QED
    BY <1>4, <2>1, <2>2
<1>5. ASSUME NEW c \in Closer, CloseStep(c)
      PROVE  ses' \in Ses
  <2>1. CASE CloseTaken(c)
    <3>1. [ses EXCEPT !.callbacks = FALSE] \in Ses
      BY <1>1 DEF Ses
    <3>2. Halted([ses EXCEPT !.callbacks = FALSE]) \in Ses
      BY <3>1, FlagsTyped
    <3>3. (c = Callback /\ handle[Ws] = closer[c].on) \in BOOLEAN
      OBVIOUS
    <3> QED
      BY <1>1, <2>1, <3>2, <3>3, DisconnectTyped DEF CloseTaken
  <2> QED
    BY <1>1, <1>5, <2>1, FlagsTyped DEF CloseStep, CloseSignals, CloseTries
<1>6. CASE CleanupStep
  BY <1>1, <1>6, FlagsTyped, DisconnectTyped
     DEF CleanupStep, TeardownFinalizes, CleanupWaits, DestructorDisconnects, DestructorWaits
<1>7. ASSUME NEW c \in Closer, NEW halt, NEW a, CloseCalled(c, halt, a)
      PROVE  ses' \in Ses
  BY <1>1, <1>7 DEF CloseCalled
<1> QED
  BY <1>2, <1>3, <1>4, <1>5, <1>6, <1>7 DEF Next, Closer

\* The manager's own record of the session.
LEMMA ManagerKeepsType ==
    ASSUME TypeOK, Next
    PROVE  mgr' \in Mgr
<1>1. mgr \in Mgr
  BY TypeParts
<1>2. CASE ConnectStep
  BY <1>1, <1>2 DEF Mgr, ConnectStep, connReturns, ConnectLookup, ConnectLock, ConnectWait,
     ConnectTeardown, ConnectHook, ConnectBegin, Resolved, TcpConnected, HandshakeDone,
     DialFails, StartWorkers, ConnectReturns, ReleaseFromConnect
<1>3. ASSUME NEW c \in Closer, CloseStep(c)
      PROVE  mgr' \in Mgr
  BY <1>1, <1>3 DEF Mgr, CloseStep, CloseSignals, CloseTries, CloseTaken
<1>4. CASE UNCHANGED mgr
  BY <1>1, <1>4
<1> QED
  BY <1>2, <1>3, <1>4
     DEF Next, WorkerStep, WorkerEnds, WorkerDelivers, CallbackReturns, LossDetected,
         LossSignalled, WsFinalizes, ReadFails, WriteFails, WsIoFails, CloseCalled,
         CleanupStep, TeardownFinalizes, CleanupWaits, DestructorDisconnects,
         DestructorWaits

\* A thread goes on to a step of its loop.
LEMMA WorkerGoesTyped ==
    ASSUME ThreadsTyped, NEW a \in Attempt, NEW w \in Worker, NEW pc \in WorkerPc,
           pc = "finalize" => w = Ws, workerGoes(a, w, pc)
    PROVE  /\ worker' \in Threads /\ NoneFinalizes'
           /\ \A b \in Attempt, v \in Worker :
                worker'[b][v] = IF b = a /\ v = w THEN pc ELSE worker[b][v]
<1>1. Ws \notin IoWorker
  BY LifecycleAssumption
<1>2. worker' = [worker EXCEPT ![a][w] = pc] /\ worker \in Threads
  BY DEF workerGoes, ThreadsTyped
<1>3. \A b \in Attempt, v \in Worker :
         worker'[b][v] = IF b = a /\ v = w THEN pc ELSE worker[b][v]
  BY <1>2 DEF Threads
<1>4. worker' \in Threads
  BY <1>2 DEF Threads
<1> QED
  BY <1>1, <1>3, <1>4 DEF ThreadsTyped, NoneFinalizes, Worker

LEMMA NobodyJoinable ==
    ASSUME handle' = [w \in Worker |-> 0]
    PROVE  handle' \in [Worker -> 0..MaxAttempt] /\ \A w \in Worker : handle'[w] = 0
BY LifecycleAssumption

LEMMA ThreadsKeepType ==
    ASSUME TypeOK, AttemptsCounted, Next
    PROVE  ThreadsTyped'
<1>1. ThreadsTyped
  BY TypeParts
<1>2. ASSUME UNCHANGED worker, UNCHANGED handle \/ handle' = [w \in Worker |-> 0]
      PROVE  ThreadsTyped'
  BY <1>1, <1>2, NobodyJoinable DEF ThreadsTyped, NoneFinalizes
<1>3. CASE ConnectStep
  <2>1. CASE StartWorkers
    <3>1. conn.attempt \in Attempt
      BY <2>1, TypeParts DEF StartWorkers, AttemptsCounted, Raising, StagesTyped, Conn,
                             Attempt
    <3>2. handle' \in [Worker -> 0..MaxAttempt]
      BY <2>1, <3>1 DEF StartWorkers, Attempt
    <3>3. /\ worker' \in Threads
          /\ \A b \in Attempt, v \in Worker :
               worker'[b][v] = IF b = conn.attempt THEN "run" ELSE worker[b][v]
      BY <1>1, <2>1, <3>1 DEF StartWorkers, ThreadsTyped, Threads, WorkerPc
    <3> QED
      BY <1>1, <3>2, <3>3 DEF ThreadsTyped, NoneFinalizes, Worker
  <2> QED
    BY <1>2, <1>3, <2>1
       DEF ConnectStep, ConnectLookup, ConnectLock, ConnectWait, WaitedForStop,
           WaitPastDeadline, ConnectTeardown, ConnectHook, ConnectBegin, Resolved,
           TcpConnected, HandshakeDone, DialFails, ConnectReturns, ReleaseFromConnect
<1>4. ASSUME NEW a \in Attempt, NEW w \in Worker, NEW pc \in WorkerPc,
             pc = "finalize" => w = Ws, workerGoes(a, w, pc), UNCHANGED handle
      PROVE  ThreadsTyped'
  BY <1>1, <1>4, WorkerGoesTyped DEF ThreadsTyped
<1>5. ASSUME NEW a \in Attempt, NEW w \in Worker, WorkerStep(a, w)
      PROVE  ThreadsTyped'
  <2>1. \E pc \in WorkerPc : (pc = "finalize" => w = Ws) /\ workerGoes(a, w, pc)
    BY <1>5 DEF WorkerStep, WorkerEnds, WorkerDelivers, CallbackReturns, LossDetected,
                LossSignalled, WorkerPc
  <2>2. UNCHANGED handle
    BY <1>5 DEF WorkerStep, WorkerEnds, WorkerDelivers, CallbackReturns, LossDetected,
                LossSignalled
  <2> QED
    BY <1>4, <2>1, <2>2
<1>6. ASSUME NEW a \in Attempt, WsFinalizes(a)
      PROVE  ThreadsTyped'
  <2>1. worker' \in Threads /\ NoneFinalizes'
    BY <1>1, <1>6, WorkerGoesTyped DEF WsFinalizes, Worker, WorkerPc
  <2>2. handle' \in [Worker -> 0..MaxAttempt]
    BY <1>6, LifecycleAssumption DEF WsFinalizes, Attempt
  <2> QED
    BY <2>1, <2>2 DEF ThreadsTyped
<1>7. ASSUME NEW a \in Attempt, ReadFails(a) \/ WriteFails(a)
      PROVE  ThreadsTyped'
  <2>1. /\ Ws \in Worker /\ UNCHANGED handle
        /\ workerGoes(a, Ws, "loss") \/ workerGoes(a, Ws, "run")
    BY <1>7 DEF ReadFails, WriteFails, WsIoFails, Worker
  <2> QED
    BY <1>4, <2>1 DEF WorkerPc
<1>8. ASSUME NEW c \in Closer, CloseStep(c)
      PROVE  ThreadsTyped'
  BY <1>2, <1>8 DEF CloseStep, CloseSignals, CloseTries, CloseTaken
<1>9. CASE CleanupStep
  BY <1>2, <1>9 DEF CleanupStep, TeardownFinalizes, CleanupWaits, DestructorDisconnects,
                    DestructorWaits
<1>10. ASSUME NEW c, NEW halt, NEW a, CloseCalled(c, halt, a)
       PROVE  ThreadsTyped'
  BY <1>2, <1>10 DEF CloseCalled
<1> QED
  BY <1>3, <1>5, <1>6, <1>7, <1>8, <1>9, <1>10 DEF Next

\* The threads that connect, close, tear down and clean up, and where they are.
LEMMA StagesKeepType ==
    ASSUME TypeOK, AttemptsCounted, Next
    PROVE  StagesTyped'
<1>1. StagesTyped /\ conn.attempt \in 0..MaxAttempt
  BY TypeParts DEF StagesTyped, Conn
<1>2. CASE ConnectStep
  <2>1. conn' \in Conn
    <3>1. CASE ConnectBegin
      <4>1. conn.attempt < MaxAttempt
        BY <3>1 DEF ConnectBegin, AttemptsCounted, Undecided, Preparing
      <4>2. conn.attempt + 1 \in 0..MaxAttempt
        BY <1>1, <4>1, LifecycleAssumption
      <4> QED
        BY <3>1, <4>2 DEF ConnectBegin, Conn, ConnPc
    <3>2. ASSUME NEW pc \in ConnPc, connGoes(pc)
          PROVE  conn' \in Conn
      BY <1>1, <3>2 DEF connGoes, StagesTyped, Conn
    <3>3. CASE UNCHANGED conn
      BY <1>1, <3>3 DEF StagesTyped
    <3> QED
      BY <1>2, <3>1, <3>2, <3>3
         DEF ConnectStep, ConnectLookup, ConnectLock, ConnectWait, ConnectTeardown,
             ConnectHook, Resolved, TcpConnected, HandshakeDone, StageDone, DialFails,
             StartWorkers, ConnectReturns, ReleaseFromConnect, connReturns, ConnPc
  <2>2. UNCHANGED <<closer, td, cleanup>>
    BY <1>2 DEF ConnectStep, ConnectLookup, ConnectLock, ConnectWait, ConnectTeardown,
             ConnectHook, ConnectBegin, Resolved, TcpConnected, HandshakeDone, DialFails,
             StartWorkers, ConnectReturns, ReleaseFromConnect
  <2> QED
    BY <1>1, <2>1, <2>2 DEF StagesTyped
<1>3. ASSUME NEW c \in Closer, CloseStep(c)
      PROVE  StagesTyped'
  <2>1. closer' \in [Closer -> Closing]
    <3>1. ASSUME NEW pc \in CloserPc, closerGoes(c, pc)
          PROVE  closer' \in [Closer -> Closing]
      BY <1>1, <3>1 DEF closerGoes, StagesTyped, Closing
    <3> QED
      BY <1>3, <3>1 DEF CloseStep, CloseSignals, CloseTries, CloseTaken, CloserPc
  <2>2. UNCHANGED conn /\ cleanup' \in CleanupPc
    BY <1>1, <1>3 DEF CloseStep, CloseSignals, CloseTries, CloseTaken, StagesTyped, CleanupPc
  <2>3. td' \in {"none", "run", "ended"}
    BY <1>1, <1>3 DEF CloseStep, CloseSignals, CloseTries, CloseTaken, StagesTyped,
                      DisconnectInternal
  <2> QED
    BY <1>1, <2>1, <2>2, <2>3 DEF StagesTyped
<1>4. ASSUME NEW c \in Closer, NEW halt \in BOOLEAN, NEW a \in 0..MaxAttempt,
             CloseCalled(c, halt, a)
      PROVE  StagesTyped'
  BY <1>1, <1>4 DEF CloseCalled, StagesTyped, Closing, CloserPc
<1>5. CASE CleanupStep
  BY <1>1, <1>5 DEF CleanupStep, TeardownFinalizes, CleanupWaits, DestructorDisconnects,
                    DestructorWaits, DisconnectInternal, StagesTyped, CleanupPc
<1>6. CASE UNCHANGED <<conn, closer, td, cleanup>>
  BY <1>1, <1>6 DEF StagesTyped
<1>7. 0 \in 0..MaxAttempt /\ \A a \in Attempt : a \in 0..MaxAttempt
  BY LifecycleAssumption DEF Attempt
<1> QED
  BY <1>2, <1>3, <1>4, <1>5, <1>6, <1>7
     DEF Next, WorkerStep, WorkerEnds, WorkerDelivers, CallbackReturns, LossDetected,
         LossSignalled, WsFinalizes, ReadFails, WriteFails, WsIoFails, Closer

-----------------------------------------------------------------------------
(* What the helpers do to the flags the invariant speaks of.                *)

LEMMA FlagsSet ==
    ASSUME NEW s \in Ses
    PROVE  /\ /\ Cancelled(s).stopRequested
              /\ Cancelled(s).connected = s.connected
           /\ ~Halted(s).connected /\ ~Cleared(s).connected
           /\ Stopped(s).connected = s.connected
           /\ DisconnectedEmitted(s).connected = s.connected
           /\ ~Recycled(s).connected /\ ~Finalized(s).connected
           /\ \A t \in {Cancelled(s), Halted(s), Cleared(s), Stopped(s), Finalized(s),
                        DisconnectedEmitted(s)} :
                 /\ t.disconnectStarted = s.disconnectStarted
                 /\ t.wsCompletesTeardown = s.wsCompletesTeardown
           /\ ~Recycled(s).disconnectStarted /\ ~Recycled(s).wsCompletesTeardown
           /\ \A t \in {Cancelled(s), Halted(s), Cleared(s), Stopped(s)} :
                 t.disconnectEventEmitted = s.disconnectEventEmitted
           /\ DisconnectedEmitted(s).disconnectEventEmitted
           /\ Finalized(s).disconnectEventEmitted
           /\ \A t \in {Cancelled(s), Halted(s), Stopped(s), DisconnectedEmitted(s)} :
                 t.wsStream = s.wsStream
<1>1. /\ Cancelled(s).stopRequested
      /\ Cancelled(s).connected = s.connected
      /\ Cancelled(s).disconnectStarted = s.disconnectStarted
      /\ Cancelled(s).wsCompletesTeardown = s.wsCompletesTeardown
      /\ Cancelled(s).disconnectEventEmitted = s.disconnectEventEmitted
      /\ Cancelled(s).wsStream = s.wsStream
  BY DEF Ses, Cancelled
<1>2. /\ ~Halted(s).connected
      /\ Halted(s).disconnectStarted = s.disconnectStarted
      /\ Halted(s).wsCompletesTeardown = s.wsCompletesTeardown
      /\ Halted(s).disconnectEventEmitted = s.disconnectEventEmitted
      /\ Halted(s).wsStream = s.wsStream
  BY DEF Ses, Cancelled, Halted
<1>3. /\ ~Cleared(s).connected
      /\ Cleared(s).disconnectStarted = s.disconnectStarted
      /\ Cleared(s).wsCompletesTeardown = s.wsCompletesTeardown
      /\ Cleared(s).disconnectEventEmitted = s.disconnectEventEmitted
  BY DEF Ses, StreamReleased, Cleared
<1>4. /\ Stopped(s).connected = s.connected
      /\ Stopped(s).disconnectStarted = s.disconnectStarted
      /\ Stopped(s).wsCompletesTeardown = s.wsCompletesTeardown
      /\ Stopped(s).disconnectEventEmitted = s.disconnectEventEmitted
      /\ Stopped(s).wsStream = s.wsStream
  BY DEF Ses, Stopped
<1>5. /\ DisconnectedEmitted(s).connected = s.connected
      /\ DisconnectedEmitted(s).disconnectStarted = s.disconnectStarted
      /\ DisconnectedEmitted(s).wsCompletesTeardown = s.wsCompletesTeardown
      /\ DisconnectedEmitted(s).disconnectEventEmitted
      /\ DisconnectedEmitted(s).wsStream = s.wsStream
  BY DEF Ses, DisconnectedEmitted
<1> DEFINE c == Cleared(s)
<1>6. c \in Ses
  BY FlagsTyped
<1>7. ~Recycled(s).connected /\ ~Recycled(s).disconnectStarted
      /\ ~Recycled(s).wsCompletesTeardown
  <2>1. Recycled(s) = [c EXCEPT !.lostSignaled = FALSE, !.disconnectStarted = FALSE,
                       !.disconnectEventEmitted = FALSE, !.stopRequested = FALSE,
                       !.wsCompletesTeardown = FALSE, !.welcome = FALSE]
    BY DEF Recycled
  <2>2. ~c.connected
    BY <1>3
  <2> HIDE DEF c
  <2> QED
    BY <1>6, <2>1, <2>2 DEF Ses
<1>8. /\ ~Finalized(s).connected
      /\ Finalized(s).disconnectStarted = s.disconnectStarted
      /\ Finalized(s).wsCompletesTeardown = s.wsCompletesTeardown
      /\ Finalized(s).disconnectEventEmitted
  <2>1. /\ ~c.connected
        /\ c.disconnectStarted = s.disconnectStarted
        /\ c.wsCompletesTeardown = s.wsCompletesTeardown
    BY <1>3
  <2>2. Finalized(s) = Stopped(DisconnectedEmitted([c EXCEPT !.welcome = FALSE]))
    BY DEF Finalized
  <2> HIDE DEF c
  <2>3. Finalized(s) = [c EXCEPT !.welcome = FALSE, !.disconnectEventEmitted = TRUE,
                                 !.transportFullyStopped = TRUE]
    BY <1>6, <2>2 DEF Ses, Stopped, DisconnectedEmitted
  <2> QED
    BY <1>6, <2>1, <2>3 DEF Ses
<1> QED
  BY <1>1, <1>2, <1>3, <1>4, <1>5, <1>7, <1>8

\* What a step must do to the flags to keep what is said of the transport.
FlagsWeaken ==
    /\ ses'.disconnectStarted => ses.disconnectStarted
    /\ ses'.wsCompletesTeardown => ses.wsCompletesTeardown
    /\ ses'.connected => ses.connected

-----------------------------------------------------------------------------
(* The workers.                                                             *)

\* They only take flags away, and a ws thread of a live connection goes on.
LEMMA WorkerEffect ==
    ASSUME TypeOK, NEW a \in Attempt, NEW w \in Worker,
           WorkerStep(a, w) \/ (w = Ws /\ (ReadFails(a) \/ WriteFails(a)))
    PROVE  /\ UNCHANGED <<mgr, conn, closer, td, cleanup, heard, handle>>
           /\ FlagsWeaken /\ ses'.disconnectEventEmitted = ses.disconnectEventEmitted
           /\ ses'.wsStream = ses.wsStream
           /\ ses'.connected => ses'.stopRequested = ses.stopRequested
           /\ \E pc \in WorkerPc :
                 /\ workerGoes(a, w, pc)
                 /\ pc = "finalize" => w = Ws /\ ses.wsCompletesTeardown
                 /\ pc \in {"none", "ended"} => ~ses.connected \/ ses.stopRequested
<1>1. ses \in Ses
  BY TypeParts
<1>2. UNCHANGED <<mgr, conn, closer, td, cleanup, heard, handle>>
  BY DEF WorkerStep, WorkerEnds, WorkerDelivers, CallbackReturns, LossDetected,
         LossSignalled, ReadFails, WriteFails, WsIoFails
<1>3. /\ FlagsWeaken /\ ses'.disconnectEventEmitted = ses.disconnectEventEmitted
      /\ ses'.wsStream = ses.wsStream
      /\ ses'.connected => ses'.stopRequested = ses.stopRequested
  <2>1. CASE WorkerEnds(a, w)
    BY <1>1, <2>1 DEF WorkerEnds, FlagsWeaken, Ses
  <2>2. CASE WorkerDelivers(a, w)
    BY <1>1, <2>2 DEF WorkerDelivers, FlagsWeaken, Ses
  <2>3. CASE LossSignalled(a, w)
    <3> DEFINE h == Halted(ses)
    <3>1. /\ h \in Ses /\ ~h.connected /\ h.wsStream = ses.wsStream
          /\ h.disconnectStarted = ses.disconnectStarted
          /\ h.wsCompletesTeardown = ses.wsCompletesTeardown
          /\ h.disconnectEventEmitted = ses.disconnectEventEmitted
      BY <1>1, FlagsTyped, FlagsSet
    <3>2. ses' = ses \/ ses' = [h EXCEPT !.welcome = FALSE, !.lostSignaled = TRUE]
      BY <2>3 DEF LossSignalled
    <3> HIDE DEF h
    <3> QED
      BY <3>1, <3>2 DEF FlagsWeaken, Ses
  <2>4. CASE ReadFails(a) \/ WriteFails(a)
    BY <1>1, <2>4 DEF ReadFails, WriteFails, WsIoFails, FlagsWeaken, Ses
  <2> QED
    BY <2>1, <2>2, <2>3, <2>4 DEF WorkerStep, CallbackReturns, LossDetected, FlagsWeaken
<1>4. \E pc \in WorkerPc :
         /\ workerGoes(a, w, pc)
         /\ pc = "finalize" => w = Ws /\ ses.wsCompletesTeardown
         /\ pc \in {"none", "ended"} => ~ses.connected \/ ses.stopRequested
  BY DEF WorkerStep, WorkerEnds, WorkerDelivers, CallbackReturns, LossDetected,
         LossSignalled, ReadFails, WriteFails, WsIoFails, WorkerPc
<1> QED
  BY <1>2, <1>3, <1>4

LEMMA WorkerKeeps ==
    ASSUME LifeInv, TypeOK', NEW a \in Attempt, NEW w \in Worker,
           WorkerStep(a, w) \/ (w = Ws /\ (ReadFails(a) \/ WriteFails(a)))
    PROVE  LifeInv'
<1>1. TypeOK /\ ThreadsTyped /\ StagesTyped
  BY TypeParts DEF LifeInv
<1>2. /\ UNCHANGED <<mgr, conn, closer, td, cleanup, heard, handle>>
      /\ FlagsWeaken /\ ses'.disconnectEventEmitted = ses.disconnectEventEmitted
      /\ ses'.wsStream = ses.wsStream
      /\ ses'.connected => ses'.stopRequested = ses.stopRequested
  BY <1>1, WorkerEffect
<1>3. PICK pc \in WorkerPc :
         /\ workerGoes(a, w, pc)
         /\ pc = "finalize" => w = Ws /\ ses.wsCompletesTeardown
         /\ pc \in {"none", "ended"} => ~ses.connected \/ ses.stopRequested
  BY <1>1, WorkerEffect
<1>4. \A b \in Attempt, v \in Worker :
         worker'[b][v] = IF b = a /\ v = w THEN pc ELSE worker[b][v]
  BY <1>1, <1>3, WorkerGoesTyped
<1>5. ConnectHolds' /\ IntentWithdrawn' /\ AttemptsCounted' /\ NothingJoinable'
  BY <1>2 DEF LifeInv, ConnectHolds, IntentWithdrawn, AttemptsCounted, NothingJoinable
<1>6. EndsUnregistered'
  <2>1. Ws \in Worker
    BY DEF Worker
  <2> QED
    BY <1>2, <1>3, <1>4, <2>1 DEF LifeInv, EndsUnregistered, FlagsWeaken
<1>7. DownMeanwhile' /\ ToldAtMostOnce'
  BY <1>2 DEF LifeInv, DownMeanwhile, ToldAtMostOnce, FlagsWeaken
<1>8. Served'
  <2>1. ses.connected => conn.attempt \in Attempt
    BY <1>1 DEF LifeInv, Served, StagesTyped, Conn, Attempt
  <2>2. Ws \in Worker
    BY DEF Worker
  <2> QED
    BY <1>2, <1>3, <1>4, <2>1, <2>2 DEF LifeInv, Served, FlagsWeaken, alive
<1> QED
  BY <1>5, <1>6, <1>7, <1>8 DEF LifeInv

-----------------------------------------------------------------------------
(* The end: whoever owns an unregistered session, and the threads it left    *)
(* the rest to.                                                             *)

\* Told as before, or the one to whom nothing was told yet is told now.
TellsOnce ==
    \/ heard' = heard /\ ses'.disconnectEventEmitted = ses.disconnectEventEmitted
    \/ heard' = heard + hears(ses) /\ ses'.disconnectEventEmitted

LEMMA OnceIsEnough ==
    ASSUME ToldAtMostOnce, TellsOnce
    PROVE  ToldAtMostOnce'
BY DEF ToldAtMostOnce, TellsOnce, hears

\* A step of the end brings the transport down and makes nothing joinable.
LEMMA EndKeeps ==
    ASSUME LifeInv, TypeOK', ~mgr.registered,
           mgr'.registered = mgr.registered, mgr'.userIntent = mgr.userIntent,
           UNCHANGED conn, \A c \in Closer : closer'[c].pc \in {closer[c].pc, "idle"},
           ~ses'.connected, TellsOnce,
           cleanup' \in {"destroy", "last", "gone"} => \A w \in Worker : handle'[w] = 0
    PROVE  LifeInv'
<1>1. conn'.pc \notin Holding
  BY DEF LifeInv, ConnectHolds
<1>2. ConnectHolds' /\ EndsUnregistered' /\ DownMeanwhile'
  BY <1>1 DEF ConnectHolds, EndsUnregistered, DownMeanwhile
<1>3. IntentWithdrawn'
  BY DEF LifeInv, IntentWithdrawn
<1>4. NothingJoinable'
  BY <1>1 DEF NothingJoinable, Holding
<1>5. AttemptsCounted' /\ Served'
  BY <1>1 DEF LifeInv, AttemptsCounted, Served, Holding, Raising, Dialling
<1>6. ToldAtMostOnce'
  BY OnceIsEnough DEF LifeInv
<1> QED
  BY <1>2, <1>3, <1>4, <1>5, <1>6 DEF LifeInv

LEMMA FinalizedEffect ==
    ASSUME ses \in Ses, ses' = Finalized(ses), heard' = heard + hears(ses)
    PROVE  ~ses'.connected /\ TellsOnce
BY FlagsSet DEF TellsOnce

\* disconnectInternal, whoever calls it.
LEMMA DisconnectEffect ==
    ASSUME ses \in Ses, NEW onWsThread, DisconnectInternal(ses, onWsThread)
    PROVE  ~ses'.connected /\ TellsOnce
<1> DEFINE h == Halted(ses)
           e == DisconnectedEmitted(h)
<1>1. /\ h \in Ses /\ ~h.connected
      /\ h.disconnectEventEmitted = ses.disconnectEventEmitted
  BY FlagsTyped, FlagsSet
<1> HIDE DEF h
<1>2. e \in Ses /\ ~e.connected /\ e.disconnectEventEmitted
  BY <1>1, FlagsTyped, FlagsSet
<1> HIDE DEF e
<1>3. CASE ses.disconnectStarted
  BY <1>1, <1>3 DEF DisconnectInternal, TellsOnce, h
<1>4. CASE ~ses.disconnectStarted
  <2>1. /\ ses' = [e EXCEPT !.disconnectStarted = TRUE, !.transportFullyStopped = FALSE,
                            !.wsCompletesTeardown = onWsThread]
        /\ heard' = heard + hears(ses)
    BY <1>4 DEF DisconnectInternal, e, h
  <2> QED
    BY <1>2, <2>1 DEF TellsOnce, Ses
<1> QED
  BY <1>3, <1>4

\* The teardown that the ws thread carries out itself (finishDisconnectFromWsThread).
LEMMA WsFinalizesKeeps ==
    ASSUME LifeInv, TypeOK', NEW a \in Attempt, WsFinalizes(a)
    PROVE  LifeInv'
<1>1. ~mgr.registered
  BY DEF LifeInv, EndsUnregistered, WsFinalizes
<1>2. ~ses'.connected /\ TellsOnce
  BY FinalizedEffect, TypeParts DEF LifeInv, WsFinalizes
<1>3. cleanup' \in {"destroy", "last", "gone"} => \A w \in Worker : handle'[w] = 0
  BY DEF LifeInv, NothingJoinable, WsFinalizes, Attempt
<1>4. UNCHANGED <<mgr, conn, closer>>
  BY DEF WsFinalizes
<1> QED
  BY <1>1, <1>2, <1>3, <1>4, EndKeeps

\* The teardown thread, the cleanup thread and the destructor.
LEMMA CleanupKeeps ==
    ASSUME LifeInv, TypeOK', CleanupStep
    PROVE  LifeInv'
<1>1. ses \in Ses
  BY TypeParts DEF LifeInv
<1>2. ~mgr.registered
  BY DEF LifeInv, EndsUnregistered, CleanupStep, TeardownFinalizes, CleanupWaits,
         DestructorDisconnects, DestructorWaits
<1>3. UNCHANGED <<mgr, conn, closer>>
  BY DEF CleanupStep, TeardownFinalizes, CleanupWaits, DestructorDisconnects,
         DestructorWaits
<1>4. ~ses'.connected /\ TellsOnce
  <2>1. CASE TeardownFinalizes
    BY <1>1, <2>1, FinalizedEffect DEF TeardownFinalizes
  <2>2. CASE CleanupWaits \/ DestructorWaits
    <3>1. ses' = Stopped(ses) /\ UNCHANGED heard /\ cleanup # "none"
      BY <2>2 DEF CleanupWaits, DestructorWaits
    <3>2. ~ses.connected
      BY <3>1 DEF LifeInv, DownMeanwhile
    <3> QED
      BY <1>1, <3>1, <3>2, FlagsSet DEF TellsOnce
  <2>3. CASE DestructorDisconnects
    BY <1>1, <2>3, DisconnectEffect DEF DestructorDisconnects
  <2> QED
    BY <2>1, <2>2, <2>3 DEF CleanupStep
<1>5. cleanup' \in {"destroy", "last", "gone"} => \A w \in Worker : handle'[w] = 0
  BY NobodyJoinable DEF LifeInv, NothingJoinable, CleanupStep, TeardownFinalizes,
     CleanupWaits, DestructorDisconnects, DestructorWaits
<1> QED
  BY <1>2, <1>3, <1>4, <1>5, EndKeeps

\* disconnect and haltAndRelease up to the handover to the cleanup thread.
LEMMA CloseKeeps ==
    ASSUME LifeInv, TypeOK', NEW c \in Closer, CloseStep(c)
    PROVE  LifeInv'
<1>1. mgr \in Mgr /\ ses \in Ses /\ StagesTyped
  BY TypeParts DEF LifeInv
<1>2. CASE CloseSignals(c)
  <2>1. UNCHANGED <<worker, handle, conn, td, cleanup, heard>>
    BY <1>2 DEF CloseSignals
  <2>2. /\ mgr'.registered = mgr.registered /\ mgr'.opMu = mgr.opMu
        /\ mgr'.userIntent => mgr.userIntent
    BY <1>1, <1>2 DEF CloseSignals, Mgr
  <2>3. ~mgr'.userIntent \/ ~mgr.registered
    BY <1>1, <1>2 DEF CloseSignals, Mgr
  <2>4. /\ FlagsWeaken /\ ses'.disconnectEventEmitted = ses.disconnectEventEmitted
        /\ ses'.wsStream = ses.wsStream /\ (ses.stopRequested => ses'.stopRequested)
    BY <1>1, <1>2, FlagsSet DEF CloseSignals, FlagsWeaken
  <2>5. \A d \in Closer : closer'[d].pc \in {closer[d].pc, "try", "idle"}
    BY <1>1, <1>2 DEF CloseSignals, closerGoes, StagesTyped, Closing
  <2>6. ConnectHolds' /\ EndsUnregistered' /\ DownMeanwhile' /\ NothingJoinable'
    BY <2>1, <2>2, <2>4
       DEF LifeInv, ConnectHolds, EndsUnregistered, DownMeanwhile, NothingJoinable, FlagsWeaken
  <2>7. ToldAtMostOnce' /\ AttemptsCounted'
    BY <2>1, <2>4 DEF LifeInv, ToldAtMostOnce, AttemptsCounted
  <2>8. Served'
    BY <2>1, <2>4 DEF LifeInv, Served, FlagsWeaken, alive
  <2>9. IntentWithdrawn'
    BY <2>2, <2>3, <2>5 DEF LifeInv, IntentWithdrawn
  <2> QED
    BY <2>6, <2>7, <2>8, <2>9 DEF LifeInv
<1>3. CASE CloseTries(c)
  <2>1. UNCHANGED <<ses, worker, handle, conn, td, cleanup, heard>>
    BY <1>3 DEF CloseTries
  <2>2. mgr' = mgr \/ (mgr.opMu = "free" /\ mgr' = [mgr EXCEPT !.registered = FALSE, !.opMu = c])
    BY <1>3 DEF CloseTries
  <2>3. /\ mgr'.userIntent = mgr.userIntent
        /\ mgr'.registered => mgr.registered /\ mgr'.opMu = mgr.opMu
        /\ mgr.opMu # "free" => mgr' = mgr
    BY <1>1, <2>2 DEF Mgr
  <2>4. closer[c].pc = "try" => ~mgr.userIntent
    BY DEF LifeInv, IntentWithdrawn
  <2>5. ConnectHolds'
    BY <2>1, <2>3 DEF LifeInv, ConnectHolds
  <2>6. /\ EndsUnregistered' /\ DownMeanwhile' /\ NothingJoinable' /\ ToldAtMostOnce'
        /\ AttemptsCounted' /\ Served'
    BY <2>1, <2>3 DEF LifeInv, EndsUnregistered, DownMeanwhile, NothingJoinable,
                      ToldAtMostOnce, AttemptsCounted, Served, alive
  <2>7. IntentWithdrawn'
    <3>1. \A d \in Closer : d # c => closer'[d] = closer[d]
      BY <1>1, <1>3 DEF CloseTries, closerGoes, StagesTyped
    <3>2. closer'[c].pc = "taken" => ~mgr'.registered
      BY <1>1, <1>3 DEF CloseTries, closerGoes, StagesTyped, Closing, Mgr
    <3>3. ~mgr.userIntent /\ ~mgr'.userIntent
      BY <1>3, <2>3, <2>4 DEF CloseTries
    <3> QED
      BY <2>3, <3>1, <3>2, <3>3 DEF LifeInv, IntentWithdrawn
  <2> QED
    BY <2>5, <2>6, <2>7 DEF LifeInv
<1>4. CASE CloseTaken(c)
  <2>1. ~mgr.registered
    BY <1>4 DEF LifeInv, IntentWithdrawn, CloseTaken
  <2>2. /\ mgr'.registered = mgr.registered /\ mgr'.userIntent = mgr.userIntent
        /\ UNCHANGED conn
    BY <1>1, <1>4 DEF CloseTaken, Mgr
  <2>3. \A d \in Closer : closer'[d].pc \in {closer[d].pc, "idle"}
    BY <1>1, <1>4 DEF CloseTaken, closerGoes, StagesTyped, Closing
  <2>4. ~ses'.connected /\ TellsOnce
    <3>1. CASE closer[c].halt
      <4> DEFINE q == [ses EXCEPT !.callbacks = FALSE]
      <4>1. q \in Ses /\ q.disconnectEventEmitted = ses.disconnectEventEmitted
        BY <1>1 DEF Ses
      <4>2. ses' = Halted(q) /\ UNCHANGED heard
        BY <1>4, <3>1 DEF CloseTaken
      <4> HIDE DEF q
      <4> QED
        BY <4>1, <4>2, FlagsSet DEF TellsOnce
    <3>2. CASE ~closer[c].halt
      BY <1>1, <1>4, <3>2, DisconnectEffect DEF CloseTaken
    <3> QED
      BY <3>1, <3>2
  <2>5. cleanup' = "wait"
    BY <1>4 DEF CloseTaken
  <2> QED
    BY <2>1, <2>2, <2>3, <2>4, <2>5, EndKeeps
<1> QED
  BY <1>2, <1>3, <1>4 DEF CloseStep

\* A call of disconnect or haltAndRelease has no effect yet.
LEMMA CalledKeeps ==
    ASSUME LifeInv, TypeOK', NEW c \in Closer, NEW halt, NEW a, CloseCalled(c, halt, a)
    PROVE  LifeInv'
<1>1. UNCHANGED <<mgr, ses, worker, handle, conn, td, cleanup, heard>>
  BY DEF CloseCalled
<1>2. \A d \in Closer : closer'[d].pc \in {closer[d].pc, "take"}
  BY TypeParts DEF LifeInv, CloseCalled, StagesTyped
<1>3. /\ ConnectHolds' /\ EndsUnregistered' /\ DownMeanwhile' /\ NothingJoinable'
      /\ ToldAtMostOnce' /\ AttemptsCounted' /\ Served'
  BY <1>1 DEF LifeInv, ConnectHolds, EndsUnregistered, DownMeanwhile, NothingJoinable,
              ToldAtMostOnce, AttemptsCounted, Served, alive
<1>4. IntentWithdrawn'
  BY <1>1, <1>2 DEF LifeInv, IntentWithdrawn
<1> QED
  BY <1>3, <1>4 DEF LifeInv

-----------------------------------------------------------------------------
(* connect.                                                                 *)

\* A step of connect may raise connected only when it starts the threads; while
\* connected stays set it changes nothing else of the transport.
LEMMA ConnectEffect ==
    ASSUME LifeInv, ConnectStep
    PROVE  /\ UNCHANGED <<closer, td, cleanup, heard>>
           /\ mgr'.registered = mgr.registered
           /\ mgr'.userIntent => mgr.userIntent
           /\ conn.pc \in Holding /\ conn'.pc \in Holding => mgr'.opMu = mgr.opMu
           /\ conn.pc \notin Holding /\ conn'.pc \in Holding
                 => mgr'.opMu = "conn" /\ mgr.userIntent
           /\ ses'.disconnectStarted => ses.disconnectStarted
           /\ ses'.wsCompletesTeardown => ses.wsCompletesTeardown
           /\ conn.pc \notin Holding
                 => ses'.disconnectEventEmitted = ses.disconnectEventEmitted
           /\ StartWorkers \/ worker' = worker
           /\ StartWorkers \/ ~ses'.connected
                 \/ /\ UNCHANGED <<ses, handle, worker>> /\ conn'.attempt = conn.attempt
                    /\ ses.connected /\ conn'.pc \in {"idle", "lock"}
<1>1. mgr \in Mgr /\ ses \in Ses /\ conn \in Conn
  BY TypeParts DEF LifeInv, StagesTyped
<1>2. UNCHANGED <<closer, td, cleanup, heard>> /\ (StartWorkers \/ worker' = worker)
  BY DEF ConnectStep, ConnectLookup, ConnectLock, ConnectWait, ConnectTeardown,
         ConnectHook, ConnectBegin, Resolved, TcpConnected, HandshakeDone, DialFails,
         StartWorkers, ConnectReturns, ReleaseFromConnect
<1>3. mgr'.registered = mgr.registered /\ (mgr'.userIntent => mgr.userIntent)
  BY <1>1 DEF Mgr, connReturns, ConnectStep, ConnectLookup, ConnectLock, ConnectWait,
         ConnectTeardown, ConnectHook, ConnectBegin, Resolved, TcpConnected,
         HandshakeDone, DialFails, StartWorkers, ConnectReturns, ReleaseFromConnect
<1>4. /\ conn.pc \in Holding /\ conn'.pc \in Holding => mgr'.opMu = mgr.opMu
      /\ conn.pc \notin Holding /\ conn'.pc \in Holding
            => mgr'.opMu = "conn" /\ mgr.userIntent
  BY <1>1 DEF Mgr, Conn, Holding, Preparing, Raising, Dialling, connReturns, connGoes,
         StageDone, ConnectStep, ConnectLookup, ConnectLock, ConnectWait,
         ConnectTeardown, ConnectHook, ConnectBegin, Resolved, TcpConnected,
         HandshakeDone, DialFails, StartWorkers, ConnectReturns, ReleaseFromConnect
<1>5. /\ ses'.disconnectStarted => ses.disconnectStarted
      /\ ses'.wsCompletesTeardown => ses.wsCompletesTeardown
      /\ conn.pc \notin Holding => ses'.disconnectEventEmitted = ses.disconnectEventEmitted
      /\ StartWorkers \/ (ses'.connected => ses.connected)
  <2>1. CASE ConnectWait
    <3> DEFINE h == Halted(ses)
               c == Cleared(h)
    <3>2. /\ h \in Ses /\ h.disconnectStarted = ses.disconnectStarted
          /\ h.wsCompletesTeardown = ses.wsCompletesTeardown
      BY <1>1, FlagsTyped, FlagsSet
    <3> HIDE DEF h
    <3>3. /\ c \in Ses /\ c.disconnectStarted = ses.disconnectStarted
          /\ c.wsCompletesTeardown = ses.wsCompletesTeardown /\ ~c.connected
      BY <3>2, FlagsTyped, FlagsSet
    <3> HIDE DEF c
    <3>4. /\ Stopped(c).disconnectStarted = ses.disconnectStarted
          /\ Stopped(c).wsCompletesTeardown = ses.wsCompletesTeardown
          /\ ~Stopped(c).connected
      BY <3>3, FlagsSet
    <3>1. /\ Stopped(Cleared(Halted(ses))).disconnectStarted = ses.disconnectStarted
          /\ Stopped(Cleared(Halted(ses))).wsCompletesTeardown = ses.wsCompletesTeardown
          /\ ~Stopped(Cleared(Halted(ses))).connected
      BY <3>4 DEF c, h
    <3> QED
      BY <2>1, <3>1 DEF ConnectWait, WaitedForStop, WaitPastDeadline, Holding
  <2>2. CASE ConnectLock \/ ConnectTeardown \/ DialFails \/ ReleaseFromConnect
    BY <1>1, <2>2, FlagsSet DEF ConnectLock, ConnectTeardown, DialFails,
       ReleaseFromConnect, Holding, Preparing, Raising
  <2>3. CASE ConnectBegin \/ Resolved \/ StartWorkers
    BY <1>1, <2>3 DEF ConnectBegin, Resolved, StageDone, StartWorkers, Ses, Holding,
       Preparing, Raising, Dialling
  <2>4. CASE UNCHANGED ses
    BY <2>4
  <2> QED
    BY <2>1, <2>2, <2>3, <2>4 DEF ConnectStep, ConnectLookup, ConnectHook,
       TcpConnected, HandshakeDone, ConnectReturns
<1>6. ASSUME ~StartWorkers, ses'.connected
      PROVE  /\ UNCHANGED <<ses, handle, worker>> /\ conn'.attempt = conn.attempt
             /\ ses.connected /\ conn'.pc \in {"idle", "lock"}
  <2>1. conn.pc \notin {"wait", "failed"} \cup Preparing \cup Raising
    BY <1>5, <1>6 DEF LifeInv, DownMeanwhile
  <2>2. ConnectLookup \/ ConnectLock \/ ConnectReturns
    BY <1>6, <2>1 DEF ConnectStep, ConnectWait, ConnectTeardown, ConnectHook,
       ConnectBegin, Resolved, TcpConnected, HandshakeDone, StageDone, DialFails,
       ReleaseFromConnect, Preparing, Raising, Dialling
  <2>3. ~Halted(ses).connected
    BY <1>1, FlagsSet
  <2>4. UNCHANGED <<ses, handle, worker>>
    BY <1>6, <2>2, <2>3 DEF ConnectLookup, ConnectLock, ConnectReturns
  <2>5. conn'.attempt = conn.attempt /\ conn'.pc \in {"idle", "lock"}
    BY <1>1, <1>6, <2>2, <2>3 DEF ConnectLookup, ConnectLock, ConnectReturns, connReturns,
       connGoes, Conn
  <2> QED
    BY <1>6, <2>4, <2>5
<1> QED
  BY <1>2, <1>3, <1>4, <1>5, <1>6

\* Where connect may go, and what it has done by then.
LEMMA ConnectStages ==
    ASSUME LifeInv, ConnectStep
    PROVE  /\ AttemptsCounted'
           /\ conn'.pc \in Preparing \cup Raising => \A w \in Worker : handle'[w] = 0
           /\ conn.pc \notin Holding => conn'.pc \notin Preparing \cup Raising
           /\ conn'.pc \in {"wait", "failed"} \cup Preparing \cup Raising => ~ses'.connected
<1>1. ses \in Ses /\ conn \in Conn
  BY TypeParts DEF LifeInv, StagesTyped
<1>2. AttemptsCounted'
  <2>1. conn'.pc \in Undecided => conn'.attempt < MaxAttempt
    BY <1>1 DEF LifeInv, AttemptsCounted, Undecided, Preparing, Conn, connReturns, connGoes,
       StageDone, ConnectStep, ConnectLookup, ConnectLock, ConnectWait, ConnectTeardown,
       ConnectHook, ConnectBegin, Resolved, TcpConnected, HandshakeDone, DialFails,
       StartWorkers, ConnectReturns, ReleaseFromConnect
  <2>2. conn'.pc \in Raising => conn'.attempt # 0
    BY <1>1 DEF LifeInv, AttemptsCounted, Raising, Dialling, Conn, connReturns, connGoes,
       StageDone, ConnectStep, ConnectLookup, ConnectLock, ConnectWait, ConnectTeardown,
       ConnectHook, ConnectBegin, Resolved, TcpConnected, HandshakeDone, DialFails,
       StartWorkers, ConnectReturns, ReleaseFromConnect
  <2>3. conn'.pc \in {"tcp", "handshake", "up"} => ses'.wsStream
    BY <1>1 DEF LifeInv, AttemptsCounted, Ses, Conn, connReturns, connGoes,
       StageDone, ConnectStep, ConnectLookup, ConnectLock, ConnectWait, ConnectTeardown,
       ConnectHook, ConnectBegin, Resolved, TcpConnected, HandshakeDone, DialFails,
       StartWorkers, ConnectReturns, ReleaseFromConnect
  <2> QED
    BY <2>1, <2>2, <2>3 DEF AttemptsCounted
<1>3. conn'.pc \in Preparing \cup Raising => \A w \in Worker : handle'[w] = 0
  BY <1>1, NobodyJoinable DEF LifeInv, NothingJoinable, Preparing, Raising, Dialling, Conn,
     connReturns, connGoes, WaitedForStop, WaitPastDeadline, StageDone, ConnectStep,
     ConnectLookup, ConnectLock, ConnectWait, ConnectTeardown, ConnectHook, ConnectBegin,
     Resolved, TcpConnected, HandshakeDone, DialFails, StartWorkers, ConnectReturns,
     ReleaseFromConnect
<1>4. conn.pc \notin Holding => conn'.pc \notin Preparing \cup Raising
  BY <1>1 DEF Preparing, Raising, Dialling, Holding, Conn,
     connReturns, connGoes, StageDone, ConnectStep,
     ConnectLookup, ConnectLock, ConnectWait, ConnectTeardown, ConnectHook, ConnectBegin,
     Resolved, TcpConnected, HandshakeDone, DialFails, StartWorkers, ConnectReturns,
     ReleaseFromConnect
<1>5. conn'.pc \in {"wait", "failed"} \cup Preparing \cup Raising => ~ses'.connected
  <2>1. CASE StartWorkers
    BY <1>1, <2>1 DEF StartWorkers, connGoes, Preparing, Raising, Dialling, Conn
  <2>2. CASE ~StartWorkers
    BY <2>2, ConnectEffect DEF Preparing, Raising, Dialling
  <2> QED
    BY <2>1, <2>2
<1> QED
  BY <1>2, <1>3, <1>4, <1>5

LEMMA ConnectKeeps ==
    ASSUME LifeInv, TypeOK', ConnectStep
    PROVE  LifeInv'
<1>1. ~mgr.registered => conn.pc \notin Holding /\ conn'.pc \notin Holding
  BY ConnectEffect DEF LifeInv, ConnectHolds, IntentWithdrawn
<1>2. ConnectHolds'
  BY <1>1, ConnectEffect DEF LifeInv, ConnectHolds
<1>3. IntentWithdrawn'
  BY ConnectEffect DEF LifeInv, IntentWithdrawn
<1>4. EndsUnregistered'
  <2>1. mgr.registered => \A a \in Attempt : worker'[a][Ws] # "finalize"
    <3>1. CASE StartWorkers
      BY <3>1, TypeParts DEF LifeInv, EndsUnregistered, StartWorkers, ThreadsTyped, Threads,
                             Worker
    <3>2. CASE worker' = worker
      BY <3>2 DEF LifeInv, EndsUnregistered
    <3> QED
      BY <3>1, <3>2, ConnectEffect
  <2> QED
    BY <2>1, ConnectEffect DEF LifeInv, EndsUnregistered
<1>5. DownMeanwhile'
  <2>1. ASSUME ses'.disconnectStarted \/ cleanup' # "none" PROVE ~ses'.connected
    <3>1. ses.disconnectStarted \/ cleanup # "none"
      BY <2>1, ConnectEffect
    <3>2. ~ses.connected /\ ~mgr.registered
      BY <3>1 DEF LifeInv, DownMeanwhile, EndsUnregistered
    <3>3. ~StartWorkers
      BY <1>1, <3>2 DEF StartWorkers, Holding, Raising
    <3> QED
      BY <3>2, <3>3, ConnectEffect
  <2> QED
    BY <2>1, ConnectStages DEF DownMeanwhile
<1>6. ToldAtMostOnce'
  <2>3. heard' = heard
    BY ConnectEffect
  <2>1. CASE mgr.registered
    <3>1. heard = 0
      BY <2>1 DEF LifeInv, EndsUnregistered
    <3> QED
      BY <2>3, <3>1 DEF ToldAtMostOnce
  <2>2. CASE ~mgr.registered
    BY <1>1, <2>2, ConnectEffect DEF LifeInv, ToldAtMostOnce
  <2> QED
    BY <2>1, <2>2
<1>7. NothingJoinable'
  <2>1. ASSUME cleanup \in {"destroy", "last", "gone"} PROVE \A w \in Worker : handle'[w] = 0
    <3>1. conn.pc \notin Holding /\ \A w \in Worker : handle[w] = 0
      BY <1>1, <2>1 DEF LifeInv, EndsUnregistered, NothingJoinable
    <3>2. UNCHANGED handle
      BY <3>1 DEF Holding, Preparing, Raising, Dialling, StageDone, ConnectStep,
         ConnectLookup, ConnectLock, ConnectWait, ConnectTeardown, ConnectHook,
         ConnectBegin, Resolved, TcpConnected, HandshakeDone, DialFails, StartWorkers,
         ConnectReturns, ReleaseFromConnect
    <3> QED
      BY <3>1, <3>2
  <2> QED
    BY <2>1, ConnectEffect, ConnectStages DEF NothingJoinable
<1>8. Served'
  <2>1. CASE StartWorkers
    <3>1. /\ ses \in Ses /\ conn \in Conn /\ ThreadsTyped
          /\ conn.attempt # 0 /\ ses.wsStream
      BY <2>1, TypeParts DEF LifeInv, StagesTyped, AttemptsCounted, StartWorkers, Raising
    <3>2. ses'.wsStream /\ conn'.attempt = conn.attempt /\ conn.attempt \in Attempt
      BY <2>1, <3>1 DEF StartWorkers, connGoes, Ses, Conn, Attempt
    <3>3. handle'[Ws] = conn.attempt /\ worker'[conn.attempt][Ws] = "run"
      BY <2>1, <3>1, <3>2 DEF StartWorkers, Worker, ThreadsTyped, Threads
    <3> QED
      BY <3>1, <3>2, <3>3 DEF Served, alive
  <2>2. CASE ~StartWorkers
    BY <2>2, ConnectEffect DEF LifeInv, Served, alive
  <2> QED
    BY <2>1, <2>2
<1> QED
  BY <1>2, <1>3, <1>4, <1>5, <1>6, <1>7, <1>8, ConnectStages DEF LifeInv

-----------------------------------------------------------------------------
(* The theorems.                                                            *)

LEMMA LifeInit ==
    ASSUME Init
    PROVE  LifeInv
<1>1. mgr \in Mgr /\ ses \in Ses
  BY DEF Init, Mgr, Ses
<1>2. ThreadsTyped
  <2>1. worker \in Threads /\ handle \in [Worker -> 0..MaxAttempt]
    BY LifecycleAssumption DEF Init, Threads, WorkerPc
  <2>2. \A a \in Attempt, w \in Worker : worker[a][w] = "none"
    BY DEF Init
  <2> QED
    BY <2>1, <2>2 DEF ThreadsTyped, NoneFinalizes, Worker
<1>3. StagesTyped
  <2>1. 0 \in 0..MaxAttempt
    BY LifecycleAssumption
  <2> QED
    BY <2>1 DEF Init, StagesTyped, Conn, ConnPc, Closing, CloserPc, CleanupPc
<1>4. TypeOK
  BY <1>1, <1>2, <1>3, TypeParts DEF Init
<1>5. mgr.registered /\ ~ses.connected /\ ~ses.disconnectStarted /\ ~ses.wsCompletesTeardown
      /\ conn.pc = "idle" /\ heard = 0 /\ cleanup = "none" /\ td = "none"
  BY DEF Init
<1>6. ConnectHolds /\ DownMeanwhile /\ ToldAtMostOnce /\ NothingJoinable /\ AttemptsCounted
      /\ Served
  BY <1>5 DEF ConnectHolds, DownMeanwhile, ToldAtMostOnce, NothingJoinable, AttemptsCounted,
     Served, Holding, Preparing, Raising, Undecided, Dialling
<1>7. IntentWithdrawn
  BY DEF Init, IntentWithdrawn
<1>8. EndsUnregistered
  BY <1>5 DEF Init, EndsUnregistered, Worker
<1> QED
  BY <1>4, <1>6, <1>7, <1>8 DEF LifeInv

LEMMA HeardTyped ==
    ASSUME heard \in {0, 1}, Next
    PROVE  heard' \in 0..2
<1>1. heard' = heard \/ heard' = heard + hears(ses)
  BY DEF Next, ConnectStep, ConnectLookup, ConnectLock, ConnectWait, ConnectTeardown,
         ConnectHook, ConnectBegin, Resolved, TcpConnected, HandshakeDone, DialFails,
         StartWorkers, ConnectReturns, ReleaseFromConnect, WorkerStep, WorkerEnds,
         WorkerDelivers, CallbackReturns, LossDetected, LossSignalled, WsFinalizes,
         ReadFails, WriteFails, WsIoFails, CloseCalled, CloseStep, CloseSignals,
         CloseTries, CloseTaken, DisconnectInternal, CleanupStep, TeardownFinalizes,
         CleanupWaits, DestructorDisconnects, DestructorWaits
<1>2. hears(ses) \in {0, 1}
  BY DEF hears
<1> QED
  BY <1>1, <1>2

LEMMA LifeNext ==
    ASSUME LifeInv, Next
    PROVE  LifeInv'
<1>1. TypeOK /\ AttemptsCounted /\ heard \in {0, 1}
  BY DEF LifeInv, ToldAtMostOnce
<1>2. TypeOK'
  BY <1>1, ManagerKeepsType, FlagsKeepType, ThreadsKeepType, StagesKeepType, HeardTyped,
     TypeParts
<1>3. ASSUME NEW a \in Attempt,
             \/ \E w \in Worker : WorkerStep(a, w)
             \/ WsFinalizes(a) \/ ReadFails(a) \/ WriteFails(a)
      PROVE  LifeInv'
  BY <1>2, <1>3, WorkerKeeps, WsFinalizesKeeps DEF Worker
<1> QED
  BY <1>2, <1>3, ConnectKeeps, CloseKeeps, CalledKeeps, CleanupKeeps DEF Next, Closer

LEMMA LifeInvariant == Spec => []LifeInv
<1>1. Init => LifeInv
  BY LifeInit
<1>2. LifeInv /\ [Next]_vars => LifeInv'
  <2> SUFFICES ASSUME LifeInv, [Next]_vars PROVE LifeInv'
    OBVIOUS
  <2>1. CASE UNCHANGED vars
    BY <2>1 DEF vars, LifeInv, TypeOK, ConnectHolds, IntentWithdrawn, EndsUnregistered,
       DownMeanwhile, ToldAtMostOnce, NothingJoinable, AttemptsCounted, Served, alive
  <2> QED
    BY <2>1, LifeNext
<1> QED
  BY <1>1, <1>2, PTL DEF Spec

\* For any number of I/O workers and connect attempts: connectInternal never
\* assigns a std::thread member that still holds a joinable thread, whatever the
\* attempt before it left behind (session.cpp:1502-1504 after 1579-1632).
THEOREM ThreadsStartSafely == Spec => []ThreadStartSafe
<1>1. LifeInv => ThreadStartSafe
  BY DEF LifeInv, NothingJoinable, Raising, ThreadStartSafe
<1> QED
  BY <1>1, LifeInvariant, PTL

\* The lifecycle keeps its types, and a session that reports connected is not
\* being disconnected, has its stream, and its reader runs until it is told to
\* stop: late losses of detached workers take connections down, never half down
\* (session.cpp:399-422, 1571-1656).
THEOREM ConnectedServed == Spec => []ConnectedIsServed
<1>1. LifeInv => ConnectedIsServed
  BY DEF LifeInv, DownMeanwhile, Served, ConnectedIsServed
<1> QED
  BY <1>1, LifeInvariant, PTL

\* The application hears Disconnected at most once, though four threads announce
\* it and a reconnect lowers the flag that says it was (session.cpp:946-956).
THEOREM HeardOnce == Spec => []DisconnectedOnce
<1>1. LifeInv => DisconnectedOnce
  BY DEF LifeInv, ToldAtMostOnce, DisconnectedOnce
<1> QED
  BY <1>1, LifeInvariant, PTL

\* When the cleanup thread goes on to destroy the session no worker is joinable
\* that still runs, and none is started any more (session_manager.cpp:119-133).
THEOREM CleanupJoined == Spec => []CleanupJoinsWorkers
<1>1. LifeInv => CleanupJoinsWorkers
  BY DEF LifeInv, NothingJoinable, CleanupJoinsWorkers, joins
<1> QED
  BY <1>1, LifeInvariant, PTL

\* No step of anyone raises connected once a close owns the session: a connect
\* that was under way has given up before (session_manager.cpp:42-90, 209-328).
THEOREM StaysDown == Spec => ReleasedStaysDown
<1>1. LifeInv /\ [Next]_vars => [~mgr.registered /\ ~ses.connected => ~ses'.connected]_vars
  <2> SUFFICES ASSUME LifeInv, Next, ~mgr.registered, ~ses.connected
               PROVE  ~ses'.connected
    BY DEF vars
  <2>1. conn.pc \notin Holding
    BY DEF LifeInv, ConnectHolds
  <2>2. ses \in Ses /\ TypeOK
    BY TypeParts DEF LifeInv
  <2>3. CASE ConnectStep
    <3>1. ~StartWorkers
      BY <2>1 DEF StartWorkers, Holding, Raising
    <3> QED
      BY <2>3, <3>1, ConnectEffect
  <2>4. ASSUME NEW a \in Attempt,
               \/ \E w \in Worker : WorkerStep(a, w)
               \/ ReadFails(a) \/ WriteFails(a)
        PROVE  ~ses'.connected
    BY <2>2, <2>4, WorkerEffect DEF FlagsWeaken, Worker
  <2>5. ASSUME NEW a \in Attempt, WsFinalizes(a)
        PROVE  ~ses'.connected
    BY <2>2, <2>5, FinalizedEffect DEF WsFinalizes
  <2>6. ASSUME NEW c \in Closer, CloseStep(c)
        PROVE  ~ses'.connected
    <3>1. CASE CloseSignals(c) \/ CloseTries(c)
      BY <2>2, <3>1, FlagsSet DEF CloseSignals, CloseTries
    <3>2. CASE CloseTaken(c) /\ closer[c].halt
      <4> DEFINE q == [ses EXCEPT !.callbacks = FALSE]
      <4>1. q \in Ses
        BY <2>2 DEF Ses
      <4>2. ses' = Halted(q)
        BY <3>2 DEF CloseTaken
      <4> HIDE DEF q
      <4> QED
        BY <4>1, <4>2, FlagsSet
    <3>3. CASE CloseTaken(c) /\ ~closer[c].halt
      BY <2>2, <3>3, DisconnectEffect DEF CloseTaken
    <3> QED
      BY <2>6, <3>1, <3>2, <3>3 DEF CloseStep
  <2>7. ASSUME NEW c \in Closer, NEW halt, NEW a, CloseCalled(c, halt, a)
        PROVE  ~ses'.connected
    BY <2>7 DEF CloseCalled
  <2>8. CASE CleanupStep
    <3>1. CASE TeardownFinalizes
      BY <2>2, <3>1, FinalizedEffect DEF TeardownFinalizes
    <3>2. CASE CleanupWaits \/ DestructorWaits
      BY <2>2, <3>2, FlagsSet DEF CleanupWaits, DestructorWaits
    <3>3. CASE DestructorDisconnects
      BY <2>2, <3>3, DisconnectEffect DEF DestructorDisconnects
    <3> QED
      BY <2>8, <3>1, <3>2, <3>3 DEF CleanupStep
  <2> QED
    BY <2>3, <2>4, <2>5, <2>6, <2>7, <2>8 DEF Next, Closer
<1> QED
  BY <1>1, LifeInvariant, PTL DEF Spec, ReleasedStaysDown
=============================================================================
