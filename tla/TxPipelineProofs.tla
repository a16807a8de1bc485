-------------------------- MODULE TxPipelineProofs --------------------------
(***************************************************************************)
(* Type correctness of the TX pipeline, that only an Abort leaves the relay *)
(* with an open transmission the application takes to be over, and that a  *)
(* worker at rest agrees with the application, for any threads, commands   *)
(* and capacity.                                                           *)
(***************************************************************************)
EXTENDS TxPipeline, SequenceTheorems, TLAPS

\* No Pcm command lies beyond the first Capacity places of the queue.
PcmWithinCapacity(q) ==
    \A i \in DOMAIN q : q[i] = "Pcm" => i <= Capacity

\* What stays true of the queue when a command is pushed (submitTxInternal).
LEMMA PushKeepsOrder ==
    ASSUME txQueue \in Seq(TxSubmitOp), PcmWithinCapacity(txQueue),
           NEW op \in TxSubmitOp,
           op = "Pcm" => Len(txQueue) < Capacity,
           TxPipelineAssumption
    PROVE  Queued(op) \in Seq(TxSubmitOp) /\ PcmWithinCapacity(Queued(op))
<1> DEFINE q == IF op = "Open" THEN <<>> ELSE txQueue
<1>1. q \in Seq(TxSubmitOp) /\ PcmWithinCapacity(q)
  BY DEF PcmWithinCapacity
<1>2. op = "Pcm" => Len(q) < Capacity
  OBVIOUS
<1>3. Capacity \in Nat
  BY DEF TxPipelineAssumption
<1> HIDE DEF q
<1>4. Append(q, op) \in Seq(TxSubmitOp) /\ PcmWithinCapacity(Append(q, op))
  BY <1>1, <1>2, <1>3 DEF PcmWithinCapacity
<1> QED
  BY <1>4 DEF Queued, q

\* What stays true of the queue when the worker takes a command (txWorkerLoop).
LEMMA TakeKeepsOrder ==
    ASSUME txQueue \in Seq(TxSubmitOp), PcmWithinCapacity(txQueue), txQueue # <<>>,
           TxPipelineAssumption
    PROVE  /\ Head(txQueue) \in TxSubmitOp
           /\ Tail(txQueue) \in Seq(TxSubmitOp) /\ PcmWithinCapacity(Tail(txQueue))
<1>1. Capacity \in Nat
  BY DEF TxPipelineAssumption
<1> QED
  BY <1>1 DEF PcmWithinCapacity

-----------------------------------------------------------------------------
(* TypeOK in two parts, so that a step that leaves the queue alone is a       *)
(* matter of the other variables only.                                        *)

QueueTyped == txQueue \in Seq(TxSubmitOp) /\ PcmWithinCapacity(txQueue)

WorkTyped ==
    /\ worker \in WorkerStep /\ item \in TxSubmitOp \union {"Watchdog"}
    /\ txWorkerStop \in BOOLEAN /\ txWorkerRunning \in BOOLEAN
    /\ txWorkerProcessing \in BOOLEAN

TxTyped ==
    /\ clientTxOpen \in BOOLEAN /\ txOpenAt \in BOOLEAN /\ pcmBuffered \in BOOLEAN
    /\ localTxActive \in BOOLEAN /\ voice \in BOOLEAN /\ cutOff \in BOOLEAN

CallTyped == call \in [Caller -> [step : CallStep, op : TxSubmitOp]]

EndTyped == link \in Link /\ teardown \in TeardownStep /\ terminated \in BOOLEAN

LEMMA TypeParts ==
    /\ TypeOK => QueueTyped /\ WorkTyped /\ TxTyped /\ CallTyped /\ EndTyped
    /\ QueueTyped' /\ WorkTyped' /\ TxTyped' /\ CallTyped' /\ EndTyped' => TypeOK'
BY DEF TypeOK, QueueTyped, PcmWithinCapacity, WorkTyped, TxTyped, CallTyped, EndTyped

\* A part whose variables a step leaves alone keeps its types.
LEMMA PartsKept ==
    /\ UNCHANGED txQueue /\ QueueTyped => QueueTyped'
    /\ UNCHANGED <<worker, item, flags, txWorkerProcessing>> /\ WorkTyped => WorkTyped'
    /\ UNCHANGED txVars /\ TxTyped => TxTyped'
    /\ UNCHANGED call /\ CallTyped => CallTyped'
    /\ UNCHANGED <<link, teardown, terminated>> /\ EndTyped => EndTyped'
BY DEF QueueTyped, PcmWithinCapacity, WorkTyped, TxTyped, CallTyped, EndTyped, flags, txVars

LEMMA EmptyQueue == txQueue' = <<>> => QueueTyped'
<1> SUFFICES ASSUME txQueue' = <<>> PROVE QueueTyped'
  OBVIOUS
<1>1. txQueue' \in Seq(TxSubmitOp) /\ DOMAIN txQueue' = {}
  OBVIOUS
<1> QED
  BY <1>1 DEF QueueTyped, PcmWithinCapacity

\* A caller's step keeps the types (submitTx, waitTxQueueIdle).
LEMMA CallerTyped ==
    ASSUME TypeOK, TxPipelineAssumption, NEW c \in Caller,
           CallerStep(c) \/ EnsureTxWorkerStarted(c)
    PROVE  TypeOK'
<1>1. QueueTyped /\ WorkTyped /\ TxTyped /\ CallTyped /\ EndTyped
  BY TypeParts
<1>2. UNCHANGED txVars /\ UNCHANGED <<link, teardown>>
  BY DEF CallerStep, SubmitTx, SubmitQueue, SubmitRoom, WaitBegin, WaitQuiescent,
         WaitReturn, EnsureTxWorkerStarted
<1>3. TxTyped'
  BY <1>1, <1>2, PartsKept
<1>4. call[c].op \in TxSubmitOp
  BY <1>1 DEF CallTyped
<1>5. \A op \in TxSubmitOp, step \in CallStep :
          call' = [call EXCEPT ![c] = [step |-> step, op |-> op]] => CallTyped'
  BY <1>1 DEF CallTyped
<1>6. \A step \in CallStep : Goto(c, step) => CallTyped'
  BY <1>1 DEF CallTyped, Goto
<1>7. Return(c) => CallTyped'
  BY <1>5 DEF Return, CallStep, TxSubmitOp
<1>8. "submit" \in CallStep /\ "room" \in CallStep /\ "ensure" \in CallStep
      /\ "waiting" \in CallStep /\ "quiet" \in CallStep
  BY DEF CallStep
<1>9. CASE CallerStep(c)
  <2>1. UNCHANGED <<flags, workerVars, terminated>>
    BY <1>9 DEF CallerStep, SubmitTx, SubmitQueue, SubmitRoom, WaitBegin,
                WaitQuiescent, WaitReturn
  <2>2. WorkTyped' /\ EndTyped'
    BY <1>1, <1>2, <2>1, PartsKept DEF workerVars
  <2>3. ASSUME NEW op \in TxSubmitOp, SubmitTx(c, op) PROVE QueueTyped' /\ CallTyped'
    BY <1>1, <1>5, <1>8, <2>3, PartsKept DEF SubmitTx
  <2>4. ASSUME NEW op \in TxSubmitOp, txQueue' = Queued(op), op = "Pcm" => Len(txQueue) < Capacity
        PROVE  QueueTyped'
    BY <1>1, <2>4, PushKeepsOrder DEF QueueTyped
  <2>5. ASSUME SubmitQueue(c) PROVE QueueTyped' /\ CallTyped'
    <3>1. ~(Len(txQueue) >= Capacity) => Len(txQueue) < Capacity
      <4>1. Len(txQueue) \in Nat /\ Capacity \in Nat
        BY <1>1 DEF QueueTyped, TxPipelineAssumption
      <4> QED
        BY <4>1
    <3>2. \/ Return(c) /\ UNCHANGED txQueue
          \/ Goto(c, "room") /\ UNCHANGED txQueue
          \/ Goto(c, "ensure") /\ txQueue' = Queued(call[c].op)
             /\ (call[c].op = "Pcm" => ~(Len(txQueue) >= Capacity))
      BY <2>5 DEF SubmitQueue
    <3>3. ASSUME UNCHANGED txQueue PROVE QueueTyped'
      BY <1>1, <3>3, PartsKept
    <3>4. ASSUME txQueue' = Queued(call[c].op),
                 call[c].op = "Pcm" => ~(Len(txQueue) >= Capacity)
          PROVE  QueueTyped'
      BY <1>4, <2>4, <3>1, <3>4
    <3>5. CallTyped'
      BY <1>6, <1>7, <1>8, <3>2
    <3> QED
      BY <3>2, <3>3, <3>4, <3>5
  <2>6. ASSUME SubmitRoom(c) PROVE QueueTyped' /\ CallTyped'
    <3>1. \/ Return(c) /\ UNCHANGED txQueue
          \/ Goto(c, "ensure") /\ txQueue' = Queued(call[c].op) /\ Len(txQueue) < Capacity
      BY <2>6 DEF SubmitRoom
    <3>2. ASSUME UNCHANGED txQueue PROVE QueueTyped'
      BY <1>1, <3>2, PartsKept
    <3>3. ASSUME txQueue' = Queued(call[c].op), Len(txQueue) < Capacity PROVE QueueTyped'
      BY <1>4, <2>4, <3>3
    <3>4. CallTyped'
      BY <1>6, <1>7, <1>8, <3>1
    <3> QED
      BY <3>1, <3>2, <3>3, <3>4
  <2>7. ASSUME WaitBegin(c) \/ WaitQuiescent(c) \/ WaitReturn(c)
        PROVE  QueueTyped' /\ CallTyped'
    <3>1. UNCHANGED txQueue /\ (Return(c) \/ Goto(c, "waiting") \/ Goto(c, "quiet"))
      BY <2>7 DEF WaitBegin, WaitQuiescent, WaitReturn
    <3> QED
      BY <1>1, <1>6, <1>7, <1>8, <3>1, PartsKept
  <2> QED
    BY <1>3, <1>9, <2>2, <2>3, <2>5, <2>6, <2>7, TypeParts DEF CallerStep
<1>10. CASE EnsureTxWorkerStarted(c)
  <2>1. QueueTyped' /\ CallTyped'
    BY <1>1, <1>7, <1>10, PartsKept DEF EnsureTxWorkerStarted
  <2>2. WorkTyped'
    BY <1>1, <1>10 DEF EnsureTxWorkerStarted, WorkTyped, WorkerStep, flags
  <2>3. EndTyped'
    BY <1>1, <1>10 DEF EnsureTxWorkerStarted, EndTyped
  <2> QED
    BY <1>3, <2>1, <2>2, <2>3, TypeParts
<1> QED
  BY <1>9, <1>10

\* A step of the worker keeps the types (txWorkerLoop, processTxItem).
LEMMA WorkerTyped ==
    ASSUME TypeOK, TxPipelineAssumption, Worker
    PROVE  TypeOK'
<1>1. QueueTyped /\ WorkTyped /\ TxTyped /\ CallTyped /\ EndTyped
  BY TypeParts
<1>2. UNCHANGED <<link, call, flags, teardown, terminated>>
  BY DEF Worker
<1>3. CallTyped' /\ EndTyped'
  BY <1>1, <1>2, PartsKept
<1>4. QueueTyped'
  <2>1. CASE WorkerTake
    BY <1>1, <2>1, TakeKeepsOrder DEF QueueTyped, WorkerTake
  <2>2. CASE UNCHANGED txQueue
    BY <1>1, <2>2, PartsKept
  <2>3. CASE txQueue' = <<>>
    BY <2>3, EmptyQueue
  <2>4. WorkerTake \/ UNCHANGED txQueue \/ txQueue' = <<>>
    BY DEF Worker, WorkerExit, WorkerWatchdog, WorkerProcess, WorkerDone, TxEnd, TxEof,
           TxEofBurst, EndLocalTx, TxStart, BeginLocalTx, TxVoice, TxAbort, TxAborted
  <2> QED
    BY <2>1, <2>2, <2>3, <2>4
<1>5. item' \in TxSubmitOp \union {"Watchdog"}
  <2>1. CASE WorkerTake
    BY <1>1, <2>1, TakeKeepsOrder DEF QueueTyped, WorkerTake
  <2>2. item' \in {item, "Watchdog", "Abort"} \/ WorkerTake
    BY DEF Worker, WorkerExit, WorkerWatchdog, WorkerProcess, WorkerDone, TxEnd, TxEof,
           TxEofBurst, EndLocalTx, TxStart, BeginLocalTx, TxVoice, TxAbort, TxAborted
  <2> QED
    BY <1>1, <2>1, <2>2 DEF WorkTyped, TxSubmitOp
<1>6. worker' \in WorkerStep /\ txWorkerProcessing' \in BOOLEAN /\ TxTyped'
  <2> USE <1>1 DEF WorkTyped, TxTyped, WorkerStep, Processing, txVars
  <2>1. CASE WorkerTake \/ WorkerExit \/ WorkerWatchdog
    BY <2>1 DEF WorkerTake, WorkerExit, WorkerWatchdog
  <2>2. CASE WorkerProcess \/ WorkerDone
    BY <2>2 DEF WorkerProcess, WorkerDone
  <2>3. AfterEnd => worker' \in {"start", "loop", "done"} /\ txOpenAt' \in BOOLEAN
    BY DEF AfterEnd
  <2>4. CASE TxEnd
    <3>1. voice' \in BOOLEAN /\ pcmBuffered' \in BOOLEAN /\ clientTxOpen' \in BOOLEAN
      BY <2>4 DEF TxEnd, Flushed
    <3>2. worker' \in WorkerStep /\ txOpenAt' \in BOOLEAN
      BY <2>3, <2>4 DEF TxEnd
    <3> QED
      BY <2>4, <3>1, <3>2 DEF TxEnd
  <2>5. CASE TxEof
    BY <2>3, <2>5 DEF TxEof
  <2>6. CASE TxEofBurst
    BY <2>6 DEF TxEofBurst
  <2>7. CASE EndLocalTx
    BY <2>3, <2>7 DEF EndLocalTx
  <2>8. CASE TxStart
    BY <2>8 DEF TxStart
  <2>9. CASE BeginLocalTx
    BY <2>9 DEF BeginLocalTx
  <2>10. CASE TxVoice
    <3>1. voice' \in BOOLEAN /\ pcmBuffered' \in BOOLEAN
      BY <2>10 DEF TxVoice, Flushed
    <3> QED
      BY <2>10, <3>1 DEF TxVoice
  <2>11. CASE TxAbort
    BY <2>11 DEF TxAbort
  <2>12. CASE TxAborted
    BY <2>12 DEF TxAborted, EndAborted
  <2> QED
    BY <2>1, <2>2, <2>4, <2>5, <2>6, <2>7, <2>8, <2>9, <2>10, <2>11, <2>12 DEF Worker
<1>7. WorkTyped'
  BY <1>1, <1>2, <1>5, <1>6 DEF WorkTyped, flags
<1> QED
  BY <1>3, <1>4, <1>6, <1>7, TypeParts

\* A step of a teardown or a connect keeps the types (stopTxPipeline and callers).
LEMMA TransportTyped ==
    ASSUME TypeOK, StopTxPipeline \/ Transport
    PROVE  TypeOK'
<1>1. QueueTyped /\ WorkTyped /\ TxTyped /\ CallTyped /\ EndTyped
  BY TypeParts
<1>2. UNCHANGED <<call, terminated>>
  BY DEF StopTxPipeline, Transport
<1>3. CallTyped'
  BY <1>1, <1>2, PartsKept
<1>4. QueueTyped'
  <2>1. UNCHANGED txQueue \/ txQueue' = <<>>
    BY DEF StopTxPipeline, Transport, StopJoinable, StopJoin, StopNotRunning, StopLower,
           StopClear, StopEnd, HaltTransport, StopFlag, Connect
  <2> QED
    BY <1>1, <2>1, PartsKept, EmptyQueue
<1>5. WorkTyped'
  <2>1. CASE StopJoin \/ StopNotRunning \/ StopLower \/ StopFlag
    BY <1>1, <2>1 DEF WorkTyped, WorkerStep, StopJoin, StopNotRunning, StopLower,
                      StopFlag, flags, workerVars
  <2>2. CASE UNCHANGED <<flags, workerVars>>
    BY <1>1, <2>2, PartsKept DEF workerVars
  <2> QED
    BY <2>1, <2>2 DEF StopTxPipeline, Transport, StopJoinable, StopClear, StopEnd,
                      HaltTransport, Connect
<1>6. TxTyped'
  <2>1. CASE StopClear \/ StopEnd \/ HaltTransport \/ Connect
    BY <1>1, <2>1 DEF TxTyped, StopClear, EndAborted, StopEnd, HaltTransport, Connect
  <2>2. CASE UNCHANGED txVars
    BY <1>1, <2>2, PartsKept
  <2> QED
    BY <2>1, <2>2 DEF StopTxPipeline, Transport, StopJoinable, StopJoin,
                      StopNotRunning, StopLower, StopFlag
<1>7. EndTyped'
  <2>1. link' \in Link
    BY <1>1 DEF EndTyped, Link, StopTxPipeline, Transport, StopJoinable, StopJoin,
           StopNotRunning, StopLower, StopClear, StopEnd, HaltTransport, StopFlag, Connect
  <2>2. teardown' \in TeardownStep
    BY <1>1 DEF EndTyped, TeardownStep, StopTxPipeline, Transport, StopJoinable, StopJoin,
           StopNotRunning, StopLower, StopClear, StopEnd, HaltTransport, StopFlag, Connect
  <2> QED
    BY <1>1, <1>2, <2>1, <2>2 DEF EndTyped
<1> QED
  BY <1>3, <1>4, <1>5, <1>6, <1>7, TypeParts

\* Whatever threads submit whatever commands, the variables keep their types
\* and no Pcm command is queued beyond kTxQueueCapacity (submitTxInternal).
THEOREM TxTypeCorrect == Spec => []TypeOK
<1>1. Init => TypeOK
  <2> SUFFICES ASSUME Init PROVE TypeOK
    OBVIOUS
  <2>1. txQueue \in Seq(TxSubmitOp) /\ DOMAIN txQueue = {}
    BY DEF Init
  <2>2. call \in [Caller -> [step : CallStep, op : TxSubmitOp]]
    BY DEF Init, CallStep, TxSubmitOp
  <2> QED
    BY <2>1, <2>2 DEF Init, TypeOK, Link, TxSubmitOp, WorkerStep, TeardownStep
<1>2. TypeOK /\ [Next]_vars => TypeOK'
  <2> SUFFICES ASSUME TypeOK, [Next]_vars PROVE TypeOK'
    OBVIOUS
  <2>1. CASE UNCHANGED vars
    BY <2>1 DEF TypeOK, vars, flags, workerVars, txVars
  <2>2. CASE Next
    BY <2>2, CallerTyped, WorkerTyped, TransportTyped, TxPipelineAssumption DEF Next
  <2> QED
    BY <2>1, <2>2
<1> QED
  BY <1>1, <1>2, PTL DEF Spec
-----------------------------------------------------------------------------
(* VoiceIsClosed is not inductive: it says nothing of the steps in which the *)
(* worker closes a transmission, nor of a transport that is torn down        *)
(* meanwhile.                                                                *)

\* The relay has forgotten a client that is down; the worker has cleared
\* clientTxOpen before it sends the EOF markers and LocalTxEnd, and the
\* application is told of an open transmission as soon as Open is carried out.
\* Between the two transmissions the relay hears only what an Abort left open.
VoiceInv ==
    /\ teardown # "idle" => link # "up"
    /\ link # "up" => ~voice
    /\ worker \in {"eof", "burst", "endLocal"} => ~clientTxOpen
    /\ clientTxOpen /\ worker # "begin" => localTxActive
    /\ worker = "start" /\ voice => cutOff
    /\ worker = "begin" /\ voice => cutOff /\ clientTxOpen
    /\ voice => \/ cutOff
                \/ localTxActive /\ (clientTxOpen \/ worker \in {"eof", "burst"})

\* The closing of a transmission, as the worker does it (processTxItem).
LEMMA WorkerVoice ==
    ASSUME TypeOK, VoiceInv, Worker
    PROVE  VoiceInv'
<1> USE DEF VoiceInv, TypeOK, txVars
<1>0. UNCHANGED <<link, teardown>>
  BY DEF Worker
<1>1. CASE WorkerTake
  BY <1>0, <1>1 DEF WorkerTake
<1>2. CASE WorkerExit
  BY <1>0, <1>2 DEF WorkerExit
<1>3. CASE WorkerWatchdog
  BY <1>0, <1>3 DEF WorkerWatchdog
<1>4. CASE WorkerProcess
  BY <1>0, <1>4 DEF WorkerProcess
<1>5. CASE WorkerDone
  BY <1>0, <1>5 DEF WorkerDone
<1>6. CASE TxEnd
  BY <1>0, <1>6 DEF TxEnd, AfterEnd, Flushed
<1>7. CASE TxEof
  BY <1>0, <1>7 DEF TxEof, AfterEnd
<1>8. CASE TxEofBurst
  BY <1>0, <1>8 DEF TxEofBurst
<1>9. CASE EndLocalTx
  BY <1>0, <1>9 DEF EndLocalTx, AfterEnd
<1>10. CASE TxStart
  BY <1>0, <1>10 DEF TxStart
<1>11. CASE BeginLocalTx
  BY <1>0, <1>11 DEF BeginLocalTx
<1>12. CASE TxVoice
  BY <1>0, <1>12 DEF TxVoice, Flushed
<1>13. CASE TxAbort
  BY <1>0, <1>13 DEF TxAbort
<1>14. CASE TxAborted
  BY <1>0, <1>14 DEF TxAborted, EndAborted
<1> QED
  BY <1>1, <1>2, <1>3, <1>4, <1>5, <1>6, <1>7, <1>8,
     <1>9, <1>10, <1>11, <1>12, <1>13, <1>14 DEF Worker

\* The same across a loss of the connection, a teardown and a reconnect.
LEMMA TransportVoice ==
    ASSUME TypeOK, VoiceInv, StopTxPipeline \/ Transport
    PROVE  VoiceInv'
<1> USE DEF VoiceInv, TypeOK, txVars, workerVars
<1>1. CASE StopJoinable
  BY <1>1 DEF StopJoinable
<1>2. CASE StopJoin
  BY <1>2 DEF StopJoin
<1>3. CASE StopNotRunning
  BY <1>3 DEF StopNotRunning
<1>4. CASE StopLower
  BY <1>4 DEF StopLower
<1>5. CASE StopClear
  BY <1>5 DEF StopClear, EndAborted
<1>6. CASE StopEnd
  BY <1>6 DEF StopEnd
<1>7. CASE HaltTransport
  BY <1>7 DEF HaltTransport
<1>8. CASE StopFlag
  BY <1>8 DEF StopFlag
<1>9. CASE Connect
  BY <1>9 DEF Connect
<1> QED
  BY <1>1, <1>2, <1>3, <1>4, <1>5, <1>6, <1>7, <1>8, <1>9 DEF StopTxPipeline, Transport

\* A submission touches the worker only to start it.
LEMMA CallerVoice ==
    ASSUME TypeOK, VoiceInv, NEW c \in Caller,
           CallerStep(c) \/ EnsureTxWorkerStarted(c)
    PROVE  VoiceInv'
<1>1. UNCHANGED <<link, teardown, txVars>>
  BY DEF CallerStep, SubmitTx, SubmitQueue, SubmitRoom, WaitBegin, WaitQuiescent,
         WaitReturn, EnsureTxWorkerStarted
<1>2. worker' = worker \/ (worker = "none" /\ worker' = "loop")
  BY DEF CallerStep, SubmitTx, SubmitQueue, SubmitRoom, WaitBegin, WaitQuiescent,
         WaitReturn, EnsureTxWorkerStarted, workerVars
<1> QED
  BY <1>1, <1>2 DEF VoiceInv, TypeOK, txVars

\* However submissions, the worker, its watchdog and a teardown interleave, the
\* relay is sent the EOF marker of a transmission before the application is told
\* that it ended, unless an Abort ended it (sendTxEofBurstInternal,
\* abortTxInternal, stopTxPipeline).
THEOREM TransmissionsClosed == Spec => []VoiceIsClosed
<1>1. Init => VoiceInv
  BY DEF Init, VoiceInv
<1>2. TypeOK /\ VoiceInv /\ [Next]_vars => VoiceInv'
  <2> SUFFICES ASSUME TypeOK, VoiceInv, [Next]_vars PROVE VoiceInv'
    OBVIOUS
  <2>1. CASE UNCHANGED vars
    BY <2>1 DEF VoiceInv, vars, workerVars, txVars
  <2>2. CASE Next
    BY <2>2, CallerVoice, WorkerVoice, TransportVoice DEF Next
  <2> QED
    BY <2>1, <2>2
<1>3. VoiceInv => VoiceIsClosed
  BY DEF VoiceInv, VoiceIsClosed, AtRest
<1> QED
  BY <1>1, <1>2, <1>3, TxTypeCorrect, PTL DEF Spec

-----------------------------------------------------------------------------
(* TxStateAgrees speaks of a worker at rest.  In between it closes one       *)
(* transmission and opens the next, and a worker that is started while the   *)
(* transport is torn down goes on into the next connection.                  *)

Opening == worker = "begin"
Closing == worker \in {"eof", "burst", "endLocal"}

\* Once a teardown has joined the worker, one that is started again neither
\* opens nor closes a transmission before the next connection.
JoinedIsQuiet ==
    link \in {"cleared", "fresh"} \/ teardown \in {"joined", "lowered", "clearing", "ending"}
        => ~Opening /\ ~Closing

\* reconnectTeardown and finalizeTransportTeardown leave no transmission behind.
FreshIsClosed == link = "fresh" => ~clientTxOpen /\ ~localTxActive /\ ~pcmBuffered

\* On a connected session the three places agree at every step but the ones
\* that bring them from one transmission to the next.
Agreed ==
    /\ localTxActive = clientTxOpen
    /\ clientTxOpen => txOpenAt
    /\ pcmBuffered => clientTxOpen

UpAgrees ==
    link = "up" =>
        /\ teardown = "idle"
        /\ Opening => clientTxOpen /\ ~pcmBuffered
        /\ Closing => ~clientTxOpen /\ ~pcmBuffered
        /\ ~Opening /\ ~Closing => Agreed
        /\ worker = "aborted" => ~pcmBuffered

TxInv == TxTyped /\ JoinedIsQuiet /\ FreshIsClosed /\ UpAgrees

\* The worker takes the transmission from one agreement to the next (processTxItem).
LEMMA WorkerAgrees ==
    ASSUME TxInv, TxTyped', Worker
    PROVE  TxInv'
<1> USE DEF TxInv, TxTyped, JoinedIsQuiet, FreshIsClosed, UpAgrees, Agreed, Opening,
            Closing, txVars
<1>0. UNCHANGED <<link, teardown>>
  BY DEF Worker
<1>1. CASE WorkerTake \/ WorkerExit \/ WorkerWatchdog \/ WorkerDone
  BY <1>0, <1>1 DEF WorkerTake, WorkerExit, WorkerWatchdog, WorkerDone
<1>2. CASE WorkerProcess
  <2>1. worker' \in {"end", "start", "abort", "voice"} /\ worker = "taken"
    BY <1>2 DEF WorkerProcess
  <2>2. UNCHANGED txVars
    BY <1>2 DEF WorkerProcess
  <2> QED
    BY <1>0, <2>1, <2>2
<1>3. AfterEnd => worker' \in {"start", "loop", "done"}
  BY DEF AfterEnd
<1>4. CASE TxEnd
  <2>1. CASE link = "up" /\ clientTxOpen
    BY <1>0, <1>4, <2>1 DEF TxEnd
  <2>2. CASE ~(link = "up" /\ clientTxOpen)
    BY <1>0, <1>3, <1>4, <2>2 DEF TxEnd
  <2> QED
    BY <2>1, <2>2
<1>5. CASE TxEof
  BY <1>0, <1>3, <1>5 DEF TxEof
<1>6. CASE TxEofBurst
  BY <1>0, <1>6 DEF TxEofBurst
<1>7. CASE EndLocalTx
  BY <1>0, <1>3, <1>7 DEF EndLocalTx
<1>8. CASE TxStart
  BY <1>0, <1>8 DEF TxStart
<1>9. CASE BeginLocalTx
  BY <1>0, <1>9 DEF BeginLocalTx
<1>10. CASE TxVoice
  <2>1. ~clientTxOpen => UNCHANGED pcmBuffered
    BY <1>10 DEF TxVoice
  <2>2. worker = "voice" /\ worker' = "done"
        /\ UNCHANGED <<clientTxOpen, txOpenAt, localTxActive>>
    BY <1>10 DEF TxVoice
  <2> QED
    BY <1>0, <2>1, <2>2
<1>11. CASE TxAbort
  BY <1>0, <1>11 DEF TxAbort
<1>12. CASE TxAborted
  BY <1>0, <1>12 DEF TxAborted, EndAborted
<1> QED
  BY <1>1, <1>2, <1>4, <1>5, <1>6, <1>7, <1>8, <1>9, <1>10, <1>11, <1>12 DEF Worker

\* A teardown, a lost connection and a connect (stopTxPipeline and its callers).
LEMMA TransportAgrees ==
    ASSUME TxInv, TxTyped', StopTxPipeline \/ Transport
    PROVE  TxInv'
<1> USE DEF TxInv, TxTyped, JoinedIsQuiet, FreshIsClosed, UpAgrees, Agreed, Opening,
            Closing, txVars, workerVars
<1>1. CASE StopJoinable
  BY <1>1 DEF StopJoinable
<1>2. CASE StopJoin
  BY <1>2 DEF StopJoin
<1>3. CASE StopNotRunning
  BY <1>3 DEF StopNotRunning
<1>4. CASE StopLower
  BY <1>4 DEF StopLower
<1>5. CASE StopClear
  BY <1>5 DEF StopClear, EndAborted
<1>6. CASE StopEnd
  BY <1>6 DEF StopEnd
<1>7. CASE HaltTransport
  BY <1>7 DEF HaltTransport
<1>8. CASE StopFlag
  BY <1>8 DEF StopFlag
<1>9. CASE Connect
  BY <1>9 DEF Connect
<1> QED
  BY <1>1, <1>2, <1>3, <1>4, <1>5, <1>6, <1>7, <1>8, <1>9 DEF StopTxPipeline, Transport

\* A submission touches the worker only to start it.
LEMMA CallerAgrees ==
    ASSUME TxInv, NEW c \in Caller, CallerStep(c) \/ EnsureTxWorkerStarted(c)
    PROVE  TxInv'
<1>1. UNCHANGED <<link, teardown, txVars>>
  BY DEF CallerStep, SubmitTx, SubmitQueue, SubmitRoom, WaitBegin, WaitQuiescent,
         WaitReturn, EnsureTxWorkerStarted
<1>2. worker' = worker \/ (worker = "none" /\ worker' = "loop")
  BY DEF CallerStep, SubmitTx, SubmitQueue, SubmitRoom, WaitBegin, WaitQuiescent,
         WaitReturn, EnsureTxWorkerStarted, workerVars
<1> QED
  BY <1>1, <1>2 DEF TxInv, TxTyped, JoinedIsQuiet, FreshIsClosed, UpAgrees, Agreed,
                    Opening, Closing, txVars

\* Whatever is queued, aborted, cut off by the watchdog or torn down in the
\* middle, a connected session whose worker rests agrees with its application
\* on whether a transmission is open, guards it with the watchdog and keeps no
\* samples of an earlier one (processTxItem, stopTxPipeline).
THEOREM TxStatesAgree == Spec => []TxStateAgrees
<1>1. Init => TxInv
  BY DEF Init, TxInv, TxTyped, JoinedIsQuiet, FreshIsClosed, UpAgrees, Agreed,
         Opening, Closing
<1>2. TypeOK' => TxTyped'
  BY DEF TypeOK, TxTyped
<1>3. TypeOK' /\ TxInv /\ [Next]_vars => TxInv'
  <2> SUFFICES ASSUME TypeOK', TxInv, [Next]_vars PROVE TxInv'
    OBVIOUS
  <2>1. CASE UNCHANGED vars
    BY <2>1 DEF TxInv, TxTyped, JoinedIsQuiet, FreshIsClosed, UpAgrees, Agreed,
                Opening, Closing, vars, workerVars, txVars
  <2>2. CASE Next
    BY <1>2, <2>2, CallerAgrees, WorkerAgrees, TransportAgrees DEF Next
  <2> QED
    BY <2>1, <2>2
<1>4. TxInv => TxStateAgrees
  BY DEF TxInv, UpAgrees, Agreed, Opening, Closing, TxStateAgrees, AtRest
<1> QED
  BY <1>1, <1>3, <1>4, TxTypeCorrect, PTL DEF Spec
=============================================================================
