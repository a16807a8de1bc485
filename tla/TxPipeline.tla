----------------------------- MODULE TxPipeline -----------------------------
(***************************************************************************)
(* The uplink command queue of one owalkie-core Session (session.cpp):     *)
(* submitTx called by the application's threads, the TX worker thread that *)
(* carries the commands out, its open-transmission watchdog, and           *)
(* stopTxPipeline, which every teardown of the transport runs.             *)
(*                                                                         *)
(* txQueueMu guards the queue only.  txWorkerStop, txWorkerRunning,        *)
(* txWorkerProcessing and the thread handle are read and written outside   *)
(* it, so every such access is a step of its own.  A command is its        *)
(* TxSubmitOp; its samples are left out, apart from whether txPcmBuffer    *)
(* holds an unfinished frame.  The watchdog's two seconds, pacing and the  *)
(* 400 ms a Pcm command waits for room are left to choice.                 *)
(***************************************************************************)
EXTENDS Naturals, Sequences

CONSTANTS
    Caller,      \* the application's threads
    Submits,     \* the commands each of them submits
    Waiters,     \* those that call waitTxQueueIdle
    Capacity,    \* kTxQueueCapacity
    Backlog      \* bound: no submission begins with this many commands queued

TxSubmitOp == {"Open", "Pcm", "Opus", "VoiceEnd", "Close", "Abort"}

ASSUME TxPipelineAssumption ==
    /\ Submits \in [Caller -> SUBSET TxSubmitOp]
    /\ Waiters \subseteq Caller
    /\ Capacity \in Nat \ {0} /\ Backlog \in Nat \ {0}

VARIABLES
    link,                  \* connected is link = "up"
    call,                  \* where each caller is in submitTx or waitTxQueueIdle
    txQueue, txWorkerStop, txWorkerRunning, txWorkerProcessing,
    worker,                \* the worker's next step; joinable is worker # "none"
    item,                  \* what it is carrying out
    teardown,              \* the next step of the teardown thread
    clientTxOpen,
    txOpenAt,              \* txOpenAtNs > 0: the watchdog is armed
    pcmBuffered,           \* txPcmBuffer is not empty
    localTxActive,         \* what LocalTxStart and LocalTxEnd told the application
    voice,                 \* the relay got audio and no EOF marker after it
    cutOff,                \* history: an Abort ended the transmission in that state
    terminated             \* std::terminate was called

flags == <<txWorkerStop, txWorkerRunning>>
txVars == <<clientTxOpen, txOpenAt, pcmBuffered, localTxActive, voice, cutOff>>
workerVars == <<txWorkerProcessing, worker, item>>
vars == <<link, call, txQueue, flags, workerVars, teardown, txVars, terminated>>

Link == {"up", "down", "cleared", "fresh"}
CallStep == {"idle", "submit", "room", "ensure", "waiting", "quiet"}
Processing == {"start", "begin", "end", "eof", "burst", "endLocal", "voice",
               "abort", "aborted", "done"}
WorkerStep == {"none", "loop", "taken", "exited"} \union Processing
TeardownStep == {"idle", "flagged", "joining", "joined", "lowered", "clearing", "ending"}

\* Pcm commands are the ones that wait for room: none lies beyond kTxQueueCapacity.
TypeOK ==
    /\ link \in Link
    /\ call \in [Caller -> [step : CallStep, op : TxSubmitOp]]
    /\ txQueue \in Seq(TxSubmitOp)
    /\ \A i \in DOMAIN txQueue : txQueue[i] = "Pcm" => i <= Capacity
    /\ txWorkerStop \in BOOLEAN /\ txWorkerRunning \in BOOLEAN
    /\ txWorkerProcessing \in BOOLEAN
    /\ worker \in WorkerStep
    /\ item \in TxSubmitOp \union {"Watchdog"}
    /\ teardown \in TeardownStep
    /\ clientTxOpen \in BOOLEAN /\ txOpenAt \in BOOLEAN /\ pcmBuffered \in BOOLEAN
    /\ localTxActive \in BOOLEAN /\ voice \in BOOLEAN /\ cutOff \in BOOLEAN
    /\ terminated \in BOOLEAN

\* A session that has just connected for the first time.
Init ==
    /\ link = "up"
    /\ call = [c \in Caller |-> [step |-> "idle", op |-> "Abort"]]
    /\ txQueue = <<>>
    /\ txWorkerStop = FALSE /\ txWorkerRunning = FALSE
    /\ txWorkerProcessing = FALSE
    /\ worker = "none" /\ item = "Abort"
    /\ teardown = "idle"
    /\ clientTxOpen = FALSE /\ txOpenAt = FALSE /\ pcmBuffered = FALSE
    /\ localTxActive = FALSE /\ voice = FALSE /\ cutOff = FALSE
    /\ terminated = FALSE

-----------------------------------------------------------------------------
(* submitTx, on a caller's thread. *)

Goto(c, step) == call' = [call EXCEPT ![c].step = step]
Return(c) == call' = [call EXCEPT ![c] = [step |-> "idle", op |-> "Abort"]]

\* The checks before the lock: only an Abort is taken from a session that is down.
SubmitTx(c, op) ==
    /\ call[c].step = "idle"
    /\ op \in Submits[c]
    /\ Len(txQueue) < Backlog
    /\ op = "Abort" \/ link = "up"
    /\ call' = [call EXCEPT ![c] = [step |-> "submit", op |-> op]]
    /\ UNCHANGED <<link, txQueue, flags, workerVars, teardown, txVars>>

\* Open throws away what is queued.
Queued(op) == Append(IF op = "Open" THEN <<>> ELSE txQueue, op)

\* Under txQueueMu.  A Pcm command that finds no room waits, and the stop flag
\* is not looked at again after the wait.
SubmitQueue(c) ==
    LET op == call[c].op IN
    /\ call[c].step = "submit"
    /\ \/ /\ txWorkerStop /\ op # "Abort"
          /\ Return(c)
          /\ UNCHANGED txQueue
       \/ /\ ~txWorkerStop \/ op = "Abort"
          /\ IF op = "Pcm" /\ Len(txQueue) >= Capacity
             THEN Goto(c, "room") /\ UNCHANGED txQueue
             ELSE Goto(c, "ensure") /\ txQueue' = Queued(op)
    /\ UNCHANGED <<link, flags, workerVars, teardown, txVars>>

\* Mutant of SubmitRoom: when the time is over the command is queued all the same.
SubmitRoomAnyway(c) ==
    /\ call[c].step = "room"
    /\ txQueue' = Queued(call[c].op)
    /\ Goto(c, "ensure")
    /\ UNCHANGED <<link, flags, workerVars, teardown, txVars>>

SubmitRoom(c) ==
    /\ call[c].step = "room"
    /\ \/ /\ Len(txQueue) < Capacity
          /\ txQueue' = Queued(call[c].op)
          /\ Goto(c, "ensure")
       \/ /\ Len(txQueue) >= Capacity      \* QueueFull
          /\ Return(c)
          /\ UNCHANGED txQueue
    /\ UNCHANGED <<link, flags, workerVars, teardown, txVars>>

\* Mutant of EnsureTxWorkerStarted: the stop flag is lowered before the test.
EnsureLowersFirst(c) ==
    /\ call[c].step = "ensure"
    /\ Return(c)
    /\ txWorkerStop' = FALSE
    /\ IF txWorkerRunning
       THEN UNCHANGED <<txWorkerRunning, worker, terminated>>
       ELSE IF worker = "none"
            THEN worker' = "loop" /\ txWorkerRunning' = TRUE /\ UNCHANGED terminated
            ELSE terminated' = TRUE /\ UNCHANGED <<worker, txWorkerRunning>>
    /\ UNCHANGED <<link, txQueue, txWorkerProcessing, item, teardown, txVars>>

\* ensureTxWorkerStarted, outside the lock the command was queued under.
\* Assigning a std::thread to a joinable one ends the process.
EnsureTxWorkerStarted(c) ==
    /\ call[c].step = "ensure"
    /\ Return(c)
    /\ IF txWorkerRunning
       THEN UNCHANGED <<flags, worker, terminated>>
       ELSE /\ txWorkerStop' = FALSE
            /\ IF worker = "none"
               THEN worker' = "loop" /\ txWorkerRunning' = TRUE /\ UNCHANGED terminated
               ELSE terminated' = TRUE /\ UNCHANGED <<worker, txWorkerRunning>>
    /\ UNCHANGED <<link, txQueue, txWorkerProcessing, item, teardown, txVars>>

\* waitTxQueueIdle: the predicate is evaluated under txQueueMu.
WaitBegin(c) ==
    /\ c \in Waiters
    /\ call[c].step = "idle"
    /\ Goto(c, "waiting")
    /\ UNCHANGED <<link, txQueue, flags, workerVars, teardown, txVars>>

WaitQuiescent(c) ==
    /\ call[c].step = "waiting"
    /\ txQueue = <<>>
    /\ ~txWorkerProcessing
    /\ Goto(c, "quiet")
    /\ UNCHANGED <<link, txQueue, flags, workerVars, teardown, txVars>>

\* It returns true, or the time is over.
WaitReturn(c) ==
    /\ call[c].step \in {"waiting", "quiet"}
    /\ Return(c)
    /\ UNCHANGED <<link, txQueue, flags, workerVars, teardown, txVars>>

CallerStep(c) ==
    /\ \/ \E op \in TxSubmitOp : SubmitTx(c, op)
       \/ SubmitQueue(c) \/ SubmitRoom(c)
       \/ WaitBegin(c) \/ WaitQuiescent(c) \/ WaitReturn(c)
    /\ UNCHANGED terminated

-----------------------------------------------------------------------------
(* The worker thread: txWorkerLoop and processTxItem. *)

WorkerTake ==
    /\ worker = "loop"
    /\ txQueue # <<>>
    /\ item' = Head(txQueue)
    /\ txQueue' = Tail(txQueue)
    /\ worker' = "taken"
    /\ UNCHANGED <<txWorkerProcessing, txVars>>

\* The stop flag is obeyed only when the queue is empty.
WorkerExit ==
    /\ worker = "loop"
    /\ txQueue = <<>> /\ txWorkerStop
    /\ worker' = "exited"
    /\ UNCHANGED <<txQueue, txWorkerProcessing, item, txVars>>

\* Mutant of WorkerWatchdog: the transmission is closed without an EOF marker.
WorkerWatchdogSilent ==
    /\ worker = "loop"
    /\ txQueue = <<>> /\ ~txWorkerStop
    /\ clientTxOpen /\ txOpenAt
    /\ clientTxOpen' = FALSE /\ txOpenAt' = FALSE
    /\ localTxActive' = FALSE /\ pcmBuffered' = FALSE
    /\ UNCHANGED <<txQueue, txWorkerProcessing, worker, item, voice, cutOff>>

\* Two seconds without activity; txEndInternal runs after the lock is released.
WorkerWatchdog ==
    /\ worker = "loop"
    /\ txQueue = <<>> /\ ~txWorkerStop
    /\ clientTxOpen /\ txOpenAt
    /\ item' = "Watchdog"
    /\ worker' = "end"
    /\ UNCHANGED <<txQueue, txWorkerProcessing, txVars>>

WorkerProcess ==
    /\ worker = "taken"
    /\ txWorkerProcessing' = TRUE
    /\ worker' = CASE item = "Open" -> IF clientTxOpen THEN "end" ELSE "start"
                   [] item = "Close" -> "end"
                   [] item = "Abort" -> "abort"
                   [] OTHER -> "voice"
    /\ UNCHANGED <<txQueue, item, txVars>>

\* What follows txEndInternal, whatever it returned.
AfterEnd ==
    IF item = "Open"
    THEN worker' = "start" /\ UNCHANGED txOpenAt
    ELSE /\ worker' = IF item = "Watchdog" THEN "loop" ELSE "done"
         /\ txOpenAt' = FALSE

\* flushTxPcmBuffer: an unfinished frame is padded and sent, unless the encoder
\* refuses it.
Flushed == {FALSE, pcmBuffered}

\* txEndInternal up to sendTxEofBurst.
TxEnd ==
    /\ worker = "end"
    /\ IF link = "up" /\ clientTxOpen
       THEN /\ \E sent \in Flushed : voice' = (voice \/ sent)
            /\ pcmBuffered' = FALSE
            /\ clientTxOpen' = FALSE
            /\ worker' = "eof"
            /\ UNCHANGED txOpenAt
       ELSE AfterEnd /\ UNCHANGED <<voice, pcmBuffered, clientTxOpen>>
    /\ UNCHANGED <<txQueue, txWorkerProcessing, item, localTxActive, cutOff>>

\* sendTxEofBurst returns before endLocalTxIfNeeded if the connection is gone.
TxEof ==
    /\ worker = "eof"
    /\ IF link = "up" THEN worker' = "burst" /\ UNCHANGED txOpenAt ELSE AfterEnd
    /\ UNCHANGED <<txQueue, txWorkerProcessing, item, clientTxOpen, pcmBuffered,
                   localTxActive, voice, cutOff>>

\* The markers of the burst; none is sent once stopRequested is set.
TxEofBurst ==
    /\ worker = "burst"
    /\ voice' = (voice /\ link # "up")
    /\ worker' = "endLocal"
    /\ UNCHANGED <<txQueue, txWorkerProcessing, item, clientTxOpen, txOpenAt,
                   pcmBuffered, localTxActive, cutOff>>

EndLocalTx ==
    /\ worker = "endLocal"
    /\ localTxActive' = FALSE
    /\ AfterEnd
    /\ UNCHANGED <<txQueue, txWorkerProcessing, item, clientTxOpen, pcmBuffered, voice,
                   cutOff>>

\* txStartInternal and, whatever it returned, the rest of Open.
TxStart ==
    /\ worker = "start"
    /\ IF link = "up"
       THEN /\ pcmBuffered' = FALSE
            /\ clientTxOpen' = TRUE
            /\ worker' = "begin"
            /\ UNCHANGED txOpenAt
       ELSE txOpenAt' = TRUE /\ worker' = "done" /\ UNCHANGED <<pcmBuffered, clientTxOpen>>
    /\ UNCHANGED <<txQueue, txWorkerProcessing, item, localTxActive, voice, cutOff>>

\* Mutant of BeginLocalTx: the watchdog is not armed.
BeginUnwatched ==
    /\ worker = "begin"
    /\ localTxActive' = TRUE
    /\ cutOff' = FALSE
    /\ worker' = "done"
    /\ UNCHANGED <<txQueue, txWorkerProcessing, item, clientTxOpen, txOpenAt,
                   pcmBuffered, voice>>

\* What an Abort left open at the relay, the new transmission goes on with.
BeginLocalTx ==
    /\ worker = "begin"
    /\ cutOff' = FALSE
    /\ localTxActive' = TRUE
    /\ txOpenAt' = TRUE
    /\ worker' = "done"
    /\ UNCHANGED <<txQueue, txWorkerProcessing, item, clientTxOpen, pcmBuffered, voice>>

\* Pcm may complete a frame, leave one unfinished, or fail to encode; Opus sends;
\* VoiceEnd flushes, connected or not.
TxVoice ==
    /\ worker = "voice"
    /\ IF clientTxOpen /\ (link = "up" \/ item = "VoiceEnd")
       THEN /\ \E sent \in CASE item = "Pcm" -> BOOLEAN
                             [] item = "Opus" -> {TRUE}
                             [] OTHER -> Flushed :
                  voice' = (voice \/ (link = "up" /\ sent))
            /\ pcmBuffered' \in CASE item = "Pcm" -> BOOLEAN
                                  [] item = "Opus" -> {pcmBuffered}
                                  [] OTHER -> {FALSE}
       ELSE UNCHANGED <<voice, pcmBuffered>>
    /\ worker' = "done"
    /\ UNCHANGED <<txQueue, txWorkerProcessing, item, clientTxOpen, txOpenAt, localTxActive,
                   cutOff>>

\* abortTxInternal clears the queue, then ends the transmission for the
\* application; the relay is sent no marker.
TxAbort ==
    /\ worker = "abort"
    /\ txQueue' = <<>>
    /\ pcmBuffered' = FALSE
    /\ worker' = "aborted"
    /\ UNCHANGED <<txWorkerProcessing, item, clientTxOpen, txOpenAt, localTxActive, voice,
                   cutOff>>

EndAborted ==
    /\ clientTxOpen' = FALSE
    /\ localTxActive' = (localTxActive /\ ~clientTxOpen)
    /\ txOpenAt' = FALSE
    /\ cutOff' = (cutOff \/ (clientTxOpen /\ voice))
    /\ UNCHANGED voice

TxAborted ==
    /\ worker = "aborted"
    /\ EndAborted
    /\ worker' = "done"
    /\ UNCHANGED <<txQueue, txWorkerProcessing, item, pcmBuffered>>

WorkerDone ==
    /\ worker = "done"
    /\ txWorkerProcessing' = FALSE
    /\ item' = "Abort"
    /\ worker' = "loop"
    /\ UNCHANGED <<txQueue, txVars>>

Worker ==
    /\ \/ WorkerTake \/ WorkerExit \/ WorkerWatchdog \/ WorkerProcess \/ WorkerDone
       \/ TxEnd \/ TxEof \/ TxEofBurst \/ EndLocalTx
       \/ TxStart \/ BeginLocalTx \/ TxVoice \/ TxAbort \/ TxAborted
    /\ UNCHANGED <<link, call, flags, teardown, terminated>>

-----------------------------------------------------------------------------
(* The transport: haltTransport, stopTxPipeline and what follows it. *)

\* stopRequested and connected; the relay forgets a client that is gone.
HaltTransport ==
    /\ link = "up"
    /\ link' = "down"
    /\ voice' = FALSE /\ cutOff' = FALSE
    /\ UNCHANGED <<txQueue, flags, workerVars, teardown, clientTxOpen, txOpenAt,
                   pcmBuffered, localTxActive>>

StopFlag ==
    /\ teardown = "idle"
    /\ link # "up"
    /\ txWorkerStop' = TRUE
    /\ teardown' = "flagged"
    /\ UNCHANGED <<link, txQueue, txWorkerRunning, workerVars, txVars>>

StopJoinable ==
    /\ teardown = "flagged"
    /\ teardown' = IF worker = "none" THEN "joined" ELSE "joining"
    /\ UNCHANGED <<link, txQueue, flags, workerVars, txVars>>

StopJoin ==
    /\ teardown = "joining"
    /\ worker = "exited"
    /\ worker' = "none"
    /\ teardown' = "joined"
    /\ UNCHANGED <<link, txQueue, flags, txWorkerProcessing, item, txVars>>

\* Mutant of StopNotRunning: the running flag is left raised.
StopStillRunning ==
    /\ teardown = "joined"
    /\ teardown' = "lowered"
    /\ UNCHANGED <<link, txQueue, flags, workerVars, txVars>>

StopNotRunning ==
    /\ teardown = "joined"
    /\ txWorkerRunning' = FALSE
    /\ teardown' = "lowered"
    /\ UNCHANGED <<link, txQueue, txWorkerStop, workerVars, txVars>>

StopLower ==
    /\ teardown = "lowered"
    /\ txWorkerStop' = FALSE
    /\ teardown' = "clearing"
    /\ UNCHANGED <<link, txQueue, txWorkerRunning, workerVars, txVars>>

StopClear ==
    /\ teardown = "clearing"
    /\ txQueue' = <<>>
    /\ pcmBuffered' = FALSE
    /\ EndAborted
    /\ teardown' = "ending"
    /\ UNCHANGED <<link, flags, workerVars>>

\* Mutant of StopEnd: the transmission is taken to have ended with the queue.
StopEndQuietly ==
    /\ teardown = "ending"
    /\ teardown' = "idle"
    /\ clientTxOpen' = FALSE
    /\ pcmBuffered' = FALSE
    /\ \/ link = "down" /\ link' = "cleared"
       \/ link' = "fresh"
    /\ UNCHANGED <<txQueue, flags, workerVars, txOpenAt, localTxActive, voice, cutOff>>

\* The bounded wait of connect() gives up and clears the transport ("cleared");
\* reconnectTeardown and finalizeTransportTeardown end the transmission as well.
StopEnd ==
    /\ teardown = "ending"
    /\ teardown' = "idle"
    /\ clientTxOpen' = FALSE
    /\ \/ link = "down" /\ link' = "cleared" /\ UNCHANGED <<pcmBuffered, localTxActive>>
       \/ link' = "fresh" /\ pcmBuffered' = FALSE /\ localTxActive' = FALSE
    /\ UNCHANGED <<txQueue, flags, workerVars, txOpenAt, voice, cutOff>>

Connect ==
    /\ link = "fresh"
    /\ teardown = "idle"
    /\ link' = "up"
    /\ pcmBuffered' = FALSE
    /\ UNCHANGED <<txQueue, flags, workerVars, teardown, clientTxOpen, txOpenAt,
                   localTxActive, voice, cutOff>>

StopTxPipeline ==
    /\ \/ StopJoinable \/ StopJoin \/ StopNotRunning \/ StopLower \/ StopClear \/ StopEnd
    /\ UNCHANGED <<call, terminated>>

Transport ==
    /\ HaltTransport \/ StopFlag \/ Connect
    /\ UNCHANGED <<call, terminated>>

-----------------------------------------------------------------------------
Next ==
    /\ ~terminated
    /\ \/ \E c \in Caller : CallerStep(c) \/ EnsureTxWorkerStarted(c)
       \/ Worker
       \/ StopTxPipeline
       \/ Transport

Spec == Init /\ [][Next]_vars

\* A call, once begun, goes on; the worker does; a teardown does; and a session
\* that is down is torn down: the applications retry connect() or disconnect.
Fairness ==
    /\ \A c \in Caller :
          WF_vars(~terminated /\ call[c].step # "idle"
                  /\ (CallerStep(c) \/ EnsureTxWorkerStarted(c)))
    /\ WF_vars(~terminated /\ Worker)
    /\ WF_vars(~terminated /\ StopTxPipeline)
    /\ WF_vars(~terminated /\ link # "fresh" /\ StopFlag /\ UNCHANGED <<call, terminated>>)

FairSpec == Spec /\ Fairness

-----------------------------------------------------------------------------
AtRest == worker \in {"none", "loop"} /\ teardown = "idle"

\* Whatever was queued, aborted, cut off by the watchdog or torn down in the
\* middle: on a connected session whose worker rests, the application is told
\* of a transmission exactly while one is open, the watchdog guards it, and no
\* samples of an earlier one are left in txPcmBuffer.
TxStateAgrees ==
    link = "up" /\ AtRest =>
        /\ localTxActive = clientTxOpen
        /\ clientTxOpen => txOpenAt
        /\ pcmBuffered => clientTxOpen

\* Of a transmission the relay still takes to be on the air, the application
\* was told LocalTxEnd only by an Abort, which sends no EOF marker: the relay
\* then waits for its own timeout.  Close, a new Open, the watchdog and a
\* teardown never leave one open, and what an Abort left open is closed with
\* the next transmission.
VoiceIsClosed ==
    /\ voice => localTxActive \/ cutOff
    /\ AtRest /\ ~clientTxOpen => (voice => cutOff)
=============================================================================
