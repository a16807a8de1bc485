---------------------------- MODULE MCTxPipeline ----------------------------
(***************************************************************************)
(* TxPipeline for TLC: a UI thread that commands the transmission and a    *)
(* capture thread that feeds it, as in RelayClient.cpp.                    *)
(***************************************************************************)
EXTENDS TxPipeline

CONSTANTS ui, mic, UiOps, MicOps

MCSubmits == [c \in Caller |-> IF c = ui THEN UiOps ELSE MicOps]

\* Which interleaving of submit, worker and stopTxPipeline it may be, a command
\* in the queue is taken or cleared: it never waits for a worker that is gone.
WorkNotStranded ==
    txQueue # <<>> ~> txQueue = <<>> \/ worker \in Processing \/ terminated

AllIdle == \A c \in Caller : call[c].step = "idle"

\* The teardown waits for a worker that was told not to stop.
TeardownHung == teardown = "joining" /\ ~txWorkerStop

\* When the application falls silent its transmission ends: by what it queued,
\* by the watchdog or by the teardown of the session.
SilenceEndsTx ==
    <>[]AllIdle => (localTxActive ~> ~localTxActive \/ TeardownHung \/ terminated)

\* stopTxPipeline ends if the worker ran already when it raised the stop flag:
\* nothing the callers do takes the flag back then.
TeardownOfRunningEnds ==
    <>[]AllIdle =>
        (teardown = "flagged" /\ txWorkerRunning /\ txWorkerStop
         ~> teardown = "idle" \/ terminated)
=============================================================================
