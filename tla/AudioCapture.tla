---------------------------- MODULE AudioCapture ----------------------------
(***************************************************************************)
(* The transmit side of the Windows client's AudioEngine: the flag         *)
(* transmitting_, the mutex mu_, the capture device with the callback its  *)
(* own thread runs, and the pump thread that turns samples into frames.    *)
(*                                                                         *)
(* One thread, the UI thread, starts and stops it; engineCall is where it  *)
(* stands in StopTransmit, Reconfigure or PrepareForExit.  mu_ is held     *)
(* across steps only where a holder waits: while the device is stopped.    *)
(***************************************************************************)
EXTENDS Naturals

VARIABLES
    transmitting,   \* transmitting_
    captureActive,  \* captureActive_
    callback,       \* the capture thread: "inside" between its two checks
    frameReady,     \* captureFifo_ holds a whole frame
    pump,           \* txPumpThread_: "frame" while it is in onPcmFrame_
    pumpStop,       \* txPumpStop_
    mu,             \* mu_ is held by the UI thread
    engineCall      \* [kind, pc]: the UI thread's call into the engine

audio == <<transmitting, captureActive, callback, frameReady, pump, pumpStop,
           mu, engineCall>>

NoCall == [kind |-> "none", pc |-> "none"]

AudioTypeOK ==
    /\ {transmitting, captureActive, frameReady, pumpStop, mu} \subseteq BOOLEAN
    /\ callback \in {"off", "run", "inside"}
    /\ pump \in {"none", "wait", "frame", "ended"}
    /\ engineCall \in {NoCall} \cup
         [kind : {"stop", "reconfigure", "exit"}, pc : {"lock", "device", "join"}]
    /\ mu <=> engineCall.pc = "device"

AudioInit ==
    /\ transmitting = FALSE /\ captureActive = FALSE /\ callback = "off"
    /\ frameReady = FALSE /\ pump = "none" /\ pumpStop = FALSE
    /\ mu = FALSE /\ engineCall = NoCall

\* The device opens; a device that does not leaves everything as it was.
StartTransmit ==
    /\ ~captureActive
    /\ transmitting' = TRUE /\ captureActive' = TRUE
    /\ callback' = "run" /\ frameReady' = FALSE
    /\ pump' = IF pump = "none" THEN "wait" ELSE pump
    /\ pumpStop' = IF pump = "none" THEN FALSE ELSE pumpStop
    /\ UNCHANGED <<mu, engineCall>>

\* StopTransmit and PrepareForExit lower transmitting_ before they take mu_,
\* Reconfigure once it has it.
EngineCalled(kind) ==
    /\ engineCall' = [kind |-> kind, pc |-> "lock"]
    /\ transmitting' = (kind = "reconfigure" /\ transmitting)
    /\ UNCHANGED <<captureActive, callback, frameReady, pump, pumpStop, mu>>

\* PrepareForExit is followed by StopTransmit, in ~MainFrame.
AfterDevice(kind) ==
    IF kind = "exit" THEN [kind |-> "stop", pc |-> "lock"]
                     ELSE [kind |-> kind, pc |-> "join"]

EngineLocks ==
    /\ engineCall.pc = "lock" /\ ~mu
    /\ transmitting' = FALSE
    /\ pumpStop' = (pumpStop \/ engineCall.kind = "stop"
                             \/ (engineCall.kind = "reconfigure" /\ captureActive))
    /\ mu' = captureActive
    /\ engineCall' = IF captureActive THEN [engineCall EXCEPT !.pc = "device"]
                                      ELSE AfterDevice(engineCall.kind)
    /\ UNCHANGED <<captureActive, callback, frameReady, pump>>

\* ma_device_stop waits for the capture thread to come out of its callback.
DeviceStops ==
    /\ engineCall.pc = "device"
    /\ callback # "inside"
    /\ captureActive' = FALSE /\ callback' = "off" /\ frameReady' = FALSE
    /\ mu' = FALSE
    /\ engineCall' = AfterDevice(engineCall.kind)
    /\ UNCHANGED <<transmitting, pump, pumpStop>>

\* Mutant of PumpJoined: the ended thread is joined but stays in txPumpThread_.
PumpJoinedKept ==
    /\ engineCall.pc = "join"
    /\ pump \in {"none", "ended"}
    /\ engineCall' = NoCall
    /\ UNCHANGED <<transmitting, captureActive, callback, frameReady, pump,
                   pumpStop, mu>>

PumpJoined ==
    /\ engineCall.pc = "join"
    /\ pump \in {"none", "ended"}
    /\ pump' = "none"
    /\ engineCall' = NoCall
    /\ UNCHANGED <<transmitting, captureActive, callback, frameReady, pumpStop, mu>>

-----------------------------------------------------------------------------
\* OnCaptureFrames: transmitting_, then mu_, then transmitting_ again.
CallbackEnters ==
    /\ callback = "run" /\ transmitting
    /\ callback' = "inside"
    /\ UNCHANGED <<transmitting, captureActive, frameReady, pump, pumpStop, mu,
                   engineCall>>

CallbackStores ==
    /\ callback = "inside" /\ ~mu
    /\ frameReady' = (frameReady \/ transmitting)
    /\ callback' = "run"
    /\ UNCHANGED <<transmitting, captureActive, pump, pumpStop, mu, engineCall>>

PumpTakes ==
    /\ pump = "wait" /\ ~mu /\ ~pumpStop
    /\ transmitting /\ frameReady
    /\ frameReady' = FALSE
    /\ pump' = "frame"
    /\ UNCHANGED <<transmitting, captureActive, callback, pumpStop, mu, engineCall>>

PumpReturns ==
    /\ pump = "frame"
    /\ pump' = "wait"
    /\ UNCHANGED <<transmitting, captureActive, callback, frameReady, pumpStop,
                   mu, engineCall>>

PumpEnds ==
    /\ pump = "wait" /\ ~mu /\ pumpStop
    /\ pump' = "ended"
    /\ UNCHANGED <<transmitting, captureActive, callback, frameReady, pumpStop,
                   mu, engineCall>>

EngineSteps == EngineLocks \/ DeviceStops \/ PumpJoined
=============================================================================
