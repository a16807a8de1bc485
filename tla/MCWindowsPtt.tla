---------------------------- MODULE MCWindowsPtt ----------------------------
(***************************************************************************)
(* The properties of push-to-talk on Windows, and the instance TLC checks. *)
(***************************************************************************)
EXTENDS WindowsPtt

\* Between two handlers the engine is in one of two states: off, or capturing
\* with its flag up and exactly one live pump; and never capturing while the
\* server holds the lock.  Stops by the user, the server, a welcome and a
\* disconnect all lead back to it (MainFrame.cpp:3377-3422, 3582-3612,
\* AudioEngine.cpp:452-480, 774-857).
EngineSettles ==
    UiIdle =>
        /\ transmitting = captureActive
        /\ captureActive = (pump \in {"wait", "frame"})
        /\ captureActive => ~pumpStop
        /\ locked => ~captureActive

\* A talk button that counts or blocks quick releases has a timer that will
\* clear it: no ticket is drawn without one (MainFrame.cpp:3466-3511).
BurstTimerArmed == count > 0 \/ blocked => decay # "none"

\* An uplink without a microphone behind it is closed.  A call signal that
\* fails and a welcome that ends a talk leave it open, and it is the core's
\* watchdog that closes it, unless the user starts the next talk or call
\* (MainFrame.cpp:3350-3375, session.cpp:815-829).
UplinkCloses ==
    (open /\ ~transmitting) ~> (~open \/ transmitting \/ after = "call")

\* "Stop TX/RX processing before relay teardown (avoids mu_ deadlock on app
\* exit)." (AudioEngine.h:48): the destructor's calls into the engine return.
ExitIsNotBlocked == (after = "exit") ~> (after = "gone")

=============================================================================
