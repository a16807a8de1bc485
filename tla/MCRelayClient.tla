--------------------------- MODULE MCRelayClient ---------------------------
(***************************************************************************)
(* The properties of the Windows relay client, and the instance TLC checks.*)
(***************************************************************************)
EXTENDS RelayClient

\* Connected was the last event of the current session, whose transport is halted:
\* the event was emitted after the loss, or the loss was taken for one that was
\* told before (session.cpp:1208-1211, 410).
Misreported(s) ==
    /\ link[s] = "down" /\ events.connected /\ events.loss = "none"

\* A current session that is down comes back, whichever thread connects and
\* however the tries of the UI thread and the loop interleave, unless the user
\* or a fatal event ends it (RelayClient.cpp:185-234).  The one session that is
\* left down, against "Auto-reconnect ... after WS/UDP drop while the session was
\* connected" (windows-client-cpp/README.md:42), is one whose events say for good
\* that it is connected.
LostIsReconnected ==
    \A s \in Id :
        (sessionId = s /\ s \in registered /\ link[s] = "down")
            ~> (link[s] = "ready" \/ sessionId # s \/ crashed \/ []Misreported(s))
=============================================================================
