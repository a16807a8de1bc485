------------------------------ MODULE MCUdpLink ------------------------------
(***************************************************************************)
(* UdpLink for TLC.  The timings of session.cpp:119-140 are scaled down in  *)
(* their order, jitter included: recovery < lost < idle in the Foreground   *)
(* (6, 8 and 12 s), lost below both in the Background (10, 12 and 50 s).    *)
(***************************************************************************)
EXTENDS UdpLink

MCTiming == [p \in Profile |->
    IF p = "Background"
    THEN [idle |-> 7, recovery |-> 6, rtx |-> 2, lost |-> 5, poll |-> 1]
    ELSE [idle |-> 6, recovery |-> 2, rtx |-> 1, lost |-> 4, poll |-> 1]]

\* A link that stays silent is given up, unless the session transmits or is in
\* the ActiveTx profile, which send no keepalives of their own
\* (session.cpp:1326-1382).
SilentLinkIsLost ==
    <>[](welcome /\ silence = WaitCap /\ ~localTx /\ profile # "ActiveTx") => <>lost

=============================================================================
