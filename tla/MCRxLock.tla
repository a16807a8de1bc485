------------------------------ MODULE MCRxLock ------------------------------
(***************************************************************************)
(* RxLock for TLC, with history variables that mark the clients one of the *)
(* known races of the code may have left with a stale message.             *)
(***************************************************************************)
EXTENDS RxLock

CONSTANTS c1, c2

VARIABLES
    adrift,    \* clients that may hold, or still receive, a stale ptt_lock
    misled,    \* clients that may hold, or still receive, a stale rx_broadcast_start
    excluded   \* the client the running session's first frame was not sent to

history == <<adrift, misled, excluded>>

\* The message is still to be written to c, by the mixer loop or by c's handler.
Pending(type, c) ==
    \/ \E i \in DOMAIN mixer.msgs :
          mixer.msgs[i] = type /\ c # mixer.except /\ (i = 1 => c \in mixer.to)
    \/ \E i \in DOMAIN replay[c] : replay[c][i] = type

LockCleared == pttLockServerActive /\ ~pttLockServerActive'
SessionCleared == rxOutSessionActive /\ ~rxOutSessionActive'
BusyOpened == busy.step = "idle" /\ busy'.step = "snapshot"
BusySnapped == busy.step = "snapshot" /\ busy'.step = "write"
Failed == SessionCleared /\ mixer' = mixer

\* The lock is cleared while a ptt_lock is on its way; the mixer loop restarts
\* without a word; the busy unlock goes to participants only, and c is bound to
\* the channel but not one of them yet.
NewlyAdrift ==
    {c \in Client :
        \/ LockCleared /\ (Failed \/ Pending("lock", c))
        \/ BusySnapped /\ c \notin participants}

NewlyMisled ==
    {c \in Client : SessionCleared /\ (Failed \/ Pending("start", c))}

\* As long as c shows the stale state, or the stale message is still to come.
HNext ==
    /\ Next
    /\ adrift' = {c \in adrift \union NewlyAdrift : locked'[c] \/ Pending("lock", c)'}
    /\ misled' = {c \in misled \union NewlyMisled : receiving'[c] \/ Pending("start", c)'}
    /\ excluded' = IF ~rxOutSessionActive /\ rxOutSessionActive' THEN mixer'.except
                   ELSE IF SessionCleared THEN NoClient ELSE excluded

HInit == Init /\ adrift = {} /\ misled = {} /\ excluded = NoClient
HSpec == HInit /\ [][HNext]_<<vars, history>>
HFairSpec == HInit /\ [][HNext]_<<vars, history>> /\ Fairness

-----------------------------------------------------------------------------
UnlockComing(c) ==
    Pending("unlock", c) \/ busy.step = "snapshot" \/ c \in busy.to

\* Outside the races above, a client that shows PTT locked is right, or its
\* ptt_unlock is on the way: no interleaving of mixer loop, udpReader and the
\* client's own handler leaves it locked (mixer_ws_broadcast.go).
LockAgreement ==
    \A c \in Listening \ adrift :
        locked[c] => pttLockServerActive \/ UnlockComing(c)

\* The same for rx_broadcast_start and rx_broadcast_end.
SessionAgreement ==
    \A c \in Listening \ misled :
        receiving[c] => rxOutSessionActive \/ Pending("end", c)

\* The other way round: whatever a client's join is interleaved with, once it
\* settled it knows of the running session, by broadcast or by replay, unless
\* the session began with its own solo (syncWsSessionStateToClient).
SessionReachesEveryone ==
    rxOutSessionActive =>
        \A c \in Client \ {excluded} :
            ws[c] = "settled" => receiving[c] \/ Pending("start", c)

\* A client that shows PTT locked is released at last, or a race caught it.
LockedClientsAreReleased ==
    \A c \in Client : locked[c] ~> ~locked[c] \/ c \in adrift
=============================================================================
