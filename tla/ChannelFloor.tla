---------------------------- MODULE ChannelFloor ----------------------------
(***************************************************************************)
(* What the relay's busy mode promises about one channel: a packet is      *)
(* admitted only from the session that holds the floor, or from anybody    *)
(* once the floor has been opened to parallel transmission, and the floor  *)
(* passes to another session only after the hold lapsed or its owner left. *)
(***************************************************************************)
CONSTANTS
    Session,      \* client sessions
    NoSession,    \* nobody
    BusyMode      \* server.busy_mode

VARIABLES
    members,      \* sessions registered in the channel
    owner,        \* session that holds, or was the last to hold, the floor
    held,         \* the hold has not lapsed
    open,         \* the floor is open to parallel transmission
    admitted      \* session whose packet is admitted and not yet queued

floorVars == <<members, owner, held, open, admitted>>

Init ==
    /\ members = {}
    /\ owner = NoSession
    /\ held = FALSE
    /\ open = FALSE
    /\ admitted = NoSession

Join(s) ==
    /\ members' = members \union {s}
    /\ UNCHANGED <<owner, held, open, admitted>>

Leave(s) ==
    /\ members' = members \ {s}
    /\ UNCHANGED <<owner, held, open, admitted>>

Grant(s) ==
    /\ BusyMode
    /\ admitted = NoSession
    /\ ~held \/ owner \notin members
    /\ owner' = s
    /\ held' = TRUE
    /\ open' = FALSE
    /\ admitted' = s
    /\ UNCHANGED members

Speak(s) ==
    /\ admitted = NoSession
    /\ BusyMode => /\ held /\ owner \in members
                   /\ s = owner \/ open'
    /\ open => open'
    /\ admitted' = s
    /\ UNCHANGED <<members, owner, held>>

Forward ==
    /\ admitted' = NoSession
    /\ UNCHANGED <<members, owner, held, open>>

Lapse ==
    /\ held' = FALSE
    /\ UNCHANGED <<members, owner, open, admitted>>

\* The owner has left the channel.
Vacate ==
    /\ owner \notin members
    /\ owner' = NoSession
    /\ held' = FALSE
    /\ open' = FALSE
    /\ UNCHANGED <<members, admitted>>

\* A repeated end-of-transmission marker renews the last owner's hold for one
\* packet period, even when it had lapsed.
Linger ==
    /\ owner # NoSession
    /\ held' = TRUE
    /\ UNCHANGED <<members, owner, open, admitted>>

Next ==
    \/ \E s \in Session : Join(s) \/ Leave(s) \/ Grant(s) \/ Speak(s)
    \/ Forward
    \/ Lapse
    \/ Vacate
    \/ Linger

Spec == Init /\ [][Next]_floorVars
=============================================================================
