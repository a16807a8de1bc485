---------------------------- MODULE MCRelayFloor ----------------------------
(***************************************************************************)
(* RelayFloor in busy mode for TLC, with a history variable that records   *)
(* who was heard independently of the code's own busyLastPacketAt.         *)
(***************************************************************************)
EXTENDS RelayFloor, TLC

CONSTANTS s1, s2

TwoSessions == {s1, s2}
Sym == Permutations(Session)

\* Age of the last packet admitted from s, or of the last EOF marker handled
\* for s; Unset again once it is older than the hangover.
VARIABLE heard

Admitted(s) == udp.step = "floor" /\ udp'.step \in {"unlock", "enqueue"} /\ udp.sid = s
RefusedBusy(s) == udp.step = "floor" /\ udp'.step = "read" /\ udp.sid = s
EndedHold(s) == udp.step = "eofFloor" /\ udp'.step = "read" /\ udp.sid = s
Ticked == mixer.ticked /\ ~mixer'.ticked

HeardNext(s) ==
    CASE Admitted(s) \/ EndedHold(s) -> 0
      [] Ticked -> IF heard[s] >= Hangover THEN Unset ELSE Older(heard[s], Hangover)
      [] OTHER -> heard[s]

HInit == Init /\ heard = [s \in Session |-> Unset]
HNext == Next /\ heard' = [s \in Session |-> HeardNext(s)]
HSpec == HInit /\ [][HNext]_<<vars, heard>>

-----------------------------------------------------------------------------
\* A packet is refused for a busy channel only while another session that is in
\* the channel was heard within the hangover: a holder that fell silent, left,
\* or was itself being refused never keeps the floor (tryAcceptPacket).
RefusalJustified ==
    [][\A s \in Session : RefusedBusy(s) =>
          \E o \in participants \ {s} : heard[o] # Unset]_<<vars, heard>>
=============================================================================
