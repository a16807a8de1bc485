--------------------------- MODULE CallbackBridge ---------------------------
(***************************************************************************)
(* The two bridges that carry a managed session's callbacks to its owner:  *)
(* the JNI one of the Android client, whose binding holds a global         *)
(* reference to a Java listener, and the one of the C API, whose bridge    *)
(* holds the caller's function pointers.  Both are registered in a map     *)
(* when the session is allocated and must go with the session.             *)
(*                                                                         *)
(* One session is modelled: a thread prepares it, its workers and the      *)
(* thread inside connect deliver, and closers end it.                      *)
(***************************************************************************)
EXTENDS Naturals, FiniteSets

CONSTANTS
    Ws,      \* the session's WebSocket thread
    Udp,     \* its UDP thread
    Dialler, \* the thread inside connect
    Closer   \* the threads that disconnect

ASSUME BridgeAssumption == {Ws, Udp, Dialler} \cap Closer = {}

Worker == {Ws, Udp}
Caller == Worker \cup {Dialler} \cup Closer
Front  == {"jni", "c"}
Word   == {"rx", "event", "fatal", "bye", "nothing"}

VARIABLES
    front,       \* the bridge the client uses
    prepared,    \* prepareConnection: "no", "allocated", "yes" or "refused"
    held,        \* the manager: "no", "open", "taken" by a closer
    stopped,     \* the session's workers were joined
    muted,       \* setCallbacks({})
    saidBye,     \* disconnectEventEmitted
    registered,  \* the session is a key of g_jniBindings, g_managedBridges
    listener,    \* binding->listener: "none", "held" or "deleted"
    counted,     \* the callers jniCallbackDepth counts
    pc,          \* pc[t]: where thread t is
    says,        \* says[t]: what t delivers
    op,          \* op[c]: the call closer c makes
    missed,      \* history: registered after the session was taken
    unseen,      \* history: callers that counted themselves after the erase looked
    gaveUp       \* history: the erase waited for 5 s in vain

session  == <<prepared, held, stopped, muted, saidBye>>
binding  == <<registered, listener, counted>>
threads  == <<pc, says, op>>
history  == <<missed, unseen, gaveUp>>
vars     == <<front, session, binding, threads, history>>

Pc == {"idle", "look", "passed", "call", "after", "take", "erase", "drain",
       "delete", "done"}

TypeOK ==
    /\ front \in Front
    /\ prepared \in {"no", "allocated", "yes", "refused"}
    /\ held \in {"no", "open", "taken"}
    /\ {stopped, muted, saidBye, registered, missed, gaveUp} \subseteq BOOLEAN
    /\ listener \in {"none", "held", "deleted"}
    /\ counted \subseteq Caller /\ unseen \subseteq Caller
    /\ pc \in [Caller -> Pc]
    /\ says \in [Caller -> Word]
    /\ op \in [Closer -> {"none", "disconnect", "halt", "all"}]

Init ==
    /\ front \in Front
    /\ prepared = "no" /\ held = "no"
    /\ stopped = FALSE /\ muted = FALSE /\ saidBye = FALSE
    /\ registered = FALSE /\ listener = "none" /\ counted = {}
    /\ pc = [t \in Caller |-> "idle"]
    /\ says = [t \in Caller |-> "nothing"]
    /\ op = [c \in Closer |-> "none"]
    /\ missed = FALSE /\ unseen = {} /\ gaveUp = FALSE

At(t, from) == pc[t] = from
Goes(t, to) == pc' = [pc EXCEPT ![t] = to]
Rests(t)    == IF t \in Closer THEN "done" ELSE "idle"

\* The thread that delivers audio holds cbMu until the callback returns.
CbMuFree == \A t \in Caller : says[t] # "rx"

-----------------------------------------------------------------------------
(* prepareConnection.                                                      *)

\* The manager takes the session in; the table of ids is not yet the bridge's.
Allocate ==
    /\ prepared = "no"
    /\ prepared' = "allocated" /\ held' = "open"
    /\ listener' = IF front = "jni" THEN "held" ELSE listener
    /\ UNCHANGED <<front, stopped, muted, saidBye, registered, counted, threads,
                   history>>

\* The table is full: the reference just made is deleted again.
Refuse ==
    /\ prepared = "no"
    /\ prepared' = "refused"
    /\ listener' = IF front = "jni" THEN "deleted" ELSE listener
    /\ UNCHANGED <<front, held, stopped, muted, saidBye, registered, counted,
                   threads, history>>

\* onAllocated, outside the manager's lock.
Register ==
    /\ prepared = "allocated"
    /\ prepared' = "yes"
    /\ registered' = TRUE
    /\ missed' = (held = "taken")
    /\ UNCHANGED <<front, held, stopped, muted, saidBye, listener, counted,
                   threads, unseen, gaveUp>>

-----------------------------------------------------------------------------
(* One callback, from the session's thread t.                              *)

\* emitEvent copies the callback under cbMu and calls it outside, emitRxPcm
\* calls it inside.
Emits(t, word) ==
    /\ CbMuFree
    /\ says' = [says EXCEPT ![t] = word]
    /\ Goes(t, "look")

\* Audio comes from the UDP thread; it can also find the connection lost.
WorkerEmits(w, word) ==
    /\ word \in IF w = Udp THEN {"rx", "event"} ELSE {"event", "fatal"}
    /\ At(w, "idle") /\ held # "no" /\ ~stopped /\ ~muted
    /\ prepared = "yes"
    /\ Emits(w, word)
    /\ UNCHANGED <<front, session, binding, op, history>>

\* connect found its parameters unusable: ConnectionFailed.
DiallerFails ==
    /\ At(Dialler, "idle") /\ held = "open" /\ prepared = "yes" /\ ~muted
    /\ Emits(Dialler, "fatal")
    /\ UNCHANGED <<front, session, binding, op, history>>

\* dispatchEvent, dispatchRxPcm: without a listener there is no call.
JniLooks(t) ==
    /\ front = "jni" /\ At(t, "look")
    /\ Goes(t, IF listener = "held" THEN "passed" ELSE "after")
    /\ UNCHANGED <<front, session, binding, says, op, history>>

Quiet(t) == says' = [says EXCEPT ![t] = "nothing"]

\* The bridge's id is looked up in the map; without one the event is dropped.
CLooks(t) ==
    /\ front = "c" /\ At(t, "look")
    /\ IF registered THEN Goes(t, "call") /\ UNCHANGED says
                     ELSE Goes(t, Rests(t)) /\ Quiet(t)
    /\ UNCHANGED <<front, session, binding, op, history>>

\* The depth is raised after the listener was looked at.
Count(t) ==
    /\ At(t, "passed")
    /\ counted' = counted \cup {t}
    /\ unseen' = IF listener = "deleted" \/ \E e \in Caller : At(e, "delete")
                 THEN unseen \cup {t} ELSE unseen
    /\ Goes(t, "call")
    /\ UNCHANGED <<front, session, registered, listener, says, op, missed, gaveUp>>

Called(t) ==
    /\ At(t, "call")
    /\ counted' = counted \ {t}
    /\ unseen' = unseen \ {t}
    /\ Goes(t, "after")
    /\ UNCHANGED <<front, session, registered, listener, says, op, missed, gaveUp>>

\* A fatal event ends the binding, on the thread that delivered it.
JniAfter(t) ==
    /\ front = "jni" /\ At(t, "after")
    /\ Quiet(t)
    /\ Goes(t, IF says[t] = "fatal" \/ t \in Closer THEN "erase" ELSE "idle")
    /\ UNCHANGED <<front, session, binding, op, history>>

\* Mutant of CAfter: Disconnected is not taken for the end of the bridge.
CAfterOnlyFatal(t) ==
    /\ front = "c" /\ At(t, "after")
    /\ Quiet(t)
    /\ registered' = (registered /\ says[t] # "fatal")
    /\ Goes(t, Rests(t))
    /\ UNCHANGED <<front, session, listener, counted, op, history>>

\* In the C API Disconnected ends it too.
CAfter(t) ==
    /\ front = "c" /\ At(t, "after")
    /\ Quiet(t)
    /\ registered' = (registered /\ says[t] \notin {"fatal", "bye"})
    /\ Goes(t, Rests(t))
    /\ UNCHANGED <<front, session, listener, counted, op, history>>

-----------------------------------------------------------------------------
(* eraseBinding.                                                           *)

EraseTakes(t) ==
    /\ At(t, "erase")
    /\ registered' = FALSE
    /\ Goes(t, IF registered THEN "drain" ELSE Rests(t))
    /\ UNCHANGED <<front, session, listener, counted, says, op, history>>

\* Mutant of EraseDrains: the depth is not waited for.
EraseRushes(t) ==
    /\ At(t, "drain")
    /\ Goes(t, "delete")
    /\ UNCHANGED <<front, session, binding, says, op, history>>

\* No caller is counted.
EraseDrains(t) ==
    /\ At(t, "drain")
    /\ counted = {}
    /\ Goes(t, "delete")
    /\ UNCHANGED <<front, session, binding, says, op, history>>

\* 500 polls, 10 ms apart, found a caller.
EraseGivesUp(t) ==
    /\ At(t, "drain")
    /\ counted # {}
    /\ gaveUp' = TRUE
    /\ Goes(t, "delete")
    /\ UNCHANGED <<front, session, binding, says, op, missed, unseen>>

EraseDeletes(t) ==
    /\ At(t, "delete")
    /\ listener' = "deleted"
    /\ Goes(t, Rests(t))
    /\ UNCHANGED <<front, session, registered, counted, says, op, history>>

-----------------------------------------------------------------------------
(* The calls that end the session.                                         *)

CloseCalled(c, what) ==
    /\ At(c, "idle")
    /\ what # "all" => prepared = "yes"
    /\ op' = [op EXCEPT ![c] = what]
    /\ Goes(c, "take")

\* nativeDisconnect, nativeHaltAndRelease, nativeDisconnectAll(AndWait).
NativeClose(c, what) ==
    /\ front = "jni"
    /\ CloseCalled(c, what)
    /\ UNCHANGED <<front, session, binding, says, history>>

\* owalkie_disconnect drops the bridge first, owalkie_disconnect_all does not.
CClose(c, what) ==
    /\ front = "c" /\ what # "halt"
    /\ CloseCalled(c, what)
    /\ registered' = (registered /\ what = "all")
    /\ UNCHANGED <<front, session, listener, counted, says, history>>

AfterTaking == IF front = "jni" THEN "erase" ELSE "done"

\* No such session, or connect held sessionOpMu at every try.
CloseTakesNothing(c) ==
    /\ At(c, "take")
    /\ held # "open" \/ ~At(Dialler, "idle")
    /\ Goes(c, AfterTaking)
    /\ UNCHANGED <<front, session, binding, says, op, history>>

\* disconnect and disconnectAll: Disconnected, once.
CloseDisconnects(c) ==
    /\ At(c, "take") /\ op[c] # "halt"
    /\ held = "open" /\ At(Dialler, "idle") /\ CbMuFree
    /\ held' = "taken" /\ saidBye' = TRUE
    /\ IF saidBye \/ muted
       THEN Goes(c, AfterTaking) /\ UNCHANGED says
       ELSE Emits(c, "bye")
    /\ UNCHANGED <<front, prepared, stopped, muted, binding, op, history>>

\* haltAndRelease: the callbacks are cleared, and no event is sent.
CloseHalts(c) ==
    /\ At(c, "take") /\ op[c] = "halt"
    /\ held = "open" /\ At(Dialler, "idle") /\ CbMuFree
    /\ held' = "taken" /\ muted' = TRUE
    /\ Goes(c, AfterTaking)
    /\ UNCHANGED <<front, prepared, stopped, saidBye, binding, says, op, history>>

\* The cleanup thread has joined the workers.
WorkersJoined ==
    /\ held = "taken" /\ ~stopped
    /\ \A w \in Worker : At(w, "idle")
    /\ stopped' = TRUE
    /\ UNCHANGED <<front, prepared, held, muted, saidBye, binding, threads, history>>

-----------------------------------------------------------------------------
Prepares == Allocate \/ Refuse \/ Register

Delivers(t) ==
    \/ JniLooks(t) \/ CLooks(t) \/ Count(t) \/ Called(t) \/ JniAfter(t) \/ CAfter(t)

Erases(t) == EraseTakes(t) \/ EraseDrains(t) \/ EraseGivesUp(t) \/ EraseDeletes(t)

Closes(c) == CloseTakesNothing(c) \/ CloseDisconnects(c) \/ CloseHalts(c)

Next ==
    \/ Prepares \/ DiallerFails \/ WorkersJoined
    \/ \E w \in Worker, word \in {"rx", "event", "fatal"} : WorkerEmits(w, word)
    \/ \E t \in Caller : Delivers(t) \/ Erases(t)
    \/ \E c \in Closer : \/ Closes(c)
                         \/ \E what \in {"disconnect", "halt", "all"} :
                                NativeClose(c, what) \/ CClose(c, what)

Spec == Init /\ [][Next]_vars

\* Every thread that has something to do is scheduled; nobody has to deliver
\* or to close.
Fairness ==
    /\ WF_vars(Register)
    /\ \A t \in Caller : WF_vars(Delivers(t)) /\ WF_vars(Erases(t))
    /\ \A c \in Closer : SF_vars(Closes(c))

FairSpec == Spec /\ Fairness

\* A callback that was counted before the erase looked runs to its end on a
\* live listener, unless it ran for the 5 s the erase waits: of a deleted
\* listener only latecomers are left (owalkie_jni.cpp:144-187).
CountedCallsFinish ==
    (listener = "deleted" /\ ~gaveUp) => counted \subseteq unseen

=============================================================================
