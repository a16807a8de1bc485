-------------------------- MODULE MCCallbackBridge --------------------------
(***************************************************************************)
(* The properties of the callback bridges, and the instances TLC checks.   *)
(***************************************************************************)
EXTENDS CallbackBridge

CONSTANTS ws, udp, dial, user, exit  \* the threads

MCCloser == {user, exit}

-----------------------------------------------------------------------------
\* The binding of a session that was taken down goes, and with it the listener,
\* whatever closes the session and whoever is inside a callback; only a session
\* taken between its allocation and its registration keeps one
\* (owalkie_jni.cpp:368-419, c_api.cpp:432-438, 509-526).
BindingGoesWithSession ==
    (held = "taken") ~> (missed \/ (~registered /\ listener # "held"))

=============================================================================
