------------------------- MODULE MCSessionLifecycle -------------------------
(***************************************************************************)
(* The properties of the session lifecycle, and the instance TLC checks.   *)
(***************************************************************************)
EXTENDS SessionLifecycle

\* A std::thread member is assigned only when it holds no joinable thread:
\* assigning over one calls std::terminate.  connect's wait guarantees it by
\* joining or detaching, on every path (session.cpp:1502-1504 after 1579-1632).
ThreadStartSafe == conn.pc = "up" => \A w \in Worker : handle[w] = 0

\* A session that reports connected is one: nobody has begun to disconnect it,
\* its stream is there, and until it is told to stop its reader thread is the
\* joinable one and runs.  No mix of losses, stale workers and closes leaves a
\* live looking session that hears nothing (session.cpp:399-422, 1571-1656).
\* The types of everything it speaks of are part of it.
ConnectedIsServed ==
    /\ TypeOK
    /\ ses.connected =>
         /\ ~ses.disconnectStarted /\ ses.wsStream
         /\ handle[Ws] = conn.attempt
         /\ ~ses.stopRequested => alive(conn.attempt, Ws)

\* Once a disconnect or haltAndRelease owns the session, no connect that was
\* under way brings it back (session_manager.cpp:42-90 against 209-328).
ReleasedStaysDown ==
    [][~mgr.registered /\ ~ses.connected => ~ses'.connected]_vars

\* The client hears Disconnected at most once in the life of a session, though
\* the closer, the teardown thread, the ws thread and the destructor all
\* announce it (session.cpp:946-956).
DisconnectedOnce == heard <= 1

\* When the cleanup thread counts itself done every worker it could join has
\* ended, which is what disconnectAllAndWait relies on at process exit
\* (session_manager.cpp:119-133).
CleanupJoinsWorkers ==
    cleanup \in {"destroy", "last", "gone"} => \A w \in Worker : joins(w)

\* A close of a session with usable parameters ends with the session
\* destroyed, from whichever thread it is called and wherever connect is
\* (session_manager.cpp:364-408, session.cpp:1579-1656).
ClosedIsDestroyed ==
    \A c \in Closer :
        (closer[c].pc = "take" /\ ~mgr.badParams) ~> (cleanup = "gone")

=============================================================================
