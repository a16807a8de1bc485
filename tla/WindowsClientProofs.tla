------------------------- MODULE WindowsClientProofs -------------------------
(***************************************************************************)
(* Proofs about the Windows client: its connections, for any number of     *)
(* sessions and slots; its push-to-talk and engine, for any queue and      *)
(* threshold; its settings, for any ids, names, patterns and profiles.     *)
(* Each part is about variables of its own.                                *)
(***************************************************************************)
EXTENDS RelayClient, MCWindowsPtt, MCClientSettings, FiniteSetTheorems,
        SequenceTheorems, TLAPS

-----------------------------------------------------------------------------
(* Connections.                                                            *)

\* The Disconnect at the head of a Connect has let go of the old session.
PreparesForNone == pc[Ui] = "prepare" => sessionId = None

\* Session ids are given out in order, and none is known before it is given.
GivenInOrder ==
    /\ \A r, s \in Id : r < s /\ link[s] # "none" => link[r] # "none"
    /\ sessionId # None => link[sessionId] # "none"
    /\ \A t \in Thread : target[t] # None => link[target[t]] # "none"

\* The newest session, whose loop StartLoop starts.
Newest(s) == link[s] # "none" /\ \A r \in Id : r > s => link[r] = "none"
StartsNewest == pc[Ui] = "start" => \E s \in Id : Newest(s)

ClientInv == OnlyFatalEventsForget /\ PreparesForNone /\ GivenInOrder /\ StartsNewest

\* The session ids are a finite set of numbers.
LEMMA SessionIds == IsFiniteSet(Id) /\ None \notin Id /\ Ui \notin Id /\ Id \subseteq Nat
  BY FS_Interval, ClientAssumption DEF Id, None, Ui

\* What is reported of a session is of its type, whoever reports it.
LEMMA ReportsTyped ==
    /\ Quiet \in Report
    /\ \A r \in Report :
          /\ [r EXCEPT !.greeting = TRUE] \in Report
          /\ [r EXCEPT !.greeting = FALSE, !.connected = TRUE] \in Report
          /\ [r EXCEPT !.connected = FALSE] \in Report
          /\ [r EXCEPT !.connected = FALSE, !.signaled = FALSE] \in Report
          /\ [r EXCEPT !.loss = "halted"] \in Report
          /\ [r EXCEPT !.loss = "none", !.connected = FALSE] \in Report
          /\ \A l \in {"none", "telling"} :
                [r EXCEPT !.signaled = TRUE, !.loss = l] \in Report
  BY DEF Quiet, Report

\* It all holds of a client that has no session.
LEMMA InitClient == Init => ClientInv
  <1> SUFFICES ASSUME Init PROVE ClientInv
    OBVIOUS
  <1>1. Cardinality(registered) <= Slots
    BY FS_EmptySet, ClientAssumption DEF Init
  <1>2. TypeOK
    BY <1>1, ReportsTyped DEF Init, TypeOK, ThreadPc, Thread
  <1> QED
    BY <1>2 DEF Init, ClientInv, OnlyFatalEventsForget, PreparesForNone, GivenInOrder,
                StartsNewest, Thread

-----------------------------------------------------------------------------
(* Connections: steps that leave most as it is.                            *)

\* A step that gives out no session and forgets none without saying so.
LEMMA FrameKeeps ==
    ASSUME ClientInv, TypeOK',
           \A s \in Id : link'[s] = "none" <=> link[s] = "none",
           registered' \subseteq {sessionId'} \cup forgotten',
           sessionId' \in {None, sessionId},
           pc'[Ui] = "prepare" => sessionId' = None,
           \A t \in Thread : target'[t] \in {None, target[t], sessionId},
           pc'[Ui] = "start" => pc[Ui] = "start"
    PROVE  ClientInv'
  <1>1. TypeOK
    BY DEF ClientInv, OnlyFatalEventsForget
  <1>2. OnlyFatalEventsForget' /\ PreparesForNone'
    BY DEF OnlyFatalEventsForget, PreparesForNone
  <1>3. GivenInOrder'
    BY <1>1, SessionIds DEF ClientInv, GivenInOrder, TypeOK
  <1>4. StartsNewest'
    BY DEF ClientInv, StartsNewest, Newest
  <1> QED
    BY <1>2, <1>3, <1>4 DEF ClientInv

\* A thread goes from one step to another.
LEMMA GoesKeepsPc ==
    ASSUME TypeOK, NEW t \in Thread, NEW to \in ThreadPc, Goes(t, to)
    PROVE  pc' \in [Thread -> ThreadPc] /\ (t # Ui => pc'[Ui] = pc[Ui])
           /\ (t = Ui => pc'[Ui] = to)
  BY DEF TypeOK, Goes, Thread

\* A step of the client that leaves the core as it is and takes no session.
LEMMA ClientStep ==
    ASSUME ClientInv, NEW t \in Thread, NEW to \in ThreadPc \ {"prepare", "start"},
           Goes(t, to),
           UNCHANGED <<sessionId, fatal, core, forgotten>>,
           {running', inFlight', reconnecting', crashed'} \subseteq BOOLEAN,
           handle' \in {None, handle},
           \/ target' = target
           \/ \E x \in {None, sessionId} : target' = [target EXCEPT ![t] = x]
    PROVE  ClientInv'
  <1>1. TypeOK
    BY DEF ClientInv, OnlyFatalEventsForget
  <1>2. /\ pc' \in [Thread -> ThreadPc]
        /\ t # Ui => pc'[Ui] = pc[Ui]
        /\ t = Ui => pc'[Ui] = to
    BY <1>1, GoesKeepsPc
  <1>3. /\ target' \in [Thread -> {None} \cup Id]
        /\ \A u \in Thread : target'[u] \in {None, target[u], sessionId}
    BY <1>1 DEF TypeOK
  <1>4. TypeOK'
    BY <1>1, <1>2, <1>3 DEF TypeOK, core
  <1> QED
    BY <1>1, <1>2, <1>3, <1>4, FrameKeeps
       DEF core, ClientInv, OnlyFatalEventsForget, PreparesForNone

-----------------------------------------------------------------------------
(* Connections: the UI thread.                                             *)

\* The steps of the UI thread.
LEMMA UiKeeps ==
    ASSUME ClientInv,
           UiSteps \/ \E again \in BOOLEAN : DisconnectCalled(again)
    PROVE  ClientInv'
  <1>t. TypeOK /\ Ui \in Thread
    BY DEF ClientInv, OnlyFatalEventsForget, Thread
  <1>1. CASE \E again \in BOOLEAN : DisconnectCalled(again)
    BY <1>1, <1>t, ClientStep DEF DisconnectCalled, ThreadPc, TypeOK
  <1>2. CASE DisconnectStops
    BY <1>2, <1>t, ClientStep DEF DisconnectStops, ThreadPc, TypeOK
  <1>3. CASE DisconnectJoins
    BY <1>3, <1>t, ClientStep DEF DisconnectJoins, Joined, ThreadPc, TypeOK
  <1>4. CASE TableFull
    BY <1>4, <1>t, ClientStep DEF TableFull, client, ThreadPc, TypeOK
  <1>5. CASE DisconnectReleases
    <2>1. /\ pc' \in [Thread -> ThreadPc]
          /\ pc'[Ui] \in {"prepare", "idle"}
      BY <1>5, <1>t, GoesKeepsPc DEF DisconnectReleases, AfterRelease, ThreadPc
    <2>2. /\ IsFiniteSet(registered) /\ registered' \subseteq registered
          /\ Cardinality(registered') <= Cardinality(registered)
      BY <1>5, <1>t, SessionIds, FS_Subset DEF DisconnectReleases, TypeOK
    <2>3. Cardinality(registered') <= Slots
      BY <2>2, <1>t, FS_CardinalityType, FS_Subset, ClientAssumption DEF TypeOK
    <2>4. link' \in [Id -> {"none", "down", "dialled", "ready"}]
      BY <1>5, <1>t DEF DisconnectReleases, TypeOK
    <2>5. TypeOK'
      BY <1>5, <1>t, <2>1, <2>2, <2>3, <2>4, ReportsTyped DEF DisconnectReleases, TypeOK
    <2>6. \A s \in Id : link'[s] = "none" <=> link[s] = "none"
      BY <1>5, <1>t, SessionIds DEF DisconnectReleases, TypeOK, ClientInv, GivenInOrder
    <2>7. registered' \subseteq {sessionId'} \cup forgotten'
      BY <1>5 DEF DisconnectReleases, ClientInv, OnlyFatalEventsForget
    <2> QED
      BY <1>5, <2>1, <2>5, <2>6, <2>7, FrameKeeps DEF DisconnectReleases
  <1>6. CASE \E s \in Id, rejected \in BOOLEAN : Prepare(s, rejected)
    <2>1. PICK s \in Id, rejected \in BOOLEAN : Prepare(s, rejected)
      BY <1>6
    <2>2. /\ IsFiniteSet(registered) /\ IsFiniteSet(registered')
          /\ Cardinality(registered') <= Slots
      <3>1. /\ registered \subseteq Id /\ Cardinality(registered) < Slots
            /\ registered' = registered \cup {s}
        BY <2>1, <1>t DEF Prepare, TypeOK
      <3>2. IsFiniteSet(registered)
        BY <3>1, SessionIds, FS_Subset
      <3>3. /\ Cardinality(registered) \in Nat
            /\ IsFiniteSet(registered \cup {s})
            /\ Cardinality(registered \cup {s}) =
                 IF s \in registered THEN Cardinality(registered)
                                    ELSE Cardinality(registered) + 1
        BY <3>2, FS_AddElement, FS_CardinalityType
      <3> QED
        BY <3>1, <3>2, <3>3, ClientAssumption
    <2>3. /\ pc' \in [Thread -> ThreadPc] /\ pc'[Ui] = "start"
      BY <2>1, <1>t, GoesKeepsPc DEF Prepare, ThreadPc
    <2>4. TypeOK'
      BY <2>1, <1>t, <2>2, <2>3, ReportsTyped DEF Prepare, TypeOK
    <2>5. OnlyFatalEventsForget'
      <3>1. sessionId = None
        BY <2>1 DEF Prepare, At, ClientInv, PreparesForNone
      <3>2. /\ registered' = registered \cup {s} /\ sessionId' = s
            /\ forgotten' = forgotten
        BY <2>1 DEF Prepare
      <3>3. registered \subseteq Id /\ registered \subseteq {sessionId} \cup forgotten
        BY <1>t DEF TypeOK, ClientInv, OnlyFatalEventsForget
      <3>4. \A r \in registered : r \in forgotten
        BY <3>1, <3>3, SessionIds
      <3>5. registered' \subseteq {sessionId'} \cup forgotten'
        BY <3>2, <3>4
      <3> QED
        BY <2>4, <3>5 DEF OnlyFatalEventsForget
    <2>6. GivenInOrder'
      <3>1. /\ link' = [link EXCEPT ![s] = "down"] /\ sessionId' = s
            /\ target' = target
            /\ \A r \in 1..(s - 1) : link[r] # "none"
        BY <2>1 DEF Prepare
      <3>2. link'[s] = "down" /\ \A r \in Id : r # s => link'[r] = link[r]
        BY <3>1, <1>t DEF TypeOK
      <3>3. \A q \in Id : q < s => link[q] # "none"
        BY <3>1 DEF Id
      <3>4. ASSUME NEW q \in Id, NEW r \in Id, q < r, link'[r] # "none"
            PROVE  link'[q] # "none"
        BY <3>2, <3>3, <3>4 DEF ClientInv, GivenInOrder
      <3>5. ASSUME NEW t \in Thread, target[t] # None
            PROVE  link'[target[t]] # "none"
        BY <3>2, <3>5, <1>t DEF TypeOK, ClientInv, GivenInOrder
      <3> QED
        BY <3>1, <3>2, <3>4, <3>5 DEF GivenInOrder
    <2>7. Newest(s)'
      BY <2>1, <1>t, SessionIds DEF Prepare, Newest, TypeOK, ClientInv, GivenInOrder
    <2> QED
      BY <2>3, <2>5, <2>6, <2>7 DEF ClientInv, PreparesForNone, StartsNewest
  <1>7. CASE StartLoop
    <2> DEFINE t == CHOOSE s \in Id : /\ link[s] # "none"
                                      /\ \A r \in Id : r > s => link[r] = "none"
    <2>1. t \in Id
      BY <1>7 DEF StartLoop, At, ClientInv, StartsNewest, Newest
    <2>2. /\ handle' \in {None} \cup Id /\ {running', crashed'} \subseteq BOOLEAN
          /\ pc' \in [Thread -> ThreadPc] /\ pc'[Ui] = "enter"
          /\ UNCHANGED <<sessionId, inFlight, reconnecting, target, fatal, core,
                         forgotten>>
      <3>1. CASE running
        BY <1>7, <3>1, <1>t, GoesKeepsPc DEF StartLoop, ThreadPc, TypeOK
      <3>2. CASE ~running
        <4>1. /\ running' = TRUE /\ crashed' = (handle # None) /\ handle' = t
              /\ pc' = [pc EXCEPT ![Ui] = "enter", ![t] = "top"]
              /\ UNCHANGED <<sessionId, inFlight, reconnecting, target, fatal, core,
                             forgotten>>
          BY <1>7, <3>2 DEF StartLoop
        <4> HIDE DEF t
        <4> QED
          BY <4>1, <2>1, <1>t, SessionIds DEF TypeOK, ThreadPc, Thread
      <3> QED
        BY <3>1, <3>2
    <2>3. TypeOK'
      BY <2>2, <1>t DEF TypeOK, core
    <2> HIDE DEF t
    <2> QED
      BY <2>2, <2>3, FrameKeeps DEF core, ClientInv, OnlyFatalEventsForget
  <1> QED
    BY <1>1, <1>2, <1>3, <1>4, <1>5, <1>6, <1>7 DEF UiSteps

-----------------------------------------------------------------------------
(* Connections: the threads that connect, and the sessions' own.           *)

\* Where a thread that connects goes when it is done.
LEMMA Returning ==
    ASSUME NEW t \in Thread
    PROVE  Returns(t) \in {"idle", "sleep"} /\ Returns(t) \in ThreadPc \ {"prepare", "start"}
  BY DEF Returns, ThreadPc

\* The steps of a thread that connects.
LEMMA TryKeeps ==
    ASSUME ClientInv, NEW t \in Thread, TrySteps(t)
    PROVE  ClientInv'
  <1>t. TypeOK
    BY DEF ClientInv, OnlyFatalEventsForget
  <1>r. Returns(t) \in ThreadPc \ {"prepare", "start"}
    BY Returning
  <1>1. CASE TryEnter(t)
    BY <1>1, <1>t, <1>r, ClientStep DEF TryEnter, ThreadPc, TypeOK
  <1>2. CASE TryChecks(t)
    <2>1. CASE Leaves(t)
      BY <1>2, <2>1, <1>t, <1>r, ClientStep DEF TryChecks, Leaves, TypeOK
    <2>2. CASE /\ Goes(t, "halt") /\ target' = [target EXCEPT ![t] = sessionId]
               /\ UNCHANGED inFlight
      BY <1>2, <2>2, <1>t, ClientStep DEF TryChecks, ThreadPc, TypeOK
    <2> QED
      BY <1>2, <2>1, <2>2 DEF TryChecks
  <1>3. CASE DialSucceeds(t)
    <2>1. /\ pc' \in [Thread -> ThreadPc]
          /\ pc'[Ui] \notin {"prepare", "start"} \/ pc'[Ui] = pc[Ui]
      BY <1>3, <1>t, GoesKeepsPc DEF DialSucceeds, ThreadPc
    <2>2. link' \in [Id -> {"none", "down", "dialled", "ready"}]
      BY <1>3, <1>t DEF DialSucceeds, TypeOK
    <2>3. TypeOK'
      BY <1>3, <1>t, <2>1, <2>2, ReportsTyped
         DEF DialSucceeds, Forgives, Reports, client, TypeOK
    <2>4. \A s \in Id : link'[s] = "none" <=> link[s] = "none"
      BY <1>3, <1>t, SessionIds DEF DialSucceeds, TypeOK, ClientInv, GivenInOrder
    <2> QED
      BY <1>3, <2>1, <2>3, <2>4, FrameKeeps
         DEF DialSucceeds, client, ClientInv, OnlyFatalEventsForget, PreparesForNone
  <1>4. CASE DialFails(t)
    <2>1. /\ pc' \in [Thread -> ThreadPc]
          /\ pc'[Ui] \notin {"prepare", "start"} \/ pc'[Ui] = pc[Ui]
      BY <1>4, <1>t, <1>r, GoesKeepsPc DEF DialFails, Leaves
    <2>2. target' \in [Thread -> {None} \cup Id]
          /\ \A u \in Thread : target'[u] \in {None, target[u]}
      BY <1>4, <1>t DEF DialFails, Leaves, TypeOK
    <2>3. TypeOK'
      BY <1>4, <1>t, <2>1, <2>2, ReportsTyped
         DEF DialFails, Leaves, Forgives, Reports, TypeOK
    <2> QED
      BY <1>4, <2>1, <2>2, <2>3, FrameKeeps
         DEF DialFails, ClientInv, OnlyFatalEventsForget, PreparesForNone
  <1>5. CASE AwaitReturns(t)
    BY <1>5, <1>t, <1>r, ClientStep DEF AwaitReturns, Leaves, TypeOK
  <1>6. CASE DialRejected(t)
    BY <1>6, <1>t, ClientStep DEF DialRejected, ThreadPc, TypeOK
  <1>7. CASE RejectJoins(t)
    BY <1>7, <1>t, ClientStep DEF RejectJoins, Joined, ThreadPc, TypeOK
  <1>8. CASE RejectClears(t)
    <2>1. pc' \in [Thread -> ThreadPc]
      BY <1>8, <1>t, <1>r, GoesKeepsPc DEF RejectClears, Leaves
    <2>2. pc'[Ui] \notin {"prepare", "start"} \/ pc'[Ui] = pc[Ui]
      BY <1>8, <1>t, <1>r, GoesKeepsPc DEF RejectClears, Leaves
    <2>3. target' \in [Thread -> {None} \cup Id]
          /\ \A u \in Thread : target'[u] \in {None, target[u]}
      BY <1>8, <1>t DEF RejectClears, Leaves, TypeOK
    <2>4. TypeOK'
      BY <1>8, <1>t, <2>1, <2>3, ReportsTyped DEF RejectClears, Leaves, Forgets, TypeOK
    <2> QED
      BY <1>8, <2>2, <2>3, <2>4, FrameKeeps
         DEF RejectClears, Forgets, ClientInv, OnlyFatalEventsForget
  <1>9. CASE TryHalts(t)
    <2>1. /\ pc' \in [Thread -> ThreadPc]
          /\ pc'[Ui] \notin {"prepare", "start"} \/ pc'[Ui] = pc[Ui]
      BY <1>9, <1>t, GoesKeepsPc DEF TryHalts, ThreadPc
    <2>2. link' \in [Id -> {"none", "down", "dialled", "ready"}]
      BY <1>9, <1>t DEF TryHalts, TypeOK
    <2>3. TypeOK'
      BY <1>9, <1>t, <2>1, <2>2 DEF TryHalts, client, TypeOK
    <2>4. \A s \in Id : link'[s] = "none" <=> link[s] = "none"
      BY <1>9, <1>t, SessionIds DEF TryHalts, TypeOK, ClientInv, GivenInOrder
    <2> QED
      BY <1>9, <2>1, <2>3, <2>4, FrameKeeps
         DEF TryHalts, client, ClientInv, OnlyFatalEventsForget, PreparesForNone
  <1> QED
    BY <1>1, <1>2, <1>3, <1>4, <1>5, <1>6, <1>7, <1>8, <1>9 DEF TrySteps

\* The steps of a reconnect loop.
LEMMA LoopKeeps ==
    ASSUME ClientInv, NEW t \in Id, LoopSteps(t)
    PROVE  ClientInv'
  <1>t. TypeOK /\ t \in Thread
    BY DEF ClientInv, OnlyFatalEventsForget, Thread
  <1>1. CASE LoopLooks(t)
    <2>1. PICK to \in {"ended", "top", "enter"} : Goes(t, to)
      BY <1>1 DEF LoopLooks, Goes
    <2> QED
      BY <1>1, <2>1, <1>t, ClientStep DEF LoopLooks, client, ThreadPc, TypeOK
  <1>2. CASE LoopWakes(t)
    BY <1>2, <1>t, ClientStep DEF LoopWakes, client, ThreadPc, TypeOK
  <1> QED
    BY <1>1, <1>2 DEF LoopSteps

\* The steps of a session's own threads.
LEMMA SessionKeeps ==
    ASSUME ClientInv, NEW s \in Id,
           Welcome(s) \/ Lost(s) \/ ProtocolError(s) \/ FatalSteps(s)
    PROVE  ClientInv'
  <1>t. TypeOK
    BY DEF ClientInv, OnlyFatalEventsForget
  <1>1. CASE Welcome(s) \/ Lost(s) \/ ProtocolError(s)
    <2>1. /\ link[s] \in {"dialled", "ready"}
          /\ \E l \in {"down", "ready"} : link' = [link EXCEPT ![s] = l]
          /\ UNCHANGED <<client, pc, target, registered, bad, forgotten, crashed>>
          /\ fatal' \in {fatal, [fatal EXCEPT ![s] = "stop"]}
      BY <1>1 DEF Welcome, Lost, ProtocolError
    <2>4. events' \in Report
      <3>1. events \in Report
        BY <1>t DEF TypeOK
      <3>2. ASSUME NEW r \in Report, Reports(s, r) PROVE events' \in Report
        BY <3>1, <3>2 DEF Reports
      <3>3. CASE Welcome(s)
        BY <3>1, <3>2, <3>3, ReportsTyped DEF Welcome
      <3>4. CASE Lost(s)
        BY <3>1, <3>2, <3>4, ReportsTyped DEF Lost
      <3>5. CASE ProtocolError(s)
        BY <3>1, <3>2, <3>5, ReportsTyped DEF ProtocolError
      <3> QED
        BY <1>1, <3>3, <3>4, <3>5
    <2>2. TypeOK'
      BY <2>1, <2>4, <1>t DEF client, TypeOK
    <2>3. \A r \in Id : link'[r] = "none" <=> link[r] = "none"
      BY <2>1, <1>t DEF TypeOK
    <2> QED
      BY <2>1, <2>2, <2>3, FrameKeeps
         DEF client, ClientInv, OnlyFatalEventsForget, PreparesForNone
  <1>2. CASE FatalStops(s) \/ FatalJoins(s)
    <2>1. TypeOK'
      BY <1>2, <1>t DEF FatalStops, FatalJoins, core, TypeOK
    <2> QED
      BY <1>2, <2>1, FrameKeeps
         DEF FatalStops, FatalJoins, core, ClientInv, OnlyFatalEventsForget, PreparesForNone
  <1>3. CASE FatalClears(s)
    <2>1. TypeOK'
      BY <1>3, <1>t, ReportsTyped DEF FatalClears, Forgets, TypeOK
    <2> QED
      BY <1>3, <2>1, FrameKeeps
         DEF FatalClears, Forgets, ClientInv, OnlyFatalEventsForget
  <1> QED
    BY <1>1, <1>2, <1>3 DEF FatalSteps

\* The events they emit.
LEMMA ReportKeeps ==
    ASSUME ClientInv, ReportSteps
    PROVE  ClientInv'
  <1>1. TypeOK
    BY DEF ClientInv, OnlyFatalEventsForget
  <1>2. events' \in Report /\ ReportOnly
    BY <1>1, ReportsTyped DEF ReportSteps, Greets, LossSignals, LossTold, TypeOK
  <1>3. TypeOK'
    BY <1>1, <1>2 DEF ReportOnly, client, TypeOK
  <1> QED
    BY <1>2, <1>3, FrameKeeps
       DEF ReportOnly, client, ClientInv, OnlyFatalEventsForget, PreparesForNone

\* Every step keeps the invariant.
LEMMA NextClient == ClientInv /\ [Next]_vars => ClientInv'
  <1> SUFFICES ASSUME ClientInv, [Next]_vars PROVE ClientInv'
    OBVIOUS
  <1>1. CASE UNCHANGED vars
    BY <1>1 DEF vars, client, core, ClientInv, OnlyFatalEventsForget, TypeOK,
                PreparesForNone, GivenInOrder, StartsNewest, Newest
  <1> QED
    BY <1>1, UiKeeps, TryKeeps, LoopKeeps, SessionKeeps, ReportKeeps DEF Next

\* For any number of sessions and of slots, the client keeps its types and the
\* table its size, and it never drops a session the core holds unless a fatal
\* event made it forget the one it knew (RelayClient.cpp:135-166, 246-258).
THEOREM NothingDropped == Spec => []OnlyFatalEventsForget
  <1>1. ClientInv => OnlyFatalEventsForget
    BY DEF ClientInv
  <1> QED
    BY <1>1, InitClient, NextClient, PTL DEF Spec

-----------------------------------------------------------------------------
(* Push-to-talk: the engine.                                               *)

Off == ~transmitting /\ ~captureActive /\ pump = "none"
On  == transmitting /\ captureActive /\ pump \in {"wait", "frame"} /\ ~pumpStop

\* A call that stops the engine has lowered the flag by the time it stops the
\* device, and stopped the device by the time it waits for the pump.
Stopping ==
    /\ engineCall.kind \in {"stop", "exit"} => ~transmitting
    /\ engineCall.pc \in {"device", "join"} => ~transmitting
    /\ engineCall.pc = "join" => ~captureActive

AudioInv == AudioTypeOK /\ Stopping /\ (engineCall = NoCall => Off \/ On)

\* Between calls a step only starts the engine, and then it was off.
Starts == engineCall = NoCall /\ Off /\ On'

\* The engine rests as it did, or is off.
Rests == engineCall' = NoCall => Off' \/ (engineCall = NoCall /\ On /\ On')

EngineKind == {"stop", "reconfigure", "exit"}

\* What a call into the engine is recorded as.
LEMMA CallType ==
    /\ NoCall.kind = "none" /\ NoCall.pc = "none"
    /\ \A k \in EngineKind, p \in {"lock", "device", "join"} :
         /\ [kind |-> k, pc |-> p] # NoCall
         /\ [kind |-> k, pc |-> p].kind = k
         /\ [kind |-> k, pc |-> p].pc = p
         /\ [kind |-> k, pc |-> p] \in [kind : EngineKind, pc : {"lock", "device", "join"}]
  BY DEF NoCall, EngineKind

\* Starting to transmit turns an engine that is off on.
LEMMA StartTransmitInv ==
    ASSUME AudioInv, engineCall = NoCall, StartTransmit
    PROVE  AudioInv' /\ Starts
  <1>1. Off
    BY DEF AudioInv, StartTransmit, On
  <1>2. AudioTypeOK' /\ On'
    BY <1>1 DEF AudioInv, AudioTypeOK, StartTransmit, Off, On
  <1> QED
    BY <1>1, <1>2, CallType DEF AudioInv, StartTransmit, Starts, Stopping

\* A call that stops the engine begins.
LEMMA EngineCalledInv ==
    ASSUME AudioInv, engineCall = NoCall, NEW kind \in EngineKind, EngineCalled(kind)
    PROVE  AudioInv' /\ Rests /\ engineCall' # NoCall
  <1>1. /\ engineCall'.kind = kind /\ engineCall'.pc = "lock" /\ engineCall' # NoCall
        /\ engineCall' \in [kind : EngineKind, pc : {"lock", "device", "join"}]
    BY CallType DEF EngineCalled
  <1>2. transmitting' \in BOOLEAN /\ (kind # "reconfigure" => ~transmitting')
    BY DEF AudioInv, AudioTypeOK, EngineCalled
  <1>3. AudioTypeOK'
    BY <1>1, <1>2, CallType DEF AudioInv, AudioTypeOK, EngineCalled, EngineKind
  <1>4. Stopping'
    BY <1>1, <1>2 DEF Stopping
  <1> QED
    BY <1>1, <1>3, <1>4 DEF AudioInv, Rests

\* What a call has left to do when it has stopped the device.
LEMMA AfterDeviceType ==
    ASSUME NEW kind \in EngineKind
    PROVE  /\ AfterDevice(kind) \in [kind : EngineKind, pc : {"lock", "device", "join"}]
           /\ AfterDevice(kind) # NoCall
           /\ \/ AfterDevice(kind).kind = "stop" /\ AfterDevice(kind).pc = "lock"
              \/ AfterDevice(kind).kind \in {"stop", "reconfigure"} /\ AfterDevice(kind).pc = "join"
  <1>1. CASE kind = "exit"
    BY <1>1, CallType DEF AfterDevice, EngineKind
  <1>2. CASE kind # "exit"
    BY <1>2, CallType DEF AfterDevice, EngineKind
  <1> QED
    BY <1>1, <1>2

\* A call under way has its kind and the place it has come to.
LEMMA CallUnderWay ==
    ASSUME AudioInv, engineCall.pc \in {"lock", "device", "join"}
    PROVE  /\ engineCall \in [kind : EngineKind, pc : {"lock", "device", "join"}]
           /\ engineCall.kind \in EngineKind /\ engineCall # NoCall
           /\ engineCall = [kind |-> engineCall.kind, pc |-> engineCall.pc]
  BY CallType DEF AudioInv, AudioTypeOK, EngineKind

\* The UI thread, inside a call into the engine.
LEMMA EngineStepsInv ==
    ASSUME AudioInv, EngineSteps
    PROVE  AudioInv' /\ Rests
  <1>1. CASE EngineLocks
    <2>1. engineCall.kind \in EngineKind /\ engineCall # NoCall
          /\ engineCall = [kind |-> engineCall.kind, pc |-> "lock"]
      BY <1>1, CallUnderWay DEF EngineLocks
    <2>2. {captureActive, transmitting, pumpStop, frameReady} \subseteq BOOLEAN
      BY DEF AudioInv, AudioTypeOK
    <2>3. pumpStop' \in BOOLEAN
      BY <1>1, <2>2 DEF EngineLocks
    <2>4. CASE captureActive
      <3>1. engineCall' = [kind |-> engineCall.kind, pc |-> "device"]
        BY <1>1, <2>1, <2>4 DEF EngineLocks
      <3>2. /\ engineCall'.pc = "device" /\ engineCall' # NoCall
            /\ engineCall' \in [kind : EngineKind, pc : {"lock", "device", "join"}]
        BY <3>1, <2>1, CallType
      <3>3. mu' = TRUE /\ transmitting' = FALSE
        BY <1>1, <2>2, <2>4 DEF EngineLocks
      <3>4. AudioTypeOK'
        BY <1>1, <2>3, <3>2, <3>3 DEF AudioInv, AudioTypeOK, EngineLocks, EngineKind
      <3> QED
        BY <3>2, <3>3, <3>4 DEF AudioInv, Stopping, Rests
    <2>5. CASE ~captureActive
      <3>1. engineCall' = AfterDevice(engineCall.kind)
        BY <1>1, <2>5 DEF EngineLocks
      <3>2. /\ engineCall'.pc \in {"lock", "join"} /\ engineCall' # NoCall
            /\ engineCall' \in [kind : EngineKind, pc : {"lock", "device", "join"}]
        BY <3>1, <2>1, AfterDeviceType
      <3>3. mu' = FALSE /\ transmitting' = FALSE /\ captureActive' = FALSE
        BY <1>1, <2>2, <2>5 DEF EngineLocks
      <3>4. AudioTypeOK'
        BY <1>1, <2>3, <3>2, <3>3 DEF AudioInv, AudioTypeOK, EngineLocks, EngineKind
      <3> QED
        BY <3>2, <3>3, <3>4 DEF AudioInv, Stopping, Rests
    <2> QED
      BY <2>4, <2>5
  <1>2. CASE DeviceStops
    <2>1. engineCall.kind \in EngineKind /\ engineCall.pc = "device"
      BY <1>2, CallUnderWay DEF DeviceStops
    <2>2. transmitting = FALSE
      BY <2>1 DEF AudioInv, AudioTypeOK, Stopping
    <2>3. /\ engineCall'.pc \in {"lock", "join"} /\ engineCall' # NoCall
          /\ engineCall' \in [kind : EngineKind, pc : {"lock", "device", "join"}]
      BY <1>2, <2>1, AfterDeviceType DEF DeviceStops
    <2>4. AudioTypeOK'
      BY <1>2, <2>3 DEF AudioInv, AudioTypeOK, DeviceStops, EngineKind
    <2> QED
      BY <1>2, <2>2, <2>3, <2>4 DEF AudioInv, Stopping, Rests, DeviceStops
  <1>3. CASE PumpJoined
    <2>1. transmitting = FALSE /\ captureActive = FALSE /\ mu = FALSE
      BY <1>3 DEF AudioInv, AudioTypeOK, Stopping, PumpJoined
    <2>2. Off' /\ engineCall' = NoCall
      BY <1>3, <2>1 DEF Off, PumpJoined
    <2>3. AudioTypeOK'
      BY <1>3, <2>1, CallType DEF AudioInv, AudioTypeOK, PumpJoined
    <2> QED
      BY <2>2, <2>3, CallType DEF AudioInv, Stopping, Rests
  <1> QED
    BY <1>1, <1>2, <1>3 DEF EngineSteps

\* The device's callback and the pump.
LEMMA OtherThreadsInv ==
    ASSUME AudioInv, OtherThreads \/ PumpReturns
    PROVE  AudioInv' /\ Rests
  <1>1. CASE CallbackEnters
    BY <1>1 DEF AudioInv, AudioTypeOK, CallbackEnters, Stopping, Rests, Off, On
  <1>2. CASE CallbackStores
    BY <1>2 DEF AudioInv, AudioTypeOK, CallbackStores, Stopping, Rests, Off, On
  <1>3. CASE PumpTakes
    BY <1>3 DEF AudioInv, AudioTypeOK, PumpTakes, Stopping, Rests, Off, On
  <1>4. CASE PumpReturns
    BY <1>4 DEF AudioInv, AudioTypeOK, PumpReturns, Stopping, Rests, Off, On
  <1>5. CASE PumpEnds
    BY <1>5 DEF AudioInv, AudioTypeOK, PumpEnds, Stopping, Rests, Off, On
  <1> QED
    BY <1>1, <1>2, <1>3, <1>4, <1>5 DEF OtherThreads

\* A step that does not touch the engine.
LEMMA AudioUnchanged ==
    ASSUME AudioInv, UNCHANGED audio
    PROVE  AudioInv' /\ Rests
  BY DEF AudioInv, AudioTypeOK, Stopping, Rests, Off, On, audio

-----------------------------------------------------------------------------
(* Push-to-talk: the handlers.                                             *)

TalkType ==
    /\ after \in {"idle", "roger", "close", "call", "abort", "welcome",
                  "disconnect", "exit", "gone"}
    /\ count \in 0..BlockThreshold /\ blocked \in BOOLEAN
    /\ decay \in {"none", "asleep", "posted"}
    /\ ready \in BOOLEAN /\ open \in BOOLEAN /\ uplink \in BOOLEAN

InputType ==
    /\ toggle \in BOOLEAN /\ suppress \in BOOLEAN /\ pressed \in BOOLEAN
    /\ hook \in BOOLEAN /\ locked \in BOOLEAN

QueueType == queue \in Seq(Message) /\ Len(queue) <= QueueCap

\* The engine runs between handlers only, and not under the server's lock; the
\* frame that is gone has returned from its last call, and nothing follows it.
Talks ==
    /\ engineCall = NoCall /\ On => after = "idle" /\ ~locked
    /\ after = "gone" => engineCall = NoCall /\ ~ready

PttInv == AudioInv /\ TalkType /\ InputType /\ QueueType /\ Talks

\* The invariant gives the type and what EngineSettles says.
LEMMA PttInvMeans == PttInv => PttTypeOK /\ EngineSettles
  <1> SUFFICES ASSUME PttInv PROVE PttTypeOK /\ EngineSettles
    OBVIOUS
  <1>1. AudioTypeOK /\ (engineCall = NoCall => Off \/ On)
    BY DEF PttInv, AudioInv
  <1>2. after = "gone" => ~captureActive /\ pump = "none" /\ ~ready
    BY <1>1 DEF PttInv, Talks, Off
  <1>3. PttTypeOK
    BY <1>1, <1>2 DEF PttTypeOK, PttInv, TalkType, InputType, QueueType
  <1>4. EngineSettles
    BY <1>1 DEF EngineSettles, UiIdle, PttInv, Talks, Off, On, AudioTypeOK
  <1> QED
    BY <1>3, <1>4

\* A guard that counts nothing is within its threshold.
LEMMA NothingCounted == 0 \in 0..BlockThreshold
  BY PttAssumption

\* It all holds when the frame is opened.
LEMMA InitPtt == PttInit => PttInv /\ BurstTimerArmed
  <1> SUFFICES ASSUME PttInit PROVE PttInv /\ BurstTimerArmed
    OBVIOUS
  <1>1. AudioInv
    BY CallType DEF PttInit, AudioInit, AudioInv, AudioTypeOK, Stopping, Off
  <1>2. QueueType /\ BurstTimerArmed
    BY PttAssumption DEF PttInit, QueueType, BurstTimerArmed
  <1>3. TalkType /\ InputType
    BY NothingCounted DEF PttInit, TalkType, InputType
  <1>4. Talks
    BY DEF PttInit, AudioInit, Talks, On
  <1> QED
    BY <1>1, <1>2, <1>3, <1>4 DEF PttInv

\* What beginning and ending to talk leave, on a UI thread that was idle.
Talked ==
    /\ AudioInv' /\ TalkType'
    /\ after' \in {"idle", "roger"} /\ ready' = ready
    /\ engineCall' = NoCall /\ On' => after' = "idle" /\ ~locked

\* A button that is ignored.
LEMMA TalkUnchanged ==
    ASSUME PttInv, UiIdle, UNCHANGED Talk
    PROVE  Talked
  <1>1. AudioInv' /\ Rests
    BY AudioUnchanged DEF PttInv, Talk
  <1>2. TalkType' /\ after' = "idle"
    BY DEF PttInv, TalkType, UiIdle, Talk, burst, relay
  <1>3. engineCall' = NoCall /\ On' => ~locked
    BY DEF PttInv, Talks, UiIdle, On, Talk, audio
  <1> QED
    BY <1>1, <1>2, <1>3 DEF Talked, Talk, relay

\* The talk button goes down.
LEMMA BeginTalked ==
    ASSUME PttInv, UiIdle, BeginPttTx
    PROVE  Talked
  <1>1. CASE ~ready \/ transmitting \/ locked
    BY <1>1, TalkUnchanged DEF BeginPttTx
  <1>2. CASE ~(~ready \/ transmitting \/ locked) /\ blocked
    <2>1. BurstExtended /\ UNCHANGED <<audio, relay, after>>
      BY <1>2 DEF BeginPttTx
    <2>2. AudioInv'
      BY <2>1, AudioUnchanged DEF PttInv
    <2>3. TalkType' /\ after' = "idle" /\ ready' = ready
      BY <2>1 DEF PttInv, TalkType, BurstExtended, UiIdle, relay
    <2> QED
      BY <1>2, <2>2, <2>3 DEF Talked
  <1>3. CASE ~(~ready \/ transmitting \/ locked) /\ ~blocked
    <2>1. /\ uplink' = FALSE /\ UNCHANGED <<burst, ready, open, after>>
          /\ StartTransmit \/ UNCHANGED audio
      BY <1>3 DEF BeginPttTx
    <2>2. AudioInv'
      BY <2>1, AudioUnchanged, StartTransmitInv DEF PttInv, UiIdle
    <2>3. TalkType' /\ after' = "idle" /\ ready' = ready
      BY <2>1 DEF PttInv, TalkType, UiIdle, burst
    <2> QED
      BY <1>3, <2>2, <2>3 DEF Talked
  <1> QED
    BY <1>1, <1>2, <1>3

\* A release is counted.
LEMMA BurstRecordedType ==
    ASSUME TalkType, BurstRecorded
    PROVE  /\ count' \in 0..BlockThreshold /\ blocked' \in BOOLEAN
           /\ decay' \in {"none", "asleep", "posted"}
  <1>1. count' \in 0..BlockThreshold
    BY PttAssumption DEF TalkType, BurstRecorded
  <1>2. blocked' \in BOOLEAN
    BY DEF TalkType, BurstRecorded
  <1> QED
    BY <1>1, <1>2 DEF BurstRecorded

\* The talk button comes up.
LEMMA EndTalked ==
    ASSUME PttInv, UiIdle, EndPttTx
    PROVE  Talked
  <1>1. CASE ~ready \/ ~transmitting
    BY <1>1, TalkUnchanged DEF EndPttTx
  <1>2. CASE ~(~ready \/ ~transmitting)
    <2>1. BurstRecorded /\ EngineCalled("stop") /\ after' = "roger" /\ UNCHANGED relay
      BY <1>2 DEF EndPttTx
    <2>2. AudioInv' /\ engineCall' # NoCall
      BY <2>1, EngineCalledInv DEF PttInv, UiIdle, EngineKind
    <2>3. TalkType' /\ ready' = ready
      BY <2>1, BurstRecordedType DEF PttInv, TalkType, relay
    <2> QED
      BY <2>1, <2>2, <2>3 DEF Talked
  <1> QED
    BY <1>1, <1>2

\* The talk button, where one press begins and the next ends.
LEMMA ToggleTalked ==
    ASSUME PttInv, UiIdle, TogglePttTx
    PROVE  Talked
  <1>1. CASE ~ready
    BY <1>1, TalkUnchanged DEF TogglePttTx
  <1>2. CASE ready /\ transmitting
    BY <1>2, EndTalked DEF TogglePttTx
  <1>3. CASE ready /\ ~transmitting
    BY <1>3, BeginTalked DEF TogglePttTx
  <1> QED
    BY <1>1, <1>2, <1>3

\* Messages are taken from the queue and put into it.
LEMMA TakesType ==
    ASSUME QueueType, NEW m, Takes(m)
    PROVE  QueueType' /\ UiIdle
  <1>1. queue \in Seq(Message) /\ queue # <<>> /\ queue' = Tail(queue) /\ UiIdle
    BY DEF QueueType, Takes
  <1>2. queue' \in Seq(Message) /\ Len(queue') = Len(queue) - 1 /\ Len(queue) \in Nat
    BY <1>1
  <1> QED
    BY <1>1, <1>2, PttAssumption DEF QueueType

\* A thread posts a message to the UI thread.
LEMMA PostsType ==
    ASSUME QueueType, NEW m \in Message, Posts(m)
    PROVE  QueueType'
  <1>1. Len(queue) \in Nat /\ queue' \in Seq(Message) /\ Len(queue') = Len(queue) + 1
    BY DEF QueueType, Posts
  <1> QED
    BY <1>1 DEF QueueType, Posts, Room

\* A step that leaves the queue as it is.
LEMMA QueueUnchanged == ASSUME QueueType, UNCHANGED queue PROVE QueueType'
  BY DEF QueueType

\* A handler that talks, with what it does to the rest.
LEMMA TalkedInv ==
    ASSUME PttInv, UiIdle, Talked, QueueType', InputType', locked' = locked
    PROVE  PttInv'
  BY DEF PttInv, Talks, Talked

\* A handler that calls the engine and goes on when it returns.
LEMMA CallsInv ==
    ASSUME PttInv, UiIdle, NEW kind \in EngineKind, EngineCalled(kind),
           after' \in {"disconnect", "exit", "abort", "welcome"},
           UNCHANGED <<burst, relay, input, locked>>, QueueType'
    PROVE  PttInv'
  <1>1. AudioInv' /\ engineCall' # NoCall
    BY EngineCalledInv DEF PttInv, UiIdle
  <1>2. TalkType' /\ InputType'
    BY DEF PttInv, TalkType, InputType, burst, relay, input
  <1> QED
    BY <1>1, <1>2 DEF PttInv, Talks

\* A step that leaves the engine alone.
LEMMA QuietInv ==
    ASSUME PttInv, UNCHANGED audio, TalkType', InputType', QueueType',
           after' # after => ~On,
           locked' => locked \/ ~On,
           after' = "gone" => engineCall = NoCall /\ ~ready'
    PROVE  PttInv'
  <1>1. AudioInv' /\ (On' <=> On) /\ engineCall' = engineCall
    BY AudioUnchanged DEF PttInv, On, audio
  <1> QED
    BY <1>1 DEF PttInv, Talks, TalkType, InputType

\* What the user does.
LEMMA UserStepsPtt ==
    ASSUME PttInv, UserSteps
    PROVE  PttInv'
  <1>1. CASE MouseDown
    BY <1>1, BeginTalked, TalkedInv, QueueUnchanged DEF MouseDown, PttInv, InputType, input
  <1>2. CASE MouseUp
    BY <1>2, EndTalked, TalkedInv, QueueUnchanged DEF MouseUp, PttInv, InputType
  <1>3. CASE ButtonClicked
    BY <1>3, ToggleTalked, TalkedInv, QueueUnchanged DEF ButtonClicked, PttInv, InputType, input
  <1>4. CASE HookDown
    <2>1. UiIdle /\ UNCHANGED <<Talk, toggle, suppress, hook, locked>> /\ pressed' = TRUE
      BY <1>4 DEF HookDown
    <2>2. QueueType'
      BY <1>4, PostsType, QueueUnchanged DEF HookDown, PttInv, Message
    <2> QED
      BY <2>1, <2>2, TalkUnchanged, TalkedInv DEF PttInv, InputType
  <1>5. CASE HookUp
    <2>1. /\ UiIdle /\ UNCHANGED <<Talk, toggle, hook, locked>> /\ pressed' = FALSE
          /\ suppress' \in {suppress, FALSE}
      BY <1>5 DEF HookUp
    <2>2. QueueType'
      BY <1>5, PostsType, QueueUnchanged DEF HookUp, PttInv, Message
    <2> QED
      BY <2>1, <2>2, TalkUnchanged, TalkedInv DEF PttInv, InputType
  <1>6. CASE CallClicked
    <2>1. ~On /\ UNCHANGED audio
      BY <1>6 DEF CallClicked, On
    <2>2. TalkType' /\ InputType' /\ QueueType'
      BY <1>6 DEF CallClicked, PttInv, TalkType, InputType, QueueType, burst, input
    <2> QED
      BY <1>6, <2>1, <2>2, QuietInv DEF CallClicked
  <1>7. CASE DisconnectClicked
    BY <1>7, CallsInv, QueueUnchanged DEF DisconnectClicked, PttInv, EngineKind
  <1>8. CASE ExitRequested
    BY <1>8, CallsInv, QueueUnchanged DEF ExitRequested, PttInv, EngineKind
  <1>9. ASSUME NEW newToggle \in BOOLEAN, SettingsAccepted(newToggle) PROVE PttInv'
    <2>1. UiIdle /\ Talked
      BY <1>9, EndTalked, TalkUnchanged DEF SettingsAccepted
    <2>2. QueueType' /\ InputType' /\ locked' = locked
      BY <1>9, QueueUnchanged DEF SettingsAccepted, PttInv, InputType
    <2> QED
      BY <2>1, <2>2, TalkedInv
  <1> QED
    BY <1>1, <1>2, <1>3, <1>4, <1>5, <1>6, <1>7, <1>8, <1>9 DEF UserSteps

\* The messages the UI thread handles.
LEMMA MessagesPtt ==
    ASSUME PttInv, Messages
    PROVE  PttInv'
  <1>1. CASE HandleBegin
    BY <1>1, BeginTalked, TalkedInv, TakesType DEF HandleBegin, PttInv, InputType, input
  <1>2. CASE HandleEnd
    BY <1>2, EndTalked, TalkedInv, TakesType DEF HandleEnd, PttInv, InputType, input
  <1>3. CASE HandleToggle
    BY <1>3, ToggleTalked, TalkedInv, TakesType DEF HandleToggle, PttInv, InputType, input
  <1>4. CASE OnTxStop
    <2>1. suppress' \in BOOLEAN
      BY <1>4 DEF OnTxStop
    <2> QED
      BY <1>4, <2>1, EndTalked, TalkedInv, TakesType DEF OnTxStop, PttInv, InputType
  <1>5. CASE OnServerPttLock
    <2>1. QueueType' /\ UiIdle
      BY <1>5, TakesType DEF OnServerPttLock, PttInv
    <2>2. CASE transmitting
      BY <1>5, <2>1, <2>2, CallsInv DEF OnServerPttLock, EngineKind
    <2>3. CASE ~transmitting
      <3>1. locked' = TRUE /\ UNCHANGED <<audio, after, input, burst, relay>> /\ ~On
        BY <1>5, <2>3 DEF OnServerPttLock, On
      <3>2. TalkType' /\ InputType'
        BY <3>1 DEF PttInv, TalkType, InputType, burst, relay, input
      <3> QED
        BY <2>1, <3>1, <3>2, QuietInv DEF UiIdle
    <2> QED
      BY <2>2, <2>3
  <1>6. CASE OnServerPttUnlock
    <2>1. QueueType' /\ UiIdle
      BY <1>6, TakesType DEF OnServerPttUnlock, PttInv
    <2>2. UNCHANGED <<audio, burst, relay, after, input>> /\ locked' = FALSE
      BY <1>6 DEF OnServerPttUnlock, Talk
    <2>3. TalkType'
      BY <2>2 DEF PttInv, TalkType, burst, relay
    <2>4. InputType'
      BY <2>2 DEF PttInv, InputType, input
    <2> QED
      BY <2>1, <2>2, <2>3, <2>4, QuietInv DEF UiIdle
  <1>7. CASE OnWelcome
    BY <1>7, CallsInv, TakesType DEF OnWelcome, PttInv, EngineKind
  <1>8. ASSUME NEW up \in BOOLEAN, OnConnected(up) PROVE PttInv'
    <2>1. QueueType' /\ UiIdle
      BY <1>8, TakesType DEF OnConnected, PttInv
    <2>2. TalkType' /\ UNCHANGED <<audio, after>>
      BY <1>8, NothingCounted DEF OnConnected, PttInv, TalkType, BurstReset, relay
    <2>3. InputType' /\ (locked' => locked)
      BY <1>8 DEF OnConnected, PttInv, InputType
    <2> QED
      BY <2>1, <2>2, <2>3, QuietInv DEF UiIdle
  <1> QED
    BY <1>1, <1>2, <1>3, <1>4, <1>5, <1>6, <1>7, <1>8 DEF Messages

\* What a handler does after the engine returned.
LEMMA ContinuesPtt ==
    ASSUME PttInv, Continues
    PROVE  PttInv'
  <1>1. \A a \in {"roger", "close", "call", "disconnect", "exit", "abort", "welcome"} :
           UiAt(a) => ~On
    BY DEF UiAt, PttInv, Talks
  <1>2. CASE Roger
    <2>1. TalkType' /\ InputType' /\ QueueType'
      BY <1>2 DEF Roger, FrameOpens, PttInv, TalkType, InputType, QueueType, burst, input
    <2> QED
      BY <1>1, <1>2, <2>1, QuietInv DEF Roger
  <1>3. CASE TxClosed
    <2>1. TalkType' /\ InputType' /\ QueueType'
      BY <1>3 DEF TxClosed, PttInv, TalkType, InputType, QueueType, burst, input
    <2> QED
      BY <1>1, <1>3, <2>1, QuietInv DEF TxClosed
  <1>4. CASE CallStreamed
    <2>1. TalkType' /\ InputType' /\ QueueType'
      BY <1>4 DEF CallStreamed, FrameOpens, PttInv, TalkType, InputType, QueueType, burst, input
    <2> QED
      BY <1>1, <1>4, <2>1, QuietInv DEF CallStreamed
  <1>5. CASE Disconnects
    <2>1. TalkType' /\ InputType'
      BY <1>5, NothingCounted DEF Disconnects, BurstReset, PttInv, TalkType, InputType
    <2>2. QueueType'
      BY <1>5, PostsType DEF Disconnects, PttInv, Message
    <2> QED
      BY <1>1, <1>5, <2>1, <2>2, QuietInv DEF Disconnects
  <1>6. CASE Exits
    <2>1. TalkType' /\ InputType' /\ QueueType'
      <3>1. QueueType'
        BY <1>6, PttAssumption DEF Exits, QueueType
      <3> QED
        BY <1>6, <3>1 DEF Exits, PttInv, TalkType, InputType, burst
    <2> QED
      BY <1>1, <1>6, <2>1, QuietInv DEF Exits, UiAt
  <1>7. CASE LockAborts
    <2>1. TalkType' /\ InputType' /\ QueueType'
      BY <1>7 DEF LockAborts, PttInv, TalkType, InputType, QueueType, burst, input
    <2> QED
      BY <1>1, <1>7, <2>1, QuietInv DEF LockAborts
  <1>8. CASE Welcomed
    <2>1. TalkType' /\ InputType' /\ QueueType'
      BY <1>8 DEF Welcomed, PttInv, TalkType, InputType, QueueType, burst, input, relay
    <2> QED
      BY <1>1, <1>8, <2>1, QuietInv DEF Welcomed
  <1>9. CASE EngineSteps /\ UNCHANGED <<after, queue, input, locked, burst, relay>>
    <2>1. AudioInv' /\ Rests
      BY <1>9, EngineStepsInv DEF PttInv
    <2>2. TalkType' /\ InputType' /\ QueueType'
      BY <1>9 DEF PttInv, TalkType, InputType, QueueType, burst, input, relay
    <2>3. after # "gone"
      BY <1>9, CallType DEF EngineSteps, EngineLocks, DeviceStops, PumpJoined, PttInv, Talks
    <2>4. ~(Off' /\ On')
      BY DEF Off, On
    <2> QED
      BY <1>9, <2>1, <2>2, <2>3, <2>4 DEF PttInv, Talks, Rests
  <1> QED
    BY <1>2, <1>3, <1>4, <1>5, <1>6, <1>7, <1>8, <1>9 DEF Continues

\* The threads that post messages, and the server.
LEMMA OthersPtt ==
    ASSUME PttInv, OtherThreads \/ PumpReturns, TalkType', InputType', QueueType',
           UNCHANGED <<after, locked, ready>>
    PROVE  PttInv'
  <1>1. AudioInv' /\ Rests /\ engineCall' = engineCall
    BY OtherThreadsInv DEF PttInv, OtherThreads, CallbackEnters, CallbackStores, PumpTakes,
                           PumpReturns, PumpEnds
  <1>2. ~(Off' /\ On')
    BY DEF Off, On
  <1> QED
    BY <1>1, <1>2 DEF PttInv, Talks, Rests

\* Every step keeps the invariant.
LEMMA NextPtt == PttInv /\ [PttNext]_pttVars => PttInv'
  <1> SUFFICES ASSUME PttInv, [PttNext]_pttVars PROVE PttInv'
    OBVIOUS
  <1>1. CASE UNCHANGED pttVars
    <2>1. TalkType' /\ InputType' /\ QueueType'
      BY <1>1 DEF pttVars, PttInv, TalkType, InputType, QueueType, burst, input, relay
    <2> QED
      BY <1>1, <2>1, QuietInv DEF pttVars, relay, PttInv, Talks
  <1>2. CASE UserSteps \/ Messages \/ Continues
    BY <1>2, UserStepsPtt, MessagesPtt, ContinuesPtt
  <1>3. CASE DecayPosted
    <2>1. TalkType' /\ InputType' /\ QueueType'
      BY <1>3 DEF DecayPosted, PttInv, TalkType, InputType, QueueType, input, relay
    <2> QED
      BY <1>3, <2>1, QuietInv DEF DecayPosted, relay, PttInv, Talks
  <1>4. CASE DecayHandled
    <2>1. TalkType'
      BY <1>4, NothingCounted DEF DecayHandled, BurstReset, PttInv, TalkType, relay
    <2>2. InputType' /\ QueueType'
      BY <1>4 DEF DecayHandled, PttInv, InputType, QueueType, input
    <2> QED
      BY <1>4, <2>1, <2>2, QuietInv DEF DecayHandled, relay, PttInv, Talks
  <1>5. CASE OtherThreads /\ UNCHANGED <<after, queue, input, locked, burst, relay>>
    <2>1. TalkType' /\ InputType' /\ QueueType'
      BY <1>5 DEF PttInv, TalkType, InputType, QueueType, burst, input, relay
    <2> QED
      BY <1>5, <2>1, OthersPtt DEF relay
  <1>6. CASE PumpSends
    <2>1. TalkType' /\ InputType' /\ QueueType'
      BY <1>6 DEF PumpSends, FrameOpens, PttInv, TalkType, InputType, QueueType, burst, input
    <2> QED
      BY <1>6, <2>1, OthersPtt DEF PumpSends, FrameOpens
  <1>7. CASE SessionReady
    <2>1. queue' \in Seq(Message) /\ Len(queue') = Len(queue) + 2 /\ Len(queue) \in Nat
      BY <1>7 DEF SessionReady, PttInv, QueueType, Message
    <2>2. QueueType'
      BY <1>7, <2>1, PttAssumption DEF SessionReady, Room, QueueType
    <2>3. TalkType' /\ InputType'
      BY <1>7 DEF SessionReady, PttInv, TalkType, InputType, burst, input
    <2> QED
      BY <1>7, <2>2, <2>3, QuietInv DEF SessionReady
  <1>8. CASE SessionLost
    <2>1. TalkType'
      BY <1>8 DEF SessionLost, PttInv, TalkType, burst
    <2>2. InputType' /\ QueueType'
      BY <1>8 DEF SessionLost, PttInv, InputType, QueueType, input
    <2> QED
      BY <1>8, <2>1, <2>2, QuietInv DEF SessionLost, PttInv, Talks
  <1>9. CASE WatchdogCloses
    <2>1. TalkType'
      BY <1>9 DEF WatchdogCloses, PttInv, TalkType, burst
    <2>2. InputType' /\ QueueType'
      BY <1>9 DEF WatchdogCloses, PttInv, InputType, QueueType, input
    <2> QED
      BY <1>9, <2>1, <2>2, QuietInv DEF WatchdogCloses, PttInv, Talks
  <1>10. ASSUME NEW m \in {"txstop", "lock", "unlock"}, ServerSays(m) PROVE PttInv'
    <2>1. QueueType'
      BY <1>10, PostsType DEF ServerSays, PttInv, Message
    <2>2. TalkType' /\ InputType'
      BY <1>10 DEF ServerSays, Talk, PttInv, TalkType, InputType, burst, input, relay
    <2> QED
      BY <1>10, <2>1, <2>2, QuietInv DEF ServerSays, Talk, relay, PttInv, Talks
  <1> QED
    BY <1>1, <1>2, <1>3, <1>4, <1>5, <1>6, <1>7, <1>8, <1>9, <1>10 DEF PttNext

\* A quick release guard that counts or blocks keeps a timer through every step
\* that draws a ticket or voids one.
LEMMA NextBurst == BurstTimerArmed /\ [PttNext]_pttVars => BurstTimerArmed'
  <1> SUFFICES ASSUME BurstTimerArmed, [PttNext]_pttVars PROVE BurstTimerArmed'
    OBVIOUS
  <1> DEFINE Armed == UNCHANGED burst \/ decay' # "none" \/ BurstReset
  <1>1. Armed => BurstTimerArmed'
    BY DEF BurstTimerArmed, burst, BurstReset
  <1>2. BeginPttTx \/ EndPttTx \/ TogglePttTx \/ UNCHANGED Talk => Armed
    BY DEF BeginPttTx, EndPttTx, TogglePttTx, BurstExtended, BurstRecorded, Talk
  <1>3. UserSteps => Armed
    BY <1>2 DEF UserSteps, MouseDown, MouseUp, ButtonClicked, HookDown, HookUp, CallClicked,
                DisconnectClicked, ExitRequested, SettingsAccepted
  <1>4. Messages => Armed
    BY <1>2 DEF Messages, HandleBegin, HandleEnd, HandleToggle, OnTxStop, OnServerPttLock,
                OnServerPttUnlock, OnWelcome, OnConnected
  <1>5. Continues => Armed
    BY DEF Continues, Roger, TxClosed, CallStreamed, Disconnects, Exits, LockAborts, Welcomed
  <1>6. DecayPosted \/ DecayHandled \/ PumpSends \/ SessionReady \/ SessionLost
          \/ WatchdogCloses \/ UNCHANGED pttVars
          \/ (\E m \in {"txstop", "lock", "unlock"} : ServerSays(m))
        => Armed
    BY DEF DecayPosted, DecayHandled, PumpSends, SessionReady, SessionLost, WatchdogCloses,
           ServerSays, Talk, pttVars
  <1> QED
    BY <1>1, <1>3, <1>4, <1>5, <1>6 DEF PttNext

\* Every field of the frame and of the engine keeps its type, and the window's
\* queue its size (MainFrame.h, AudioEngine.h).
THEOREM PttTypeCorrect == PttSpec => []PttTypeOK
  BY InitPtt, NextPtt, PttInvMeans, PTL DEF PttSpec

\* Between two handlers of the UI thread the engine is off, or captures with its
\* flag up and one live pump, and never under the server's lock: every stop leads
\* back there, whatever the callback and the pump were doing
\* (MainFrame.cpp:3377-3422, 3582-3612, AudioEngine.cpp:452-480, 774-857).
THEOREM EngineAlwaysSettles == PttSpec => []EngineSettles
  BY InitPtt, NextPtt, PttInvMeans, PTL DEF PttSpec

\* A talk button that counts or blocks quick releases has a timer that will clear
\* it (MainFrame.cpp:3466-3511).
THEOREM BurstTimersArmed == PttSpec => []BurstTimerArmed
  BY InitPtt, NextBurst, PTL DEF PttSpec

-----------------------------------------------------------------------------
(* Connection profiles: what the screen shows.                             *)

\* A file that reads back names one of its profiles.
StoredSound ==
    /\ stored \in [state : {"absent", "torn", "whole"}, active : Nat, list : Seq(Profile)]
    /\ stored.state = "whole" =>
          /\ Len(stored.list) \in 1..MaxProfiles
          /\ stored.active \in 1..Len(stored.list)

\* The parts of ScreenShowsActiveProfile that a step keeps together.
Shows ==
    /\ profiles \in Seq(Profile) /\ Len(profiles) \in 1..MaxProfiles
    /\ active \in 1..Len(profiles) /\ screen \in Profile
    /\ shows = active /\ picked = active

ScreenInv == Shows /\ userWantsSession \in BOOLEAN /\ StoredSound

\* The invariant gives the property.
LEMMA ScreenInvMeans == ScreenInv => ScreenShowsActiveProfile
  <1> SUFFICES ASSUME ScreenInv PROVE ScreenShowsActiveProfile
    OBVIOUS
  <1>1. active \in 1..MaxProfiles /\ active \in DOMAIN profiles /\ active \in 0..MaxProfiles
    BY ProfilesAssumption DEF ScreenInv, Shows
  <1>2. stored.state \in {"absent", "torn", "whole"} /\ stored.list \in Seq(Profile)
    BY DEF ScreenInv, StoredSound
  <1> QED
    BY <1>1, <1>2 DEF ScreenInv, Shows, ScreenShowsActiveProfile, ProfilesTypeOK

\* The parts of the invariant, with the numbers they are about.
LEMMA ProfilesParts ==
    ASSUME ScreenInv
    PROVE  /\ Shows /\ StoredSound /\ userWantsSession \in BOOLEAN
           /\ Len(profiles) \in Nat /\ active \in Nat /\ MaxProfiles \in Nat
  BY ProfilesAssumption DEF ScreenInv, Shows

\* The fields on screen go into a profile of the list.
LEMMA SyncType ==
    ASSUME ScreenInv, NEW s \in Profile
    PROVE  LET list == SyncActiveProfileFromUi(s) IN
              list \in Seq(Profile) /\ Len(list) = Len(profiles)
  BY ProfilesParts DEF SyncActiveProfileFromUi, Shows

\* A profile whose field or flag is changed is a profile.
LEMMA ProfileFields ==
    /\ New \in Profile
    /\ \A s \in Profile : /\ s.field \in Field /\ s.repeater \in BOOLEAN
                          /\ [s EXCEPT !.repeater = ~@] \in Profile
                          /\ \A b \in BOOLEAN : [s EXCEPT !.repeater = b] \in Profile
                          /\ \A f \in Field : [s EXCEPT !.field = f] \in Profile
  BY ProfilesAssumption DEF New, Profile

\* A step that leaves the file as it is.
LEMMA StoredUnchanged == ASSUME StoredSound, UNCHANGED stored PROVE StoredSound'
  BY DEF StoredSound

\* A client that has no profiles yet makes one.
LEMMA InitScreen == ProfilesInit => ScreenInv
  <1> SUFFICES ASSUME ProfilesInit PROVE ScreenInv
    OBVIOUS
  <1>1. PICK legacy \in Profile :
           /\ profiles = <<legacy>> /\ screen = legacy
           /\ \/ stored = [state |-> "absent", active |-> 1, list |-> <<>>]
              \/ stored = [state |-> "whole", active |-> 1, list |-> <<legacy>>]
    BY DEF ProfilesInit
  <1>2. profiles \in Seq(Profile) /\ Len(profiles) = 1 /\ profiles[1] = legacy
    BY <1>1
  <1>3. StoredSound
    <2>1. CASE stored = [state |-> "absent", active |-> 1, list |-> <<>>]
      BY <2>1 DEF StoredSound
    <2>2. CASE stored = [state |-> "whole", active |-> 1, list |-> <<legacy>>]
      BY <2>2, <1>1, <1>2, ProfilesAssumption DEF StoredSound
    <2> QED
      BY <1>1, <2>1, <2>2
  <1>4. /\ active = 1 /\ picked = 1 /\ shows = 1 /\ userWantsSession = FALSE
    BY DEF ProfilesInit
  <1>5. Shows
    BY <1>1, <1>2, <1>4, ProfilesAssumption DEF Shows
  <1> QED
    BY <1>3, <1>4, <1>5 DEF ScreenInv

\* A save: the file is truncated, not opened, or written.
LEMMA SavesScreen ==
    ASSUME ScreenInv, ProfilesTruncated \/ ProfilesNotOpened \/ ProfilesWritten
    PROVE  ScreenInv'
  <1>1. UNCHANGED <<profiles, active, screen, picked, userWantsSession, shows>>
    BY DEF ProfilesTruncated, ProfilesNotOpened, ProfilesWritten
  <1>2. StoredSound'
    <2>1. CASE ProfilesTruncated
      BY <2>1, ProfilesParts DEF ProfilesTruncated, StoredSound
    <2>2. CASE ProfilesNotOpened
      BY <2>2, ProfilesParts, StoredUnchanged DEF ProfilesNotOpened
    <2>3. CASE ProfilesWritten
      BY <2>3, ProfilesParts DEF ProfilesWritten, StoredSound, Shows
    <2> QED
      BY <2>1, <2>2, <2>3
  <1> QED
    BY <1>1, <1>2, ProfilesParts DEF ScreenInv, Shows

\* The client starts: the list is read, and its active profile shown.
LEMMA LoadsScreen ==
    ASSUME ScreenInv, LoadProfiles
    PROVE  ScreenInv'
  <1>1. profiles' \in Seq(Profile) /\ Len(profiles') \in 1..MaxProfiles /\ active' \in 1..Len(profiles')
    <2>1. CASE stored.state = "whole"
      BY <2>1, ProfilesParts DEF LoadProfiles, StoredSound
    <2>2. CASE stored.state # "whole"
      <3>1. profiles' = <<New>> /\ active' = 1
        BY <2>2 DEF LoadProfiles
      <3>2. profiles' \in Seq(Profile) /\ Len(profiles') = 1
        BY <3>1, ProfileFields
      <3> QED
        BY <3>1, <3>2, ProfilesAssumption
    <2> QED
      BY <2>1, <2>2
  <1>2. screen' \in Profile
    BY <1>1 DEF LoadProfiles, SyncUiFromActiveProfile
  <1>3. /\ shows' = active' /\ picked' = active' /\ userWantsSession' = FALSE
        /\ UNCHANGED stored
    BY DEF LoadProfiles, SyncUiFromActiveProfile, RepopulateProfileChoice
  <1> QED
    BY <1>1, <1>2, <1>3, ProfilesParts, StoredUnchanged DEF ScreenInv, Shows

\* The list with the screen's fields in the active profile.
LEMMA SyncedScreen ==
    ASSUME ScreenInv, screen' \in Profile, profiles' = SyncActiveProfileFromUi(screen'),
           active' = active, shows' = active, picked' = active,
           userWantsSession' \in BOOLEAN, UNCHANGED stored
    PROVE  ScreenInv'
  <1>1. profiles' \in Seq(Profile) /\ Len(profiles') = Len(profiles)
    BY SyncType
  <1> QED
    BY <1>1, ProfilesParts, StoredUnchanged DEF ScreenInv, Shows

\* A connect that is refused, or one that is tried.
LEMMA WantsType ==
    ASSUME NEW before, TryConnectWithCurrentFields(before)
    PROVE  userWantsSession' \in BOOLEAN
  BY DEF TryConnectWithCurrentFields

\* A deletion leaves a list with its active profile in it.
LEMMA DeletedType ==
    ASSUME ScreenInv, Deleted
    PROVE  /\ profiles' \in Seq(Profile) /\ Len(profiles') = Len(profiles) - 1
           /\ Len(profiles') \in 1..MaxProfiles /\ active' \in 1..Len(profiles')
  <1> DEFINE front == SubSeq(profiles, 1, picked - 1)
             rest  == SubSeq(profiles, picked + 1, Len(profiles))
             n     == Len(profiles)
  <1>1. profiles \in Seq(Profile) /\ n \in Nat /\ n <= MaxProfiles /\ picked \in 1..n /\ n > 1
        /\ MaxProfiles \in Nat
    BY ProfilesParts DEF Shows, Deleted
  <1>2. front \in Seq(Profile) /\ Len(front) = picked - 1
    BY <1>1, SubSeqProperties, Z3
  <1>3. rest \in Seq(Profile) /\ Len(rest) = n - picked
    BY <1>1, SubSeqProperties, Z3
  <1>4. profiles' = front \o rest
    BY DEF Deleted
  <1> HIDE DEF front, rest
  <1>5. profiles' \in Seq(Profile) /\ Len(profiles') = n - 1
    BY <1>1, <1>2, <1>3, <1>4
  <1>6. active' = Least(picked, n - 1)
    BY DEF Deleted
  <1> QED
    BY <1>1, <1>5, <1>6 DEF Least

\* Every step keeps the invariant.
LEMMA NextScreen == ScreenInv /\ [ProfilesNext]_profileVars => ScreenInv'
  <1> SUFFICES ASSUME ScreenInv, [ProfilesNext]_profileVars PROVE ScreenInv'
    OBVIOUS
  <1>1. CASE UNCHANGED profileVars
    BY <1>1 DEF profileVars, ScreenInv, Shows, StoredSound
  <1>2. CASE ProfilesTruncated \/ ProfilesNotOpened \/ ProfilesWritten \/ LoadProfiles
    BY <1>2, SavesScreen, LoadsScreen
  <1>3. CASE OnRepeaterToggled
    <2>1. /\ screen' = [screen EXCEPT !.repeater = ~@]
          /\ profiles' = [profiles EXCEPT ![active].repeater = ~screen.repeater]
          /\ UNCHANGED <<active, picked, userWantsSession, stored, shows>>
      BY <1>3 DEF OnRepeaterToggled
    <2>2. screen \in Profile /\ screen.repeater \in BOOLEAN
      BY ProfilesParts, ProfileFields DEF Shows
    <2>3. screen' \in Profile
      BY <2>1, <2>2, ProfileFields
    <2>4. /\ profiles \in Seq(Profile) /\ active \in 1..Len(profiles)
      BY ProfilesParts DEF Shows
    <2>5. profiles[active] \in Profile /\ (~screen.repeater) \in BOOLEAN
      BY <2>4
    <2> DEFINE kept == [profiles[active] EXCEPT !.repeater = ~screen.repeater]
    <2>6. kept \in Profile
      BY <2>5, ProfileFields
    <2>7. profiles' = [profiles EXCEPT ![active] = kept]
      BY <2>1
    <2> HIDE DEF kept
    <2>8. profiles' \in Seq(Profile) /\ Len(profiles') = Len(profiles)
      BY <2>4, <2>6, <2>7
    <2> QED
      BY <2>1, <2>3, <2>8, ProfilesParts, StoredUnchanged DEF ScreenInv, Shows
  <1>4. CASE OnSaveProfile
    BY <1>4, ProfilesParts, SyncedScreen DEF OnSaveProfile, RepopulateProfileChoice, Shows
  <1>5. CASE OnNewProfile
    <2>1. /\ profiles' = Append(SyncActiveProfileFromUi(screen), screen)
          /\ Len(profiles) < MaxProfiles /\ active' = Len(profiles')
          /\ picked' = active' /\ shows' = active'
          /\ UNCHANGED <<screen, userWantsSession, stored>>
      BY <1>5 DEF OnNewProfile, RepopulateProfileChoice
    <2>2. /\ profiles' \in Seq(Profile) /\ Len(profiles') = Len(profiles) + 1
      BY <2>1, SyncType, ProfilesParts DEF Shows
    <2> QED
      BY <2>1, <2>2, ProfilesParts, StoredUnchanged DEF ScreenInv, Shows
  <1>6. CASE OnDeleteProfile
    <2>1. /\ screen' = profiles'[active'] /\ shows' = active' /\ picked' = active'
          /\ UNCHANGED <<userWantsSession, stored>>
      BY <1>6 DEF OnDeleteProfile, Deleted, SyncUiFromActiveProfile, RepopulateProfileChoice
    <2>2. screen' \in Profile
      BY <1>6, <2>1, DeletedType DEF OnDeleteProfile
    <2> QED
      BY <1>6, <2>1, <2>2, DeletedType, ProfilesParts, StoredUnchanged
         DEF OnDeleteProfile, ScreenInv, Shows
  <1>7. CASE ConnectClicked
    BY <1>7, ProfilesParts, SyncedScreen, WantsType DEF ConnectClicked, Shows
  <1>8. CASE SessionUnwanted
    BY <1>8, ProfilesParts, StoredUnchanged DEF SessionUnwanted, ScreenInv, Shows
  <1>9. ASSUME NEW f \in Field, Typed(f) PROVE ScreenInv'
    BY <1>9, ProfilesParts, ProfileFields, StoredUnchanged DEF Typed, ScreenInv, Shows
  <1>10. ASSUME NEW f \in Field, OnImportConnectionLink(f) PROVE ScreenInv'
    <2>1. userWantsSession' \in BOOLEAN
      BY <1>10, ProfilesParts, WantsType DEF OnImportConnectionLink
    <2> QED
      BY <1>10, <2>1, ProfilesParts, ProfileFields, SyncedScreen
         DEF OnImportConnectionLink, ApplyConnectUri, Shows
  <1>11. ASSUME NEW sel \in DOMAIN profiles, OnProfileChoice(sel) PROVE ScreenInv'
    <2>1. userWantsSession' \in BOOLEAN
      BY <1>11, ProfilesParts, WantsType DEF OnProfileChoice
    <2>2. /\ picked' = sel /\ active' = sel /\ UNCHANGED <<profiles, stored>>
          /\ screen' = profiles[sel] /\ shows' = active'
      BY <1>11 DEF OnProfileChoice, SyncUiFromActiveProfile
    <2> QED
      BY <2>1, <2>2, ProfilesParts, StoredUnchanged DEF ScreenInv, Shows
  <1> QED
    BY <1>1, <1>2, <1>3, <1>4, <1>5, <1>6, <1>7, <1>8, <1>9, <1>10, <1>11 DEF ProfilesNext

\* The fields on screen are those of the profile a save would overwrite, and the
\* choice control names it, after any switch, deletion, link, failed save or
\* restart (MainFrame.cpp:2521-2660).
THEOREM ScreenShowsActive == SettingsSpec => []ScreenShowsActiveProfile
  <1>1. SettingsInit => ScreenInv
    BY InitScreen DEF SettingsInit
  <1>2. ScreenInv /\ [SettingsNext]_settingsVars => ScreenInv'
    BY NextScreen DEF SettingsNext, settingsVars
  <1> QED
    BY <1>1, <1>2, ScreenInvMeans, PTL DEF SettingsSpec

-----------------------------------------------------------------------------
(* Signal patterns: the lists.                                             *)

\* A nonempty set of naturals has a least element.
LEMMA LeastNumber ==
    ASSUME NEW S, \A p \in S : p \in Nat, NEW m \in S
    PROVE  \E q \in S : \A p \in S : q <= p
  <1> DEFINE U == {p \in S : p <= m}
             below(q) == {p \in U : p <= q}
             T == {below(q) : q \in U}
  <1>1. U \subseteq 0..m /\ m \in Nat /\ m \in U /\ U \subseteq S
    OBVIOUS
  <1>2. \A q \in S \ U : q > m
    OBVIOUS
  <1>3. IsFiniteSet(U)
    <2>1. IsFiniteSet(0..m)
      BY <1>1, FS_Interval
    <2> QED
      BY <1>1, <2>1, FS_Subset
  <1> HIDE DEF U
  <1>4. \A p \in U : p \in Nat
    BY <1>1
  <1>5. \A q \in U : below(q) \in SUBSET U /\ IsFiniteSet(below(q))
    BY <1>3, FS_Subset
  <1>6. T # {} /\ T \subseteq FiniteSubsetsOf(U)
    BY <1>1, <1>5 DEF FiniteSubsetsOf
  <1>7. PICK x \in T : \A y \in T : <<y, x>> \notin StrictSubsetOrdering(U)
    BY <1>6, FS_StrictSubsetOrderingWellFounded, WFMin
  <1>8. PICK q \in U : x = below(q)
    BY <1>7
  <1>9. ASSUME NEW p \in U, p < q PROVE FALSE
    <2>1. below(p) \subseteq below(q) /\ q \notin below(p) /\ q \in below(q)
      BY <1>4, <1>9
    <2>2. below(p) \in T /\ below(p) \in SUBSET U /\ below(q) \in SUBSET U
      BY <1>5
    <2>3. <<below(p), below(q)>> \in StrictSubsetOrdering(U)
      BY <2>1, <2>2 DEF StrictSubsetOrdering
    <2> QED
      BY <1>7, <1>8, <2>2, <2>3
  <1>10. \A p \in U : q <= p
    BY <1>4, <1>9
  <1>11. q <= m /\ q \in Nat
    BY <1>1, <1>4, <1>10
  <1>12. \A p \in S : q <= p
    BY <1>1, <1>2, <1>10, <1>11
  <1> QED
    BY <1>1, <1>12

\* The first index of a set of indices is one of them.
LEMMA FirstIs ==
    ASSUME NEW S \in SUBSET Nat, S # {}
    PROVE  First(S) \in S
  <1>1. \E q \in S : \A p \in S : q <= p
    BY LeastNumber
  <1> QED
    BY <1>1 DEF First

\* What an upsert makes of a list: a list of patterns with every id it had, and
\* with the one it returns.
LEMMA UpsertedSound ==
    ASSUME NEW list \in Seq(Pattern), NEW p \in Pattern, NEW new \in BOOLEAN
    PROVE  LET up == Upserted(list, p, new) IN
              /\ up.list \in Seq(Pattern) /\ up.id \in Ids(up.list) /\ up.id \in PatternId
              /\ Ids(list) \subseteq Ids(up.list)
  <1>1. /\ DOMAIN list = 1..Len(list) /\ Len(list) \in Nat
        /\ \A i \in DOMAIN list : list[i] \in Pattern /\ list[i].id \in PatternId
        /\ p.id \in PatternId
    <2>1. \A q \in Pattern : q.id \in PatternId
      BY DEF Pattern
    <2>2. DOMAIN list = 1..Len(list) /\ Len(list) \in Nat /\ \A i \in DOMAIN list : list[i] \in Pattern
      OBVIOUS
    <2> QED
      BY <2>1, <2>2
  <1>2. CASE ~new /\ ById(list, p) # {}
    <2> DEFINE i == First(ById(list, p))
    <2>1. ById(list, p) \in SUBSET Nat
      BY <1>1 DEF ById
    <2>2. i \in DOMAIN list /\ list[i].id = p.id
      BY <1>2, <2>1, FirstIs DEF ById
    <2> HIDE DEF i
    <2> DEFINE other == [list EXCEPT ![i] = p]
    <2>3. other \in Seq(Pattern) /\ DOMAIN other = DOMAIN list
          /\ \A j \in DOMAIN list : other[j].id = list[j].id
      BY <1>1, <2>2
    <2>4. Upserted(list, p, new) = [list |-> other, id |-> p.id]
      BY <1>2 DEF Upserted, i
    <2> HIDE DEF other
    <2>5. Ids(other) = Ids(list) /\ p.id \in Ids(list)
      BY <1>1, <2>2, <2>3 DEF Ids
    <2>6. Upserted(list, p, new).list = other /\ Upserted(list, p, new).id = p.id
      BY <2>4
    <2> QED
      BY <1>1, <2>3, <2>5, <2>6
  <1>3. CASE ~(~new /\ ById(list, p) # {}) /\ ByName(list, p) # {}
    <2> DEFINE i == First(ByName(list, p))
    <2>1. ByName(list, p) \in SUBSET Nat
      BY <1>1 DEF ByName
    <2>2. i \in DOMAIN list
      BY <1>3, <2>1, FirstIs DEF ByName
    <2>3. Upserted(list, p, new) = [list |-> list, id |-> list[i].id]
      BY <1>3 DEF Upserted
    <2> HIDE DEF i
    <2> QED
      BY <1>1, <2>2, <2>3 DEF Ids
  <1>4. CASE ~(~new /\ ById(list, p) # {}) /\ ByName(list, p) = {}
    <2> DEFINE longer == Append(list, p)
    <2>1. Upserted(list, p, new) = [list |-> longer, id |-> p.id]
      BY <1>4 DEF Upserted
    <2>2. /\ longer \in Seq(Pattern) /\ DOMAIN longer = 1..Len(list) + 1
          /\ \A j \in DOMAIN list : longer[j] = list[j]
          /\ longer[Len(list) + 1] = p
      BY <1>1
    <2> HIDE DEF longer
    <2>3. Ids(list) \subseteq Ids(longer) /\ p.id \in Ids(longer)
      BY <1>1, <2>2 DEF Ids
    <2>4. Upserted(list, p, new).list = longer /\ Upserted(list, p, new).id = p.id
      BY <2>1
    <2> QED
      BY <1>1, <2>2, <2>3, <2>4
  <1> QED
    BY <1>2, <1>3, <1>4

\* A deletion keeps every pattern of another id.
LEMMA WithoutSound ==
    ASSUME NEW list \in Seq(Pattern), NEW id
    PROVE  /\ Without(list, id) \in Seq(Pattern)
           /\ Ids(list) \ {id} \subseteq Ids(Without(list, id))
  <1> DEFINE Keep(s, n) == IF list[n].id = id THEN s ELSE Append(s, list[n])
             IsKept(f, n) == /\ f \in [0..n -> Seq(Pattern)] /\ f[0] = <<>>
                             /\ \A i \in 1..n : f[i] = Keep(f[i - 1], i)
             Goal(f, n) == \A i \in 1..n : list[i].id # id => list[i].id \in Ids(f[n])
  <1>1. Len(list) \in Nat /\ \A i \in 1..Len(list) : list[i] \in Pattern
    OBVIOUS
  <1>2. \E f : IsKept(f, Len(list)) /\ Goal(f, Len(list))
    <2> DEFINE Has(n) == \E f : IsKept(f, n) /\ Goal(f, n)
               Bad == {n \in 0..Len(list) : ~Has(n)}
    <2> SUFFICES Has(Len(list))
      OBVIOUS
    <2> HIDE DEF Has
    <2>1. SUFFICES ASSUME NEW last \in Bad PROVE FALSE
      BY <1>1
    <2>2. PICK n \in Bad : \A m \in Bad : n <= m
      <3>1. \A m \in Bad : m \in Nat
        BY <1>1
      <3> HIDE DEF Bad
      <3> QED
        BY <2>1, <3>1, LeastNumber
    <2>3. n # 0
      <3>1. IsKept([i \in 0..0 |-> <<>>], 0) /\ Goal([i \in 0..0 |-> <<>>], 0)
        OBVIOUS
      <3> QED
        BY <2>2, <3>1 DEF Has
    <2>4. n \in 1..Len(list) /\ n - 1 \in 0..Len(list) /\ Has(n - 1)
      BY <1>1, <2>2, <2>3
    <2>5. PICK f : IsKept(f, n - 1) /\ Goal(f, n - 1)
      BY <2>4 DEF Has
    <2> DEFINE g == [i \in 0..n |-> IF i = n THEN Keep(f[n - 1], n) ELSE f[i]]
    <2>6. f[n - 1] \in Seq(Pattern)
      BY <2>4, <2>5
    <2>7. Keep(f[n - 1], n) \in Seq(Pattern) /\ Ids(f[n - 1]) \subseteq Ids(Keep(f[n - 1], n))
          /\ (list[n].id # id => list[n].id \in Ids(Keep(f[n - 1], n)))
      <3>1. CASE list[n].id = id
        BY <2>6, <3>1
      <3>2. CASE list[n].id # id
        <4> DEFINE s == f[n - 1]
        <4>1. Append(s, list[n]) \in Seq(Pattern) /\ Len(s) \in Nat /\ DOMAIN s = 1..Len(s)
              /\ DOMAIN Append(s, list[n]) = 1..Len(s) + 1
              /\ (\A j \in 1..Len(s) : Append(s, list[n])[j] = s[j])
              /\ Append(s, list[n])[Len(s) + 1] = list[n]
          BY <1>1, <2>4, <2>6
        <4> HIDE DEF s
        <4>2. Ids(s) \subseteq Ids(Append(s, list[n])) /\ list[n].id \in Ids(Append(s, list[n]))
          BY <4>1 DEF Ids
        <4> QED
          BY <3>2, <4>1, <4>2 DEF s
      <3> QED
        BY <3>1, <3>2
    <2>8. IsKept(g, n)
      <3>1. g \in [0..n -> Seq(Pattern)]
        BY <2>4, <2>5, <2>7
      <3>2. g[0] = <<>>
        BY <2>4, <2>5
      <3>3. ASSUME NEW i \in 1..n PROVE g[i] = Keep(g[i - 1], i)
        <4>1. CASE i = n
          BY <2>4, <4>1
        <4>2. CASE i # n
          <5>1. i \in 1..n - 1 /\ i \in 0..n /\ i - 1 \in 0..n /\ i - 1 # n
            BY <2>4, <4>2
          <5>2. g[i] = f[i] /\ g[i - 1] = f[i - 1]
            BY <4>2, <5>1
          <5> QED
            BY <2>5, <5>1, <5>2
        <4> QED
          BY <4>1, <4>2
      <3> QED
        BY <3>1, <3>2, <3>3
    <2>9. Goal(g, n)
      <3>1. g[n] = Keep(f[n - 1], n)
        BY <2>4
      <3>2. ASSUME NEW i \in 1..n, list[i].id # id PROVE list[i].id \in Ids(g[n])
        <4>1. CASE i = n
          BY <2>7, <3>1, <3>2, <4>1
        <4>2. CASE i # n
          BY <2>4, <2>5, <2>7, <3>1, <3>2, <4>2
        <4> QED
          BY <4>1, <4>2
      <3> QED
        BY <3>2
    <2> QED
      BY <2>2, <2>8, <2>9 DEF Has
  <1>3. PICK f : IsKept(f, Len(list)) /\ Goal(f, Len(list))
    BY <1>2
  <1> DEFINE Defines(h) ==
               h = [n \in 0..Len(list) |->
                      IF n = 0 THEN <<>>
                      ELSE IF list[n].id = id THEN h[n - 1] ELSE Append(h[n - 1], list[n])]
             kept == CHOOSE h : Defines(h)
  <1>4. Defines(f)
    <2>1. ASSUME NEW n \in 0..Len(list)
          PROVE  f[n] = IF n = 0 THEN <<>>
                        ELSE IF list[n].id = id THEN f[n - 1] ELSE Append(f[n - 1], list[n])
      <3>1. CASE n = 0
        BY <1>3, <3>1
      <3>2. CASE n # 0
        <4>1. n \in 1..Len(list)
          BY <1>1, <3>2
        <4>2. f[n] = Keep(f[n - 1], n)
          BY <1>3, <4>1
        <4> QED
          BY <3>2, <4>2
      <3> QED
        BY <3>1, <3>2
    <2> QED
      BY <1>3, <2>1
  <1>5. Defines(kept)
    BY <1>4
  <1>6. Without(list, id) = kept[Len(list)]
    BY DEF Without
  <1> HIDE DEF kept
  <1>7. \A n \in 0..Len(list) : kept[n] = f[n]
    <2> DEFINE Bad == {n \in 0..Len(list) : kept[n] # f[n]}
    <2>1. SUFFICES ASSUME NEW last \in Bad PROVE FALSE
      OBVIOUS
    <2>2. PICK n \in Bad : \A m \in Bad : n <= m
      <3>1. \A m \in Bad : m \in Nat
        BY <1>1
      <3> HIDE DEF Bad
      <3> QED
        BY <2>1, <3>1, LeastNumber
    <2>3. CASE n = 0
      BY <1>1, <1>4, <1>5, <2>2, <2>3
    <2>4. CASE n # 0
      <3>1. n - 1 \in 0..Len(list) /\ kept[n - 1] = f[n - 1]
        BY <1>1, <2>2, <2>4
      <3> DEFINE s == kept[n - 1]
                 next == IF list[n].id = id THEN s ELSE Append(s, list[n])
      <3>2. kept[n] = next
        BY <1>5, <2>2, <2>4
      <3>3. f[n] = next
        BY <1>4, <2>2, <2>4, <3>1
      <3> QED
        BY <2>2, <3>2, <3>3
    <2> QED
      BY <2>3, <2>4
  <1>8. Without(list, id) = f[Len(list)]
    BY <1>1, <1>6, <1>7
  <1>9. f[Len(list)] \in Seq(Pattern)
    BY <1>1, <1>3
  <1>10. ASSUME NEW x \in Ids(list), x # id PROVE x \in Ids(f[Len(list)])
    <2>1. PICK i \in 1..Len(list) : x = list[i].id
      BY <1>1, <1>10 DEF Ids
    <2> QED
      BY <1>3, <1>10, <2>1
  <1> QED
    BY <1>8, <1>9, <1>10

-----------------------------------------------------------------------------
(* Signal patterns: what a handler still has to do.                        *)

AnyId == PatternId \cup {"none", "variant_1", "call_variant_1"}

Effect == {"open audio", "write audio", "open patterns", "write patterns",
           "apply", "set roger", "set call"}

SetId(k) == SetPatternId[k][1]

\* An effect is still to come; it is, and none of another kind comes before.
Ahead(e, list)        == \E i \in DOMAIN list : list[i] = e
Sooner(e, than, list) == \E i \in DOMAIN list :
                           list[i] = e /\ \A j \in 1..i : list[j] # than

\* A file that is opened is written next.
Paired(list) ==
    \A i \in DOMAIN list, f \in File :
        list[i] = Opens(f) => i + 1 \in DOMAIN list /\ list[i + 1] = Writes(f)

Sequel == todo \in Seq(Effect) /\ Paired(todo)

\* The effect that tells the engine the selection of a kind.
LEMMA KindSteps ==
    /\ Kind = {"roger", "call"} /\ SetId("roger") = "set roger" /\ SetId("call") = "set call"
    /\ \A k \in Kind : SetPatternId[k] = <<SetId(k)>> /\ SetId(k) \in {"set roger", "set call"}
  <1>1. Kind = {"roger", "call"}
    BY DEF Kind
  <1>2. SetPatternId["roger"] = <<"set roger">> /\ SetPatternId["call"] = <<"set call">>
    BY DEF SetPatternId
  <1>3. \A x : <<x>>[1] = x
    OBVIOUS
  <1>4. SetId("roger") = "set roger"
    BY <1>2, <1>3 DEF SetId
  <1>5. SetId("call") = "set call"
    BY <1>2, <1>3 DEF SetId
  <1> QED
    BY <1>1, <1>2, <1>4, <1>5

\* The head of the list is done.
LEMMA TailSteps ==
    ASSUME NEW list \in Seq(Effect), list # <<>>, Paired(list)
    PROVE  /\ Tail(list) \in Seq(Effect) /\ Paired(Tail(list))
           /\ \A e : Ahead(e, list) /\ e # Head(list) => Ahead(e, Tail(list))
           /\ \A e, than : Sooner(e, than, Tail(list)) /\ Head(list) # than
                            => Sooner(e, than, list)
           /\ \A f \in File : Head(list) = Opens(f)
                => /\ Tail(list) # <<>> /\ Head(Tail(list)) = Writes(f)
                   /\ Ahead(Writes(f), Tail(list))
                   /\ \A e : e # Writes(f) => ~Sooner(e, Writes(f), Tail(list))
  <1> DEFINE rest == Tail(list)
  <1>1. /\ rest \in Seq(Effect) /\ Len(rest) = Len(list) - 1 /\ Len(list) \in Nat \ {0}
        /\ DOMAIN list = 1..Len(list) /\ DOMAIN rest = 1..Len(rest) /\ Len(rest) \in Nat
        /\ Head(list) = list[1]
    OBVIOUS
  <1>2. \A i \in 1..Len(rest) : rest[i] = list[i + 1]
    OBVIOUS
  <1> HIDE DEF rest
  <1>3. Paired(rest)
    <2> SUFFICES ASSUME NEW i \in DOMAIN rest, NEW f \in File, rest[i] = Opens(f)
                 PROVE  i + 1 \in DOMAIN rest /\ rest[i + 1] = Writes(f)
      BY DEF Paired
    <2>1. i + 1 \in DOMAIN list /\ list[i + 1] = Opens(f)
      BY <1>1, <1>2
    <2>2. i + 2 \in DOMAIN list /\ list[(i + 1) + 1] = Writes(f) /\ (i + 1) + 1 = i + 2
      BY <1>1, <2>1 DEF Paired
    <2>3. i + 1 \in 1..Len(rest)
      BY <1>1, <2>2
    <2> QED
      BY <1>1, <1>2, <2>2, <2>3
  <1>4. ASSUME NEW e, Ahead(e, list), e # Head(list) PROVE Ahead(e, rest)
    <2>1. PICK i \in DOMAIN list : list[i] = e
      BY <1>4 DEF Ahead
    <2>2. i # 1 /\ i - 1 \in 1..Len(rest) /\ (i - 1) + 1 = i
      BY <1>1, <1>4, <2>1
    <2>3. rest[i - 1] = e
      BY <1>2, <2>1, <2>2
    <2> QED
      BY <1>1, <2>2, <2>3 DEF Ahead
  <1>5. ASSUME NEW e, NEW than, Sooner(e, than, rest), Head(list) # than
        PROVE  Sooner(e, than, list)
    <2>1. PICK i \in 1..Len(rest) : rest[i] = e /\ \A j \in 1..i : rest[j] # than
      BY <1>1, <1>5 DEF Sooner
    <2>2. i + 1 \in DOMAIN list /\ list[i + 1] = e
      BY <1>1, <1>2, <2>1
    <2>3. ASSUME NEW j \in 1..i + 1 PROVE list[j] # than
      <3>1. CASE j = 1
        BY <1>1, <1>5, <3>1
      <3>2. CASE j # 1
        <4>1. j - 1 \in 1..i /\ j - 1 \in 1..Len(rest) /\ (j - 1) + 1 = j
          BY <1>1, <3>2
        <4> QED
          BY <1>2, <2>1, <4>1
      <3> QED
        BY <3>1, <3>2
    <2> QED
      BY <2>2, <2>3 DEF Sooner
  <1>6. ASSUME NEW f \in File, Head(list) = Opens(f)
        PROVE  /\ rest # <<>> /\ Head(rest) = Writes(f) /\ Ahead(Writes(f), rest)
               /\ \A e : e # Writes(f) => ~Sooner(e, Writes(f), rest)
    <2>1. 1 \in DOMAIN list /\ list[1] = Opens(f)
      BY <1>1, <1>6
    <2>2. 1 + 1 \in DOMAIN list /\ list[1 + 1] = Writes(f)
      BY <2>1 DEF Paired
    <2>3. 1 \in 1..Len(rest) /\ rest[1] = Writes(f)
      BY <1>1, <1>2, <2>2
    <2>4. rest # <<>> /\ Head(rest) = rest[1]
      BY <1>1, <2>3
    <2>5. \A i \in DOMAIN rest : 1 \in 1..i
      BY <1>1
    <2> QED
      BY <1>1, <2>3, <2>4, <2>5 DEF Ahead, Sooner
  <1> QED
    BY <1>1, <1>3, <1>4, <1>5, <1>6 DEF rest

\* One list after another.
LEMMA JoinedSteps ==
    ASSUME NEW a \in Seq(Effect), NEW b \in Seq(Effect), Paired(a), Paired(b)
    PROVE  /\ a \o b \in Seq(Effect) /\ Paired(a \o b)
           /\ \A e : Ahead(e, a \o b) <=> Ahead(e, a) \/ Ahead(e, b)
           /\ \A e, than : Sooner(e, than, a \o b) /\ ~Ahead(e, a) => ~Ahead(than, a)
           /\ \A e, than : Sooner(e, than, a \o b) /\ ~Ahead(e, b) => Sooner(e, than, a)
  <1> DEFINE c == a \o b
             m == Len(a)
             n == Len(b)
  <1>1. /\ c \in Seq(Effect) /\ m \in Nat /\ n \in Nat /\ Len(c) = m + n
        /\ DOMAIN a = 1..m /\ DOMAIN b = 1..n /\ DOMAIN c = 1..m + n
    OBVIOUS
  <1>2. \A i \in 1..m : i \in 1..m + n /\ c[i] = a[i]
    OBVIOUS
  <1>3. \A i \in 1..n : m + i \in 1..m + n /\ c[m + i] = b[i]
    OBVIOUS
  <1> HIDE DEF c, m, n
  <1>4. \A i \in 1..m + n : i \in 1..m \/ (i - m \in 1..n /\ m + (i - m) = i)
    BY <1>1
  <1>5. Paired(c)
    <2> SUFFICES ASSUME NEW i \in DOMAIN c, NEW f \in File, c[i] = Opens(f)
                 PROVE  i + 1 \in DOMAIN c /\ c[i + 1] = Writes(f)
      BY DEF Paired
    <2>1. CASE i \in 1..m
      <3>1. i + 1 \in 1..m /\ a[i + 1] = Writes(f)
        BY <1>1, <1>2, <2>1 DEF Paired
      <3> QED
        BY <1>1, <1>2, <3>1
    <2>2. CASE i - m \in 1..n /\ m + (i - m) = i
      <3>1. b[i - m] = Opens(f)
        BY <1>3, <2>2
      <3>2. (i - m) + 1 \in 1..n /\ b[(i - m) + 1] = Writes(f)
        BY <1>1, <2>2, <3>1 DEF Paired
      <3>3. m + ((i - m) + 1) = i + 1
        BY <1>1, <2>2
      <3> QED
        BY <1>1, <1>3, <3>2, <3>3
    <2> QED
      BY <1>1, <1>4, <2>1, <2>2
  <1>6. ASSUME NEW e PROVE Ahead(e, c) <=> Ahead(e, a) \/ Ahead(e, b)
    <2>1. ASSUME Ahead(e, c) PROVE Ahead(e, a) \/ Ahead(e, b)
      <3>1. PICK i \in 1..m + n : c[i] = e
        BY <1>1, <2>1 DEF Ahead
      <3> QED
        BY <1>1, <1>2, <1>3, <1>4, <3>1 DEF Ahead
    <2>2. ASSUME Ahead(e, a) PROVE Ahead(e, c)
      BY <1>1, <1>2, <2>2 DEF Ahead
    <2>3. ASSUME Ahead(e, b) PROVE Ahead(e, c)
      BY <1>1, <1>3, <2>3 DEF Ahead
    <2> QED
      BY <2>1, <2>2, <2>3
  <1>7. ASSUME NEW e, NEW than, Sooner(e, than, c)
        PROVE  /\ ~Ahead(e, a) => ~Ahead(than, a)
               /\ ~Ahead(e, b) => Sooner(e, than, a)
    <2>1. PICK i \in 1..m + n : c[i] = e /\ \A j \in 1..i : c[j] # than
      BY <1>1, <1>7 DEF Sooner
    <2>2. CASE i \in 1..m
      <3>1. \A j \in 1..i : j \in 1..m
        BY <1>1, <2>2
      <3>2. a[i] = e /\ \A j \in 1..i : a[j] # than
        BY <1>2, <2>1, <2>2, <3>1
      <3> QED
        BY <1>1, <2>2, <3>2 DEF Sooner, Ahead
    <2>3. CASE i - m \in 1..n /\ m + (i - m) = i
      <3>1. \A j \in 1..m : j \in 1..i
        BY <1>1, <2>3
      <3>2. b[i - m] = e /\ \A j \in 1..m : a[j] # than
        BY <1>2, <1>3, <2>1, <2>3, <3>1
      <3> QED
        BY <1>1, <2>3, <3>2 DEF Ahead
    <2> QED
      BY <1>4, <2>2, <2>3
  <1> QED
    BY <1>1, <1>5, <1>6, <1>7 DEF c

\* A list of these effects, in which what is opened is written next.
Made(list, effects) ==
    /\ list \in Seq(Effect) /\ Paired(list)
    /\ \A e : Ahead(e, list) <=> e \in effects

\* Two such lists make one.
LEMMA JoinedMade ==
    ASSUME NEW a, NEW b, NEW A, NEW B, Made(a, A), Made(b, B)
    PROVE  Made(a \o b, A \cup B)
  <1>1. /\ a \o b \in Seq(Effect) /\ Paired(a \o b)
        /\ \A e : Ahead(e, a \o b) <=> Ahead(e, a) \/ Ahead(e, b)
    BY JoinedSteps DEF Made
  <1> QED
    BY <1>1 DEF Made

\* What the handlers' lists are made of.
LEMMA BasicSteps ==
    /\ Made(<<>>, {})
    /\ Made(SaveAudioSettings, {"open audio", "write audio"})
    /\ Made(SaveCustomSignalPatterns, {"open patterns", "write patterns"})
    /\ Made(ApplyCustomPatternsToEngine, {"apply"})
    /\ \A k \in Kind : Made(SetPatternId[k], {SetId(k)})
  <1>1. ASSUME NEW x \in Effect, \A f \in File : x # Opens(f)
        PROVE  Made(<<x>>, {x})
    <2>1. <<x>> \in Seq(Effect) /\ DOMAIN <<x>> = {1} /\ <<x>>[1] = x
      OBVIOUS
    <2> QED
      BY <1>1, <2>1 DEF Paired, Ahead, Made
  <1>2. ASSUME NEW f \in File
        PROVE  Made(<<Opens(f), Writes(f)>>, {Opens(f), Writes(f)})
    <2> DEFINE list == <<Opens(f), Writes(f)>>
    <2>1. /\ Opens(f) \in Effect /\ Writes(f) \in Effect
          /\ \A g \in File : Writes(f) # Opens(g) /\ (Opens(f) = Opens(g) => f = g)
      BY DEF File, Effect, Opens, Writes
    <2>2. list \in Seq(Effect) /\ DOMAIN list = {1, 2} /\ list[1] = Opens(f) /\ list[2] = Writes(f)
      BY <2>1
    <2> HIDE DEF list
    <2>3. Paired(list)
      BY <2>1, <2>2 DEF Paired
    <2>4. \A e : Ahead(e, list) <=> e \in {Opens(f), Writes(f)}
      BY <2>2 DEF Ahead
    <2> QED
      BY <2>2, <2>3, <2>4 DEF list, Made
  <1>3. /\ SaveAudioSettings = <<Opens("audio"), Writes("audio")>>
        /\ SaveCustomSignalPatterns = <<Opens("patterns"), Writes("patterns")>>
        /\ Opens("audio") = "open audio" /\ Writes("audio") = "write audio"
        /\ Opens("patterns") = "open patterns" /\ Writes("patterns") = "write patterns"
        /\ "audio" \in File /\ "patterns" \in File
    BY DEF SaveAudioSettings, SaveCustomSignalPatterns, Opens, Writes, File
  <1>4. \A x \in {"apply", "set roger", "set call"} : x \in Effect /\ \A f \in File : x # Opens(f)
    BY DEF Effect, File, Opens
  <1>5. ASSUME NEW k \in Kind PROVE Made(SetPatternId[k], {SetId(k)})
    <2>1. SetPatternId[k] = <<SetId(k)>> /\ SetId(k) \in {"set roger", "set call"}
      BY KindSteps
    <2>2. SetId(k) \in Effect /\ \A f \in File : SetId(k) # Opens(f)
      BY <1>4, <2>1
    <2> HIDE DEF SetId
    <2>3. Made(<<SetId(k)>>, {SetId(k)})
      BY <1>1, <2>2
    <2> QED
      BY <2>1, <2>3
  <1>6. Made(<<>>, {})
    BY DEF Paired, Ahead, Made
  <1>7. Made(SaveAudioSettings, {"open audio", "write audio"})
    BY <1>2, <1>3
  <1>8. Made(SaveCustomSignalPatterns, {"open patterns", "write patterns"})
    BY <1>2, <1>3
  <1>9. Made(ApplyCustomPatternsToEngine, {"apply"})
    BY <1>1, <1>4 DEF ApplyCustomPatternsToEngine
  <1> QED
    BY <1>5, <1>6, <1>7, <1>8, <1>9

\* What comes sooner than another effect comes.
LEMMA SoonerIsAhead == \A e, than, list : Sooner(e, than, list) => Ahead(e, list)
  BY DEF Sooner, Ahead

\* What is not in a list does not come sooner than anything.
LEMMA NotSooner ==
    ASSUME NEW list, NEW effects, Made(list, effects), NEW e, e \notin effects
    PROVE  ~Ahead(e, list) /\ \A than : ~Sooner(e, than, list)
  <1>1. ~Ahead(e, list)
    BY DEF Made
  <1> QED
    BY <1>1, SoonerIsAhead

\* Nothing is still to come of an empty list.
LEMMA NothingSooner ==
    ASSUME NEW list, Made(list, {})
    PROVE  \A e, than : ~Ahead(e, list) /\ ~Sooner(e, than, list)
  <1>1. \A e : ~Ahead(e, list)
    BY DEF Made
  <1> QED
    BY <1>1, SoonerIsAhead

\* DialogAccepted: nothing of the patterns is saved.
LEMMA AcceptsNext ==
    LET list == SetPatternId["roger"] \o SetPatternId["call"] \o SaveAudioSettings IN
       /\ Made(list, {"set roger", "set call", "open audio", "write audio"})
       /\ ~Ahead("apply", list) /\ ~Ahead("write patterns", list)
       /\ \A than : ~Sooner("write patterns", than, list)
  <1> DEFINE both == SetPatternId["roger"] \o SetPatternId["call"]
             list == both \o SaveAudioSettings
  <1>1. Made(SetPatternId["roger"], {"set roger"}) /\ Made(SetPatternId["call"], {"set call"})
    BY BasicSteps, KindSteps
  <1>2. Made(both, {"set roger"} \cup {"set call"})
    BY <1>1, JoinedMade
  <1>3. Made(SaveAudioSettings, {"open audio", "write audio"})
    BY BasicSteps
  <1> HIDE DEF both
  <1>4. Made(list, ({"set roger"} \cup {"set call"}) \cup {"open audio", "write audio"})
    BY <1>2, <1>3, JoinedMade
  <1>5. ({"set roger"} \cup {"set call"}) \cup {"open audio", "write audio"}
          = {"set roger", "set call", "open audio", "write audio"}
    OBVIOUS
  <1> HIDE DEF list
  <1>6. Made(list, {"set roger", "set call", "open audio", "write audio"})
    BY <1>4, <1>5
  <1> DEFINE A == {"set roger", "set call", "open audio", "write audio"}
  <1>7. "write patterns" \notin A /\ "apply" \notin A
    OBVIOUS
  <1> HIDE DEF A
  <1>8. ~Ahead("write patterns", list) /\ \A than : ~Sooner("write patterns", than, list)
    BY <1>6, <1>7, NotSooner DEF A
  <1>9. ~Ahead("apply", list)
    BY <1>6, <1>7, NotSooner DEF A
  <1> QED
    BY <1>6, <1>8, <1>9 DEF both, list

\* UpsertCustomPattern: the patterns are saved before the selection.
LEMMA UpsertsNext ==
    ASSUME NEW k \in Kind
    PROVE  LET list == SaveCustomSignalPatterns \o ApplyCustomPatternsToEngine
                         \o SetPatternId[k] \o SaveAudioSettings IN
              /\ Made(list, {"open patterns", "write patterns", "apply", SetId(k),
                             "open audio", "write audio"})
              /\ ~Sooner("write audio", "write patterns", list)
  <1> DEFINE two   == SaveCustomSignalPatterns \o ApplyCustomPatternsToEngine
             three == two \o SetPatternId[k]
             list  == three \o SaveAudioSettings
             A == {"open patterns", "write patterns"} \cup {"apply"}
             B == A \cup {SetId(k)}
             C == B \cup {"open audio", "write audio"}
  <1> HIDE DEF SetId
  <1>1. Made(two, A)
    BY BasicSteps, JoinedMade
  <1>2. Made(SetPatternId[k], {SetId(k)}) /\ SetId(k) \in {"set roger", "set call"}
    BY BasicSteps, KindSteps
  <1>3. Made(SaveAudioSettings, {"open audio", "write audio"})
    BY BasicSteps
  <1>4. /\ C = {"open patterns", "write patterns", "apply", SetId(k), "open audio", "write audio"}
        /\ "write audio" \notin B /\ "write patterns" \in B
    BY <1>2
  <1> HIDE DEF two, A
  <1>5. Made(three, B)
    BY <1>1, <1>2, JoinedMade
  <1> HIDE DEF three, B
  <1>6. Made(list, C)
    BY <1>3, <1>5, JoinedMade
  <1>7. ~Sooner("write audio", "write patterns", list)
    <2>1. ~Ahead("write audio", three) /\ Ahead("write patterns", three)
      BY <1>4, <1>5 DEF Made
    <2>2. Sooner("write audio", "write patterns", list) /\ ~Ahead("write audio", three)
            => ~Ahead("write patterns", three)
      BY <1>3, <1>5, JoinedSteps DEF Made
    <2> QED
      BY <2>1, <2>2
  <1> HIDE DEF list, C
  <1> QED
    BY <1>4, <1>6, <1>7 DEF two, three, list

\* DeleteCustomPattern, of another pattern than the selected one.
LEMMA SavesNext ==
    Made(<<>> \o SaveCustomSignalPatterns \o ApplyCustomPatternsToEngine,
         {"open patterns", "write patterns", "apply"})
  <1> DEFINE first == <<>> \o SaveCustomSignalPatterns
             A == {} \cup {"open patterns", "write patterns"}
  <1>1. Made(first, A)
    BY BasicSteps, JoinedMade
  <1>2. A \cup {"apply"} = {"open patterns", "write patterns", "apply"}
    OBVIOUS
  <1> HIDE DEF first, A
  <1>3. Made(first \o ApplyCustomPatternsToEngine, A \cup {"apply"})
    BY <1>1, BasicSteps, JoinedMade
  <1> QED
    BY <1>2, <1>3 DEF first

\* DeleteCustomPattern: the selection, if it changes, is saved before the patterns.
LEMMA DeletesNext ==
    ASSUME NEW k \in Kind
    PROVE  LET list == (SetPatternId[k] \o SaveAudioSettings)
                         \o SaveCustomSignalPatterns \o ApplyCustomPatternsToEngine IN
              /\ Made(list, {SetId(k), "open audio", "write audio",
                             "open patterns", "write patterns", "apply"})
              /\ ~Sooner("write patterns", "write audio", list)
  <1> DEFINE first  == SetPatternId[k] \o SaveAudioSettings
             middle == first \o SaveCustomSignalPatterns
             list   == middle \o ApplyCustomPatternsToEngine
             A == {SetId(k)} \cup {"open audio", "write audio"}
             B == A \cup {"open patterns", "write patterns"}
             C == B \cup {"apply"}
  <1> HIDE DEF SetId
  <1>1. /\ Made(SetPatternId[k], {SetId(k)}) /\ SetId(k) \in {"set roger", "set call"}
        /\ Made(SaveAudioSettings, {"open audio", "write audio"})
        /\ Made(SaveCustomSignalPatterns, {"open patterns", "write patterns"})
        /\ Made(ApplyCustomPatternsToEngine, {"apply"})
    BY BasicSteps, KindSteps
  <1>2. Made(first, A)
    BY <1>1, JoinedMade
  <1>3. /\ C = {SetId(k), "open audio", "write audio", "open patterns", "write patterns", "apply"}
        /\ "write audio" \in A /\ "write patterns" \notin A /\ "write patterns" \notin {"apply"}
    BY <1>1
  <1> HIDE DEF first, A
  <1>4. Made(middle, B)
    BY <1>1, <1>2, JoinedMade
  <1>5. ~Sooner("write patterns", "write audio", middle)
    <2>1. ~Ahead("write patterns", first) /\ Ahead("write audio", first)
      BY <1>2, <1>3 DEF Made
    <2>2. Sooner("write patterns", "write audio", middle) /\ ~Ahead("write patterns", first)
            => ~Ahead("write audio", first)
      BY <1>1, <1>2, JoinedSteps DEF Made
    <2> QED
      BY <2>1, <2>2
  <1> HIDE DEF middle, B
  <1>6. Made(list, C)
    BY <1>1, <1>4, JoinedMade
  <1>7. ~Sooner("write patterns", "write audio", list)
    <2>1. ~Ahead("write patterns", ApplyCustomPatternsToEngine)
      BY <1>1, <1>3 DEF Made
    <2>2. Sooner("write patterns", "write audio", list)
             /\ ~Ahead("write patterns", ApplyCustomPatternsToEngine)
            => Sooner("write patterns", "write audio", middle)
      BY <1>1, <1>4, JoinedSteps DEF Made
    <2> QED
      BY <1>5, <2>1, <2>2
  <1> HIDE DEF list, C
  <1> QED
    BY <1>3, <1>6, <1>7 DEF first, middle, list

-----------------------------------------------------------------------------
(* Signal patterns: the invariant.                                         *)

Lists   == [Kind -> Seq(Pattern)]
Choices == [Kind -> AnyId]

\* Every selected id is there to be found.
Valid(sel, lists) == \A k \in Kind : IsBuiltInPatternId(k, sel[k]) \/ sel[k] \in Ids(lists[k])

Torn == file["patterns"].state = "torn"

PatternTypes ==
    /\ custom \in Lists /\ selected \in Choices /\ choice \in Choices
    /\ engine \in [custom : Lists, selected : Choices]
    /\ DOMAIN file = File
    /\ file["patterns"] \in [state : {"absent", "torn", "whole"}, data : Lists]
    /\ file["audio"] \in [state : {"absent", "torn", "whole"}, data : Choices]

\* Memory: what is selected is there, and so is what the dialog shows.
MemorySound == Valid(selected, custom) /\ Valid(choice, custom)

\* What no effect is still to bring up to date is up to date.
UpToDate ==
    /\ ~Ahead("apply", todo) => engine.custom = custom
    /\ \A k \in Kind : ~Ahead(SetId(k), todo) => engine.selected[k] = selected[k]
    /\ ~Ahead("write audio", todo) => LoadedAudio = selected
    /\ ~Ahead("write patterns", todo) => LoadedPatterns = custom

\* The files: the selection in one is there in the other, whenever the program
\* ends; and so it will be after the write that comes first.
FilesSound ==
    /\ Torn => todo # <<>> /\ Head(todo) = "write patterns"
    /\ ~Torn => Valid(LoadedAudio, LoadedPatterns)
    /\ Sooner("write audio", "write patterns", todo) => Valid(selected, LoadedPatterns)
    /\ Sooner("write patterns", "write audio", todo) => Valid(LoadedAudio, custom)

SignalParts == PatternTypes /\ Sequel /\ MemorySound /\ UpToDate /\ FilesSound

SignalInv == ~spoiled => SignalParts

\* The built-in patterns, which are always there to be found.
LEMMA BuiltIns ==
    /\ \A k \in Kind : /\ IsBuiltInPatternId(k, Front[k]) /\ Front[k] \in AnyId
                       /\ IsBuiltInPatternId(k, Unset[k]) /\ Unset[k] \in AnyId
                       /\ IsBuiltInPatternId(k, Fallback[k]) /\ Fallback[k] \in AnyId
                       /\ \A i \in DOMAIN BuiltIn[k] : BuiltIn[k][i] \in AnyId
    /\ Unset \in Choices /\ NoPatterns \in Lists
  <1> DEFINE R == <<"none", "variant_1">>
             C == <<"call_variant_1">>
  <1>1. /\ 1 \in DOMAIN R /\ 2 \in DOMAIN R /\ 1 \in DOMAIN C /\ R[1] = "none" /\ R[2] = "variant_1"
        /\ C[1] = "call_variant_1" /\ DOMAIN R = {1, 2} /\ DOMAIN C = {1}
    OBVIOUS
  <1>2. BuiltIn["roger"] = R /\ BuiltIn["call"] = C
    BY DEF BuiltIn
  <1> HIDE DEF R, C
  <1>3. /\ Front["roger"] = "none" /\ Front["call"] = "call_variant_1"
        /\ Unset["roger"] = "variant_1" /\ Unset["call"] = "call_variant_1"
        /\ Fallback["roger"] = "none" /\ Fallback["call"] = "call_variant_1"
    BY <1>1, <1>2 DEF Front, Unset, Fallback, Kind
  <1>4. /\ IsBuiltInPatternId("roger", "none") /\ IsBuiltInPatternId("roger", "variant_1")
        /\ IsBuiltInPatternId("call", "call_variant_1")
    BY <1>1, <1>2 DEF IsBuiltInPatternId
  <1>5. "none" \in AnyId /\ "variant_1" \in AnyId /\ "call_variant_1" \in AnyId
    BY DEF AnyId
  <1>6. ASSUME NEW k \in Kind
        PROVE  /\ IsBuiltInPatternId(k, Front[k]) /\ Front[k] \in AnyId
               /\ IsBuiltInPatternId(k, Unset[k]) /\ Unset[k] \in AnyId
               /\ IsBuiltInPatternId(k, Fallback[k]) /\ Fallback[k] \in AnyId
               /\ \A i \in DOMAIN BuiltIn[k] : BuiltIn[k][i] \in AnyId
    <2>1. CASE k = "roger"
      BY <1>1, <1>2, <1>3, <1>4, <1>5, <2>1
    <2>2. CASE k = "call"
      BY <1>1, <1>2, <1>3, <1>4, <1>5, <2>2
    <2> QED
      BY <2>1, <2>2 DEF Kind
  <1>7. Unset \in Choices
    BY <1>5 DEF Unset, Choices, Kind
  <1>8. NoPatterns \in Lists
    BY DEF NoPatterns, Lists
  <1> QED
    BY <1>6, <1>7, <1>8

\* What the dialog shows can be chosen.
LEMMA ShownValid ==
    ASSUME NEW lists \in Lists, NEW sel \in Choices
    PROVE  Shown(lists, sel) \in Choices /\ Valid(Shown(lists, sel), lists)
  <1>1. ASSUME NEW k \in Kind
        PROVE  /\ Shown(lists, sel)[k] \in AnyId
               /\ IsBuiltInPatternId(k, Shown(lists, sel)[k]) \/ Shown(lists, sel)[k] \in Ids(lists[k])
    <2>1. CASE IsBuiltInPatternId(k, sel[k]) \/ sel[k] \in Ids(lists[k])
      <3>1. Shown(lists, sel)[k] = sel[k]
        BY <2>1 DEF Shown
      <3> QED
        BY <2>1, <3>1 DEF Choices
    <2>2. CASE ~(IsBuiltInPatternId(k, sel[k]) \/ sel[k] \in Ids(lists[k]))
      <3>1. Shown(lists, sel)[k] = Front[k]
        BY <2>2 DEF Shown
      <3> QED
        BY <3>1, BuiltIns
    <2> QED
      BY <2>1, <2>2
  <1>2. Shown(lists, sel) \in Choices
    BY <1>1 DEF Shown, Choices
  <1> QED
    BY <1>1, <1>2 DEF Valid

\* So is what a client selects that never saved a selection.
LEMMA UnsetValid == \A lists : Valid(Unset, lists)
  BY BuiltIns DEF Valid

\* What is read back is of the type of what was written.
LEMMA LoadedTypes ==
    ASSUME PatternTypes PROVE LoadedPatterns \in Lists /\ LoadedAudio \in Choices
  BY BuiltIns DEF PatternTypes, LoadedPatterns, LoadedAudio

\* A handler takes the next effect off its list.
LEMMA DueSteps ==
    ASSUME Sequel, NEW e, Due(e)
    PROVE  /\ todo # <<>> /\ Head(todo) = e /\ todo' = Tail(todo)
           /\ Sequel' /\ Ahead(e, todo)
           /\ \A x : ~Ahead(x, todo') => x = e \/ ~Ahead(x, todo)
           /\ \A x, than : Sooner(x, than, todo') /\ e # than => Sooner(x, than, todo)
           /\ \A than : e # than => Sooner(e, than, todo)
  <1>1. /\ todo # <<>> /\ Head(todo) = e /\ todo' = Tail(todo)
        /\ todo \in Seq(Effect) /\ Paired(todo)
    BY DEF Due, Sequel
  <1>2. Sequel'
    BY <1>1, TailSteps DEF Sequel
  <1>3. \A x : Ahead(x, todo) /\ x # Head(todo) => Ahead(x, todo')
    BY <1>1, TailSteps
  <1>4. \A x, than : Sooner(x, than, todo') /\ Head(todo) # than => Sooner(x, than, todo)
    BY <1>1, TailSteps
  <1>5. 1 \in DOMAIN todo /\ todo[1] = e /\ \A j \in 1..1 : j = 1
    BY <1>1
  <1>6. Ahead(e, todo) /\ \A than : e # than => Sooner(e, than, todo)
    BY <1>5 DEF Ahead, Sooner
  <1> QED
    BY <1>1, <1>2, <1>3, <1>4, <1>6

-----------------------------------------------------------------------------
(* Signal patterns: the effects.                                           *)

\* The engine is told the lists.
LEMMA AppliedKeeps ==
    ASSUME SignalParts, Applied PROVE SignalParts'
  <1>1. /\ engine' = [engine EXCEPT !.custom = custom]
        /\ Due("apply")
        /\ UNCHANGED <<custom, selected, dialog, choice, file, spoiled>>
    BY DEF Applied
  <1>2. PatternTypes /\ Sequel /\ MemorySound /\ UpToDate /\ FilesSound
    BY DEF SignalParts
  <1>3. /\ Sequel' /\ todo # <<>> /\ Head(todo) = "apply"
        /\ \A x : ~Ahead(x, todo') => x = "apply" \/ ~Ahead(x, todo)
        /\ \A x, than : Sooner(x, than, todo') /\ "apply" # than => Sooner(x, than, todo)
    BY <1>1, <1>2, DueSteps
  <1>4. engine'.custom = custom /\ engine'.selected = engine.selected
        /\ engine' \in [custom : Lists, selected : Choices]
    BY <1>1, <1>2 DEF PatternTypes
  <1>5. PatternTypes'
    BY <1>1, <1>2, <1>4 DEF PatternTypes
  <1>6. MemorySound'
    BY <1>1, <1>2 DEF MemorySound, Valid
  <1>7. LoadedAudio' = LoadedAudio /\ LoadedPatterns' = LoadedPatterns /\ Torn' = Torn
    BY <1>1 DEF LoadedAudio, LoadedPatterns, Torn
  <1>8. UpToDate'
    <2>1. \A k \in Kind : SetId(k) # "apply"
      BY KindSteps
    <2>2. \A k \in Kind : ~Ahead(SetId(k), todo') => engine'.selected[k] = selected'[k]
      <3> HIDE DEF SetId
      <3> QED
        BY <1>1, <1>2, <1>3, <1>4, <2>1 DEF UpToDate
    <2>3. ~Ahead("write audio", todo') => LoadedAudio' = selected'
      BY <1>1, <1>2, <1>3, <1>7 DEF UpToDate
    <2>4. ~Ahead("write patterns", todo') => LoadedPatterns' = custom'
      BY <1>1, <1>2, <1>3, <1>7 DEF UpToDate
    <2> QED
      BY <1>1, <1>4, <2>2, <2>3, <2>4 DEF UpToDate
  <1>9. FilesSound'
    BY <1>1, <1>2, <1>3, <1>7 DEF FilesSound, Valid
  <1> QED
    BY <1>3, <1>5, <1>6, <1>8, <1>9 DEF SignalParts

\* The engine is told the selection of a kind.
LEMMA IdSetKeeps ==
    ASSUME NEW k \in Kind, SignalParts, IdSet(k) PROVE SignalParts'
  <1>1. SetPatternId[k][1] = SetId(k) /\ SetId(k) \in {"set roger", "set call"}
        /\ \A c \in Kind : SetId(c) = SetId(k) => c = k
    BY KindSteps DEF SetId
  <1> HIDE DEF SetId
  <1>2. /\ engine' = [engine EXCEPT !.selected[k] = selected[k]]
        /\ Due(SetId(k))
        /\ UNCHANGED <<custom, selected, dialog, choice, file, spoiled>>
    BY <1>1 DEF IdSet
  <1>3. PatternTypes /\ Sequel /\ MemorySound /\ UpToDate /\ FilesSound
    BY DEF SignalParts
  <1>4. /\ Sequel' /\ todo # <<>> /\ Head(todo) = SetId(k)
        /\ \A x : ~Ahead(x, todo') => x = SetId(k) \/ ~Ahead(x, todo)
        /\ \A x, than : Sooner(x, than, todo') /\ SetId(k) # than => Sooner(x, than, todo)
    BY <1>2, <1>3, DueSteps
  <1>5. /\ engine'.custom = engine.custom
        /\ engine'.selected = [engine.selected EXCEPT ![k] = selected[k]]
        /\ engine.selected \in [Kind -> AnyId] /\ selected \in [Kind -> AnyId]
        /\ engine.custom \in Lists /\ DOMAIN engine' = DOMAIN engine
    BY <1>2, <1>3 DEF PatternTypes, Choices
  <1>6. engine'.selected \in Choices /\ engine' \in [custom : Lists, selected : Choices]
    BY <1>2, <1>3, <1>5 DEF Choices, PatternTypes
  <1>7. PatternTypes'
    BY <1>2, <1>3, <1>6 DEF PatternTypes
  <1>8. MemorySound'
    BY <1>2, <1>3 DEF MemorySound, Valid
  <1>9. LoadedAudio' = LoadedAudio /\ LoadedPatterns' = LoadedPatterns /\ Torn' = Torn
    BY <1>2 DEF LoadedAudio, LoadedPatterns, Torn
  <1>10. UpToDate'
    <2>1. ~Ahead("apply", todo') => engine'.custom = custom'
      BY <1>1, <1>2, <1>3, <1>4, <1>5 DEF UpToDate
    <2>2. ASSUME NEW c \in Kind, ~Ahead(SetId(c), todo') PROVE engine'.selected[c] = selected'[c]
      <3>1. CASE c = k
        BY <1>2, <1>5, <3>1
      <3>2. CASE c # k
        <4>1. ~Ahead(SetId(c), todo) /\ engine'.selected[c] = engine.selected[c]
          BY <1>1, <1>4, <1>5, <2>2, <3>2
        <4> QED
          BY <1>2, <1>3, <4>1 DEF UpToDate
      <3> QED
        BY <3>1, <3>2
    <2>3. ~Ahead("write audio", todo') => LoadedAudio' = selected'
      BY <1>1, <1>2, <1>3, <1>4, <1>9 DEF UpToDate
    <2>4. ~Ahead("write patterns", todo') => LoadedPatterns' = custom'
      BY <1>1, <1>2, <1>3, <1>4, <1>9 DEF UpToDate
    <2> QED
      BY <2>1, <2>2, <2>3, <2>4 DEF UpToDate
  <1>11. FilesSound'
    BY <1>1, <1>2, <1>3, <1>4, <1>9 DEF FilesSound, Valid
  <1> QED
    BY <1>4, <1>7, <1>8, <1>10, <1>11 DEF SignalParts

\* Which file an effect is about.
LEMMA FileSteps ==
    /\ File = {"patterns", "audio"}
    /\ Opens("audio") = "open audio" /\ Writes("audio") = "write audio"
    /\ Opens("patterns") = "open patterns" /\ Writes("patterns") = "write patterns"
    /\ \A f \in File : /\ Opens(f) \notin {"apply", "set roger", "set call", "write audio", "write patterns"}
                       /\ Writes(f) \notin {"apply", "set roger", "set call", "open audio", "open patterns"}
  BY DEF File, Opens, Writes

\* A file is opened: until it is written it does not parse.
LEMMA TruncatedKeeps ==
    ASSUME NEW f \in File, SignalParts, Truncated(f) PROVE SignalParts'
  <1>1. /\ file' = [file EXCEPT ![f].state = "torn"]
        /\ Due(Opens(f))
        /\ UNCHANGED <<custom, selected, engine, dialog, choice, spoiled>>
    BY DEF Truncated
  <1>2. PatternTypes /\ Sequel /\ MemorySound /\ UpToDate /\ FilesSound
    BY DEF SignalParts
  <1>3. /\ Sequel' /\ todo # <<>> /\ Head(todo) = Opens(f) /\ todo' = Tail(todo)
        /\ \A x : ~Ahead(x, todo') => x = Opens(f) \/ ~Ahead(x, todo)
        /\ \A x, than : Sooner(x, than, todo') /\ Opens(f) # than => Sooner(x, than, todo)
    BY <1>1, <1>2, DueSteps
  <1>4. /\ todo' # <<>> /\ Head(todo') = Writes(f) /\ Ahead(Writes(f), todo')
        /\ \A e : e # Writes(f) => ~Sooner(e, Writes(f), todo')
    BY <1>2, <1>3, TailSteps DEF Sequel
  <1>5. /\ file'[f].state = "torn" /\ DOMAIN file' = File
        /\ \A g \in File : g # f => file'[g] = file[g]
        /\ file'["patterns"] \in [state : {"absent", "torn", "whole"}, data : Lists]
        /\ file'["audio"] \in [state : {"absent", "torn", "whole"}, data : Choices]
    BY <1>1, <1>2, FileSteps DEF PatternTypes
  <1>6. PatternTypes'
    BY <1>1, <1>2, <1>5 DEF PatternTypes
  <1>7. MemorySound'
    BY <1>1, <1>2 DEF MemorySound, Valid
  <1>8. \A k \in Kind : SetId(k) # Opens(f)
    BY KindSteps, FileSteps
  <1> HIDE DEF SetId
  <1>9. /\ ~Ahead("apply", todo') => engine'.custom = custom'
        /\ \A k \in Kind : ~Ahead(SetId(k), todo') => engine'.selected[k] = selected'[k]
    BY <1>1, <1>2, <1>3, <1>8, FileSteps DEF UpToDate
  <1>10. CASE f = "audio"
    <2>1. LoadedAudio' = Unset /\ LoadedPatterns' = LoadedPatterns /\ Torn' = Torn
      BY <1>5, <1>10, FileSteps DEF LoadedAudio, LoadedPatterns, Torn
    <2>2. UpToDate'
      <3>1. Ahead("write audio", todo')
        BY <1>4, <1>10, FileSteps
      <3>2. ~Ahead("write patterns", todo') => LoadedPatterns' = custom'
        BY <1>1, <1>2, <1>3, <2>1, FileSteps DEF UpToDate
      <3> QED
        BY <1>9, <3>1, <3>2 DEF UpToDate
    <2>3. ~Torn
      BY <1>2, <1>3, FileSteps DEF FilesSound
    <2>4. Sooner("write audio", "write patterns", todo') => Valid(selected, LoadedPatterns)'
      BY <1>1, <1>2, <1>3, <2>1, FileSteps DEF FilesSound, Valid
    <2>5. \A lists : Valid(LoadedAudio', lists)
      BY <2>1, UnsetValid
    <2>6. Valid(LoadedAudio, LoadedPatterns)' /\ Valid(LoadedAudio, custom)'
      BY <2>5 DEF Valid
    <2>7. FilesSound'
      BY <2>1, <2>3, <2>4, <2>6 DEF FilesSound
    <2> QED
      BY <1>3, <1>6, <1>7, <2>2, <2>7 DEF SignalParts
  <1>11. CASE f = "patterns"
    <2>1. LoadedAudio' = LoadedAudio /\ Torn'
      BY <1>5, <1>11, FileSteps DEF LoadedAudio, LoadedPatterns, Torn
    <2>2. UpToDate'
      <3>1. Ahead("write patterns", todo')
        BY <1>4, <1>11, FileSteps
      <3>2. ~Ahead("write audio", todo') => LoadedAudio' = selected'
        BY <1>1, <1>2, <1>3, <2>1, FileSteps DEF UpToDate
      <3> QED
        BY <1>9, <3>1, <3>2 DEF UpToDate
    <2>3. Head(todo') = "write patterns" /\ todo' # <<>>
      BY <1>4, <1>11, FileSteps
    <2>4. ~Sooner("write audio", "write patterns", todo')
      BY <1>4, <1>11, FileSteps
    <2>5. Sooner("write patterns", "write audio", todo') => Valid(LoadedAudio, custom)'
      BY <1>1, <1>2, <1>3, <2>1, FileSteps DEF FilesSound, Valid
    <2>6. FilesSound'
      BY <2>1, <2>3, <2>4, <2>5 DEF FilesSound
    <2> QED
      BY <1>3, <1>6, <1>7, <2>2, <2>6 DEF SignalParts
  <1> QED
    BY <1>10, <1>11 DEF File

\* A file is written: what it held is replaced by what memory holds.
LEMMA WrittenKeeps ==
    ASSUME NEW f \in File, SignalParts, Written(f) PROVE SignalParts'
  <1>1. /\ file' = [file EXCEPT ![f] = [state |-> "whole",
                                       data  |-> IF f = "audio" THEN selected ELSE custom]]
        /\ Due(Writes(f))
        /\ UNCHANGED <<custom, selected, engine, dialog, choice, spoiled>>
    BY DEF Written
  <1>2. PatternTypes /\ Sequel /\ MemorySound /\ UpToDate /\ FilesSound
    BY DEF SignalParts
  <1>3. /\ Sequel' /\ todo # <<>> /\ Head(todo) = Writes(f) /\ todo' = Tail(todo)
        /\ \A x : ~Ahead(x, todo') => x = Writes(f) \/ ~Ahead(x, todo)
        /\ \A x, than : Sooner(x, than, todo') /\ Writes(f) # than => Sooner(x, than, todo)
        /\ \A than : Writes(f) # than => Sooner(Writes(f), than, todo)
    BY <1>1, <1>2, DueSteps
  <1>4. /\ DOMAIN file' = File /\ \A g \in File : g # f => file'[g] = file[g]
        /\ file'[f] = [state |-> "whole", data |-> IF f = "audio" THEN selected ELSE custom]
    BY <1>1, <1>2 DEF PatternTypes
  <1>5. MemorySound'
    BY <1>1, <1>2 DEF MemorySound, Valid
  <1>6. \A k \in Kind : SetId(k) # Writes(f)
    BY KindSteps, FileSteps
  <1> HIDE DEF SetId
  <1>7. /\ ~Ahead("apply", todo') => engine'.custom = custom'
        /\ \A k \in Kind : ~Ahead(SetId(k), todo') => engine'.selected[k] = selected'[k]
    BY <1>1, <1>2, <1>3, <1>6, FileSteps DEF UpToDate
  <1>8. CASE f = "audio"
    <2>1. file'["audio"] = [state |-> "whole", data |-> selected] /\ file'["patterns"] = file["patterns"]
      BY <1>4, <1>8, FileSteps
    <2>2. PatternTypes'
      BY <1>1, <1>2, <1>4, <2>1 DEF PatternTypes
    <2>3. LoadedAudio' = selected /\ LoadedPatterns' = LoadedPatterns /\ Torn' = Torn
      BY <2>1 DEF LoadedAudio, LoadedPatterns, Torn
    <2>4. UpToDate'
      <3>1. ~Ahead("write patterns", todo') => LoadedPatterns' = custom'
        BY <1>1, <1>2, <1>3, <1>8, <2>3, FileSteps DEF UpToDate
      <3> QED
        BY <1>1, <1>7, <2>3, <3>1 DEF UpToDate
    <2>5. ~Torn
      BY <1>2, <1>3, <1>8, FileSteps DEF FilesSound
    <2>6. Valid(selected, LoadedPatterns)
      BY <1>2, <1>3, <1>8, FileSteps DEF FilesSound
    <2>7. Valid(LoadedAudio, LoadedPatterns)' /\ Valid(selected, LoadedPatterns)'
      BY <1>1, <2>3, <2>6 DEF Valid
    <2>8. Valid(LoadedAudio, custom)'
      BY <1>1, <1>2, <2>3 DEF MemorySound, Valid
    <2>9. FilesSound'
      BY <2>3, <2>5, <2>7, <2>8 DEF FilesSound
    <2> QED
      BY <1>3, <1>5, <2>2, <2>4, <2>9 DEF SignalParts
  <1>9. CASE f = "patterns"
    <2>1. file'["patterns"] = [state |-> "whole", data |-> custom] /\ file'["audio"] = file["audio"]
      BY <1>4, <1>9, FileSteps
    <2>2. PatternTypes'
      BY <1>1, <1>2, <1>4, <2>1 DEF PatternTypes
    <2>3. LoadedPatterns' = custom /\ LoadedAudio' = LoadedAudio /\ ~Torn'
      BY <2>1 DEF LoadedAudio, LoadedPatterns, Torn
    <2>4. UpToDate'
      <3>1. ~Ahead("write audio", todo') => LoadedAudio' = selected'
        BY <1>1, <1>2, <1>3, <1>9, <2>3, FileSteps DEF UpToDate
      <3> QED
        BY <1>1, <1>7, <2>3, <3>1 DEF UpToDate
    <2>5. Valid(LoadedAudio, custom)
      BY <1>2, <1>3, <1>9, FileSteps DEF FilesSound
    <2>6. Valid(LoadedAudio, LoadedPatterns)' /\ Valid(LoadedAudio, custom)'
      BY <1>1, <2>3, <2>5 DEF Valid
    <2>7. Valid(selected, LoadedPatterns)'
      BY <1>1, <1>2, <2>3 DEF MemorySound, Valid
    <2>8. FilesSound'
      BY <2>3, <2>6, <2>7 DEF FilesSound
    <2> QED
      BY <1>3, <1>5, <2>2, <2>4, <2>8 DEF SignalParts
  <1> QED
    BY <1>8, <1>9 DEF File

\* The program is started again.
LEMMA RestartKeeps ==
    ASSUME SignalParts, LoadAllSettings, ~spoiled' PROVE SignalParts'
  <1>1. /\ custom' = LoadedPatterns /\ selected' = LoadedAudio
        /\ engine' = [custom |-> LoadedPatterns, selected |-> LoadedAudio]
        /\ ~Torn /\ choice' = Unset /\ todo' = <<>> /\ file' = file
    BY DEF LoadAllSettings, Torn
  <1>2. PatternTypes /\ FilesSound
    BY DEF SignalParts
  <1>3. LoadedPatterns \in Lists /\ LoadedAudio \in Choices /\ Unset \in Choices
    BY <1>2, LoadedTypes, BuiltIns
  <1>4. PatternTypes'
    BY <1>1, <1>2, <1>3 DEF PatternTypes
  <1>5. Sequel' /\ \A e, than : ~Ahead(e, todo') /\ ~Sooner(e, than, todo')
    <2>1. Made(todo', {})
      BY <1>1, BasicSteps
    <2> QED
      BY <2>1, NothingSooner DEF Sequel, Made
  <1>6. LoadedPatterns' = LoadedPatterns /\ LoadedAudio' = LoadedAudio /\ ~Torn'
    BY <1>1 DEF LoadedPatterns, LoadedAudio, Torn
  <1>7. Valid(LoadedAudio, LoadedPatterns)
    BY <1>1, <1>2 DEF FilesSound
  <1>8. Valid(selected, custom)' /\ Valid(LoadedAudio, LoadedPatterns)'
    BY <1>1, <1>6, <1>7 DEF Valid
  <1>9. Valid(choice, custom)'
    BY <1>1, UnsetValid DEF Valid
  <1>10. UpToDate'
    BY <1>1, <1>6 DEF UpToDate
  <1>11. FilesSound'
    BY <1>5, <1>6, <1>8 DEF FilesSound
  <1> QED
    BY <1>4, <1>5, <1>8, <1>9, <1>10, <1>11 DEF SignalParts, MemorySound

-----------------------------------------------------------------------------
(* Signal patterns: the handlers.                                          *)

\* When no handler runs, everything is up to date.
LEMMA AtRest ==
    ASSUME SignalParts, todo = <<>>
    PROVE  /\ PatternTypes /\ ~Torn
           /\ engine.custom = custom /\ \A k \in Kind : engine.selected[k] = selected[k]
           /\ LoadedAudio = selected /\ LoadedPatterns = custom
           /\ Valid(selected, custom) /\ Valid(choice, custom)
  <1>1. Made(todo, {})
    BY BasicSteps
  <1>2. \A e : ~Ahead(e, todo)
    BY <1>1 DEF Made
  <1> QED
    BY <1>2 DEF SignalParts, UpToDate, FilesSound, MemorySound

\* A handler that starts with a list of effects: what it has to show.  The files
\* and the engine still are as they were.
LEMMA HandlerKeeps ==
    ASSUME SignalParts, todo = <<>>, NEW effects, Made(todo', effects),
           UNCHANGED <<engine, file>>,
           custom' \in Lists, selected' \in Choices, choice' \in Choices,
           Valid(selected', custom'), Valid(choice', custom'),
           "apply" \in effects \/ custom' = custom,
           \A k \in Kind : SetId(k) \in effects \/ selected'[k] = selected[k],
           "write audio" \in effects \/ selected' = selected,
           "write patterns" \in effects \/ custom' = custom,
           Sooner("write audio", "write patterns", todo') => Valid(selected', custom),
           Sooner("write patterns", "write audio", todo') => Valid(selected, custom')
    PROVE  SignalParts'
  <1>1. /\ PatternTypes /\ ~Torn
        /\ engine.custom = custom /\ \A k \in Kind : engine.selected[k] = selected[k]
        /\ LoadedAudio = selected /\ LoadedPatterns = custom
        /\ Valid(selected, custom) /\ Valid(choice, custom)
    BY AtRest
  <1>2. PatternTypes'
    BY <1>1 DEF PatternTypes
  <1>3. Sequel' /\ \A e : Ahead(e, todo') <=> e \in effects
    BY DEF Sequel, Made
  <1>4. MemorySound'
    BY DEF MemorySound, Valid
  <1>5. LoadedAudio' = selected /\ LoadedPatterns' = custom /\ ~Torn'
    BY <1>1 DEF LoadedAudio, LoadedPatterns, Torn
  <1>6. UpToDate'
    <2>1. ~Ahead("apply", todo') => engine'.custom = custom'
      BY <1>1, <1>3
    <2>2. \A k \in Kind : ~Ahead(SetId(k), todo') => engine'.selected[k] = selected'[k]
      <3> HIDE DEF SetId
      <3> QED
        BY <1>1, <1>3
    <2>3. ~Ahead("write audio", todo') => LoadedAudio' = selected'
      BY <1>3, <1>5
    <2>4. ~Ahead("write patterns", todo') => LoadedPatterns' = custom'
      BY <1>3, <1>5
    <2> QED
      BY <2>1, <2>2, <2>3, <2>4 DEF UpToDate
  <1>7. FilesSound'
    <2>1. Valid(LoadedAudio, LoadedPatterns)'
      BY <1>1, <1>5 DEF Valid
    <2>2. Sooner("write audio", "write patterns", todo') => Valid(selected, LoadedPatterns)'
      BY <1>5 DEF Valid
    <2>3. Sooner("write patterns", "write audio", todo') => Valid(LoadedAudio, custom)'
      BY <1>5 DEF Valid
    <2> QED
      BY <1>5, <2>1, <2>2, <2>3 DEF FilesSound
  <1> QED
    BY <1>2, <1>3, <1>4, <1>6, <1>7 DEF SignalParts

\* The dialog is opened, on the patterns read again.
LEMMA SettingsClickedKeeps ==
    ASSUME SignalParts, OnSettingsClicked PROVE SignalParts'
  <1>1. /\ todo = <<>> /\ custom' = LoadedPatterns /\ choice' = Shown(LoadedPatterns, selected)
        /\ todo' = ApplyCustomPatternsToEngine /\ UNCHANGED <<selected, engine, file>>
    BY DEF OnSettingsClicked
  <1>2. PatternTypes /\ LoadedPatterns = custom /\ Valid(selected, custom)
    BY <1>1, AtRest
  <1>3. custom' = custom /\ custom \in Lists /\ selected \in Choices
    BY <1>1, <1>2 DEF PatternTypes
  <1>4. choice' \in Choices /\ Valid(choice', custom')
    BY <1>1, <1>2, <1>3, ShownValid
  <1>5. Made(todo', {"apply"})
    BY <1>1, BasicSteps
  <1>6. "write audio" \notin {"apply"} /\ "write patterns" \notin {"apply"}
    OBVIOUS
  <1>7. ~Sooner("write audio", "write patterns", todo') /\ ~Sooner("write patterns", "write audio", todo')
    BY <1>5, <1>6, NotSooner
  <1> QED
    BY <1>1, <1>2, <1>3, <1>4, <1>5, <1>7, HandlerKeeps

\* A handler that has nothing left to do.
LEMMA RestKeeps ==
    ASSUME SignalParts, todo = <<>>, choice' \in Choices, Valid(choice', custom),
           UNCHANGED <<custom, selected, engine, file, todo>>
    PROVE  SignalParts'
  <1>1. PatternTypes /\ Valid(selected, custom)
    BY AtRest
  <1>2. Made(todo', {})
    BY BasicSteps
  <1>3. ~Sooner("write audio", "write patterns", todo') /\ ~Sooner("write patterns", "write audio", todo')
    BY <1>2, NothingSooner
  <1> QED
    BY <1>1, <1>2, <1>3, HandlerKeeps DEF PatternTypes

\* A pattern is picked in the dialog.
LEMMA PickedKeeps ==
    ASSUME NEW k \in Kind, NEW id \in AnyId, SignalParts, Picked(k, id) PROVE SignalParts'
  <1>1. /\ todo = <<>>
        /\ IsBuiltInPatternId(k, id) \/ id \in Ids(custom[k])
        /\ choice' = [choice EXCEPT ![k] = id]
        /\ UNCHANGED <<custom, selected, engine, file, todo>>
    BY DEF Picked
  <1>2. choice \in [Kind -> AnyId] /\ Valid(choice, custom)
    BY <1>1, AtRest DEF PatternTypes, Choices
  <1>3. choice' \in Choices /\ \A c \in Kind : choice'[c] = IF c = k THEN id ELSE choice[c]
    BY <1>1, <1>2 DEF Choices
  <1>4. Valid(choice', custom)
    BY <1>1, <1>2, <1>3 DEF Valid
  <1> QED
    BY <1>1, <1>3, <1>4, RestKeeps

\* Cancel.
LEMMA CancelledKeeps ==
    ASSUME SignalParts, DialogCancelled PROVE SignalParts'
  <1>1. /\ todo = <<>> /\ choice' = Unset
        /\ UNCHANGED <<custom, selected, engine, file, todo>>
    BY DEF DialogCancelled
  <1> QED
    BY <1>1, BuiltIns, UnsetValid, RestKeeps

\* OK: what is shown is selected.
LEMMA AcceptedKeeps ==
    ASSUME SignalParts, DialogAccepted PROVE SignalParts'
  <1> DEFINE A == {"set roger", "set call", "open audio", "write audio"}
  <1>1. /\ todo = <<>> /\ choice' = Unset /\ selected' = choice
        /\ todo' = SetPatternId["roger"] \o SetPatternId["call"] \o SaveAudioSettings
        /\ UNCHANGED <<custom, engine, file>>
    BY DEF DialogAccepted
  <1>2. custom \in Lists /\ choice \in Choices /\ Unset \in Choices /\ Valid(choice, custom)
        /\ Valid(selected, custom)
    BY <1>1, AtRest, BuiltIns DEF PatternTypes
  <1>3. Made(todo', A) /\ ~Sooner("write patterns", "write audio", todo')
    BY <1>1, AcceptsNext
  <1>4. "write audio" \in A /\ \A k \in Kind : SetId(k) \in A
    BY KindSteps
  <1> HIDE DEF A, SetId
  <1>5. Valid(choice', custom')
    BY <1>1, UnsetValid
  <1> QED
    BY <1>1, <1>2, <1>3, <1>4, <1>5, HandlerKeeps DEF SetId

\* The settings are saved as they are.
LEMMA SliderKeeps ==
    ASSUME SignalParts, OnRxVolumeSlider PROVE SignalParts'
  <1>1. /\ todo = <<>> /\ todo' = SaveAudioSettings
        /\ UNCHANGED <<custom, selected, engine, choice, file>>
    BY DEF OnRxVolumeSlider
  <1>2. /\ custom \in Lists /\ selected \in Choices /\ choice \in Choices
        /\ Valid(choice, custom) /\ Valid(selected, custom)
    BY <1>1, AtRest DEF PatternTypes
  <1>3. Made(todo', {"open audio", "write audio"})
    BY <1>1, BasicSteps
  <1> QED
    BY <1>1, <1>2, <1>3, HandlerKeeps

\* Save in the editor: the pattern becomes the selected one.
LEMMA UpsertKeeps ==
    ASSUME NEW k \in Kind, NEW p \in Pattern, NEW new \in BOOLEAN,
           SignalParts, UpsertCustomPattern(k, p, new)
    PROVE  SignalParts'
  <1> DEFINE up == Upserted(custom[k], p, new)
             A == {"open patterns", "write patterns", "apply", SetId(k), "open audio", "write audio"}
  <1>1. /\ todo = <<>> /\ custom' = [custom EXCEPT ![k] = up.list]
        /\ selected' = [selected EXCEPT ![k] = up.id]
        /\ choice' = Shown(custom', selected')
        /\ todo' = SaveCustomSignalPatterns \o ApplyCustomPatternsToEngine
                     \o SetPatternId[k] \o SaveAudioSettings
        /\ UNCHANGED <<engine, file>>
    BY DEF UpsertCustomPattern
  <1>2. /\ custom \in [Kind -> Seq(Pattern)] /\ selected \in [Kind -> AnyId]
        /\ Valid(selected, custom)
    BY <1>1, AtRest DEF PatternTypes, Lists, Choices
  <1>3. /\ up.list \in Seq(Pattern) /\ up.id \in Ids(up.list) /\ up.id \in PatternId
        /\ Ids(custom[k]) \subseteq Ids(up.list)
    BY <1>2, UpsertedSound
  <1> HIDE DEF up, SetId
  <1>4. custom' \in Lists /\ \A c \in Kind : custom'[c] = IF c = k THEN up.list ELSE custom[c]
    BY <1>1, <1>2, <1>3 DEF Lists
  <1>5. selected' \in Choices /\ \A c \in Kind : selected'[c] = IF c = k THEN up.id ELSE selected[c]
    BY <1>1, <1>2, <1>3 DEF Choices, AnyId
  <1>6. Valid(selected', custom') /\ Valid(selected, custom')
    BY <1>2, <1>3, <1>4, <1>5 DEF Valid
  <1>7. choice' \in Choices /\ Valid(choice', custom')
    BY <1>1, <1>4, <1>5, ShownValid
  <1>8. Made(todo', A) /\ ~Sooner("write audio", "write patterns", todo')
    BY <1>1, UpsertsNext
  <1>9. "apply" \in A /\ "write audio" \in A /\ "write patterns" \in A /\ SetId(k) \in A
    OBVIOUS
  <1> HIDE DEF A
  <1>10. \A c \in Kind : SetId(c) \in A \/ selected'[c] = selected[c]
    BY <1>5, <1>9
  <1> QED
    BY <1>1, <1>4, <1>5, <1>6, <1>7, <1>8, <1>9, <1>10, HandlerKeeps DEF SetId

\* Delete in the editor: the selected pattern, or another.
LEMMA DeleteKeeps ==
    ASSUME NEW k \in Kind, SignalParts, DeleteCustomPattern(k) PROVE SignalParts'
  <1> DEFINE id == choice[k]
  <1>1. /\ todo = <<>> /\ custom' = [custom EXCEPT ![k] = Without(@, id)]
        /\ selected' = [selected EXCEPT ![k] = IF @ = id THEN Fallback[k] ELSE @]
        /\ choice' = Shown(custom', selected')
        /\ UNCHANGED <<engine, file>>
    BY DEF DeleteCustomPattern, Removed
  <1>2. todo' = (IF selected[k] = id THEN SetPatternId[k] \o SaveAudioSettings ELSE <<>>)
                  \o SaveCustomSignalPatterns \o ApplyCustomPatternsToEngine
    BY DEF DeleteCustomPattern
  <1>3. /\ custom \in [Kind -> Seq(Pattern)] /\ selected \in [Kind -> AnyId]
        /\ Valid(selected, custom)
    BY <1>1, AtRest DEF PatternTypes, Lists, Choices
  <1> DEFINE kept == Without(custom[k], id)
  <1>4. kept \in Seq(Pattern) /\ Ids(custom[k]) \ {id} \subseteq Ids(kept)
    BY <1>3, WithoutSound
  <1>5. custom' = [custom EXCEPT ![k] = kept]
    BY <1>1
  <1> HIDE DEF kept, id, SetId
  <1>6. custom' \in Lists /\ \A c \in Kind : custom'[c] = IF c = k THEN kept ELSE custom[c]
    BY <1>3, <1>4, <1>5 DEF Lists
  <1>7. IsBuiltInPatternId(k, Fallback[k]) /\ Fallback[k] \in AnyId
    BY BuiltIns
  <1>8. CASE selected[k] = id
    <2> DEFINE A == {SetId(k), "open audio", "write audio", "open patterns", "write patterns", "apply"}
    <2>1. /\ selected' \in Choices
          /\ \A c \in Kind : selected'[c] = IF c = k THEN Fallback[k] ELSE selected[c]
      BY <1>1, <1>3, <1>7, <1>8 DEF Choices
    <2>2. Valid(selected', custom') /\ Valid(selected', custom)
      BY <1>3, <1>6, <1>7, <2>1 DEF Valid
    <2>3. choice' \in Choices /\ Valid(choice', custom')
      BY <1>1, <1>6, <2>1, ShownValid
    <2>4. todo' = (SetPatternId[k] \o SaveAudioSettings)
                    \o SaveCustomSignalPatterns \o ApplyCustomPatternsToEngine
      BY <1>2, <1>8
    <2>5. Made(todo', A) /\ ~Sooner("write patterns", "write audio", todo')
      BY <2>4, DeletesNext
    <2>6. "apply" \in A /\ "write audio" \in A /\ "write patterns" \in A /\ SetId(k) \in A
      OBVIOUS
    <2> HIDE DEF A
    <2>7. \A c \in Kind : SetId(c) \in A \/ selected'[c] = selected[c]
      BY <2>1, <2>6
    <2> QED
      BY <1>1, <1>6, <2>1, <2>2, <2>3, <2>5, <2>6, <2>7, HandlerKeeps DEF SetId
  <1>9. CASE selected[k] # id
    <2> DEFINE A == {"open patterns", "write patterns", "apply"}
    <2>1. selected' = selected
      BY <1>1, <1>3, <1>9
    <2>2. selected \in Choices /\ Valid(selected, custom')
      BY <1>3, <1>4, <1>6, <1>9 DEF Valid, Choices
    <2>3. choice' \in Choices /\ Valid(choice', custom')
      BY <1>1, <1>6, <2>1, <2>2, ShownValid
    <2>4. todo' = <<>> \o SaveCustomSignalPatterns \o ApplyCustomPatternsToEngine
      BY <1>2, <1>9
    <2>5. Made(todo', A)
      BY <2>4, SavesNext
    <2>6. "apply" \in A /\ "write patterns" \in A /\ "write audio" \notin A
      OBVIOUS
    <2> HIDE DEF A
    <2>7. ~Sooner("write audio", "write patterns", todo')
      BY <2>5, <2>6, NotSooner
    <2> QED
      BY <1>1, <1>6, <2>1, <2>2, <2>3, <2>5, <2>6, <2>7, HandlerKeeps
  <1> QED
    BY <1>8, <1>9

-----------------------------------------------------------------------------
(* Signal patterns: the theorem.                                           *)

\* It holds of a client with no files.
LEMMA SignalInvInit == PatternsInit => SignalInv
  <1> SUFFICES ASSUME PatternsInit PROVE SignalParts
    BY DEF SignalInv
  <1>1. /\ custom = NoPatterns /\ selected = Unset /\ choice = Unset /\ todo = <<>>
        /\ engine = [custom |-> NoPatterns, selected |-> Unset]
        /\ file = [patterns |-> [state |-> "absent", data |-> NoPatterns],
                   audio    |-> [state |-> "absent", data |-> Unset]]
    BY DEF PatternsInit
  <1>2. Unset \in Choices /\ NoPatterns \in Lists
    BY BuiltIns
  <1> HIDE DEF Unset, NoPatterns
  <1>3. PatternTypes
    BY <1>1, <1>2 DEF PatternTypes, File
  <1>4. Made(todo, {})
    BY <1>1, BasicSteps
  <1>5. Sequel /\ ~Sooner("write audio", "write patterns", todo)
               /\ ~Sooner("write patterns", "write audio", todo)
    BY <1>4, NothingSooner DEF Sequel, Made
  <1>6. \A lists : Valid(Unset, lists)
    BY UnsetValid
  <1>7. LoadedAudio = Unset /\ LoadedPatterns = NoPatterns /\ ~Torn
    BY <1>1 DEF LoadedAudio, LoadedPatterns, Torn
  <1>8. MemorySound
    BY <1>1, <1>6 DEF MemorySound
  <1>9. UpToDate
    BY <1>1, <1>7 DEF UpToDate
  <1>10. FilesSound
    BY <1>5, <1>6, <1>7 DEF FilesSound
  <1> QED
    BY <1>3, <1>5, <1>8, <1>9, <1>10 DEF SignalParts

\* Every step keeps the invariant: a restart, an effect, a handler.
LEMMA SignalInvNext == SignalInv /\ PatternsNext => SignalInv'
  <1> SUFFICES ASSUME SignalInv, PatternsNext, ~spoiled' PROVE SignalParts'
    BY DEF SignalInv
  <1>1. CASE LoadAllSettings
    <2>1. ~spoiled
      BY <1>1 DEF LoadAllSettings
    <2> QED
      BY <1>1, <2>1, RestartKeeps DEF SignalInv
  <1>2. CASE ~spoiled /\ PatternsStep
    <2>1. SignalParts
      BY <1>2 DEF SignalInv
    <2>2. CASE Applied
      BY <2>1, <2>2, AppliedKeeps
    <2>3. ASSUME NEW k \in Kind, IdSet(k) PROVE SignalParts'
      BY <2>1, <2>3, IdSetKeeps
    <2>4. ASSUME NEW f \in File, Truncated(f) PROVE SignalParts'
      BY <2>1, <2>4, TruncatedKeeps
    <2>5. ASSUME NEW f \in File, NotOpened(f) PROVE SignalParts'
      BY <2>5 DEF NotOpened
    <2>6. ASSUME NEW f \in File, Written(f) PROVE SignalParts'
      BY <2>1, <2>6, WrittenKeeps
    <2>7. CASE OnSettingsClicked
      BY <2>1, <2>7, SettingsClickedKeeps
    <2>8. CASE DialogAccepted
      BY <2>1, <2>8, AcceptedKeeps
    <2>9. CASE DialogCancelled
      BY <2>1, <2>9, CancelledKeeps
    <2>10. CASE OnRxVolumeSlider
      BY <2>1, <2>10, SliderKeeps
    <2>11. ASSUME NEW k \in Kind, NEW i \in DOMAIN BuiltIn[k], Picked(k, BuiltIn[k][i])
           PROVE  SignalParts'
      <3>1. BuiltIn[k][i] \in AnyId
        BY BuiltIns
      <3> QED
        BY <2>1, <2>11, <3>1, PickedKeeps
    <2>12. ASSUME NEW k \in Kind, NEW id \in PatternId, Picked(k, id) PROVE SignalParts'
      <3>1. id \in AnyId
        BY DEF AnyId
      <3> QED
        BY <2>1, <2>12, <3>1, PickedKeeps
    <2>13. ASSUME NEW k \in Kind, NEW p \in Pattern, NEW new \in BOOLEAN,
                  UpsertCustomPattern(k, p, new)
           PROVE  SignalParts'
      BY <2>1, <2>13, UpsertKeeps
    <2>14. ASSUME NEW k \in Kind, DeleteCustomPattern(k) PROVE SignalParts'
      BY <2>1, <2>14, DeleteKeeps
    <2> QED
      BY <1>2, <2>2, <2>3, <2>4, <2>5, <2>6, <2>7, <2>8, <2>9, <2>10, <2>11, <2>12, <2>13,
         <2>14 DEF PatternsStep
  <1> QED
    BY <1>1, <1>2 DEF PatternsNext

\* So does a step of the profiles.
LEMMA SignalInvRests == SignalInv /\ UNCHANGED patternVars => SignalInv'
  <1> SUFFICES ASSUME SignalParts, UNCHANGED patternVars PROVE SignalParts'
    BY DEF SignalInv, patternVars
  <1>1. UNCHANGED <<custom, selected, engine, choice, file, todo>>
    BY DEF patternVars
  <1>2. /\ LoadedAudio' = LoadedAudio /\ LoadedPatterns' = LoadedPatterns /\ Torn' = Torn
    BY <1>1 DEF LoadedAudio, LoadedPatterns, Torn
  <1>3. PatternTypes' /\ Sequel' /\ MemorySound'
    BY <1>1 DEF SignalParts, PatternTypes, Sequel, MemorySound, Valid
  <1>4. UpToDate'
    <2> HIDE DEF SetId
    <2> QED
      BY <1>1, <1>2 DEF SignalParts, UpToDate
  <1>5. FilesSound'
    BY <1>1, <1>2 DEF SignalParts, FilesSound, Valid
  <1> QED
    BY <1>3, <1>4, <1>5 DEF SignalParts

\* The invariant gives the property.
LEMMA SignalInvMeans == SignalInv => ChosenSignalPlays
  <1> SUFFICES ASSUME SignalInv, todo = <<>>, ~spoiled
               PROVE  engine.custom = custom /\ \A k \in Kind : Played(k) = selected[k]
    BY DEF ChosenSignalPlays
  <1>1. /\ engine.custom = custom /\ \A k \in Kind : engine.selected[k] = selected[k]
        /\ Valid(selected, custom)
    BY AtRest DEF SignalInv
  <1> QED
    BY <1>1 DEF Played, Valid

\* When no handler runs, the signal that is played is the one selected, after any
\* edits and a restart wherever the program ended, between the two files too,
\* unless patterns were read from a torn file or a save failed silently
\* (MainFrame.cpp:2196-2312, AudioEngine.cpp:648-674).
THEOREM ChosenAlwaysPlays == SettingsSpec => []ChosenSignalPlays
  <1>1. SettingsInit => SignalInv
    BY SignalInvInit DEF SettingsInit
  <1>2. SignalInv /\ [SettingsNext]_settingsVars => SignalInv'
    BY SignalInvNext, SignalInvRests DEF SettingsNext, settingsVars
  <1> QED
    BY <1>1, <1>2, SignalInvMeans, PTL DEF SettingsSpec
=============================================================================
