------------------------- MODULE CallbackBridgeProofs -------------------------
(***************************************************************************)
(* Proofs about CallbackBridge, for any number of closers.                 *)
(***************************************************************************)
EXTENDS CallbackBridge, TLAPS

\* Only who is inside a call is counted.
CountedCall == \A t \in counted : pc[t] = "call"

\* Once an eraser has seen the count fall to nothing and goes to delete, or has
\* deleted, who is counted counted itself too late.
LateAreUnseen ==
    (~gaveUp /\ (listener = "deleted" \/ \E e \in Caller : pc[e] = "delete"))
        => counted \subseteq unseen

\* Nothing of a session that was not prepared is under way.
NotPrepared ==
    prepared \in {"no", "refused"} =>
        /\ held = "no" /\ ~registered
        /\ \A t \in Caller : pc[t] \in {"idle", "take", "erase", "done"}

BridgeInv == TypeOK /\ CountedCall /\ LateAreUnseen /\ NotPrepared

LEMMA InitBridge == Init => BridgeInv
<1> SUFFICES ASSUME Init PROVE BridgeInv
  OBVIOUS
<1>1. TypeOK
  <2>1. {stopped, muted, saidBye, registered, missed, gaveUp} \subseteq BOOLEAN
    BY DEF Init
  <2>2. pc \in [Caller -> Pc] /\ says \in [Caller -> Word]
    BY DEF Init, Pc, Word
  <2> QED
    BY <2>1, <2>2 DEF Init, TypeOK
<1>2. CountedCall /\ LateAreUnseen
  BY DEF Init, CountedCall, LateAreUnseen
<1>3. NotPrepared
  BY DEF Init, NotPrepared
<1> QED
  BY <1>1, <1>2, <1>3 DEF BridgeInv

-----------------------------------------------------------------------------
(* Types.                                                                   *)

\* A thread that goes from one step to another.
LEMMA GoesKeepsPc ==
    ASSUME TypeOK, NEW t \in Caller, NEW to \in Pc, Goes(t, to)
    PROVE  pc' \in [Caller -> Pc]
BY DEF TypeOK, Goes

LEMMA Resting ==
    ASSUME NEW t \in Caller
    PROVE  Rests(t) \in Pc /\ Rests(t) \in {"idle", "done"}
BY DEF Rests, Pc

LEMMA PreparesKeepsType == TypeOK /\ Prepares => TypeOK'
<1> SUFFICES ASSUME TypeOK, Prepares PROVE TypeOK'
  OBVIOUS
<1>1. CASE Allocate
  BY <1>1 DEF Allocate, TypeOK, threads, history
<1>2. CASE Refuse
  BY <1>2 DEF Refuse, TypeOK, threads, history
<1>3. CASE Register
  BY <1>3 DEF Register, TypeOK, threads
<1> QED
  BY <1>1, <1>2, <1>3 DEF Prepares

LEMMA EmitsKeepsType ==
    ASSUME TypeOK, NEW t \in Caller, NEW word \in Word, Emits(t, word)
    PROVE  pc' \in [Caller -> Pc] /\ says' \in [Caller -> Word]
BY GoesKeepsPc DEF TypeOK, Emits, Pc

LEMMA QuietKeepsType ==
    ASSUME TypeOK, NEW t \in Caller, Quiet(t)
    PROVE  says' \in [Caller -> Word]
BY DEF TypeOK, Quiet, Word

LEMMA DeliversKeepsType ==
    ASSUME TypeOK, NEW t \in Caller, Delivers(t)
    PROVE  TypeOK'
<1>1. CASE JniLooks(t)
  <2>1. pc' \in [Caller -> Pc]
    BY <1>1, GoesKeepsPc DEF JniLooks, Pc
  <2> QED
    BY <1>1, <2>1 DEF JniLooks, TypeOK, session, binding, history
<1>2. CASE CLooks(t)
  <2>1. pc' \in [Caller -> Pc] /\ says' \in [Caller -> Word]
    BY <1>2, GoesKeepsPc, QuietKeepsType, Resting DEF CLooks, Pc, TypeOK
  <2> QED
    BY <1>2, <2>1 DEF CLooks, TypeOK, session, binding, history
<1>3. CASE Count(t)
  <2>1. pc' \in [Caller -> Pc]
    BY <1>3, GoesKeepsPc DEF Count, Pc
  <2> QED
    BY <1>3, <2>1 DEF Count, TypeOK, session
<1>4. CASE Called(t)
  <2>1. pc' \in [Caller -> Pc]
    BY <1>4, GoesKeepsPc DEF Called, Pc
  <2> QED
    BY <1>4, <2>1 DEF Called, TypeOK, session
<1>5. CASE JniAfter(t)
  <2>1. pc' \in [Caller -> Pc] /\ says' \in [Caller -> Word]
    BY <1>5, GoesKeepsPc, QuietKeepsType DEF JniAfter, Pc
  <2> QED
    BY <1>5, <2>1 DEF JniAfter, TypeOK, session, binding, history
<1>6. CASE CAfter(t)
  <2>1. pc' \in [Caller -> Pc] /\ says' \in [Caller -> Word]
    BY <1>6, GoesKeepsPc, QuietKeepsType, Resting DEF CAfter
  <2>2. registered' \in BOOLEAN
    BY <1>6 DEF CAfter
  <2> QED
    BY <1>6, <2>1, <2>2 DEF CAfter, TypeOK, session, history
<1> QED
  BY <1>1, <1>2, <1>3, <1>4, <1>5, <1>6 DEF Delivers

LEMMA ErasesKeepsType ==
    ASSUME TypeOK, NEW t \in Caller, Erases(t)
    PROVE  TypeOK'
<1>1. CASE EraseTakes(t)
  <2>1. pc' \in [Caller -> Pc]
    BY <1>1, GoesKeepsPc, Resting DEF EraseTakes, Pc
  <2> QED
    BY <1>1, <2>1 DEF EraseTakes, TypeOK, session, history
<1>2. CASE EraseDrains(t)
  <2>1. pc' \in [Caller -> Pc]
    BY <1>2, GoesKeepsPc DEF EraseDrains, Pc
  <2> QED
    BY <1>2, <2>1 DEF EraseDrains, TypeOK, session, binding, history
<1>3. CASE EraseGivesUp(t)
  <2>1. pc' \in [Caller -> Pc]
    BY <1>3, GoesKeepsPc DEF EraseGivesUp, Pc
  <2> QED
    BY <1>3, <2>1 DEF EraseGivesUp, TypeOK, session, binding
<1>4. CASE EraseDeletes(t)
  <2>1. pc' \in [Caller -> Pc]
    BY <1>4, GoesKeepsPc, Resting DEF EraseDeletes
  <2> QED
    BY <1>4, <2>1 DEF EraseDeletes, TypeOK, session, history
<1> QED
  BY <1>1, <1>2, <1>3, <1>4 DEF Erases

LEMMA ClosesKeepsType ==
    ASSUME TypeOK, NEW c \in Closer,
           \/ Closes(c)
           \/ \E what \in {"disconnect", "halt", "all"} :
                 NativeClose(c, what) \/ CClose(c, what)
    PROVE  TypeOK'
<1>c. c \in Caller
  BY DEF Caller
<1>1. CASE CloseTakesNothing(c)
  <2>1. pc' \in [Caller -> Pc]
    BY <1>1, <1>c, GoesKeepsPc DEF CloseTakesNothing, AfterTaking, Pc
  <2> QED
    BY <1>1, <2>1 DEF CloseTakesNothing, TypeOK, session, binding, history
<1>2. CASE CloseDisconnects(c)
  <2>1. pc' \in [Caller -> Pc] /\ says' \in [Caller -> Word]
    BY <1>2, <1>c, GoesKeepsPc, EmitsKeepsType
       DEF CloseDisconnects, AfterTaking, Pc, Word, TypeOK
  <2> QED
    BY <1>2, <2>1 DEF CloseDisconnects, TypeOK, binding, history
<1>3. CASE CloseHalts(c)
  <2>1. pc' \in [Caller -> Pc]
    BY <1>3, <1>c, GoesKeepsPc DEF CloseHalts, AfterTaking, Pc
  <2> QED
    BY <1>3, <2>1 DEF CloseHalts, TypeOK, binding, history
<1>4. ASSUME NEW what \in {"disconnect", "halt", "all"}, CloseCalled(c, what)
      PROVE  pc' \in [Caller -> Pc] /\ op' \in [Closer -> {"none", "disconnect", "halt", "all"}]
  BY <1>4, <1>c, GoesKeepsPc DEF CloseCalled, Pc, TypeOK
<1>5. CASE \E what \in {"disconnect", "halt", "all"} : NativeClose(c, what)
  BY <1>4, <1>5 DEF NativeClose, TypeOK, session, binding, history
<1>6. CASE \E what \in {"disconnect", "halt", "all"} : CClose(c, what)
  BY <1>4, <1>6 DEF CClose, TypeOK, session, history
<1> QED
  BY <1>1, <1>2, <1>3, <1>5, <1>6 DEF Closes

LEMMA NextKeepsType == TypeOK /\ [Next]_vars => TypeOK'
<1> SUFFICES ASSUME TypeOK, [Next]_vars PROVE TypeOK'
  OBVIOUS
<1>1. CASE DiallerFails
  <2>1. pc' \in [Caller -> Pc] /\ says' \in [Caller -> Word]
    BY <1>1, EmitsKeepsType DEF DiallerFails, Word, Caller
  <2> QED
    BY <1>1, <2>1 DEF DiallerFails, TypeOK, session, binding, history
<1>2. CASE WorkersJoined
  BY <1>2 DEF WorkersJoined, TypeOK, binding, threads, history
<1>3. CASE \E w \in Worker, word \in {"rx", "event", "fatal"} : WorkerEmits(w, word)
  <2>1. pc' \in [Caller -> Pc] /\ says' \in [Caller -> Word]
    BY <1>3, EmitsKeepsType DEF WorkerEmits, Word, Caller
  <2> QED
    BY <1>3, <2>1 DEF WorkerEmits, TypeOK, session, binding, history
<1>4. CASE UNCHANGED vars
  BY <1>4 DEF vars, TypeOK, session, binding, threads, history
<1> QED
  BY <1>1, <1>2, <1>3, <1>4, PreparesKeepsType, DeliversKeepsType,
     ErasesKeepsType, ClosesKeepsType DEF Next

-----------------------------------------------------------------------------
(* Who is counted.                                                          *)

\* A step that counts nobody, moves only threads that are not in a call, and
\* leads none to delete, keeps what is known of those counted.
LEMMA CountUntouched ==
    ASSUME BridgeInv, counted' = counted, unseen' = unseen,
           listener' = listener, gaveUp' = gaveUp,
           \A t \in Caller : pc[t] = "call" => pc'[t] = "call",
           \A t \in Caller : pc'[t] = "delete" => pc[t] = "delete"
    PROVE  CountedCall' /\ LateAreUnseen'
BY DEF BridgeInv, TypeOK, CountedCall, LateAreUnseen

\* A session that was never prepared has nobody in a callback.
LEMMA NobodyCounted ==
    ASSUME BridgeInv, prepared \in {"no", "refused"}
    PROVE  counted = {} /\ \A t \in Caller : pc[t] # "delete"
BY DEF BridgeInv, TypeOK, CountedCall, NotPrepared

LEMMA PreparesCounts ==
    ASSUME BridgeInv, Prepares
    PROVE  CountedCall' /\ LateAreUnseen' /\ NotPrepared'
<1>1. CASE Allocate
  <2>1. counted = {} /\ \A t \in Caller : pc[t] # "delete"
    BY <1>1, NobodyCounted DEF Allocate
  <2> QED
    BY <1>1, <2>1 DEF Allocate, threads, history, CountedCall, LateAreUnseen,
                      NotPrepared
<1>2. CASE Refuse
  <2>1. counted = {} /\ \A t \in Caller : pc[t] # "delete"
    BY <1>2, NobodyCounted DEF Refuse
  <2> QED
    BY <1>2, <2>1 DEF Refuse, threads, history, CountedCall, LateAreUnseen,
                      NotPrepared, BridgeInv
<1>3. CASE Register
  BY <1>3, CountUntouched DEF Register, threads, NotPrepared
<1> QED
  BY <1>1, <1>2, <1>3 DEF Prepares

\* A thread that is about to deliver, or delivers, belongs to a session that
\* was prepared.
LEMMA WasPrepared ==
    ASSUME BridgeInv, NEW t \in Caller,
           pc[t] \in {"look", "passed", "call", "after", "drain", "delete"}
    PROVE  prepared \notin {"no", "refused"}
BY DEF BridgeInv, NotPrepared

LEMMA DeliversCounts ==
    ASSUME BridgeInv, NEW t \in Caller, Delivers(t)
    PROVE  CountedCall' /\ LateAreUnseen' /\ NotPrepared'
<1>t. TypeOK
  BY DEF BridgeInv
<1>p. NotPrepared'
  <2>1. pc[t] \in {"look", "passed", "call", "after"}
    BY DEF Delivers, At, JniLooks, CLooks, Count, Called, JniAfter, CAfter
  <2>2. prepared \notin {"no", "refused"}
    BY <2>1, WasPrepared
  <2>3. prepared' = prepared
    BY DEF Delivers, JniLooks, CLooks, Count, Called, JniAfter, CAfter, session
  <2> QED
    BY <2>2, <2>3 DEF NotPrepared
<1>1. CASE JniLooks(t)
  BY <1>1, <1>p, <1>t, CountUntouched
     DEF JniLooks, At, Goes, TypeOK, binding, history
<1>2. CASE CLooks(t)
  BY <1>2, <1>p, <1>t, CountUntouched, Resting
     DEF CLooks, At, Goes, TypeOK, binding, history
<1>3. CASE Count(t)
  <2>1. CountedCall'
    BY <1>3, <1>t DEF Count, Goes, At, CountedCall, BridgeInv, TypeOK
  <2>2. (\E e \in Caller : pc'[e] = "delete") => \E e \in Caller : pc[e] = "delete"
    BY <1>3, <1>t DEF Count, Goes, TypeOK
  <2>3. LateAreUnseen'
    BY <1>3, <2>2 DEF Count, At, LateAreUnseen, BridgeInv
  <2> QED
    BY <1>p, <2>1, <2>3
<1>4. CASE Called(t)
  <2>1. CountedCall'
    BY <1>4, <1>t DEF Called, Goes, At, CountedCall, BridgeInv, TypeOK
  <2>2. (\E e \in Caller : pc'[e] = "delete") => \E e \in Caller : pc[e] = "delete"
    BY <1>4, <1>t DEF Called, Goes, TypeOK
  <2>3. LateAreUnseen'
    BY <1>4, <2>2 DEF Called, LateAreUnseen, BridgeInv
  <2> QED
    BY <1>p, <2>1, <2>3
<1>5. CASE JniAfter(t)
  BY <1>5, <1>p, <1>t, CountUntouched
     DEF JniAfter, At, Goes, TypeOK, binding, history
<1>6. CASE CAfter(t)
  BY <1>6, <1>p, <1>t, CountUntouched, Resting
     DEF CAfter, At, Goes, TypeOK, history
<1> QED
  BY <1>1, <1>2, <1>3, <1>4, <1>5, <1>6 DEF Delivers

\* The erase is what the invariant is about: it deletes when nobody is counted,
\* or gave up waiting.
LEMMA ErasesCounts ==
    ASSUME BridgeInv, NEW t \in Caller, Erases(t)
    PROVE  CountedCall' /\ LateAreUnseen' /\ NotPrepared'
<1>t. TypeOK
  BY DEF BridgeInv
<1>1. CASE EraseTakes(t)
  <2>1. CountedCall' /\ LateAreUnseen'
    BY <1>1, <1>t, CountUntouched, Resting
       DEF EraseTakes, At, Goes, TypeOK, history
  <2>2. NotPrepared'
    BY <1>1, <1>t, Resting
       DEF EraseTakes, At, Goes, TypeOK, session, NotPrepared, BridgeInv
  <2> QED
    BY <2>1, <2>2
<1>2. CASE EraseDrains(t)
  <2>1. prepared \notin {"no", "refused"}
    BY <1>2, WasPrepared DEF EraseDrains, At
  <2> QED
    BY <1>2, <2>1 DEF EraseDrains, session, binding, history, CountedCall,
                      LateAreUnseen, NotPrepared
<1>3. CASE EraseGivesUp(t)
  <2>1. prepared \notin {"no", "refused"}
    BY <1>3, WasPrepared DEF EraseGivesUp, At
  <2>2. CountedCall'
    BY <1>3, <1>t DEF EraseGivesUp, At, Goes, TypeOK, binding, CountedCall, BridgeInv
  <2> QED
    BY <1>3, <2>1, <2>2 DEF EraseGivesUp, session, LateAreUnseen, NotPrepared
<1>4. CASE EraseDeletes(t)
  <2>1. prepared \notin {"no", "refused"}
    BY <1>4, WasPrepared DEF EraseDeletes, At
  <2>2. CountedCall'
    BY <1>4, <1>t DEF EraseDeletes, At, Goes, TypeOK, CountedCall, BridgeInv
  <2>3. LateAreUnseen'
    BY <1>4 DEF EraseDeletes, At, history, LateAreUnseen, BridgeInv
  <2> QED
    BY <1>4, <2>1, <2>2, <2>3 DEF EraseDeletes, session, NotPrepared
<1> QED
  BY <1>1, <1>2, <1>3, <1>4 DEF Erases

LEMMA ClosesCounts ==
    ASSUME BridgeInv, NEW c \in Closer,
           \/ Closes(c)
           \/ \E what \in {"disconnect", "halt", "all"} :
                 NativeClose(c, what) \/ CClose(c, what)
    PROVE  CountedCall' /\ LateAreUnseen' /\ NotPrepared'
<1>t. TypeOK /\ c \in Caller
  BY DEF BridgeInv, Caller
<1>1. CASE CloseTakesNothing(c)
  <2>1. CountedCall' /\ LateAreUnseen'
    BY <1>1, <1>t, CountUntouched
       DEF CloseTakesNothing, AfterTaking, At, Goes, TypeOK, binding, history
  <2>2. NotPrepared'
    BY <1>1, <1>t DEF CloseTakesNothing, AfterTaking, At, Goes, TypeOK, session,
                      binding, NotPrepared, BridgeInv
  <2> QED
    BY <2>1, <2>2
<1>2. CASE CloseDisconnects(c)
  <2>1. CountedCall' /\ LateAreUnseen'
    BY <1>2, <1>t, CountUntouched
       DEF CloseDisconnects, AfterTaking, Emits, At, Goes, TypeOK, binding, history
  <2>2. NotPrepared'
    BY <1>2 DEF CloseDisconnects, NotPrepared, BridgeInv
  <2> QED
    BY <2>1, <2>2
<1>3. CASE CloseHalts(c)
  <2>1. CountedCall' /\ LateAreUnseen'
    BY <1>3, <1>t, CountUntouched
       DEF CloseHalts, AfterTaking, At, Goes, TypeOK, binding, history
  <2>2. NotPrepared'
    BY <1>3 DEF CloseHalts, NotPrepared, BridgeInv
  <2> QED
    BY <2>1, <2>2
<1>4. CASE \E what \in {"disconnect", "halt", "all"} :
             NativeClose(c, what) \/ CClose(c, what)
  <2>1. PICK what \in {"disconnect", "halt", "all"} :
            /\ CloseCalled(c, what)
            /\ registered' \in {registered, FALSE}
            /\ UNCHANGED <<session, listener, counted, history>>
    BY <1>4 DEF NativeClose, CClose, binding, TypeOK
  <2>2. At(c, "idle") /\ pc' = [pc EXCEPT ![c] = "take"]
    BY <2>1 DEF CloseCalled, Goes
  <2>3. CountedCall' /\ LateAreUnseen'
    BY <2>1, <2>2, <1>t, CountUntouched DEF At, TypeOK, history
  <2>4. NotPrepared'
    BY <2>1, <2>2, <1>t DEF At, TypeOK, session, NotPrepared, BridgeInv
  <2> QED
    BY <2>3, <2>4
<1> QED
  BY <1>1, <1>2, <1>3, <1>4 DEF Closes

LEMMA NextBridge == BridgeInv /\ [Next]_vars => BridgeInv'
<1> SUFFICES ASSUME BridgeInv, [Next]_vars PROVE BridgeInv'
  OBVIOUS
<1>t. TypeOK /\ TypeOK'
  BY NextKeepsType DEF BridgeInv
<1>e. ASSUME NEW t \in Caller, NEW word \in Word, Emits(t, word), At(t, "idle"),
             prepared = "yes", UNCHANGED <<session, binding, history>>
      PROVE  CountedCall' /\ LateAreUnseen' /\ NotPrepared'
  <2>1. CountedCall' /\ LateAreUnseen'
    BY <1>e, <1>t, CountUntouched DEF Emits, At, Goes, TypeOK, binding, history
  <2> QED
    BY <1>e, <2>1 DEF session, NotPrepared
<1>1. CASE DiallerFails
  <2>1. Dialler \in Caller /\ "fatal" \in Word
    BY DEF Caller, Word
  <2> QED
    BY <1>1, <1>e, <1>t, <2>1 DEF DiallerFails, BridgeInv
<1>2. CASE WorkersJoined
  <2>1. CountedCall' /\ LateAreUnseen'
    BY <1>2, CountUntouched DEF WorkersJoined, binding, threads, history
  <2> QED
    BY <1>2, <1>t, <2>1 DEF WorkersJoined, binding, threads, NotPrepared, BridgeInv
<1>3. CASE \E w \in Worker, word \in {"rx", "event", "fatal"} : WorkerEmits(w, word)
  <2>1. PICK w \in Worker, word \in {"rx", "event", "fatal"} : WorkerEmits(w, word)
    BY <1>3
  <2>2. w \in Caller /\ word \in Word
    BY DEF Caller, Word
  <2> QED
    BY <1>e, <1>t, <2>1, <2>2 DEF WorkerEmits, BridgeInv
<1>4. CASE UNCHANGED vars
  BY <1>4, <1>t DEF vars, session, binding, threads, history, BridgeInv,
                    CountedCall, LateAreUnseen, NotPrepared
<1> QED
  BY <1>1, <1>2, <1>3, <1>4, <1>t, PreparesCounts, DeliversCounts,
     ErasesCounts, ClosesCounts DEF Next, BridgeInv

-----------------------------------------------------------------------------
\* For any closers and in every order, the bridge keeps its types.
THEOREM BridgeTypeCorrect == Spec => []TypeOK
<1>1. BridgeInv => TypeOK
  BY DEF BridgeInv
<1> QED
  BY <1>1, InitBridge, NextBridge, PTL DEF Spec

\* For any closers and in every order, a callback that counted itself in time
\* ends on a live listener: the depth is enough, if it is raised in time
\* (owalkie_jni.cpp:144-187).
THEOREM CountedAreSafe == Spec => []CountedCallsFinish
<1>1. BridgeInv => CountedCallsFinish
  BY DEF BridgeInv, LateAreUnseen, CountedCallsFinish
<1> QED
  BY <1>1, InitBridge, NextBridge, PTL DEF Spec

=============================================================================
