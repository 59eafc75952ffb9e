--------------------------- MODULE ListenerProofs ---------------------------
(***************************************************************************)
(* Theorems about Listener, for any number of watches, connections and     *)
(* Listener objects, any limit and any faults of the database.             *)
(***************************************************************************)
EXTENDS Listener, FiniteSetTheorems, TLAPS

USE DEF GoListen, GoWatch

\* RegisterSubscription allocates a Listener that exists.
LEMMA NextListenerIsNew ==
  ASSUME \E i \in Instances : lpc[i] = "new"
  PROVE  NextListener \in Instances /\ lpc[NextListener] = "new"
BY DEF NextListener

\* One step of any action preserves the types.
LEMMA TypeStep == TypeOK /\ [Next]_vars => TypeOK'
<1> SUFFICES ASSUME TypeOK, [Next]_vars PROVE TypeOK'
  OBVIOUS
<1> USE DEF TypeOK, ListenPc, Running, WatchPc, Live, listenerVars, watchVars
<1>1. ASSUME NEW w \in Watches, RegisterLock(w) PROVE TypeOK'
  <2>1. CASE current # None
    BY <1>1, <2>1 DEF RegisterLock
  <2>2. CASE current = None
    <3>1. NextListener \in Instances
      BY <1>1, <2>2, NextListenerIsNew DEF RegisterLock
    <3>2. /\ current' = NextListener
          /\ mu' = w
          /\ wpc' = [wpc EXCEPT ![w] = "create"]
          /\ lpc' = [lpc EXCEPT ![NextListener] = "starting"]
          /\ UNCHANGED <<subs, ctxDone, conn, cpc, todo, sending,
                         done, ptr, pending, age, stopPc>>
      BY <1>1, <2>2 DEF RegisterLock
    <3> HIDE DEF NextListener
    <3> QED BY <3>1, <3>2
  <2> QED BY <2>1, <2>2
<1>2. ASSUME NEW w \in Watches, WatchStep(w) PROVE TypeOK'
  <2>1. CASE StartConnects(w) BY <2>1 DEF StartConnects
  <2>2. CASE StartFails(w) BY <2>2 DEF StartFails
  <2>3. CASE RegisterInsert(w)
    <3>1. subs' \in [Instances -> [Ids -> Watches \cup {None}]]
      <4>1. CASE UNCHANGED subs BY <4>1
      <4>2. CASE subs' = [subs EXCEPT ![current][IdOf[w]] = w]
        BY <4>2, ListenerAssumption
      <4> QED BY <2>3, <4>1, <4>2 DEF RegisterInsert
    <3> QED BY <2>3, <3>1 DEF RegisterInsert
  <2>4. CASE ReadForActivity(w) BY <2>4 DEF ReadForActivity
  <2>5. CASE UpdateActivity(w) BY <2>5 DEF UpdateActivity
  <2>6. CASE SeeDone(w) BY <2>6 DEF SeeDone
  <2>7. CASE ReadForUnregister(w) BY <2>7 DEF ReadForUnregister
  <2>8. CASE Unregister(w) BY <2>8, ListenerAssumption DEF Unregister
  <2>9. CASE CloseChannels(w)
    BY <2>9, ListenerAssumption DEF CloseChannels
  <2> QED
    BY <1>2, <2>1, <2>2, <2>3, <2>4, <2>5, <2>6, <2>7, <2>8, <2>9
    DEF WatchStep
<1>3. ASSUME NEW w \in Watches, TakeEvent(w) PROVE TypeOK'
  BY <1>3, ListenerAssumption DEF TakeEvent
<1>4. ASSUME NEW w \in Watches, ClientGone(w) PROVE TypeOK'
  BY <1>4 DEF ClientGone
<1>5. ASSUME NEW w \in Watches, GoIdle(w) \/ GrowOld(w) PROVE TypeOK'
  BY <1>5 DEF GoIdle, GrowOld
<1>6. ASSUME NEW i \in Instances, ListenStep(i) PROVE TypeOK'
  <2>1. CASE LoopTop(i) BY <2>1 DEF LoopTop
  <2>2. CASE WaitCancelled(i) BY <2>2 DEF WaitCancelled
  <2>3. CASE ReconnectLock(i) BY <2>3 DEF ReconnectLock
  <2>4. CASE Reconnect(i) BY <2>4 DEF Reconnect
  <2>5. CASE DropNotification(i) BY <2>5 DEF DropNotification
  <2>6. CASE FanOutStart(i)
    BY <2>6 DEF FanOutStart, Subscribed, Entries
  <2>7. ASSUME NEW w \in Watches, FanOutCheck(i, w) PROVE TypeOK'
    BY <2>7 DEF FanOutCheck
  <2>8. CASE FanOutSend(i)
    BY <2>8, ListenerAssumption DEF FanOutSend, Enqueue
  <2>9. CASE FanOutEnd(i) BY <2>9 DEF FanOutEnd
  <2>10. CASE CloseConn(i) BY <2>10 DEF CloseConn
  <2> QED
    BY <1>6, <2>1, <2>2, <2>3, <2>4, <2>5, <2>6, <2>7, <2>8, <2>9, <2>10
    DEF ListenStep
<1>7. ASSUME NEW i \in Instances, Notified(i) \/ ConnectionLost(i) \/ Reset(i)
      PROVE TypeOK'
  BY <1>7 DEF Notified, ConnectionLost, Reset
<1>8. ASSUME NEW i \in Instances, CleanupTick(i) \/ CleanupExit(i)
      PROVE TypeOK'
  BY <1>8 DEF CleanupTick, CleanupExit
<1>9. CASE StopLock \/ StopReset
  BY <1>9 DEF StopLock, StopReset
<1>10. CASE UNCHANGED vars
  BY <1>10 DEF vars
<1> QED
  BY <1>1, <1>2, <1>3, <1>4, <1>5, <1>6, <1>7, <1>8, <1>9, <1>10
  DEF Next, ServingNext

\* The first state.
LEMMA InitTypeOK == Init => TypeOK
BY ListenerAssumption
DEF Init, TypeOK, ListenPc, Running, WatchPc, Live

\* Every variable keeps its type, through the shutdown too.
THEOREM TypeCorrect == Spec => []TypeOK
BY InitTypeOK, TypeStep, PTL DEF Spec

\* nil is neither a watch nor a Listener.
LEMMA NilAssumption == None \notin Watches /\ None \notin Instances
BY ListenerAssumption

\* Every watch has an ID.
LEMMA IdAssumption == \A w \in Watches : IdOf[w] \in Ids
BY ListenerAssumption

-----------------------------------------------------------------------------
(* The inductive invariant of the process while it serves.                 *)

\* The inductive invariant holds at first.
LEMMA InitServingInv == Init => ServingInv
BY InitTypeOK, ListenerAssumption
DEF Init, ServingInv, CurrentInv, EntryInv, ServedInv, FanOutInv, Alive,
    Running, TypeOK

\* Consequences of CurrentInv at the two steps that change the pointer.
LEMMA NoneAlive ==
  ASSUME CurrentInv, current = None
  PROVE  \A i \in Instances : ~Alive(i)
BY NilAssumption DEF CurrentInv

\* Two Listeners whose goroutines live are the same.
LEMMA OneAlive ==
  ASSUME CurrentInv, NEW i \in Instances, NEW j \in Instances,
         Alive(i), Alive(j)
  PROVE  i = j
BY DEF CurrentInv

\* The goroutine of the current Listener only can be alive.
LEMMA CurrentStep ==
  ASSUME ServingInv, [ServingNext]_vars PROVE CurrentInv'
<1> USE DEF ServingInv, TypeOK, CurrentInv, Alive, Running, ListenPc,
            listenerVars, watchVars
<1>1. ASSUME NEW w \in Watches, RegisterLock(w) PROVE CurrentInv'
  <2>1. CASE current # None
    BY <1>1, <2>1 DEF RegisterLock
  <2>2. CASE current = None
    <3>1. NextListener \in Instances
      BY <1>1, <2>2, NextListenerIsNew DEF RegisterLock
    <3>2. /\ current' = NextListener
          /\ lpc' = [lpc EXCEPT ![NextListener] = "starting"]
      BY <1>1, <2>2 DEF RegisterLock
    <3>3. \A i \in Instances : ~Alive(i)
      BY <2>2, NoneAlive
    <3> HIDE DEF NextListener
    <3> QED BY <3>1, <3>2, <3>3
  <2> QED BY <2>1, <2>2
<1>2. ASSUME NEW w \in Watches, WatchStep(w) PROVE CurrentInv'
  BY <1>2
  DEF WatchStep, StartConnects, StartFails, RegisterInsert, ReadForActivity,
      UpdateActivity, SeeDone, ReadForUnregister, Unregister, CloseChannels
<1>3. ASSUME NEW w \in Watches,
             TakeEvent(w) \/ ClientGone(w) \/ GoIdle(w) \/ GrowOld(w)
      PROVE CurrentInv'
  BY <1>3 DEF TakeEvent, ClientGone, GoIdle, GrowOld
<1>4. ASSUME NEW i \in Instances, ListenStep(i) PROVE CurrentInv'
  <2>1. lpc[i] \in Running /\ UNCHANGED current
    BY <1>4
    DEF ListenStep, LoopTop, WaitCancelled, ReconnectLock, Reconnect,
        DropNotification, FanOutStart, FanOutCheck, FanOutSend, FanOutEnd,
        CloseConn
  <2>2. /\ lpc'[i] # "new"
        /\ \A j \in Instances \ {i} : lpc'[j] = lpc[j]
    BY <1>4
    DEF ListenStep, LoopTop, WaitCancelled, ReconnectLock, Reconnect,
        DropNotification, FanOutStart, FanOutCheck, FanOutSend, FanOutEnd,
        CloseConn
  <2> QED BY <2>1, <2>2
<1>5. ASSUME NEW i \in Instances, Notified(i) \/ ConnectionLost(i)
      PROVE CurrentInv'
  BY <1>5 DEF Notified, ConnectionLost
<1>6. ASSUME NEW i \in Instances, Reset(i) PROVE CurrentInv'
  <2>1. Alive(i)
    BY <1>6 DEF Reset
  <2>2. \A j \in Instances \ {i} : ~Alive(j)
    BY <2>1, OneAlive
  <2> QED BY <1>6, <2>2, NilAssumption DEF Reset
<1>7. ASSUME NEW i \in Instances, CleanupTick(i) \/ CleanupExit(i)
      PROVE CurrentInv'
  BY <1>7 DEF CleanupTick, CleanupExit
<1>8. CASE UNCHANGED vars
  BY <1>8 DEF vars
<1> QED
  BY <1>1, <1>2, <1>3, <1>4, <1>5, <1>6, <1>7, <1>8 DEF ServingNext

\* An entry belongs to the watch of its ID, in a Listener that was made.
LEMMA EntryStep ==
  ASSUME ServingInv, [ServingNext]_vars PROVE EntryInv'
<1> USE DEF ServingInv, TypeOK, CurrentInv, EntryInv, listenerVars, watchVars
<1>1. ASSUME NEW w \in Watches, RegisterLock(w) PROVE EntryInv'
  <2>1. CASE current # None
    BY <1>1, <2>1 DEF RegisterLock
  <2>2. CASE current = None
    <3>1. /\ UNCHANGED subs
          /\ lpc' = [lpc EXCEPT ![NextListener] = "starting"]
      BY <1>1, <2>2 DEF RegisterLock
    <3> HIDE DEF NextListener
    <3> QED BY <3>1
  <2> QED BY <2>1, <2>2
<1>2. ASSUME NEW w \in Watches, RegisterInsert(w) PROVE EntryInv'
  <2>1. UNCHANGED lpc
    BY <1>2 DEF RegisterInsert
  <2>2. CASE UNCHANGED subs
    BY <2>1, <2>2
  <2>3. CASE subs' = [subs EXCEPT ![current][IdOf[w]] = w]
    BY <2>1, <2>3
  <2> QED BY <1>2, <2>2, <2>3 DEF RegisterInsert
<1>3. ASSUME NEW w \in Watches, Unregister(w) PROVE EntryInv'
  <2>1. /\ UNCHANGED lpc
        /\ subs' = [subs EXCEPT ![ptr[w]][IdOf[w]] = None]
    BY <1>3 DEF Unregister
  <2> QED BY <2>1
<1>4. ASSUME NEW w \in Watches,
             \/ StartConnects(w) \/ StartFails(w) \/ ReadForActivity(w)
             \/ UpdateActivity(w) \/ SeeDone(w) \/ ReadForUnregister(w)
             \/ CloseChannels(w) \/ TakeEvent(w) \/ ClientGone(w)
             \/ GoIdle(w) \/ GrowOld(w)
      PROVE EntryInv'
  BY <1>4
  DEF StartConnects, StartFails, ReadForActivity, UpdateActivity, SeeDone,
      ReadForUnregister, CloseChannels, TakeEvent, ClientGone, GoIdle, GrowOld
<1>5. ASSUME NEW i \in Instances,
             \/ ListenStep(i) \/ Notified(i) \/ ConnectionLost(i) \/ Reset(i)
             \/ CleanupTick(i) \/ CleanupExit(i)
      PROVE EntryInv'
  <2>1. UNCHANGED subs
    BY <1>5
    DEF ListenStep, LoopTop, WaitCancelled, ReconnectLock, Reconnect,
        DropNotification, FanOutStart, FanOutCheck, FanOutSend, FanOutEnd,
        CloseConn, Notified, ConnectionLost, Reset, CleanupTick, CleanupExit
  <2>2. lpc[i] # "new" => lpc'[i] # "new"
    BY <1>5
    DEF ListenStep, LoopTop, WaitCancelled, ReconnectLock, Reconnect,
        DropNotification, FanOutStart, FanOutCheck, FanOutSend, FanOutEnd,
        CloseConn, Notified, ConnectionLost, Reset, CleanupTick, CleanupExit
  <2>3. \A j \in Instances \ {i} : lpc'[j] = lpc[j]
    BY <1>5
    DEF ListenStep, LoopTop, WaitCancelled, ReconnectLock, Reconnect,
        DropNotification, FanOutStart, FanOutCheck, FanOutSend, FanOutEnd,
        CloseConn, Notified, ConnectionLost, Reset, CleanupTick, CleanupExit
  <2> QED BY <2>1, <2>2, <2>3
<1>6. CASE UNCHANGED vars
  BY <1>6 DEF vars
<1> QED
  BY <1>1, <1>2, <1>3, <1>4, <1>5, <1>6 DEF ServingNext, WatchStep

\* A watch in the map of a live Listener is not past its Unregister.
LEMMA ServedStep ==
  ASSUME ServingInv, [ServingNext]_vars PROVE ServedInv'
<1> USE DEF ServingInv, TypeOK, ServedInv, Alive, Running, Live, ListenPc,
            WatchPc, listenerVars, watchVars
<1>1. ASSUME NEW w \in Watches, RegisterLock(w) PROVE ServedInv'
  <2>1. /\ UNCHANGED <<subs, ptr>>
        /\ \/ wpc' = [wpc EXCEPT ![w] = "insert"]
           \/ wpc' = [wpc EXCEPT ![w] = "create"]
    BY <1>1 DEF RegisterLock
  <2>2. wpc[w] = "idle"
    BY <1>1 DEF RegisterLock
  <2>3. CASE current # None
    BY <1>1, <2>1, <2>2, <2>3 DEF RegisterLock
  <2>4. CASE current = None
    <3>1. NextListener \in Instances /\ lpc[NextListener] = "new"
      BY <1>1, <2>4, NextListenerIsNew DEF RegisterLock
    <3>2. lpc' = [lpc EXCEPT ![NextListener] = "starting"]
      BY <1>1, <2>4 DEF RegisterLock
    <3>3. \A k \in Ids : subs[NextListener][k] = None
      BY <3>1 DEF EntryInv
    <3>4. \A v \in Watches : subs[NextListener][IdOf[v]] # v
      BY <3>3, NilAssumption, IdAssumption
    <3> HIDE DEF NextListener
    <3>5. \A i \in Instances : Alive(i)' => Alive(i) \/ i = NextListener
      BY <3>1, <3>2
    <3>6. \A v \in Watches : wpc'[v] = wpc[v] \/ v = w
      BY <2>1
    <3>7. SUFFICES ASSUME NEW i \in Instances, NEW v \in Watches,
                          Alive(i)', subs'[i][IdOf[v]] = v
                   PROVE  /\ wpc'[v] \in Live \cup {"closing", "unreg"}
                          /\ wpc'[v] = "unreg" => ptr'[v] = i
      BY DEF ServedInv
    <3>8. Alive(i) /\ subs[i][IdOf[v]] = v
      BY <2>1, <3>4, <3>5, <3>7
    <3>9. v # w
      BY <2>2, <3>8
    <3> QED BY <2>1, <3>6, <3>8, <3>9
  <2> QED BY <2>3, <2>4
<1>2. ASSUME NEW w \in Watches, StartConnects(w) \/ StartFails(w)
      PROVE ServedInv'
  <2>1. /\ wpc[w] = "create"
        /\ wpc' = [wpc EXCEPT ![w] = "insert"]
        /\ UNCHANGED <<subs, ptr>>
    BY <1>2 DEF StartConnects, StartFails
  <2>2. \A i \in Instances : Alive(i)' => Alive(i)
    BY <1>2 DEF StartConnects, StartFails
  <2> QED BY <2>1, <2>2
<1>3. ASSUME NEW w \in Watches, RegisterInsert(w) PROVE ServedInv'
  <2>1. wpc[w] = "insert" /\ UNCHANGED <<lpc, ptr>>
    BY <1>3 DEF RegisterInsert
  <2>2. CASE UNCHANGED subs /\ wpc' = [wpc EXCEPT ![w] = "rejected"]
    BY <2>1, <2>2
  <2>3. CASE /\ subs' = [subs EXCEPT ![current][IdOf[w]] = w]
             /\ wpc' = [wpc EXCEPT ![w] = "select"]
    BY <2>1, <2>3, IdAssumption
  <2> QED BY <1>3, <2>2, <2>3 DEF RegisterInsert
<1>4. ASSUME NEW w \in Watches, ReadForUnregister(w) PROVE ServedInv'
  <2>1. ASSUME NEW i \in Instances, Alive(i), subs[i][IdOf[w]] = w
        PROVE wpc'[w] = "unreg" /\ ptr'[w] = i
    BY <1>4, <2>1, NilAssumption DEF ReadForUnregister, CurrentInv
  <2> QED BY <1>4, <2>1 DEF ReadForUnregister
<1>5. ASSUME NEW w \in Watches, Unregister(w) PROVE ServedInv'
  <2>1. /\ wpc[w] = "unreg"
        /\ wpc' = [wpc EXCEPT ![w] = "close"]
        /\ subs' = [subs EXCEPT ![ptr[w]][IdOf[w]] = None]
        /\ ptr' = [ptr EXCEPT ![w] = None]
        /\ UNCHANGED lpc
    BY <1>5 DEF Unregister
  <2>2. \A i \in Instances, v \in Watches :
          subs'[i][IdOf[v]] = v => subs[i][IdOf[v]] = v
    BY <2>1, NilAssumption, IdAssumption
  <2>3. ASSUME NEW i \in Instances, Alive(i) PROVE subs'[i][IdOf[w]] # w
    <3>1. CASE ptr[w] = i
      <4>1. subs'[i][IdOf[w]] = None
        BY <2>1, <3>1, IdAssumption
      <4> QED BY <4>1, NilAssumption
    <3>2. CASE ptr[w] # i
      BY <2>1, <2>2, <2>3, <3>2
    <3> QED BY <3>1, <3>2
  <2> QED BY <2>1, <2>2, <2>3
<1>6. ASSUME NEW w \in Watches, CloseChannels(w) PROVE ServedInv'
  BY <1>6 DEF CloseChannels
<1>7. ASSUME NEW w \in Watches,
             ReadForActivity(w) \/ UpdateActivity(w) \/ SeeDone(w)
      PROVE ServedInv'
  BY <1>7 DEF ReadForActivity, UpdateActivity, SeeDone
<1>8. ASSUME NEW w \in Watches,
             TakeEvent(w) \/ ClientGone(w) \/ GoIdle(w) \/ GrowOld(w)
      PROVE ServedInv'
  BY <1>8 DEF TakeEvent, ClientGone, GoIdle, GrowOld
<1>9. ASSUME NEW i \in Instances,
             \/ ListenStep(i) \/ Notified(i) \/ ConnectionLost(i) \/ Reset(i)
             \/ CleanupTick(i) \/ CleanupExit(i)
      PROVE ServedInv'
  <2>1. UNCHANGED <<subs, wpc, ptr>>
    BY <1>9
    DEF ListenStep, LoopTop, WaitCancelled, ReconnectLock, Reconnect,
        DropNotification, FanOutStart, FanOutCheck, FanOutSend, FanOutEnd,
        CloseConn, Notified, ConnectionLost, Reset, CleanupTick, CleanupExit
  <2>2. \A j \in Instances : Alive(j)' => Alive(j)
    BY <1>9
    DEF ListenStep, LoopTop, WaitCancelled, ReconnectLock, Reconnect,
        DropNotification, FanOutStart, FanOutCheck, FanOutSend, FanOutEnd,
        CloseConn, Notified, ConnectionLost, Reset, CleanupTick, CleanupExit
  <2> QED BY <2>1, <2>2
<1>10. CASE UNCHANGED vars
  BY <1>10 DEF vars
<1> QED
  BY <1>1, <1>2, <1>3, <1>4, <1>5, <1>6, <1>7, <1>8, <1>9, <1>10
  DEF ServingNext, WatchStep

\* The fan-out deals with watches in the map, because the map cannot change
\* while the listen goroutine holds the read lock.
LEMMA FanOutStep ==
  ASSUME ServingInv, [ServingNext]_vars PROVE FanOutInv'
<1> USE DEF ServingInv, TypeOK, FanOutInv, Running, ListenPc,
            listenerVars, watchVars
<1>1. ASSUME NEW w \in Watches, RegisterLock(w) PROVE FanOutInv'
  <2>1. UNCHANGED <<subs, todo, sending>>
    BY <1>1 DEF RegisterLock
  <2>2. CASE current # None
    BY <1>1, <2>1, <2>2 DEF RegisterLock
  <2>3. CASE current = None
    <3>1. NextListener \in Instances /\ lpc[NextListener] = "new"
      BY <1>1, <2>3, NextListenerIsNew DEF RegisterLock
    <3>2. lpc' = [lpc EXCEPT ![NextListener] = "starting"]
      BY <1>1, <2>3 DEF RegisterLock
    <3> HIDE DEF NextListener
    <3> QED BY <2>1, <3>1, <3>2
  <2> QED BY <2>2, <2>3
<1>2. ASSUME NEW w \in Watches, StartConnects(w) \/ StartFails(w)
      PROVE FanOutInv'
  BY <1>2 DEF StartConnects, StartFails
<1>3. ASSUME NEW w \in Watches, RegisterInsert(w) PROVE FanOutInv'
  <2>1. UNCHANGED <<lpc, todo, sending>> /\ lpc[current] # "fanout"
    BY <1>3 DEF RegisterInsert, CanLock, ReadHeld
  <2>2. \A i \in Instances \ {current} : subs'[i] = subs[i]
    BY <1>3 DEF RegisterInsert
  <2> QED BY <2>1, <2>2
<1>4. ASSUME NEW w \in Watches, Unregister(w) PROVE FanOutInv'
  <2>1. UNCHANGED <<lpc, todo, sending>> /\ lpc[ptr[w]] # "fanout"
    BY <1>4 DEF Unregister, CanLock, ReadHeld
  <2>2. \A i \in Instances \ {ptr[w]} : subs'[i] = subs[i]
    BY <1>4 DEF Unregister
  <2> QED BY <2>1, <2>2
<1>5. ASSUME NEW w \in Watches,
             \/ ReadForActivity(w) \/ UpdateActivity(w) \/ SeeDone(w)
             \/ ReadForUnregister(w) \/ CloseChannels(w) \/ TakeEvent(w)
             \/ ClientGone(w) \/ GoIdle(w) \/ GrowOld(w)
      PROVE FanOutInv'
  BY <1>5
  DEF ReadForActivity, UpdateActivity, SeeDone, ReadForUnregister,
      CloseChannels, TakeEvent, ClientGone, GoIdle, GrowOld
<1>6. ASSUME NEW i \in Instances, FanOutStart(i) PROVE FanOutInv'
  <2>1. \A w \in Subscribed(i) : subs[i][IdOf[w]] = w
    BY DEF Subscribed, Entries, EntryInv
  <2>2. sending[i] = None
    BY <1>6 DEF FanOutStart
  <2> QED BY <1>6, <2>1, <2>2, NilAssumption DEF FanOutStart
<1>7. ASSUME NEW i \in Instances, NEW w \in Watches, FanOutCheck(i, w)
      PROVE FanOutInv'
  BY <1>7, NilAssumption DEF FanOutCheck
<1>8. ASSUME NEW i \in Instances, FanOutSend(i) PROVE FanOutInv'
  BY <1>8, NilAssumption DEF FanOutSend
<1>9. ASSUME NEW i \in Instances, FanOutEnd(i) PROVE FanOutInv'
  BY <1>9 DEF FanOutEnd
<1>10. ASSUME NEW i \in Instances,
              \/ LoopTop(i) \/ WaitCancelled(i) \/ ReconnectLock(i)
              \/ Reconnect(i) \/ DropNotification(i) \/ CloseConn(i)
              \/ Notified(i) \/ ConnectionLost(i) \/ Reset(i)
              \/ CleanupTick(i) \/ CleanupExit(i)
       PROVE FanOutInv'
  <2>1. UNCHANGED <<subs, todo, sending>>
    BY <1>10
    DEF LoopTop, WaitCancelled, ReconnectLock, Reconnect, DropNotification,
        CloseConn, Notified, ConnectionLost, Reset, CleanupTick, CleanupExit
  <2>2. \A j \in Instances : lpc'[j] = "fanout" <=> lpc[j] = "fanout"
    BY <1>10
    DEF LoopTop, WaitCancelled, ReconnectLock, Reconnect, DropNotification,
        CloseConn, Notified, ConnectionLost, Reset, CleanupTick, CleanupExit
  <2> QED BY <2>1, <2>2
<1>11. CASE UNCHANGED vars
  BY <1>11 DEF vars
<1> QED
  BY <1>1, <1>2, <1>3, <1>4, <1>5, <1>6, <1>7, <1>8, <1>9, <1>10, <1>11
  DEF ServingNext, WatchStep, ListenStep

-----------------------------------------------------------------------------
(* Theorems about the process while it serves.                             *)

\* The inductive invariant holds in every reachable state.
THEOREM ServingInvariant == ServingSpec => []ServingInv
<1>1. ServingInv /\ [ServingNext]_vars => ServingInv'
  <2> SUFFICES ASSUME ServingInv, [ServingNext]_vars PROVE ServingInv'
    OBVIOUS
  <2>1. TypeOK'
    BY TypeStep DEF ServingInv, Next
  <2> QED
    BY <2>1, CurrentStep, EntryStep, ServedStep, FanOutStep DEF ServingInv
<1> QED BY InitServingInv, <1>1, PTL DEF ServingSpec

\* A single goroutine listens: "Listener manages the single goroutine that
\* listens for Postgres events" (listener.go:46).
THEOREM SingleListener == ServingSpec => []OneListener
<1>1. ServingInv => OneListener
  BY DEF ServingInv, CurrentInv, OneListener, Alive
<1> QED BY <1>1, ServingInvariant, PTL

\* "ensuring subscriber channels are not closed mid-send" (listener.go:271):
\* no notification is sent on the closed channel of a watch that ended.
THEOREM SendsOnOpenChannels == ServingSpec => []NoSendOnClosedChannel
<1>1. ServingInv => NoSendOnClosedChannel
  <2> SUFFICES ASSUME ServingInv, NEW i \in Instances, sending[i] # None
               PROVE  wpc[sending[i]] # "ended"
    BY DEF NoSendOnClosedChannel
  <2>1. sending[i] \in Watches /\ lpc[i] = "fanout"
    BY DEF ServingInv, TypeOK, FanOutInv
  <2>2. subs[i][IdOf[sending[i]]] = sending[i]
    BY <2>1 DEF ServingInv, FanOutInv
  <2> QED BY <2>1, <2>2 DEF ServingInv, ServedInv, Alive, Running, Live
<1> QED BY <1>1, ServingInvariant, PTL

-----------------------------------------------------------------------------
(* The limit on subscriptions, through the shutdown too.                   *)

\* The entries of a map are finitely many.
LEMMA EntriesFinite ==
  \A i \in Instances : /\ IsFiniteSet(Entries(i))
                       /\ Cardinality(Entries(i)) \in Nat
BY ListenerAssumption, FS_Subset, FS_CardinalityType DEF Entries

\* RegisterSubscription adds one entry, to a map that had room for it.
LEMMA InsertWithinMax ==
  ASSUME TypeOK, MapWithinMaxActive, NEW w \in Watches, RegisterInsert(w)
  PROVE  MapWithinMaxActive'
<1>1. CASE UNCHANGED subs
  BY <1>1 DEF MapWithinMaxActive, Entries
<1>2. CASE ~AtCapacity(current) /\ subs' = [subs EXCEPT ![current][IdOf[w]] = w]
  <2> SUFFICES ASSUME NEW i \in Instances
               PROVE  Cardinality(Entries(i)') <= MaxActive
    BY DEF MapWithinMaxActive
  <2>1. CASE i # current
    <3>1. Entries(i)' = Entries(i)
      BY <1>2, <2>1 DEF TypeOK, Entries
    <3> QED BY <3>1 DEF MapWithinMaxActive
  <2>2. CASE i = current
    <3>1. Entries(i)' = Entries(i) \cup {IdOf[w]}
      BY <1>2, <2>2, IdAssumption, NilAssumption DEF TypeOK, Entries
    <3>2. ~(Cardinality(Entries(i)) >= MaxActive)
      BY <1>2, <2>2 DEF AtCapacity
    <3>3. Cardinality(Entries(i) \cup {IdOf[w]})
            = IF IdOf[w] \in Entries(i) THEN Cardinality(Entries(i))
                                        ELSE Cardinality(Entries(i)) + 1
      BY EntriesFinite, FS_AddElement
    <3>4. /\ Cardinality(Entries(i)) <= MaxActive
          /\ Cardinality(Entries(i)) \in Nat
          /\ MaxActive \in Nat
      BY EntriesFinite, ListenerAssumption DEF MapWithinMaxActive
    <3> DEFINE before == Cardinality(Entries(i))
               after  == Cardinality(Entries(i)')
    <3>5. /\ after = IF IdOf[w] \in Entries(i) THEN before ELSE before + 1
          /\ before \in Nat
          /\ MaxActive \in Nat
          /\ ~(before >= MaxActive)
      BY <3>1, <3>2, <3>3, <3>4
    <3>6. after <= MaxActive
      <4> HIDE DEF before, after
      <4> QED BY <3>5
    <3> QED BY <3>6
  <2> QED BY <2>1, <2>2
<1> QED BY <1>1, <1>2 DEF RegisterInsert

\* UnregisterSubscription removes an entry at most.
LEMMA UnregisterWithinMax ==
  ASSUME TypeOK, MapWithinMaxActive, NEW w \in Watches, Unregister(w)
  PROVE  MapWithinMaxActive'
<1> SUFFICES ASSUME NEW i \in Instances
             PROVE  Cardinality(Entries(i)') <= MaxActive
  BY DEF MapWithinMaxActive
<1>1. Entries(i)' \subseteq Entries(i)
  BY IdAssumption DEF Unregister, TypeOK, Entries
<1>2. /\ Cardinality(Entries(i)') <= Cardinality(Entries(i))
      /\ Cardinality(Entries(i)') \in Nat
  BY <1>1, EntriesFinite, FS_Subset, FS_CardinalityType
<1> QED
  BY <1>2, EntriesFinite, ListenerAssumption DEF MapWithinMaxActive

\* "Maximum number of active subscriptions" (pkg/config/config.go:79): no
\* interleaving of registrations and unregistrations exceeds the limit.
THEOREM CapacityRespected == Spec => []MapWithinMaxActive
<1>1. Init => MapWithinMaxActive
  <2> SUFFICES ASSUME Init, NEW i \in Instances
               PROVE  Cardinality(Entries(i)) <= MaxActive
    BY DEF MapWithinMaxActive
  <2>1. Entries(i) = {}
    BY DEF Init, Entries
  <2> QED BY <2>1, FS_EmptySet, ListenerAssumption
<1>2. TypeOK /\ MapWithinMaxActive /\ [Next]_vars => MapWithinMaxActive'
  <2> SUFFICES ASSUME TypeOK, MapWithinMaxActive, [Next]_vars
               PROVE  MapWithinMaxActive'
    OBVIOUS
  <2>1. CASE \E w \in Watches : RegisterInsert(w)
    BY <2>1, InsertWithinMax
  <2>2. CASE \E w \in Watches : Unregister(w)
    BY <2>2, UnregisterWithinMax
  <2>3. CASE UNCHANGED subs
    BY <2>3 DEF MapWithinMaxActive, Entries
  <2> QED
    BY <2>1, <2>2, <2>3
    DEF Next, ServingNext, WatchStep, ListenStep, vars, listenerVars,
        RegisterLock, StartConnects, StartFails, ReadForActivity,
        UpdateActivity, SeeDone, ReadForUnregister, CloseChannels, TakeEvent,
        ClientGone, GoIdle, GrowOld, LoopTop, WaitCancelled, ReconnectLock,
        Reconnect, DropNotification, FanOutStart, FanOutCheck, FanOutSend,
        FanOutEnd, CloseConn, Notified, ConnectionLost, Reset, CleanupTick,
        CleanupExit, StopLock, StopReset
<1> QED BY <1>1, <1>2, TypeCorrect, PTL DEF Spec
=============================================================================
