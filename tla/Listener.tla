------------------------------ MODULE Listener ------------------------------
(***************************************************************************)
(* The life of GraphQL watches and of the one Postgres listener they share *)
(* (pkg/database/listener.go, and the goroutine that WatchSubscription of  *)
(* pkg/resolver/watchSubscription.go starts for each watch).               *)
(*                                                                         *)
(* A watch registers its receiver channel in the map of the current        *)
(* Listener, creating and starting a Listener when there is none.  The     *)
(* Listener runs two goroutines: listen, which fans every notification out *)
(* to the channels of its map, and cleanupExpiredSubscriptions, which      *)
(* cancels the context of expired watches.  A watch whose context is done  *)
(* unregisters and closes its channels; the Listener left without entries  *)
(* is cancelled, and its listen goroutine then clears the global pointer.  *)
(*                                                                         *)
(* Mutexes.  listenerMu is the variable mu, because it is held across      *)
(* steps.  A Listener's own RWMutex is held across steps only by its       *)
(* listen goroutine: for reading during the fan-out, for writing while it  *)
(* reconnects; ReadHeld and WriteHeld say so.  Every other critical        *)
(* section of that mutex is one action.                                    *)
(*                                                                         *)
(* Data left out: what an event holds, and whether a watch's filters let   *)
(* it pass; of a receiver channel the number of buffered events is kept.   *)
(***************************************************************************)
EXTENDS Integers, FiniteSets

CONSTANTS
  Watches,     \* calls of WatchSubscription, each with its receiver channel
  Ids,         \* subscription IDs: the IDs of WebSocket connections
  IdOf,        \* the connection ID a watch registers under
  Instances,   \* Listener objects; their number bounds how often one is made
  MaxActive,   \* config.Cfg.Subscription.MaxActive
  BufferSize,  \* capacity of a receiver channel (100 in the code)
  Faults,      \* what the database may do wrong, see FaultKinds
  None         \* nil

FaultKinds == {"connect", "close", "lost", "backfill"}

ASSUME ListenerAssumption ==
  /\ IsFiniteSet(Ids)
  /\ IdOf \in [Watches -> Ids]
  /\ MaxActive \in Nat \ {0}
  /\ BufferSize \in Nat \ {0}
  /\ Faults \subseteq FaultKinds
  /\ None \notin Watches \cup Instances
  /\ "stop" \notin Watches

VARIABLES
  current,   \* listenerInstance; listenerOnce is done exactly when it is set
  mu,        \* holder of listenerMu: a watch, "stop" or None
  subs,      \* subs[i][k]: the watch in entry k of Listener i's map
  ctxDone,   \* ctxDone[i]: Listener i's context is cancelled
  conn,      \* conn[i]: Listener i has a connection that listens
  lpc,       \* lpc[i]: where the listen goroutine of Listener i is
  cpc,       \* cpc[i]: where the cleanup goroutine of Listener i is
  todo,      \* todo[i]: watches the fan-out under way has not come to yet
  sending,   \* sending[i]: the watch that passed the fan-out's Done check
  wpc,       \* wpc[w]: where watch w is
  done,      \* done[w]: the context of watch w is done
  ptr,       \* ptr[w]: the Listener w read under listenerMu, while it uses it
  pending,   \* pending[w]: events in w's receiver channel
  age,       \* age[w]: "fresh", "idle" too long, or "old": past its lifetime
  stopPc     \* where the process is in its shutdown

listenerVars == <<subs, ctxDone, conn, lpc, cpc, todo, sending>>
watchVars    == <<wpc, done, ptr, pending, age>>
vars == <<current, mu, listenerVars, watchVars, stopPc>>

-----------------------------------------------------------------------------
(* Where a goroutine can be.                                               *)

\* new: not allocated. starting: in Start. unstarted: Start failed.
\* top, wait: the loop. received .. fanout: forwardNotification.
\* sleep, connecting: handleConnectionError. closing, resetting: the defer.
\* stopped: ended and reset. leaked: ended without the reset.
Running == {"top", "wait", "received", "fanout", "sleep", "connecting",
            "closing", "resetting"}
ListenPc == Running \cup {"new", "starting", "unstarted", "stopped", "leaked"}

\* idle: not called yet. create, insert: in RegisterSubscription, with
\* listenerMu. select: at the select. touch, touching: in
\* UpdateSubscriptionActivity. closing, unreg: in UnregisterSubscription.
\* close: about to close its channels. ended: channels closed.
Live    == {"select", "touch", "touching"}
WatchPc == Live \cup {"idle", "create", "insert", "rejected",
                      "closing", "unreg", "close", "ended"}

TypeOK ==
  /\ current \in Instances \cup {None}
  /\ mu \in Watches \cup {"stop", None}
  /\ subs \in [Instances -> [Ids -> Watches \cup {None}]]
  /\ ctxDone \in [Instances -> BOOLEAN]
  /\ conn \in [Instances -> BOOLEAN]
  /\ lpc \in [Instances -> ListenPc]
  /\ cpc \in [Instances -> {"absent", "ticking", "ended"}]
  /\ todo \in [Instances -> SUBSET Watches]
  /\ sending \in [Instances -> Watches \cup {None}]
  /\ wpc \in [Watches -> WatchPc]
  /\ done \in [Watches -> BOOLEAN]
  /\ ptr \in [Watches -> Instances \cup {None}]
  /\ pending \in [Watches -> 0..BufferSize]
  /\ age \in [Watches -> {"fresh", "idle", "old"}]
  /\ stopPc \in {"serving", "sleeping", "stopped"}

Init ==
  /\ current = None
  /\ mu = None
  /\ subs = [i \in Instances |-> [k \in Ids |-> None]]
  /\ ctxDone = [i \in Instances |-> FALSE]
  /\ conn = [i \in Instances |-> FALSE]
  /\ lpc = [i \in Instances |-> "new"]
  /\ cpc = [i \in Instances |-> "absent"]
  /\ todo = [i \in Instances |-> {}]
  /\ sending = [i \in Instances |-> None]
  /\ wpc = [w \in Watches |-> "idle"]
  /\ done = [w \in Watches |-> FALSE]
  /\ ptr = [w \in Watches |-> None]
  /\ pending = [w \in Watches |-> 0]
  /\ age = [w \in Watches |-> "fresh"]
  /\ stopPc = "serving"

-----------------------------------------------------------------------------
(* Helpers.                                                                *)

WriteHeld(i) == lpc[i] = "connecting"
ReadHeld(i)  == lpc[i] = "fanout"
CanRLock(i)  == ~WriteHeld(i)
CanLockInFanOut(i) == ~WriteHeld(i)        \* mutant: no lock in the fan-out
CanLock(i)   == ~WriteHeld(i) /\ ~ReadHeld(i)

Entries(i)    == {k \in Ids : subs[i][k] # None}
Subscribed(i) == {subs[i][k] : k \in Entries(i)}

Fault(kind) == kind \in Faults

GoListen(i, from, to) ==
  /\ lpc[i] = from
  /\ lpc' = [lpc EXCEPT ![i] = to]

GoWatch(w, from, to) ==
  /\ wpc[w] = from
  /\ wpc' = [wpc EXCEPT ![w] = to]

-----------------------------------------------------------------------------
(* RegisterSubscription: listenerMu is held from RegisterLock to           *)
(* RegisterInsert, the connection attempt of Start included.               *)

\* A Listener object not allocated yet; which one does not matter.
NextListener == CHOOSE i \in Instances : lpc[i] = "new"

RegisterLock(w) ==
  /\ mu = None
  /\ mu' = w
  /\ \/ /\ current # None
        /\ GoWatch(w, "idle", "insert")
        /\ UNCHANGED <<current, lpc>>
     \/ /\ current = None
        /\ GoWatch(w, "idle", "create")
        /\ \E i \in Instances : lpc[i] = "new"
        /\ current' = NextListener
        /\ GoListen(NextListener, "new", "starting")
  /\ UNCHANGED <<subs, ctxDone, conn, cpc, todo, sending,
                 done, ptr, pending, age, stopPc>>

\* Start: a failed connection leaves the Listener without goroutines, and
\* listenerOnce done: the error is only logged.
StartConnects(w) ==
  /\ GoWatch(w, "create", "insert")
  /\ GoListen(current, "starting", "top")
  /\ conn' = [conn EXCEPT ![current] = TRUE]
  /\ cpc' = [cpc EXCEPT ![current] = "ticking"]
  /\ UNCHANGED <<current, mu, subs, ctxDone, todo, sending,
                 done, ptr, pending, age, stopPc>>

StartFails(w) ==
  /\ Fault("connect")
  /\ GoWatch(w, "create", "insert")
  /\ GoListen(current, "starting", "unstarted")
  /\ UNCHANGED <<current, mu, subs, ctxDone, conn, cpc, todo, sending,
                 done, ptr, pending, age, stopPc>>

AtCapacityOffByOne(i) == Cardinality(Entries(i)) > MaxActive  \* mutant
AtCapacity(i) == Cardinality(Entries(i)) >= MaxActive

RegisterInsert(w) ==
  /\ wpc[w] = "insert"
  /\ CanLock(current)
  /\ mu' = None
  /\ \/ /\ AtCapacity(current)
        /\ GoWatch(w, "insert", "rejected")
        /\ UNCHANGED subs
     \/ /\ ~AtCapacity(current)
        /\ GoWatch(w, "insert", "select")
        /\ subs' = [subs EXCEPT ![current][IdOf[w]] = w]
  /\ UNCHANGED <<current, ctxDone, conn, lpc, cpc, todo, sending,
                 done, ptr, pending, age, stopPc>>

-----------------------------------------------------------------------------
(* The goroutine of a watch.                                               *)

\* The client ends the watch or its connection: the caller's context, from
\* which the watch's context derives, is cancelled.
ClientGone(w) ==
  /\ wpc[w] \notin {"idle", "rejected", "ended"}
  /\ ~done[w]
  /\ done' = [done EXCEPT ![w] = TRUE]
  /\ UNCHANGED <<current, mu, listenerVars, wpc, ptr, pending, age, stopPc>>

\* Takes an event: it is filtered out, refused by RBAC or dropped on a full
\* result channel, or it is sent to the client and activity is recorded.
TakeEvent(w) ==
  /\ pending[w] > 0
  /\ pending' = [pending EXCEPT ![w] = @ - 1]
  /\ \E to \in {"select", "touch"} : GoWatch(w, "select", to)
  /\ UNCHANGED <<current, mu, listenerVars, done, ptr, age, stopPc>>

\* UpdateSubscriptionActivity looks the entry up by ID in the Listener it
\* read before, so it finds whichever watch is registered under that ID.
ReadForActivity(w) ==
  /\ mu = None
  /\ ptr' = [ptr EXCEPT ![w] = current]
  /\ GoWatch(w, "touch", IF current = None THEN "select" ELSE "touching")
  /\ UNCHANGED <<current, mu, listenerVars, done, pending, age, stopPc>>

UpdateActivity(w) ==
  LET other == subs[ptr[w]][IdOf[w]] IN
  /\ GoWatch(w, "touching", "select")
  /\ CanRLock(ptr[w])
  /\ age' = [v \in Watches |->
               IF v = other /\ age[v] = "idle" THEN "fresh" ELSE age[v]]
  /\ ptr' = [ptr EXCEPT ![w] = None]
  /\ UNCHANGED <<current, mu, listenerVars, done, pending, stopPc>>

\* The age of a watch that is done does not matter any more.
SeeDone(w) ==
  /\ done[w]
  /\ GoWatch(w, "select", "closing")
  /\ age' = [age EXCEPT ![w] = "fresh"]
  /\ UNCHANGED <<current, mu, listenerVars, done, ptr, pending, stopPc>>

\* UnregisterSubscription, first half: read the global pointer.
ReadForUnregister(w) ==
  /\ mu = None
  /\ ptr' = [ptr EXCEPT ![w] = current]
  /\ GoWatch(w, "closing", IF current = None THEN "close" ELSE "unreg")
  /\ UNCHANGED <<current, mu, listenerVars, done, pending, age, stopPc>>

LastEntryBeforeDelete(i, k) == Entries(i) = {}   \* mutant: len, then delete
LastEntry(i, k) == Entries(i) \subseteq {k}

\* Mutant: the pointer is cleared with the cancel, not when listen ends.
UnregisterAndReset(w) ==
  LET i == ptr[w]
      last == LastEntry(i, IdOf[w])
  IN
  /\ GoWatch(w, "unreg", "close")
  /\ mu = None
  /\ CanLock(i)
  /\ done' = [v \in Watches |-> done[v] \/ v = subs[i][IdOf[w]]]
  /\ subs' = [subs EXCEPT ![i][IdOf[w]] = None]
  /\ ctxDone' = [ctxDone EXCEPT ![i] = @ \/ last]
  /\ ptr' = [ptr EXCEPT ![w] = None]
  /\ current' = IF last THEN None ELSE current
  /\ UNCHANGED <<mu, conn, lpc, cpc, todo, sending, pending, age, stopPc>>

\* Second half: the entry of that ID is cancelled and deleted, whichever
\* watch it belongs to; a Listener without entries is cancelled.
Unregister(w) ==
  LET i == ptr[w]
      entry == subs[i][IdOf[w]]
  IN
  /\ GoWatch(w, "unreg", "close")
  /\ CanLock(i)
  /\ done' = [v \in Watches |-> done[v] \/ v = entry]
  /\ subs' = [subs EXCEPT ![i][IdOf[w]] = None]
  /\ ctxDone' = [ctxDone EXCEPT ![i] = @ \/ LastEntry(i, IdOf[w])]
  /\ ptr' = [ptr EXCEPT ![w] = None]
  /\ UNCHANGED <<current, mu, conn, lpc, cpc, todo, sending,
                 pending, age, stopPc>>

\* Nothing is received from the channel any more.
CloseChannels(w) ==
  /\ GoWatch(w, "close", "ended")
  /\ pending' = [pending EXCEPT ![w] = 0]
  /\ UNCHANGED <<current, mu, listenerVars, done, ptr, age, stopPc>>

-----------------------------------------------------------------------------
(* The listen goroutine of Listener i.                                     *)

\* Top of the loop: leave, reconnect or wait for a notification.
LoopTop(i) ==
  /\ lpc[i] = "top"
  /\ lpc' = [lpc EXCEPT ![i] = CASE ctxDone[i]               -> "closing"
                                 [] ~ctxDone[i] /\ ~conn[i]  -> "sleep"
                                 [] ~ctxDone[i] /\ conn[i]   -> "wait"]
  /\ UNCHANGED <<current, mu, subs, ctxDone, conn, cpc, todo, sending,
                 watchVars, stopPc>>

Notified(i) ==
  /\ GoListen(i, "wait", "received")
  /\ UNCHANGED <<current, mu, subs, ctxDone, conn, cpc, todo, sending,
                 watchVars, stopPc>>

WaitCancelled(i) ==
  /\ ctxDone[i]
  /\ GoListen(i, "wait", "closing")
  /\ UNCHANGED <<current, mu, subs, ctxDone, conn, cpc, todo, sending,
                 watchVars, stopPc>>

\* handleConnectionError, up to its sleep: the connection is closed and nil.
ConnectionLost(i) ==
  /\ Fault("lost")
  /\ ~ctxDone[i]
  /\ GoListen(i, "wait", "sleep")
  /\ conn' = [conn EXCEPT ![i] = FALSE]
  /\ UNCHANGED <<current, mu, subs, ctxDone, cpc, todo, sending,
                 watchVars, stopPc>>

ReconnectLock(i) ==
  /\ GoListen(i, "sleep", "connecting")
  /\ UNCHANGED <<current, mu, subs, ctxDone, conn, cpc, todo, sending,
                 watchVars, stopPc>>

\* The attempt fails for certain once the context is cancelled.
Reconnect(i) ==
  /\ GoListen(i, "connecting", "top")
  /\ \/ /\ ~ctxDone[i]
        /\ conn' = [conn EXCEPT ![i] = TRUE]
     \/ /\ ctxDone[i] \/ Fault("connect")
        /\ UNCHANGED conn
  /\ UNCHANGED <<current, mu, subs, ctxDone, cpc, todo, sending,
                 watchVars, stopPc>>

\* A payload that does not parse, or a backfill query that fails or finds no
\* row: the notification is dropped before the fan-out.
DropNotification(i) ==
  /\ Fault("backfill") \/ ctxDone[i]
  /\ GoListen(i, "received", "top")
  /\ UNCHANGED <<current, mu, subs, ctxDone, conn, cpc, todo, sending,
                 watchVars, stopPc>>

FanOutStart(i) ==
  /\ GoListen(i, "received", "fanout")
  /\ todo' = [todo EXCEPT ![i] = Subscribed(i)]
  /\ UNCHANGED <<current, mu, subs, ctxDone, conn, cpc, sending,
                 watchVars, stopPc>>

\* The Done check of the next entry, in whatever order the map is walked.
FanOutCheck(i, w) ==
  /\ lpc[i] = "fanout"
  /\ sending[i] = None
  /\ w \in todo[i]
  /\ todo' = [todo EXCEPT ![i] = @ \ {w}]
  /\ sending' = [sending EXCEPT ![i] = IF done[w] THEN None ELSE w]
  /\ UNCHANGED <<current, mu, subs, ctxDone, conn, lpc, cpc,
                 watchVars, stopPc>>

EnqueueUnbounded(n) == n + 1                \* mutant
Enqueue(n) == IF n < BufferSize THEN n + 1 ELSE n

\* Mutant: a send that waits for space, with the read lock held.
BlockingSend(i) ==
  LET w == sending[i] IN
  /\ lpc[i] = "fanout"
  /\ w # None
  /\ pending[w] < BufferSize
  /\ pending' = [pending EXCEPT ![w] = @ + 1]
  /\ sending' = [sending EXCEPT ![i] = None]
  /\ UNCHANGED <<current, mu, subs, ctxDone, conn, lpc, cpc, todo,
                 wpc, done, ptr, age, stopPc>>

\* The non-blocking send; an event is dropped when the channel is full.  A
\* send on a closed channel panics, and has no step.
FanOutSend(i) ==
  LET w == sending[i] IN
  /\ lpc[i] = "fanout"
  /\ w # None
  /\ wpc[w] # "ended"
  /\ pending' = [pending EXCEPT ![w] = Enqueue(@)]
  /\ sending' = [sending EXCEPT ![i] = None]
  /\ UNCHANGED <<current, mu, subs, ctxDone, conn, lpc, cpc, todo,
                 wpc, done, ptr, age, stopPc>>

FanOutEnd(i) ==
  /\ GoListen(i, "fanout", "top")
  /\ todo[i] = {}
  /\ sending[i] = None
  /\ UNCHANGED <<current, mu, subs, ctxDone, conn, cpc, todo, sending,
                 watchVars, stopPc>>

\* The defer of listen: a connection that fails to close skips the reset.
CloseConn(i) ==
  /\ lpc[i] = "closing"
  /\ \/ /\ lpc' = [lpc EXCEPT ![i] = "resetting"]
     \/ /\ Fault("close") /\ conn[i]
        /\ lpc' = [lpc EXCEPT ![i] = "leaked"]
  /\ conn' = [conn EXCEPT ![i] = FALSE]
  /\ UNCHANGED <<current, mu, subs, ctxDone, cpc, todo, sending,
                 watchVars, stopPc>>

\* The reset clears the pointer whichever Listener it points to.
Reset(i) ==
  /\ mu = None
  /\ GoListen(i, "resetting", "stopped")
  /\ current' = None
  /\ UNCHANGED <<mu, subs, ctxDone, conn, cpc, todo, sending,
                 watchVars, stopPc>>

-----------------------------------------------------------------------------
(* The cleanup goroutine of Listener i, and time.                          *)

ExpiredWhenIdle(w) == age[w] = "idle"       \* mutant: no maximum lifetime
Expired(w) == age[w] # "fresh"

CleanupTick(i) ==
  /\ cpc[i] = "ticking"
  /\ CanRLock(i)
  /\ done' = [w \in Watches |->
                done[w] \/ (w \in Subscribed(i) /\ Expired(w))]
  /\ UNCHANGED <<current, mu, listenerVars, wpc, ptr, pending, age, stopPc>>

CleanupExit(i) ==
  /\ cpc[i] = "ticking"
  /\ ctxDone[i]
  /\ cpc' = [cpc EXCEPT ![i] = "ended"]
  /\ UNCHANGED <<current, mu, subs, ctxDone, conn, lpc, todo, sending,
                 watchVars, stopPc>>

\* A registered watch goes without a delivery past its idle timeout.
GoIdle(w) ==
  /\ wpc[w] \in Live
  /\ ~done[w]
  /\ age[w] = "fresh"
  /\ age' = [age EXCEPT ![w] = "idle"]
  /\ UNCHANGED <<current, mu, listenerVars, wpc, done, ptr, pending, stopPc>>

\* A registered watch outlives the maximum lifetime.
GrowOld(w) ==
  /\ wpc[w] \in Live
  /\ ~done[w]
  /\ age[w] # "old"
  /\ age' = [age EXCEPT ![w] = "old"]
  /\ UNCHANGED <<current, mu, listenerVars, wpc, done, ptr, pending, stopPc>>

-----------------------------------------------------------------------------
(* StopPostgresListener, which main calls once, on a termination signal.   *)
(* The server goes on accepting watches for the five seconds that follow.  *)

StopLock ==
  /\ stopPc = "serving"
  /\ mu = None
  /\ mu' = "stop"
  /\ stopPc' = "sleeping"
  /\ ctxDone' = [i \in Instances |-> ctxDone[i] \/ i = current]
  /\ UNCHANGED <<current, subs, conn, lpc, cpc, todo, sending, watchVars>>

StopReset ==
  /\ stopPc = "sleeping"
  /\ stopPc' = "stopped"
  /\ current' = None
  /\ mu' = None
  /\ UNCHANGED <<listenerVars, watchVars>>

-----------------------------------------------------------------------------
\* Every step of a registering or registered watch but taking an event.
WatchStep(w) ==
  \/ StartConnects(w)
  \/ StartFails(w)
  \/ RegisterInsert(w)
  \/ ReadForActivity(w)
  \/ UpdateActivity(w)
  \/ SeeDone(w)
  \/ ReadForUnregister(w)
  \/ Unregister(w)
  \/ CloseChannels(w)

ListenStep(i) ==
  \/ LoopTop(i)
  \/ WaitCancelled(i)
  \/ ReconnectLock(i)
  \/ Reconnect(i)
  \/ DropNotification(i)
  \/ FanOutStart(i)
  \/ \E w \in Watches : FanOutCheck(i, w)
  \/ FanOutSend(i)
  \/ FanOutEnd(i)
  \/ CloseConn(i)

ServingNext ==
  \/ \E w \in Watches :
       \/ RegisterLock(w) \/ WatchStep(w) \/ TakeEvent(w)
       \/ ClientGone(w) \/ GoIdle(w) \/ GrowOld(w)
  \/ \E i \in Instances :
       \/ ListenStep(i) \/ Notified(i) \/ ConnectionLost(i) \/ Reset(i)
       \/ CleanupTick(i) \/ CleanupExit(i)

Next == ServingNext \/ StopLock \/ StopReset

\* Goroutines run and connection attempts end.  A Listener's mutex can be
\* taken again and again by a listen goroutine that reconnects or fans out;
\* Go's RWMutex lets every waiter in eventually, hence strong fairness for
\* the watch and the cleanup goroutine.  Clients, and the database, are under
\* no obligation.
Fairness ==
  /\ \A w \in Watches : SF_vars(WatchStep(w)) /\ WF_vars(GrowOld(w))
  /\ \A i \in Instances :
       /\ WF_vars(ListenStep(i))
       /\ WF_vars(Reset(i))
       /\ WF_vars(CleanupExit(i))
       /\ SF_vars(CleanupTick(i))

\* The process while it serves, until the termination signal.
ServingSpec     == Init /\ [][ServingNext]_vars
FairServingSpec == ServingSpec /\ Fairness

\* The process with its shutdown.
Spec == Init /\ [][Next]_vars

-----------------------------------------------------------------------------
(* Properties.                                                             *)

\* The fan-out never sends on a channel its watch has closed, which would
\* panic: the read lock keeps UnregisterSubscription, and so the close that
\* follows it, out of the fan-out (listener.go, forwardNotification).
NoSendOnClosedChannel ==
  \A i \in Instances : sending[i] # None => wpc[sending[i]] # "ended"

\* The strengthening that makes NoSendOnClosedChannel and OneListener
\* inductive while the process serves.  A Listener whose goroutine is alive,
\* or being started, is the current one; a watch in its map has not got past
\* its UnregisterSubscription, and works on that very Listener; the fan-out
\* under way deals only with watches still in the map.
Alive(i) == lpc[i] \in Running \cup {"starting"}

CurrentInv ==
  \A i \in Instances : /\ Alive(i) => current = i
                       /\ current = i => lpc[i] # "new"

EntryInv ==
  \A i \in Instances, k \in Ids :
    subs[i][k] # None => IdOf[subs[i][k]] = k /\ lpc[i] # "new"

ServedInv ==
  \A i \in Instances, w \in Watches :
    Alive(i) /\ subs[i][IdOf[w]] = w
      => /\ wpc[w] \in Live \cup {"closing", "unreg"}
         /\ wpc[w] = "unreg" => ptr[w] = i

FanOutInv ==
  \A i \in Instances :
    /\ sending[i] # None => lpc[i] = "fanout"
    /\ lpc[i] = "fanout" =>
         \A w \in Watches : w \in todo[i] \/ w = sending[i]
                              => subs[i][IdOf[w]] = w

ServingInv == TypeOK /\ CurrentInv /\ EntryInv /\ ServedInv /\ FanOutInv

\* While the process serves there is a single goroutine that listens for
\* Postgres events: a second Listener is made only once the first one's
\* goroutine has run the last statement of its defer.
OneListener ==
  \A i, j \in Instances : lpc[i] \in Running /\ lpc[j] \in Running => i = j

\* No Listener's map holds more than MaxActive subscriptions, with several
\* registrations, unregistrations and expired Listeners in flight.
MapWithinMaxActive ==
  \A i \in Instances : Cardinality(Entries(i)) <= MaxActive

\* A watch in the map of a Listener that runs and is not cancelled.
Served(w) ==
  \E i \in Instances : /\ subs[i][IdOf[w]] = w
                       /\ lpc[i] \in Running
                       /\ ~ctxDone[i]

\* Another watch of the same connection took over w's entry.
Overwritten(w) ==
  \E v \in Watches \ {w} : /\ IdOf[v] = IdOf[w]
                           /\ wpc[v] \notin {"idle", "create", "insert", "rejected"}

\* A watch whose context is done gets its channels closed, whatever the
\* listen goroutine, reconnections and other watches do meanwhile.
TeardownCompletes ==
  \A w \in Watches :
    (done[w] /\ wpc[w] \in Live) ~> wpc[w] = "ended"

\* A watch in the map of the running Listener does not outlive its maximum
\* lifetime for ever: the cleanup goroutine ends it, unless another watch of
\* its connection took its entry over.
EvictedOnceOld ==
  \A w \in Watches :
    (Served(w) /\ age[w] = "old")
      ~> (wpc[w] = "ended" \/ Overwritten(w))

\* Once every watch has ended, the goroutines of all Listeners end too, and
\* the connection to Postgres is given up.
ListenerStops ==
  <>[](\A w \in Watches : wpc[w] \in {"rejected", "ended"})
    => <>[](\A i \in Instances : /\ lpc[i] \notin Running
                                 /\ cpc[i] # "ticking"
                                 /\ ~conn[i])

\* "Starts the listener if not already started" (listener.go:57): a watch
\* that was registered is served by a Listener, or its context ends.
RegisteredIsServed ==
  \A w \in Watches : wpc[w] = "select" ~> (Served(w) \/ done[w])
=============================================================================
