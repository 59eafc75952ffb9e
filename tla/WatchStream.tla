---------------------------- MODULE WatchStream ----------------------------
(***************************************************************************)
(* The way of an event, from the commit of a change in search.resources to *)
(* the client of a watch: the trigger's NOTIFY, the listener's goroutine   *)
(* (forwardNotification of pkg/database/listener.go), the watch's receiver *)
(* channel, its goroutine (WatchSubscription of                            *)
(* pkg/resolver/watchSubscription.go) and its result channel.              *)
(*                                                                         *)
(* Module Listener has the life of the listener and of the watches; here   *)
(* one Listener runs throughout, and it may lose its connection.  The      *)
(* fan-out is one action: no watch registers or unregisters during it, and *)
(* what it does to two watches commutes.                                   *)
(*                                                                         *)
(* An event is the number of the change it announces, together with the    *)
(* number of the change whose data it carries: the same one, a later one   *)
(* when the data was left out of the notification and read back from the   *)
(* database, or none.                                                      *)
(***************************************************************************)
EXTENDS Integers, Sequences

CONSTANTS
  Watches,     \* calls of WatchSubscription
  Uids,        \* resources
  Wanted,      \* Wanted[w]: the resources that pass w's filters and RBAC
  MaxChanges,  \* bound: how many changes are committed
  BufferSize,  \* capacity of the receiver and result channels (100)
  Faults,      \* what the database may do wrong: "lost", "backfill"
  NoData       \* an event without newData and oldData

ASSUME StreamAssumption ==
  /\ MaxChanges \in Nat
  /\ BufferSize \in Nat \ {0}
  /\ Wanted \in [Watches -> SUBSET Uids]
  /\ Faults \subseteq {"lost", "backfill"}
  /\ NoData \notin Nat

VARIABLES
  log,        \* the committed changes, in commit order
  row,        \* row[u]: the change that wrote the row of u, or 0: no row
  queue,      \* changes notified to the listener's connection, not yet read
  connected,  \* the listener has a connection that listens
  current,    \* events the listener is forwarding: one or none
  receiver,   \* receiver[w]: the events in w's receiver channel
  checking,   \* checking[w]: events in w's filters and RBAC check, one or none
  sending,    \* sending[w]: events that passed them, one or none
  result,     \* result[w]: the events in w's result channel
  sent,       \* sent[w]: the events the client of w was sent
  state,      \* state[w]: "new", "open" or "ended"
  done        \* done[w]: the context of w is done

listenerVars == <<queue, connected, current>>
watchVars    == <<receiver, checking, sending, result, sent, state, done>>
vars == <<log, row, listenerVars, watchVars>>

-----------------------------------------------------------------------------
Operations == {"INSERT", "UPDATE", "DELETE"}
Changes    == [uid : Uids, operation : Operations, truncated : BOOLEAN]
Events     == [change : 1..MaxChanges, data : 1..MaxChanges \cup {NoData}]

AtMostOne(s) == Len(s) <= 1

TypeOK ==
  /\ log \in Seq(Changes) /\ Len(log) <= MaxChanges
  /\ row \in [Uids -> 0..MaxChanges]
  /\ queue \in Seq(1..MaxChanges)
  /\ connected \in BOOLEAN
  /\ current \in Seq(Events) /\ AtMostOne(current)
  /\ receiver \in [Watches -> Seq(Events)]
  /\ checking \in [Watches -> Seq(Events)]
  /\ sending \in [Watches -> Seq(Events)]
  /\ result \in [Watches -> Seq(Events)]
  /\ sent \in [Watches -> Seq(Events)]
  /\ state \in [Watches -> {"new", "open", "ended"}]
  /\ done \in [Watches -> BOOLEAN]
  /\ \A w \in Watches : /\ AtMostOne(checking[w])
                        /\ AtMostOne(sending[w])
                        /\ Len(receiver[w]) <= BufferSize
                        /\ Len(result[w]) <= BufferSize

Init ==
  /\ log = <<>>
  /\ row = [u \in Uids |-> 0]
  /\ queue = <<>>
  /\ connected = TRUE
  /\ current = <<>>
  /\ receiver = [w \in Watches |-> <<>>]
  /\ checking = [w \in Watches |-> <<>>]
  /\ sending = [w \in Watches |-> <<>>]
  /\ result = [w \in Watches |-> <<>>]
  /\ sent = [w \in Watches |-> <<>>]
  /\ state = [w \in Watches |-> "new"]
  /\ done = [w \in Watches |-> FALSE]

-----------------------------------------------------------------------------
(* The database.                                                           *)

Possible(u) == IF row[u] = 0 THEN {"INSERT"} ELSE {"UPDATE", "DELETE"}

\* A change commits, and its trigger notifies the connections that listen.
\* The payload has no data when it would be too long for a notification.
Commit(u) ==
  /\ Len(log) < MaxChanges
  /\ \E op \in Possible(u), long \in BOOLEAN :
       /\ log' = Append(log, [uid |-> u, operation |-> op, truncated |-> long])
       /\ row' = [row EXCEPT ![u] = IF op = "DELETE" THEN 0 ELSE Len(log')]
  /\ queue' = IF connected THEN Append(queue, Len(log')) ELSE queue
  /\ UNCHANGED <<connected, current, watchVars>>

\* Notifications not read yet are gone with the connection.
ConnectionLost ==
  /\ "lost" \in Faults
  /\ connected
  /\ current = <<>>
  /\ connected' = FALSE
  /\ queue' = <<>>
  /\ UNCHANGED <<log, row, current, watchVars>>

\* Mutant: a reconnection that replays the changes.
ReconnectedReplays ==
  /\ ~connected
  /\ connected' = TRUE
  /\ queue' = [n \in 1..Len(log) |-> n]
  /\ UNCHANGED <<log, row, current, watchVars>>

Reconnected ==
  /\ ~connected
  /\ connected' = TRUE
  /\ UNCHANGED <<log, row, queue, current, watchVars>>

-----------------------------------------------------------------------------
(* forwardNotification.                                                    *)

Truncated(n)      == log[n].truncated
NeedsBackfillOnInsert(n) == Truncated(n) /\ log[n].operation = "INSERT"  \* mutant
NeedsBackfill(n)  == Truncated(n) /\ log[n].operation \in {"INSERT", "UPDATE"}
EventOf(n, d)     == [change |-> n, data |-> d]

\* The next notification is read and parsed.
Notified ==
  /\ connected
  /\ current = <<>>
  /\ queue # <<>>
  /\ LET n == Head(queue) IN
       current' = <<EventOf(n, IF Truncated(n) THEN NoData ELSE n)>>
  /\ queue' = Tail(queue)
  /\ UNCHANGED <<log, row, connected, watchVars>>

Incomplete(e) == NeedsBackfill(e.change) /\ e.data = NoData

\* Mutant: a query without its condition on the uid.
BackfilledFromAnyRow(n) == CHOOSE d \in 1..MaxChanges : \E u \in Uids : row[u] = d
\* The row's data as it is when the query runs.
Backfilled(n) == row[log[n].uid]

\* The query finds the row; or it finds none, or fails, and the event is
\* dropped.
Backfill ==
  /\ current # <<>>
  /\ LET e == current[1] IN
       /\ Incomplete(e)
       /\ \/ /\ row[log[e.change].uid] # 0
             /\ current' = <<EventOf(e.change, Backfilled(e.change))>>
          \/ /\ row[log[e.change].uid] = 0 \/ "backfill" \in Faults
             /\ current' = <<>>
  /\ UNCHANGED <<log, row, queue, connected, watchVars>>

\* Mutant: the newest event goes in front.
EnqueueInFront(s, e) == IF Len(s) < BufferSize THEN <<e>> \o s ELSE s
\* Mutant: one event too many.
EnqueueOneMore(s, e) == IF Len(s) <= BufferSize THEN Append(s, e) ELSE s
\* A non-blocking send: on a full channel the event is dropped.
Enqueue(s, e) == IF Len(s) < BufferSize THEN Append(s, e) ELSE s

FanOut ==
  /\ current # <<>>
  /\ LET e == current[1] IN
       /\ ~Incomplete(e)
       /\ receiver' = [w \in Watches |->
                         IF state[w] = "open" /\ ~done[w]
                         THEN Enqueue(receiver[w], e)
                         ELSE receiver[w]]
  /\ current' = <<>>
  /\ UNCHANGED <<log, row, queue, connected,
                 checking, sending, result, sent, state, done>>

-----------------------------------------------------------------------------
(* WatchSubscription and its goroutine.                                    *)

Register(w) ==
  /\ state[w] = "new"
  /\ state' = [state EXCEPT ![w] = "open"]
  /\ UNCHANGED <<log, row, listenerVars,
                 receiver, checking, sending, result, sent, done>>

\* The client's context or the listener's cleanup.
Cancel(w) ==
  /\ state[w] = "open"
  /\ ~done[w]
  /\ done' = [done EXCEPT ![w] = TRUE]
  /\ UNCHANGED <<log, row, listenerVars,
                 receiver, checking, sending, result, sent, state>>

AtSelect(w) == state[w] = "open" /\ checking[w] = <<>> /\ sending[w] = <<>>

Take(w) ==
  /\ AtSelect(w)
  /\ receiver[w] # <<>>
  /\ checking' = [checking EXCEPT ![w] = <<Head(receiver[w])>>]
  /\ receiver' = [receiver EXCEPT ![w] = Tail(@)]
  /\ UNCHANGED <<log, row, listenerVars, sending, result, sent, state, done>>

\* An event without data is refused by eventMatchesRbac.
Passes(w, e) == e.data # NoData /\ log[e.change].uid \in Wanted[w]

\* The filters and the RBAC check, which may ask the Kubernetes API.
Check(w) ==
  /\ checking[w] # <<>>
  /\ sending' = [sending EXCEPT ![w] = IF Passes(w, checking[w][1]) THEN checking[w] ELSE <<>>]
  /\ checking' = [checking EXCEPT ![w] = <<>>]
  /\ UNCHANGED <<log, row, listenerVars, receiver, result, sent, state, done>>

\* The non-blocking send to the client; with a full channel the event is
\* dropped.
Send(w) ==
  /\ sending[w] # <<>>
  /\ result' = [result EXCEPT ![w] = Enqueue(@, sending[w][1])]
  /\ sending' = [sending EXCEPT ![w] = <<>>]
  /\ UNCHANGED <<log, row, listenerVars, receiver, checking, sent, state, done>>

\* Seen at the select or instead of the send: the watch unregisters and
\* closes its channels.
End(w) ==
  /\ state[w] = "open"
  /\ done[w]
  /\ checking[w] = <<>>
  /\ state' = [state EXCEPT ![w] = "ended"]
  /\ sending' = [sending EXCEPT ![w] = <<>>]
  /\ receiver' = [receiver EXCEPT ![w] = <<>>]
  /\ UNCHANGED <<log, row, listenerVars, checking, result, sent, done>>

\* The GraphQL server reads the result channel, past its close too, and
\* writes to the client.
Receive(w) ==
  /\ result[w] # <<>>
  /\ sent' = [sent EXCEPT ![w] = Append(@, Head(result[w]))]
  /\ result' = [result EXCEPT ![w] = Tail(@)]
  /\ UNCHANGED <<log, row, listenerVars, receiver, checking, sending,
                 state, done>>

-----------------------------------------------------------------------------
Next ==
  \/ \E u \in Uids : Commit(u)
  \/ ConnectionLost \/ Reconnected
  \/ Notified \/ Backfill \/ FanOut
  \/ \E w \in Watches :
       \/ Register(w) \/ Cancel(w) \/ Take(w) \/ Check(w) \/ Send(w)
       \/ End(w) \/ Receive(w)

\* The goroutines run, the permission checks and queries end, and the client
\* reads what it is sent.
Fairness ==
  /\ WF_vars(Notified) /\ WF_vars(Backfill) /\ WF_vars(FanOut)
  /\ \A w \in Watches : /\ WF_vars(Take(w)) /\ WF_vars(Check(w))
                        /\ WF_vars(Send(w)) /\ WF_vars(Receive(w))

Spec     == Init /\ [][Next]_vars
FairSpec == Spec /\ Fairness

-----------------------------------------------------------------------------
(* Properties.                                                             *)

SentChanges(w) == [k \in 1..Len(sent[w]) |-> sent[w][k].change]

\* Whatever is lost, dropped, read back or refused on the way, a client gets
\* changes in commit order, each at most once: forwardNotification and the
\* goroutine of WatchSubscription implement LossyStream.
Lossy == INSTANCE LossyStream WITH
           committed <- Len(log),
           received  <- [w \in Watches |-> SentChanges(w)]
InOrderStream == Lossy!Spec

\* The data of an event is never older than the change it announces, and is
\* that of the same resource: a backfill (listener.go, "query the database to
\* rebuild the data") can only make it newer.
DataNotOlder ==
  \A w \in Watches : \A k \in 1..Len(sent[w]) :
    LET e == sent[w][k] IN
      /\ e.data >= e.change
      /\ log[e.data].uid = log[e.change].uid
      /\ e.data # e.change => log[e.data].operation # "DELETE"

\* A client sees the data of a resource go back in one case only: an event
\* that was read back is followed by one whose notification was complete.
DataGoesForward ==
  \A w \in Watches : \A j \in 1..Len(sent[w]) : \A i \in 1..(j - 1) :
    LET d == sent[w][i]
        e == sent[w][j]
    IN  log[d.change].uid = log[e.change].uid
          => d.data <= e.data \/ (Truncated(d.change) /\ ~Truncated(e.change))

Full(w) == Len(receiver[w]) = BufferSize \/ Len(result[w]) = BufferSize

\* The row a change has to be read back from is deleted.
Gone(n) == n <= Len(log) /\ Truncated(n) /\ row[log[n].uid] = 0

\* "Real-time stream of INSERT/UPDATE/DELETE events matching the filter": a
\* notified change reaches the client of an open watch that wants it, while
\* the connection holds and no channel fills up; except a delete whose
\* notification was too long, and a change whose row is gone when read back.
Streamed ==
  \A w \in Watches, n \in 1..MaxChanges :
    [](connected /\ ~Full(w))
      => (/\ n \in {queue[k] : k \in 1..Len(queue)}
          /\ state[w] = "open"
          /\ log[n].uid \in Wanted[w]
          /\ ~Truncated(n) \/ log[n].operation # "DELETE")
         ~> \/ \E k \in 1..Len(sent[w]) : sent[w][k].change = n
            \/ done[w]
            \/ Gone(n)
=============================================================================
