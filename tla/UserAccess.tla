----------------------------- MODULE UserAccess -----------------------------
(***************************************************************************)
(* The way of a request through the middlewares and the caches of the      *)
(* external services (pkg/server, pkg/rbac, database/connection.go): the   *)
(* health of the database, the review of the token, the fine-grained       *)
(* permissions, the clause made from them, the disabled clusters.          *)
(*                                                                         *)
(* The callers are requests of one user with one token, or WebSocket       *)
(* connections. In a behaviour one of the services, focus, fails, recovers *)
(* and changes its answer, and the age of its cache is followed; the       *)
(* others are well, and what is cached of them is the truth. The rest of   *)
(* a user's data is that of RbacCache, taken as there and valid.           *)
(***************************************************************************)
EXTENDS Integers, FiniteSets, Sequences, SequencesExt

CONSTANTS
  None,
  Callers,
  Ops,          \* by caller: "search" and "messages" over HTTP, "subscribe"
  ReviewTTL,    \* AuthCacheTTL, in ticks; a tick is also how long a ping is good for
  CacheTTL,     \* SharedCacheTTL
  ErrorTTL,     \* how long a cached error is valid
  Groups,       \* the API groups of the rule in the user's permission, in order
  MaxChanges    \* bound: failures, recoveries, changes and timeouts

ASSUME TTLAssumption ==
  {ReviewTTL, CacheTTL, ErrorTTL} \subseteq Nat \ {0} /\ MaxChanges \in Nat
ASSUME GroupsAssumption == /\ Groups \in Seq(STRING)
                           /\ Contains(Groups, "") /\ ~Contains(Groups, "*")
ASSUME CallersAssumption == IsFiniteSet(Callers) /\ None \notin Callers \cup Nat

VARIABLES
  focus, up,     \* the service that changes, and whether it answers
  truth,         \* its answer: the token is valid, the permission given, a cluster disabled
  pool,          \* whether database.pool is set
  pinged,        \* ticks since timeLastPing
  dbConnInitialized,
  review,        \* the cached TokenReview: [answer, age]
  reviewLock,    \* tokenReviewsLock: the holder, or None
  permissions,   \* [items, err, age]: a list, 0 when empty
  lists,         \* by list, the API groups of its rule in memory
  disabled,      \* dcCache: [some, err, age]
  dcLock,        \* dcCache.lock: the holder, or None
  pc, op, status,
  stage,         \* what the caller needs the cache for
  cancelled,     \* the context of the request has ended
  copy,          \* the list in the caller's copy of the user data, or None
  active, gauge, \* activeConnections, and the metric of their number
  changes

env == <<focus, up, truth, changes>>
dbVars == <<pool, pinged, dbConnInitialized>>
caches == <<review, reviewLock, permissions, lists, disabled, dcLock>>
socketVars == <<active, gauge>>
callerVars == <<pc, op, status, stage, cancelled, copy>>
vars == <<env, dbVars, caches, socketVars, callerVars>>

Services == {"database", "token", "permissions", "clusters"}
Lists == 1 .. Cardinality(Callers) + 1

Init ==
  /\ focus \in Services /\ up \in BOOLEAN /\ truth \in BOOLEAN /\ changes = 0
  /\ pool \in {FALSE, focus # "database" \/ up} /\ pinged = 1
  /\ dbConnInitialized = FALSE
  /\ review = [answer |-> None, age |-> ReviewTTL] /\ reviewLock = None
  /\ permissions = [items |-> 0, err |-> FALSE, age |-> CacheTTL]
  /\ lists = [n \in Lists |-> Groups]
  /\ disabled = [some |-> FALSE, err |-> FALSE, age |-> CacheTTL] /\ dcLock = None
  /\ pc = [c \in Callers |-> "idle"] /\ op = [c \in Callers |-> None]
  /\ stage = [c \in Callers |-> "check"]
  /\ status = [c \in Callers |-> None] /\ cancelled = [c \in Callers |-> FALSE]
  /\ copy = [c \in Callers |-> None]
  /\ active = {} /\ gauge = 0

Goto(c, place) == pc' = [pc EXCEPT ![c] = place]
NeedsCache(c, for) == Goto(c, "ping") /\ stage' = [stage EXCEPT ![c] = for]
Works(service) == service = focus => up
Truth(service) == service = focus => truth

\* The end of a handler. After a timeout its answer goes nowhere.
Finish(c, answer) ==
  /\ Goto(c, "done")
  /\ status' = [status EXCEPT ![c] = IF cancelled[c] THEN "timeout" ELSE answer]

-----------------------------------------------------------------------------
(***************************************************************************)
(* Requests come, wait for no longer than RequestTimeout, and are answered.*)
(***************************************************************************)
Receive(c, o) ==
  /\ pc[c] = "idle" /\ NeedsCache(c, "check")
  /\ op' = [op EXCEPT ![c] = o]
  /\ UNCHANGED <<status, cancelled, copy, env, dbVars, caches, socketVars>>

Leave(c) ==
  /\ pc[c] = "done" /\ Goto(c, "idle")
  /\ op' = [op EXCEPT ![c] = None] /\ stage' = [stage EXCEPT ![c] = "check"]
  /\ status' = [status EXCEPT ![c] = None]
  /\ cancelled' = [cancelled EXCEPT ![c] = FALSE] /\ copy' = [copy EXCEPT ![c] = None]
  /\ UNCHANGED <<env, dbVars, caches, socketVars>>

\* The client has its answer, and the handler goes on. A WebSocket has no timeout.
TimeoutHandler(c) ==
  /\ pc[c] \notin {"idle", "done"} /\ op[c] # "subscribe" /\ ~cancelled[c]
  /\ changes < MaxChanges /\ changes' = changes + 1
  /\ cancelled' = [cancelled EXCEPT ![c] = TRUE]
  /\ UNCHANGED <<focus, up, truth, pc, op, status, stage, copy, dbVars, caches, socketVars>>

-----------------------------------------------------------------------------
(***************************************************************************)
(* GetCache pings the database and then sets the flag that all requests    *)
(* share. It is called before the flag is looked at, and again by whoever  *)
(* needs the cache: for the token, and for the user's data.                *)
(***************************************************************************)
Stages == {"check", "authenticate", "resolve"}

GetConnPoolOnce(c) ==                     \* mutant: a pool that is not there is not made
  /\ pc[c] = "ping"
  /\ IF pool /\ (pinged = 0 \/ Works("database"))
     THEN pinged' = 0 /\ Goto(c, "healthy")
     ELSE UNCHANGED pinged /\ Goto(c, "unhealthy")
  /\ UNCHANGED <<pool, dbConnInitialized, op, status, stage, cancelled, copy, env, caches, socketVars>>

GetConnPool(c) ==
  /\ pc[c] = "ping"
  /\ pool' = (pool \/ Works("database"))
  /\ IF pool' /\ (pinged = 0 \/ Works("database"))
     THEN pinged' = 0 /\ Goto(c, "healthy")
     ELSE UNCHANGED pinged /\ Goto(c, "unhealthy")
  /\ UNCHANGED <<dbConnInitialized, op, status, stage, cancelled, copy, env, caches, socketVars>>

setDbConnInitialized(c) ==
  /\ pc[c] \in {"healthy", "unhealthy"} /\ Goto(c, stage[c])
  /\ dbConnInitialized' = (pc[c] = "healthy")
  /\ UNCHANGED <<pool, pinged, op, status, stage, cancelled, copy, env, caches, socketVars>>

CheckDBAvailability(c) ==
  /\ pc[c] = "check"
  /\ IF dbConnInitialized THEN NeedsCache(c, "authenticate") /\ UNCHANGED status
     ELSE Finish(c, "unavailable") /\ UNCHANGED stage
  /\ UNCHANGED <<op, cancelled, copy, env, dbVars, caches, socketVars>>

-----------------------------------------------------------------------------
(***************************************************************************)
(* The token. A request without one is refused before anything is shared.  *)
(***************************************************************************)
Reviewed(c, answer) ==
  IF answer # "valid"
  THEN /\ UNCHANGED stage
       /\ IF op[c] = "subscribe" THEN Goto(c, "rejected") /\ UNCHANGED status
          ELSE Finish(c, answer)
  ELSE /\ UNCHANGED status
       /\ IF op[c] = "subscribe" THEN Goto(c, "track") /\ UNCHANGED stage
          ELSE NeedsCache(c, "resolve")

ReviewExpired == review.age >= ReviewTTL

\* Mutant: a review that is used is good for longer.
GetTokenReviewSliding(c) ==
  /\ pc[c] = "authenticate" /\ reviewLock = None
  /\ IF ReviewExpired
     THEN reviewLock' = c /\ Goto(c, "review") /\ UNCHANGED <<status, stage, review>>
     ELSE Reviewed(c, review.answer) /\ review' = [review EXCEPT !.age = 0] /\ UNCHANGED reviewLock
  /\ UNCHANGED <<permissions, lists, disabled, dcLock, op, cancelled, copy, env, dbVars, socketVars>>

\* With the lock, whether it waited for it or not.
GetTokenReview(c) ==
  /\ pc[c] = "authenticate" /\ reviewLock = None
  /\ IF ReviewExpired
     THEN reviewLock' = c /\ Goto(c, "review") /\ UNCHANGED <<status, stage>>
     ELSE Reviewed(c, review.answer) /\ UNCHANGED reviewLock
  /\ UNCHANGED <<review, permissions, lists, disabled, dcLock, op, cancelled, copy, env,
                 dbVars, socketVars>>

\* The call does not depend on the request: a timeout does not end it.
getTokenReview(c) ==
  /\ pc[c] = "review"
  /\ LET answer == IF ~Works("token") THEN "failed" ELSE IF Truth("token") THEN "valid" ELSE "invalid"
     IN review' = [answer |-> answer, age |-> 0] /\ Reviewed(c, answer)
  /\ reviewLock' = None
  /\ UNCHANGED <<permissions, lists, disabled, dcLock, op, cancelled, copy, env, dbVars, socketVars>>

(***************************************************************************)
(* A WebSocket is counted when it is let in, and closed in any case.       *)
(***************************************************************************)
TrackConnection(c) ==
  /\ pc[c] = "track" /\ Goto(c, "count")
  /\ active' = active \cup {c}
  /\ UNCHANGED <<gauge, op, status, stage, cancelled, copy, env, dbVars, caches>>

CountConnection(c) ==
  /\ pc[c] = "count" /\ Goto(c, "open")
  /\ gauge' = gauge + 1
  /\ UNCHANGED <<active, op, status, stage, cancelled, copy, env, dbVars, caches>>

CloseUncounted(c) ==                      \* mutant: those that were rejected leave too
  /\ pc[c] \in {"open", "rejected"} /\ Finish(c, "closed")
  /\ active' = active \ {c}
  /\ gauge' = gauge - 1
  /\ UNCHANGED <<op, stage, cancelled, copy, env, dbVars, caches>>

WebSocketCloseFunc(c) ==
  /\ pc[c] \in {"open", "rejected"} /\ Finish(c, "closed")
  /\ active' = active \ {c}
  /\ gauge' = IF c \in active THEN gauge - 1 ELSE gauge
  /\ UNCHANGED <<op, stage, cancelled, copy, env, dbVars, caches>>

-----------------------------------------------------------------------------
(***************************************************************************)
(* The user's data with the fine-grained permissions. The call is made     *)
(* with the context of the request and without a lock. An error is saved   *)
(* for everybody and never taken back: what is cached then stays valid for *)
(* no longer than an error.                                                *)
(***************************************************************************)
PermissionsForEver == permissions.items # 0         \* mutant: no TTL

PermissionsValid ==
  permissions.age < IF permissions.err THEN ErrorTTL ELSE CacheTTL

GetUserData(c) ==
  /\ pc[c] = "resolve"
  /\ Goto(c, IF permissions.items = 0 \/ ~PermissionsValid THEN "list" ELSE "copy")
  /\ UNCHANGED <<op, status, stage, cancelled, copy, env, dbVars, caches, socketVars>>

InUse == {permissions.items} \cup {copy[c] : c \in Callers}

getUserPermissions(c) ==
  /\ pc[c] = "list"
  /\ IF cancelled[c] \/ ~Works("permissions")
     THEN /\ permissions' = [permissions EXCEPT !.err = TRUE, !.age = 0]
          /\ Finish(c, "error") /\ UNCHANGED lists
     ELSE /\ LET new == CHOOSE n \in Lists : n \notin InUse
             IN IF Truth("permissions")
                THEN /\ permissions' = [permissions EXCEPT !.items = new, !.age = 0]
                     /\ lists' = [lists EXCEPT ![new] = Groups]
                ELSE permissions' = [permissions EXCEPT !.items = 0, !.age = 0] /\ UNCHANGED lists
          /\ Goto(c, "copy") /\ UNCHANGED status
  /\ UNCHANGED <<review, reviewLock, disabled, dcLock, op, stage, cancelled, copy, env, dbVars, socketVars>>

\* The copy has the list that the cache has.
CopyUserData(c) ==
  /\ pc[c] = "copy" /\ Goto(c, IF op[c] = "search" THEN "count items" ELSE "messages")
  /\ copy' = [copy EXCEPT ![c] = permissions.items]
  /\ UNCHANGED <<op, status, stage, cancelled, env, dbVars, caches, socketVars>>

\* slices.Delete(groups, i, 1), i the index of "" from 0: it removes those from i
\* to 1, shifts the rest and clears what is left over, and panics if i is above 1.
IndexOfEmpty(groups) == CHOOSE i \in DOMAIN groups : groups[i] = "" /\ \A j \in 1 .. i - 1 : groups[j] # ""

Panics(groups) == IndexOfEmpty(groups) > 2
DeleteEmpty(groups) == IF IndexOfEmpty(groups) = 1 THEN Append(Tail(groups), "") ELSE groups

\* One statement, of count and then of items, with the clause that it builds from
\* the list; a panic ends only its field.
Statement(c, field, next) ==
  /\ pc[c] = field
  /\ LET list == copy[c]
         panics == list # 0 /\ Panics(lists[list])
         fails == panics \/ cancelled[c] \/ ~Works("database")
         answer == IF fails \/ status[c] = "error" THEN "error" ELSE IF list = 0 THEN "hidden" ELSE "rows"
     IN /\ lists' = IF list = 0 \/ panics THEN lists ELSE [lists EXCEPT ![list] = DeleteEmpty(@)]
        /\ IF next = "done" THEN Finish(c, answer)
           ELSE Goto(c, next) /\ status' = [status EXCEPT ![c] = IF fails THEN "error" ELSE None]
  /\ UNCHANGED <<review, reviewLock, permissions, disabled, dcLock, op, stage, cancelled, copy, env,
                 dbVars, socketVars>>

Count(c) == Statement(c, "count items", "items")
Items(c) == Statement(c, "items", "done")

-----------------------------------------------------------------------------
(***************************************************************************)
(* The disabled clusters. Who finds the error in the cache is told that    *)
(* there are none.                                                         *)
(***************************************************************************)
DisabledErrorForEver == disabled.err \/ disabled.age < CacheTTL     \* mutant

DisabledValid == disabled.age < IF disabled.err THEN ErrorTTL ELSE CacheTTL

Messages(some) == IF some THEN "disabled" ELSE "silence"

GetDisabledClusters(c) ==
  /\ pc[c] = "messages" /\ dcLock = None
  /\ IF DisabledValid THEN Finish(c, Messages(disabled.some)) /\ UNCHANGED dcLock
     ELSE dcLock' = c /\ Goto(c, "query") /\ UNCHANGED status
  /\ UNCHANGED <<review, reviewLock, permissions, lists, disabled, op, stage, cancelled, copy, env,
                 dbVars, socketVars>>

setDisabledClusters(some, failed) ==
  disabled' = [some |-> some, err |-> failed, age |-> 0]

QueryKeepsLock(c) ==                      \* mutant: an error returns with the lock
  /\ pc[c] = "query"
  /\ IF cancelled[c] \/ ~Works("clusters") \/ ~Works("database")
     THEN setDisabledClusters(FALSE, TRUE) /\ Finish(c, "error") /\ UNCHANGED dcLock
     ELSE /\ setDisabledClusters(Truth("clusters"), FALSE)
          /\ Finish(c, Messages(Truth("clusters"))) /\ dcLock' = None
  /\ UNCHANGED <<review, reviewLock, permissions, lists, op, stage, cancelled, copy, env, dbVars, socketVars>>

findSrchAddonDisabledClusters(c) ==
  /\ pc[c] = "query" /\ dcLock' = None
  /\ IF cancelled[c] \/ ~Works("clusters") \/ ~Works("database")
     THEN setDisabledClusters(FALSE, TRUE) /\ Finish(c, "error")
     ELSE setDisabledClusters(Truth("clusters"), FALSE) /\ Finish(c, Messages(Truth("clusters")))
  /\ UNCHANGED <<review, reviewLock, permissions, lists, op, stage, cancelled, copy, env, dbVars, socketVars>>

-----------------------------------------------------------------------------
ServiceChanges ==
  /\ changes < MaxChanges /\ changes' = changes + 1
  /\ \/ up' = ~up /\ UNCHANGED truth
     \/ focus # "database" /\ truth' = ~truth /\ UNCHANGED up
  /\ UNCHANGED <<focus, dbVars, caches, socketVars, callerVars>>

Older(entry, limit) == [entry EXCEPT !.age = IF @ < limit THEN @ + 1 ELSE @]

\* Time, for the cache of the service that changes.
Tick ==
  /\ CASE focus = "database" -> pinged' = 1 /\ UNCHANGED <<review, permissions, disabled>>
       [] focus = "token" -> review' = Older(review, ReviewTTL) /\ UNCHANGED <<pinged, permissions, disabled>>
       [] focus = "permissions" ->
            permissions' = Older(permissions, CacheTTL) /\ UNCHANGED <<pinged, review, disabled>>
       [] OTHER -> disabled' = Older(disabled, CacheTTL) /\ UNCHANGED <<pinged, review, permissions>>
  /\ UNCHANGED <<pool, dbConnInitialized, reviewLock, lists, dcLock, env, socketVars, callerVars>>

Step(c) ==
  \/ GetConnPool(c) \/ setDbConnInitialized(c)
  \/ CheckDBAvailability(c)
  \/ GetTokenReview(c) \/ getTokenReview(c)
  \/ TrackConnection(c) \/ CountConnection(c)
  \/ GetUserData(c) \/ getUserPermissions(c) \/ CopyUserData(c)
  \/ Count(c) \/ Items(c)
  \/ GetDisabledClusters(c) \/ findSrchAddonDisabledClusters(c)
  \/ Leave(c)

Next ==
  \/ \E c \in Callers :
       \/ \E o \in Ops[c] : Receive(c, o)
       \/ Step(c) \/ TimeoutHandler(c) \/ WebSocketCloseFunc(c)
  \/ ServiceChanges \/ Tick

Spec == Init /\ [][Next]_vars

\* Handlers run, answers are received, and time passes; nobody has to ask or to
\* close a connection.
FairSpec == Spec /\ WF_vars(Tick) /\ \A c \in Callers : WF_vars(Step(c))

-----------------------------------------------------------------------------
(***************************************************************************)
(* Properties.                                                             *)
(***************************************************************************)
Places == Stages \cup
          {"idle", "ping", "healthy", "unhealthy", "review", "track", "count", "open", "rejected", "list", "copy",
           "count items", "items", "messages", "query", "done"}

Answers == {"unavailable", "failed", "invalid", "timeout", "error", "hidden", "rows",
            "disabled", "silence", "closed"}

ServicesOk ==
  /\ focus \in Services /\ up \in BOOLEAN /\ truth \in BOOLEAN
  /\ pool \in BOOLEAN /\ pinged \in {0, 1} /\ dbConnInitialized \in BOOLEAN
  /\ changes \in 0 .. MaxChanges

CachesOk ==
  /\ review \in [answer : {None, "failed", "valid", "invalid"}, age : 0 .. ReviewTTL]
  /\ permissions \in [items : Lists \cup {0}, err : BOOLEAN, age : 0 .. CacheTTL]
  /\ lists \in [Lists -> Seq(ToSet(Groups))]
  /\ disabled \in [some : BOOLEAN, err : BOOLEAN, age : 0 .. CacheTTL]

CallersOk ==
  /\ pc \in [Callers -> Places] /\ status \in [Callers -> Answers \cup {None}]
  /\ stage \in [Callers -> Stages] /\ cancelled \in [Callers -> BOOLEAN]
  /\ copy \in [Callers -> Lists \cup {0, None}]

LocksOk ==
  /\ reviewLock \in Callers \cup {None} /\ dcLock \in Callers \cup {None}
  /\ \A c \in Callers : /\ reviewLock = c <=> pc[c] = "review"
                        /\ dcLock = c <=> pc[c] = "query"

\* The shape of the state; a lock is held by who is making the call it is for.
TypeOK == ServicesOk /\ CachesOk /\ CallersOk /\ LocksOk

\* Once the connections that are coming in are counted, the metric is the number
\* of those that are open, however many were rejected.
GaugeIsConnections ==
  (\A c \in Callers : pc[c] \notin {"track", "count"}) =>
    /\ active = {c \in Callers : pc[c] = "open"}
    /\ gauge = Cardinality(active)

Never(answers) == \A c \in Callers : status[c] \notin answers

Settled(service, answer) == focus = service /\ up /\ truth = answer

\* A database that is there for good ends the refusals, whoever was the last to
\* set the shared flag, and although no pool could be made at first.
DbRecovers == <>[](focus = "database" /\ up) => <>[]Never({"unavailable", "error"})

\* What a review says in the end is what is done: a token that was revoked is
\* refused, and one that is valid is accepted, after a failure of the API too.
TokenFollowed ==
  /\ <>[]Settled("token", FALSE) => <>[](Never({"rows", "hidden", "disabled", "silence", "failed"}))
  /\ <>[]Settled("token", TRUE) => <>[]Never({"invalid", "failed"})

\* Once the permissions API answers for good its answer is used: neither an old
\* list nor an error lasts, and the requests cut short while listing, whose error
\* is saved for all, do not make it last.
PermissionsFollowed ==
  /\ <>[]Settled("permissions", FALSE) => <>[]Never({"rows", "error"})
  /\ <>[]Settled("permissions", TRUE) => <>[]Never({"hidden", "error"})

\* The same of the disabled clusters: the silence that a cached error means ends.
MessagesFollowed ==
  /\ <>[]Settled("clusters", FALSE) => <>[]Never({"disabled", "error"})
  /\ <>[]Settled("clusters", TRUE) => <>[]Never({"silence", "error"})

\* GetUserData: "Get a static copy of the current user data." (userData.go:216): what
\* a request has copied is not changed while it is used.
CopyIsStatic == \A c \in Callers : copy[c] \in Lists => lists[copy[c]] = Groups
=============================================================================
