-------------------------- MODULE UserAccessProofs --------------------------
(***************************************************************************)
(* Theorems about UserAccess, for any number of callers and any services   *)
(* that fail, recover and change their answers.                            *)
(***************************************************************************)
EXTENDS UserAccess, FiniteSetTheorems, TLAPS

\* A list that is not in use: there is one more than callers, and the caller
\* that asks for it has none.
LEMMA FreeList ==
  ASSUME NEW c \in Callers, copy[c] = None
  PROVE  \E n \in Lists : n \notin InUse
<1> DEFINE Holder == [n \in Lists |-> IF n = permissions.items THEN c
                                     ELSE CHOOSE d \in Callers : copy[d] = n]
<1> SUFFICES ASSUME \A n \in Lists : n \in InUse
             PROVE  FALSE
  OBVIOUS
<1>1. /\ IsFiniteSet(Callers) /\ Cardinality(Callers) \in Nat
      /\ IsFiniteSet(Lists) /\ Cardinality(Lists) = Cardinality(Callers) + 1
  <2>1. Cardinality(Callers) \in Nat
    BY CallersAssumption, FS_CardinalityType
  <2> QED BY <2>1, CallersAssumption, FS_Interval DEF Lists
<1>2. \A n \in Lists : n # permissions.items => \E d \in Callers : copy[d] = n
  BY DEF InUse
<1>3. \A n \in Lists : /\ Holder[n] \in Callers
                       /\ n # permissions.items => copy[Holder[n]] = n
  BY <1>2
<1>4. PICK m \in Lists, n \in Lists : m # n /\ Holder[m] = Holder[n]
  <2>1. Holder \in [Lists -> Callers]
    BY <1>3
  <2> HIDE DEF Holder
  <2> QED BY <1>1, <2>1, FS_PigeonHole
<1>5. None \notin Lists
  BY <1>1, CallersAssumption DEF Lists
<1>6. CASE m # permissions.items /\ n # permissions.items
  BY <1>3, <1>4, <1>6
<1>7. CASE m = permissions.items \/ n = permissions.items
  BY <1>3, <1>4, <1>5, <1>7
<1> QED BY <1>6, <1>7

\* What building a clause leaves of a list.
LEMMA ShiftType ==
  ASSUME NEW S, NEW s \in Seq(S), Len(s) > 0, NEW e \in S
  PROVE  Append(Tail(s), e) \in Seq(S) /\ Len(Append(Tail(s), e)) > 0
<1>1. Tail(s) \in Seq(S) /\ Len(Tail(s)) \in Nat
  OBVIOUS
<1> QED BY <1>1

\* An element is one of the elements.
LEMMA ElementType ==
  ASSUME NEW S, NEW s \in Seq(S), NEW i \in 1 .. Len(s)
  PROVE  s[i] \in ToSet(s)
BY DEF ToSet

\* A sequence is one of its own elements.
LEMMA ElementsType ==
  ASSUME NEW S, NEW s \in Seq(S)
  PROVE  s \in Seq(ToSet(s))
<1>1. Len(s) \in Nat /\ s \in [1 .. Len(s) -> ToSet(s)]
  BY ElementType
<1> QED BY <1>1

\* The list of the rule, and that it is not empty.
LEMMA GroupsType == Groups \in Seq(ToSet(Groups)) /\ Len(Groups) > 0
<1>1. PICK i \in 1 .. Len(Groups) : TRUE
  BY GroupsAssumption DEF Contains
<1>2. Groups \in Seq(STRING)
  BY GroupsAssumption
<1>3. Len(Groups) \in Nat
  BY <1>2
<1> QED BY <1>1, <1>2, <1>3, ElementsType

\* The core group is in the list of the rule.
LEMMA EmptyIsGroup == "" \in ToSet(Groups)
BY GroupsAssumption, ElementType DEF Contains

\* What building a clause leaves of a list, once more as a list.
LEMMA DeleteEmptyType ==
  ASSUME NEW groups \in Seq(ToSet(Groups)), Len(groups) > 0
  PROVE  DeleteEmpty(groups) \in Seq(ToSet(Groups)) /\ Len(DeleteEmpty(groups)) > 0
BY EmptyIsGroup, ShiftType DEF DeleteEmpty

(***************************************************************************)
(* Types, who holds the locks, and the connections. A connection that is   *)
(* let in is in the map before it is counted; the metric counts those that *)
(* are open.                                                               *)
(***************************************************************************)
Open == {c \in Callers : pc[c] = "open"}

ConnectionsOk ==
  /\ active = {c \in Callers : pc[c] \in {"count", "open"}}
  /\ gauge = Cardinality(Open)

HasCopy == {"count items", "items", "messages", "query", "done"}

ListsOk ==
  /\ \A n \in Lists : Len(lists[n]) > 0
  /\ \A c \in Callers : pc[c] \notin HasCopy => copy[c] = None

AccessInv == TypeOK /\ ConnectionsOk /\ ListsOk

\* Connections, their map and the metric.
LEMMA ConnectionsStep ==
  ASSUME CallersOk, ConnectionsOk, [Next]_vars
  PROVE  ConnectionsOk'
<1>1. IsFiniteSet(Open)
  BY CallersAssumption, FS_Subset DEF Open
<1>2. ASSUME NEW c \in Callers, pc[c] \notin {"count", "open"},
             NEW p, p \notin {"count", "open"}, Goto(c, p), UNCHANGED socketVars
      PROVE  ConnectionsOk'
  <2>1. pc' = [pc EXCEPT ![c] = p] /\ UNCHANGED <<active, gauge>>
    BY <1>2 DEF Goto, socketVars
  <2>2. Open' = Open
    BY <1>2, <2>1 DEF Open, CallersOk
  <2>3. active = {d \in Callers : pc'[d] \in {"count", "open"}}
    BY <1>2, <2>1 DEF ConnectionsOk, CallersOk
  <2>4. active' = {d \in Callers : pc'[d] \in {"count", "open"}}
    BY <2>1, <2>3
  <2>5. gauge' = Cardinality(Open')
    BY <2>1, <2>2 DEF ConnectionsOk
  <2> QED BY <2>4, <2>5 DEF ConnectionsOk
<1>3. ASSUME NEW c \in Callers, TrackConnection(c) PROVE ConnectionsOk'
  BY <1>3 DEF TrackConnection, ConnectionsOk, Open, Goto, CallersOk
<1>4. ASSUME NEW c \in Callers, CountConnection(c) PROVE ConnectionsOk'
  <2>1. Open' = Open \cup {c} /\ c \notin Open
    BY <1>4 DEF CountConnection, Open, Goto, CallersOk
  <2>2. Cardinality(Open') = Cardinality(Open) + 1
    BY <1>1, <2>1, FS_AddElement
  <2>3. active' = {d \in Callers : pc'[d] \in {"count", "open"}}
    BY <1>4 DEF CountConnection, ConnectionsOk, Goto, CallersOk
  <2> QED BY <1>4, <2>2, <2>3 DEF CountConnection, ConnectionsOk
<1>5. ASSUME NEW c \in Callers, WebSocketCloseFunc(c) PROVE ConnectionsOk'
  <2>1. pc' = [pc EXCEPT ![c] = "done"] /\ active' = active \ {c}
    BY <1>5 DEF WebSocketCloseFunc, Finish, Goto
  <2>2. active' = {d \in Callers : pc'[d] \in {"count", "open"}}
    BY <1>5, <2>1 DEF WebSocketCloseFunc, ConnectionsOk, CallersOk
  <2>3. Open' = Open \ {c}
    BY <2>1 DEF Open, CallersOk
  <2>4. Cardinality(Open') = IF c \in Open THEN Cardinality(Open) - 1 ELSE Cardinality(Open)
    BY <1>1, <2>3, FS_RemoveElement
  <2>5. c \in active <=> c \in Open
    BY <1>5 DEF WebSocketCloseFunc, ConnectionsOk, Open
  <2> QED BY <1>5, <2>2, <2>4, <2>5 DEF WebSocketCloseFunc, ConnectionsOk
<1>6. ASSUME UNCHANGED <<pc, active, gauge>> PROVE ConnectionsOk'
  BY <1>6 DEF ConnectionsOk, Open
<1>7. ASSUME NEW c \in Callers, Step(c), ~TrackConnection(c), ~CountConnection(c)
      PROVE  ConnectionsOk'
  <2>1. UNCHANGED socketVars
    BY <1>7 DEF Step, GetConnPool, setDbConnInitialized, CheckDBAvailability, GetTokenReview,
                getTokenReview, GetUserData, getUserPermissions, CopyUserData, Count, Items,
                Statement, GetDisabledClusters, findSrchAddonDisabledClusters, Leave
  <2>2. /\ pc[c] \notin {"count", "open"}
        /\ \E p : p \notin {"count", "open"} /\ Goto(c, p)
    BY <1>7 DEF Step, GetConnPool, setDbConnInitialized, CheckDBAvailability, GetTokenReview,
                getTokenReview, GetUserData, getUserPermissions, CopyUserData, Count, Items,
                Statement, GetDisabledClusters, findSrchAddonDisabledClusters, Leave,
                NeedsCache, Finish, Reviewed, CallersOk, Stages
  <2> QED BY <1>2, <2>1, <2>2
<1>8. ASSUME NEW c \in Callers, NEW o \in Ops[c], Receive(c, o) PROVE ConnectionsOk'
  BY <1>2, <1>8 DEF Receive, NeedsCache
<1>9. ASSUME NEW c \in Callers, TimeoutHandler(c) PROVE ConnectionsOk'
  BY <1>6, <1>9 DEF TimeoutHandler, socketVars
<1>10. ASSUME ServiceChanges \/ Tick \/ UNCHANGED vars PROVE ConnectionsOk'
  BY <1>6, <1>10 DEF ServiceChanges, Tick, vars, socketVars, callerVars
<1> QED BY <1>3, <1>4, <1>5, <1>7, <1>8, <1>9, <1>10 DEF Next

-----------------------------------------------------------------------------
(***************************************************************************)
(* Types.                                                                  *)
(***************************************************************************)
\* A caller goes from one place to the next without a change of the locks, or
\* takes or leaves the one that belongs to the place.
LEMMA Moves ==
  ASSUME CallersOk, LocksOk, NEW c \in Callers, NEW p \in Places, Goto(c, p),
         reviewLock' = IF p = "review" THEN c ELSE IF pc[c] = "review" THEN None ELSE reviewLock,
         dcLock' = IF p = "query" THEN c ELSE IF pc[c] = "query" THEN None ELSE dcLock,
         p = "review" => reviewLock = None, p = "query" => dcLock = None
  PROVE  LocksOk' /\ pc' \in [Callers -> Places]
BY CallersAssumption DEF CallersOk, LocksOk, Goto

\* Whoever holds a lock is in the call that it is for.
LEMMA LocksStep ==
  ASSUME CallersOk, LocksOk, [Next]_vars
  PROVE  LocksOk' /\ pc' \in [Callers -> Places]
<1> USE DEF Places, Stages
<1>1. ASSUME NEW c \in Callers, NEW p \in Places \ {"review", "query"}, Goto(c, p),
             pc[c] \notin {"review", "query"}, UNCHANGED <<reviewLock, dcLock>>
      PROVE  LocksOk' /\ pc' \in [Callers -> Places]
  BY <1>1, Moves
<1>2. ASSUME UNCHANGED <<pc, reviewLock, dcLock>>
      PROVE  LocksOk' /\ pc' \in [Callers -> Places]
  BY <1>2 DEF LocksOk, CallersOk
<1>3. ASSUME NEW c \in Callers, NEW o \in Ops[c], Receive(c, o)
      PROVE  LocksOk' /\ pc' \in [Callers -> Places]
  BY <1>1, <1>3 DEF Receive, NeedsCache, caches
<1>4. ASSUME NEW c \in Callers, GetConnPool(c) \/ setDbConnInitialized(c) \/ CheckDBAvailability(c)
      PROVE  LocksOk' /\ pc' \in [Callers -> Places]
  <2>1. stage[c] \in Stages
    BY DEF CallersOk
  <2> QED BY <1>1, <1>4, <2>1
          DEF GetConnPool, setDbConnInitialized, CheckDBAvailability, NeedsCache, Finish, caches
<1>5. ASSUME NEW c \in Callers, GetTokenReview(c)
      PROVE  LocksOk' /\ pc' \in [Callers -> Places]
  <2>1. CASE ReviewExpired
    BY <1>5, <2>1, Moves DEF GetTokenReview
  <2>2. CASE ~ReviewExpired
    BY <1>1, <1>5, <2>2 DEF GetTokenReview, Reviewed, NeedsCache, Finish
  <2> QED BY <2>1, <2>2
<1>6. ASSUME NEW c \in Callers, getTokenReview(c)
      PROVE  LocksOk' /\ pc' \in [Callers -> Places]
  <2>1. /\ pc[c] = "review" /\ reviewLock' = None /\ UNCHANGED dcLock
        /\ \E p \in {"done", "rejected", "track", "ping"} : Goto(c, p)
    BY <1>6 DEF getTokenReview, Reviewed, NeedsCache, Finish
  <2> QED BY <2>1, Moves
<1>7. ASSUME NEW c \in Callers, TrackConnection(c) \/ CountConnection(c) \/ WebSocketCloseFunc(c)
      PROVE  LocksOk' /\ pc' \in [Callers -> Places]
  BY <1>1, <1>7 DEF TrackConnection, CountConnection, WebSocketCloseFunc, Finish, caches
<1>8. ASSUME NEW c \in Callers, GetUserData(c) \/ getUserPermissions(c) \/ CopyUserData(c)
      PROVE  LocksOk' /\ pc' \in [Callers -> Places]
  BY <1>1, <1>8 DEF GetUserData, getUserPermissions, CopyUserData, Finish, caches
<1>9. ASSUME NEW c \in Callers, Count(c) \/ Items(c)
      PROVE  LocksOk' /\ pc' \in [Callers -> Places]
  BY <1>1, <1>9 DEF Count, Items, Statement, Finish
<1>10. ASSUME NEW c \in Callers, GetDisabledClusters(c)
       PROVE  LocksOk' /\ pc' \in [Callers -> Places]
  <2>1. CASE DisabledValid
    BY <1>1, <1>10, <2>1 DEF GetDisabledClusters, Finish
  <2>2. CASE ~DisabledValid
    BY <1>10, <2>2, Moves DEF GetDisabledClusters
  <2> QED BY <2>1, <2>2
<1>11. ASSUME NEW c \in Callers, findSrchAddonDisabledClusters(c)
       PROVE  LocksOk' /\ pc' \in [Callers -> Places]
  <2>1. pc[c] = "query" /\ dcLock' = None /\ UNCHANGED reviewLock /\ Goto(c, "done")
    BY <1>11 DEF findSrchAddonDisabledClusters, Finish
  <2> QED BY <2>1, Moves
<1>12. ASSUME NEW c \in Callers, Leave(c)
       PROVE  LocksOk' /\ pc' \in [Callers -> Places]
  BY <1>1, <1>12 DEF Leave, caches
<1>13. ASSUME NEW c \in Callers, TimeoutHandler(c)
       PROVE  LocksOk' /\ pc' \in [Callers -> Places]
  BY <1>2, <1>13 DEF TimeoutHandler, caches
<1>14. ASSUME ServiceChanges \/ Tick \/ UNCHANGED vars
       PROVE  LocksOk' /\ pc' \in [Callers -> Places]
  BY <1>2, <1>14 DEF ServiceChanges, Tick, vars, caches, callerVars
<1> QED
  BY <1>3, <1>4, <1>5, <1>6, <1>7, <1>8, <1>9, <1>10, <1>11, <1>12, <1>13, <1>14 DEF Next, Step

\* What is said to the callers, what they need the cache for and which copies
\* they have.
LEMMA CallersStep ==
  ASSUME TypeOK, ListsOk, [Next]_vars
  PROVE  /\ CallersOk'
         /\ \A c \in Callers : pc'[c] \notin HasCopy => copy'[c] = None
<1> USE DEF TypeOK, CallersOk, Answers, Stages, HasCopy, ListsOk, Goto, Finish, NeedsCache
<1> DEFINE Goal == /\ stage' \in [Callers -> Stages]
                   /\ status' \in [Callers -> Answers \cup {None}]
                   /\ cancelled' \in [Callers -> BOOLEAN]
                   /\ copy' \in [Callers -> Lists \cup {0, None}]
                   /\ \A c \in Callers : pc'[c] \notin HasCopy => copy'[c] = None
<1>1. pc' \in [Callers -> Places]
  BY LocksStep
<1>2. ASSUME NEW c \in Callers, NEW o \in Ops[c], Receive(c, o) PROVE Goal
  BY <1>2 DEF Receive
<1>3. ASSUME NEW c \in Callers, GetConnPool(c) PROVE Goal
  BY <1>3 DEF GetConnPool
<1>4. ASSUME NEW c \in Callers, setDbConnInitialized(c) PROVE Goal
  BY <1>4 DEF setDbConnInitialized
<1>5. ASSUME NEW c \in Callers, CheckDBAvailability(c) PROVE Goal
  BY <1>5 DEF CheckDBAvailability
<1>6. ASSUME NEW c \in Callers, GetTokenReview(c) PROVE Goal
  BY <1>6 DEF GetTokenReview, Reviewed, CachesOk
<1>7. ASSUME NEW c \in Callers, getTokenReview(c) PROVE Goal
  BY <1>7 DEF getTokenReview, Reviewed
<1>8. ASSUME NEW c \in Callers, TrackConnection(c) PROVE Goal
  BY <1>8 DEF TrackConnection
<1>9. ASSUME NEW c \in Callers, CountConnection(c) PROVE Goal
  BY <1>9 DEF CountConnection
<1>10. ASSUME NEW c \in Callers, GetUserData(c) PROVE Goal
  BY <1>10 DEF GetUserData
<1>11. ASSUME NEW c \in Callers, getUserPermissions(c) PROVE Goal
  BY <1>11 DEF getUserPermissions
<1>12. ASSUME NEW c \in Callers, CopyUserData(c) PROVE Goal
  BY <1>12 DEF CopyUserData, CachesOk
<1>13. ASSUME NEW c \in Callers, Count(c) PROVE Goal
  BY <1>13 DEF Count, Statement
<1>14. ASSUME NEW c \in Callers, Items(c) PROVE Goal
  BY <1>14 DEF Items, Statement
<1>15. ASSUME NEW c \in Callers, GetDisabledClusters(c) PROVE Goal
  BY <1>15 DEF GetDisabledClusters, Messages
<1>16. ASSUME NEW c \in Callers, findSrchAddonDisabledClusters(c) PROVE Goal
  BY <1>16 DEF findSrchAddonDisabledClusters, Messages
<1>17. ASSUME NEW c \in Callers, Leave(c) PROVE Goal
  BY <1>17 DEF Leave
<1>18. ASSUME NEW c \in Callers, TimeoutHandler(c) PROVE Goal
  BY <1>18 DEF TimeoutHandler
<1>19. ASSUME NEW c \in Callers, WebSocketCloseFunc(c) PROVE Goal
  BY <1>19 DEF WebSocketCloseFunc
<1>20. ASSUME ServiceChanges \/ Tick \/ UNCHANGED vars PROVE Goal
  BY <1>20 DEF ServiceChanges, Tick, vars, callerVars
<1> QED
  BY <1>1, <1>2, <1>3, <1>4, <1>5, <1>6, <1>7, <1>8, <1>9, <1>10, <1>11, <1>12, <1>13, <1>14, <1>15, <1>16, <1>17, <1>18, <1>19, <1>20 DEF Next, Step

\* The state of the services.
LEMMA ServicesStep ==
  ASSUME ServicesOk, [Next]_vars
  PROVE  ServicesOk'
<1> USE TTLAssumption DEF ServicesOk
<1>1. ASSUME NEW c \in Callers, GetConnPool(c) PROVE ServicesOk'
  <2>1. pool' \in BOOLEAN /\ pinged' \in {0, 1}
    BY <1>1 DEF GetConnPool
  <2> QED BY <1>1, <2>1 DEF GetConnPool, env
<1>2. ASSUME NEW c \in Callers, setDbConnInitialized(c) PROVE ServicesOk'
  BY <1>2 DEF setDbConnInitialized, env
<1>3. ASSUME NEW c \in Callers, TimeoutHandler(c) PROVE ServicesOk'
  BY <1>3 DEF TimeoutHandler, dbVars
<1>4. CASE ServiceChanges
  <2>1. changes' \in 0 .. MaxChanges
    BY <1>4 DEF ServiceChanges
  <2>2. up' \in BOOLEAN /\ truth' \in BOOLEAN
    BY <1>4 DEF ServiceChanges
  <2>3. UNCHANGED <<focus, dbVars>>
    BY <1>4 DEF ServiceChanges
  <2> QED BY <2>1, <2>2, <2>3 DEF dbVars
<1>5. CASE Tick
  BY <1>5 DEF Tick, env
<1>6. CASE UNCHANGED <<env, dbVars>>
  BY <1>6 DEF env, dbVars
<1>7. ASSUME NEW c \in Callers, \/ \E o \in Ops[c] : Receive(c, o)
                                \/ WebSocketCloseFunc(c)
                                \/ /\ Step(c)
                                   /\ ~GetConnPool(c) /\ ~setDbConnInitialized(c)
      PROVE  UNCHANGED <<env, dbVars>>
  BY <1>7 DEF Receive, WebSocketCloseFunc, Step, CheckDBAvailability, GetTokenReview, getTokenReview,
              TrackConnection, CountConnection, GetUserData, getUserPermissions, CopyUserData, Count,
              Items, Statement, GetDisabledClusters, findSrchAddonDisabledClusters, Leave
<1>8. CASE UNCHANGED vars
  BY <1>8 DEF vars, env, dbVars
<1> QED BY <1>1, <1>2, <1>3, <1>4, <1>5, <1>6, <1>7, <1>8 DEF Next, Step

\* The list that is made is one that nobody has, and a list that is built from
\* keeps its length.
LEMMA CachesStep ==
  ASSUME TypeOK, ListsOk, [Next]_vars
  PROVE  CachesOk' /\ \A n \in Lists : Len(lists'[n]) > 0
<1> USE TTLAssumption DEF CachesOk
<1> DEFINE Goal == CachesOk' /\ \A n \in Lists : Len(lists'[n]) > 0
<1>1. CachesOk /\ \A n \in Lists : Len(lists[n]) > 0
  BY DEF TypeOK, ListsOk
<1>2. ASSUME UNCHANGED <<review, permissions, lists, disabled>> PROVE Goal
  BY <1>1, <1>2
<1>3. ASSUME NEW c \in Callers, getTokenReview(c) PROVE Goal
  BY <1>1, <1>3 DEF getTokenReview
<1>4. ASSUME NEW c \in Callers, getUserPermissions(c) PROVE Goal
  <2>1. copy[c] = None
    BY <1>4 DEF getUserPermissions, ListsOk, HasCopy
  <2>2. (CHOOSE n \in Lists : n \notin InUse) \in Lists
    BY <2>1, FreeList
  <2>3. Groups \in Seq(ToSet(Groups)) /\ Len(Groups) > 0
    BY GroupsType
  <2>4. UNCHANGED <<review, disabled>>
    BY <1>4 DEF getUserPermissions
  <2>5. permissions' \in [items : Lists \cup {0}, err : BOOLEAN, age : 0 .. CacheTTL]
    <3> DEFINE new == CHOOSE n \in Lists : n \notin InUse
    <3>1. \/ permissions' = [permissions EXCEPT !.err = TRUE, !.age = 0]
          \/ permissions' = [permissions EXCEPT !.items = new, !.age = 0]
          \/ permissions' = [permissions EXCEPT !.items = 0, !.age = 0]
      BY <1>4 DEF getUserPermissions
    <3>2. 0 \in 0 .. CacheTTL /\ new \in Lists
      BY <2>2
    <3> HIDE DEF new
    <3> QED BY <1>1, <3>1, <3>2
  <2>6. lists' \in [Lists -> Seq(ToSet(Groups))] /\ \A n \in Lists : Len(lists'[n]) > 0
    <3> DEFINE new == CHOOSE n \in Lists : n \notin InUse
    <3>1. lists' = lists \/ lists' = [lists EXCEPT ![new] = Groups]
      BY <1>4 DEF getUserPermissions
    <3> HIDE DEF new
    <3> QED BY <1>1, <2>3, <3>1
  <2> QED BY <1>1, <2>4, <2>5, <2>6
<1>5. ASSUME NEW c \in Callers, Count(c) \/ Items(c) PROVE Goal
  <2>1. UNCHANGED <<review, permissions, disabled>>
    BY <1>5 DEF Count, Items, Statement
  <2>2. \/ UNCHANGED lists
        \/ lists' = [lists EXCEPT ![copy[c]] = DeleteEmpty(@)]
    BY <1>5 DEF Count, Items, Statement
  <2>3. lists' \in [Lists -> Seq(ToSet(Groups))] /\ \A n \in Lists : Len(lists'[n]) > 0
    <3>1. CASE UNCHANGED lists
      BY <1>1, <3>1
    <3>2. CASE lists' = [lists EXCEPT ![copy[c]] = DeleteEmpty(@)]
      <4>1. \A n \in Lists : lists'[n] \in {lists[n], DeleteEmpty(lists[n])}
        BY <1>1, <3>2
      <4>2. \A n \in Lists : /\ DeleteEmpty(lists[n]) \in Seq(ToSet(Groups))
                             /\ Len(DeleteEmpty(lists[n])) > 0
        BY <1>1, DeleteEmptyType
      <4>3. \A n \in Lists : lists'[n] \in Seq(ToSet(Groups)) /\ Len(lists'[n]) > 0
        BY <1>1, <4>1, <4>2
      <4> QED BY <1>1, <3>2, <4>3
    <3> QED BY <2>2, <3>1, <3>2
  <2> QED BY <1>1, <2>1, <2>3
<1>6. ASSUME NEW c \in Callers, findSrchAddonDisabledClusters(c) PROVE Goal
  <2>1. \E some \in BOOLEAN, failed \in BOOLEAN : setDisabledClusters(some, failed)
    BY <1>6 DEF findSrchAddonDisabledClusters, Truth, TypeOK, ServicesOk
  <2>2. disabled' \in [some : BOOLEAN, err : BOOLEAN, age : 0 .. CacheTTL]
    BY <2>1 DEF setDisabledClusters
  <2>3. UNCHANGED <<review, permissions, lists>>
    BY <1>6 DEF findSrchAddonDisabledClusters
  <2> QED BY <1>1, <2>2, <2>3
<1>7. ASSUME Tick PROVE Goal
  BY <1>1, <1>7 DEF Tick, Older
<1>8. ASSUME NEW c \in Callers, \/ \E o \in Ops[c] : Receive(c, o)
                                \/ TimeoutHandler(c) \/ WebSocketCloseFunc(c)
                                \/ /\ Step(c)
                                   /\ ~getTokenReview(c) /\ ~getUserPermissions(c)
                                   /\ ~Count(c) /\ ~Items(c) /\ ~findSrchAddonDisabledClusters(c)
      PROVE  UNCHANGED <<review, permissions, lists, disabled>>
  BY <1>8 DEF Receive, TimeoutHandler, WebSocketCloseFunc, Step, GetConnPool, setDbConnInitialized,
              CheckDBAvailability, GetTokenReview, TrackConnection, CountConnection, GetUserData,
              CopyUserData, GetDisabledClusters, Leave, caches
<1>9. ASSUME ServiceChanges \/ UNCHANGED vars PROVE UNCHANGED <<review, permissions, lists, disabled>>
  BY <1>9 DEF ServiceChanges, vars, caches
<1> QED BY <1>2, <1>3, <1>4, <1>5, <1>6, <1>7, <1>8, <1>9 DEF Next, Step

\* The first state.
LEMMA AccessInit == Init => AccessInv
<1> SUFFICES ASSUME Init PROVE AccessInv
  OBVIOUS
<1> USE TTLAssumption, CallersAssumption DEF Init
<1>1. ServicesOk
  <2>1. pool \in BOOLEAN
    OBVIOUS
  <2>2. focus \in Services /\ up \in BOOLEAN /\ truth \in BOOLEAN /\ dbConnInitialized \in BOOLEAN
    OBVIOUS
  <2>3. pinged \in {0, 1} /\ changes \in 0 .. MaxChanges
    OBVIOUS
  <2> QED BY <2>1, <2>2, <2>3 DEF ServicesOk
<1>2. Groups \in Seq(ToSet(Groups)) /\ Len(Groups) > 0
  BY GroupsType
<1>3. CachesOk
  BY <1>2 DEF CachesOk
<1>4. CallersOk /\ LocksOk
  BY DEF CallersOk, LocksOk, Places, Stages
<1>5. ListsOk
  BY <1>2 DEF ListsOk
<1>6. ConnectionsOk
  <2>1. Open = {} /\ {c \in Callers : pc[c] \in {"count", "open"}} = {}
    BY DEF Open
  <2> QED BY <2>1, FS_EmptySet DEF ConnectionsOk
<1> QED BY <1>1, <1>3, <1>4, <1>5, <1>6 DEF AccessInv, TypeOK

\* The inductive invariant holds throughout.
LEMMA AccessAlways == Spec => []AccessInv
<1>1. AccessInv /\ [Next]_vars => AccessInv'
  <2> SUFFICES ASSUME AccessInv, [Next]_vars PROVE AccessInv'
    OBVIOUS
  <2>1. ServicesOk' /\ CachesOk' /\ CallersOk' /\ LocksOk'
    BY ServicesStep, CachesStep, CallersStep, LocksStep DEF AccessInv, TypeOK
  <2>2. ConnectionsOk'
    BY ConnectionsStep DEF AccessInv, TypeOK
  <2>3. ListsOk'
    BY CachesStep, CallersStep DEF AccessInv, ListsOk
  <2> QED BY <2>1, <2>2, <2>3 DEF AccessInv, TypeOK
<1> QED BY <1>1, AccessInit, PTL DEF Spec

\* The types, and that a lock is held by the caller whose call it is for.
THEOREM AccessTypes == Spec => []TypeOK
<1>1. AccessInv => TypeOK
  BY DEF AccessInv
<1> QED BY <1>1, AccessAlways, PTL

\* The metric is the number of open connections once none is coming in, for any
\* number of callers, rejected or let in.
THEOREM GaugeExact == Spec => []GaugeIsConnections
<1>1. AccessInv => GaugeIsConnections
  <2> SUFFICES ASSUME AccessInv, \A c \in Callers : pc[c] \notin {"track", "count"}
               PROVE  active = Open /\ gauge = Cardinality(active)
    BY DEF GaugeIsConnections, Open
  <2>1. active = Open
    BY DEF AccessInv, ConnectionsOk, Open
  <2> QED BY <2>1 DEF AccessInv, ConnectionsOk
<1> QED BY <1>1, AccessAlways, PTL
=============================================================================
