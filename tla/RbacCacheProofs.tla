--------------------------- MODULE RbacCacheProofs ---------------------------
(***************************************************************************)
(* Theorems about RbacCache, for any numbers of requests, names and        *)
(* changes, and any faults: types, one holder of usersLock, and no         *)
(* namespace missed by a user whose data is valid.                         *)
(***************************************************************************)
EXTENDS RbacCache, FiniteSetTheorems, SequenceTheorems, TLAPS

AddedEvent(n)  == [type |-> "ADDED", name |-> n]
AddedIn(s, n)  == \E i \in 1 .. Len(s) : s[i] = AddedEvent(n)
NsEvents       == events["namespaces"]

\* An event for n will be handled, or a new watch will bring one.
Coming(n) == AddedIn(NsEvents, n) \/ ~up["namespaces"]

\* usersLock has one holder among the requests, and while it holds the lock
\* the user has data that is not valid.
LockOk ==
  /\ \A r, s \in Requests : Updating(r) /\ Updating(s) => r = s
  /\ \A r \in Requests : Updating(r) => user # None /\ ~user.fresh

HandlingOk ==
  \A k \in Kinds : /\ handling[k] => up[k] /\ events[k] # <<>>
                   /\ ~up[k] => events[k] = <<>>

\* A namespace that is there was added after it was last deleted.
Readded(s, names) ==
  \A i \in 1 .. Len(s) : s[i].type = "DELETED" /\ s[i].name \in names =>
    \E j \in 1 .. Len(s) : i < j /\ s[j] = AddedEvent(s[i].name)
ReaddedOk == Readded(NsEvents, exists["namespaces"])

\* The list is neither being refreshed nor what a failed refresh left.
Complete == ~failed /\ \A r \in Requests : ~Listing(r, "namespaces")

ListOk ==
  Complete => \A n \in exists["namespaces"] : n \in Listed("namespaces") \/ Coming(n)

\* An event that has been put into the list but not into the users' data.
HandledOk ==
  Complete /\ handling["namespaces"] /\ HeadIs("namespaces", "ADDED") =>
    \/ Subject("namespaces") \notin exists["namespaces"]
    \/ Subject("namespaces") \in Listed("namespaces")
    \/ AddedIn(Tail(NsEvents), Subject("namespaces"))

Known(n) == n \in user.reviewed \/ Coming(n) \/ user.partial

ReviewsOk ==
  \A r \in Requests : pc[r] = "reviews" =>
    \A n \in exists["namespaces"] : Known(n) \/ n \in todo[r]
UserOk == Valid => \A n \in exists["namespaces"] : Known(n)

CacheInv ==
  /\ TypeOK /\ LockOk /\ HandlingOk /\ ReaddedOk /\ ListOk /\ HandledOk
  /\ ReviewsOk /\ UserOk

-----------------------------------------------------------------------------
\* The head of a queue of events and the rest of it.
LEMMA FirstEvent ==
  ASSUME NEW s \in Seq(Events), s # <<>>
  PROVE  /\ Len(s) \in Nat /\ 1 \in 1 .. Len(s) /\ Head(s) = s[1] /\ s[1] \in Events
         /\ Tail(s) \in Seq(Events) /\ Len(Tail(s)) = Len(s) - 1
         /\ \A i \in 1 .. Len(Tail(s)) : Tail(s)[i] = s[i + 1] /\ i + 1 \in 1 .. Len(s)
<1>1. Len(s) \in Nat /\ Len(s) # 0
  BY LenProperties, EmptySeq
<1>2. 1 \in 1 .. Len(s)
  BY <1>1
<1>3. s[1] \in Events
  BY <1>2, ElementOfSeq
<1>4. Head(s) = s[1]
  OBVIOUS
<1>5. /\ Tail(s) \in Seq(Events) /\ Len(Tail(s)) = Len(s) - 1
      /\ \A i \in 1 .. Len(Tail(s)) : Tail(s)[i] = s[i + 1]
  BY HeadTailProperties
<1>6. \A i \in 1 .. Len(Tail(s)) : i + 1 \in 1 .. Len(s)
  BY <1>1, <1>5
<1> QED BY <1>1, <1>2, <1>3, <1>4, <1>5, <1>6

\* An ADDED event stays in the queue when another is appended or handled.
LEMMA AddedStays ==
  ASSUME NEW s \in Seq(Events), NEW n, AddedIn(s, n)
  PROVE  /\ \A e \in Events : AddedIn(Append(s, e), n)
         /\ s # <<>> /\ Head(s) # AddedEvent(n) => AddedIn(Tail(s), n)
<1>1. PICK i \in 1 .. Len(s) : s[i] = AddedEvent(n)
  BY DEF AddedIn
<1>2. Len(s) \in Nat
  BY LenProperties
<1>3. ASSUME NEW e \in Events PROVE AddedIn(Append(s, e), n)
  <2>1. Append(s, e)[i] = s[i] /\ Len(Append(s, e)) = Len(s) + 1
    BY AppendProperties
  <2>2. i \in 1 .. Len(Append(s, e))
    BY <1>2, <2>1
  <2> QED BY <1>1, <2>1, <2>2 DEF AddedIn
<1>4. ASSUME s # <<>>, Head(s) # AddedEvent(n) PROVE AddedIn(Tail(s), n)
  <2>1. Head(s) = s[1]
    BY <1>4, FirstEvent
  <2>2. i # 1
    BY <1>1, <1>4, <2>1
  <2>3. Len(Tail(s)) = Len(s) - 1
    BY <1>4, FirstEvent
  <2>4. i - 1 \in 1 .. Len(Tail(s)) /\ (i - 1) + 1 = i
    BY <1>2, <2>2, <2>3
  <2>5. Tail(s)[i - 1] = s[(i - 1) + 1]
    BY <1>4, <2>4, FirstEvent
  <2> QED BY <1>1, <2>4, <2>5 DEF AddedIn
<1> QED BY <1>3, <1>4

\* What is appended is in the queue.
LEMMA AddedLast ==
  ASSUME NEW s \in Seq(Events), NEW n, AddedEvent(n) \in Events
  PROVE  AddedIn(Append(s, AddedEvent(n)), n)
<1>1. /\ Len(Append(s, AddedEvent(n))) = Len(s) + 1 /\ Len(s) \in Nat
      /\ Append(s, AddedEvent(n))[Len(s) + 1] = AddedEvent(n)
  BY AppendProperties, LenProperties
<1>2. Len(s) + 1 \in 1 .. Len(Append(s, AddedEvent(n)))
  BY <1>1
<1> QED BY <1>1, <1>2 DEF AddedIn

\* A namespace whose deletion is at the head of the queue is gone, or its
\* addition comes later.
LEMMA DeletedHead ==
  ASSUME NEW s \in Seq(Events), s # <<>>, NEW names, Readded(s, names),
         Head(s).type = "DELETED", Head(s).name \in names
  PROVE  AddedIn(Tail(s), Head(s).name) /\ AddedIn(s, Head(s).name)
<1>1. Head(s) = s[1] /\ 1 \in 1 .. Len(s)
  BY FirstEvent
<1>2. PICK j \in 1 .. Len(s) : 1 < j /\ s[j] = AddedEvent(Head(s).name)
  BY <1>1 DEF Readded
<1>3. AddedIn(s, Head(s).name)
  BY <1>2 DEF AddedIn
<1>4. Head(s) # AddedEvent(Head(s).name)
  BY DEF AddedEvent
<1> QED BY <1>3, <1>4, AddedStays

\* A new watch brings an event for every namespace there is.
LEMMA ReplayedAll ==
  ASSUME NEW k \in Kinds, exists[k] \subseteq Names
  PROVE  /\ Replayed(k) \in Seq(Events)
         /\ \A i \in 1 .. Len(Replayed(k)) : Replayed(k)[i].type = "ADDED"
         /\ \A n \in exists[k] : AddedIn(Replayed(k), n)
<1> DEFINE S == exists[k]
           c == Cardinality(S)
           f == SetToSeq(S)
<1>1. IsFiniteSet(S)
  BY FS_Subset, RbacCacheAssumption
<1>2. c \in Nat /\ ExistsBijection(1 .. c, S)
  BY <1>1, FS_CardinalityType
<1>3. PICK g \in [1 .. c -> S] : IsInjective(g)
  <2>1. PICK g \in Bijection(1 .. c, S) : TRUE
    BY <1>2 DEF ExistsBijection
  <2> QED BY <2>1 DEF Bijection, Injection
<1>4. f \in [1 .. c -> S] /\ IsInjective(f)
  BY <1>3 DEF SetToSeq
<1>5. f \in Surjection(1 .. c, S)
  <2>1. f \in Injection(1 .. c, S)
    BY <1>4 DEF Injection
  <2>2. Cardinality(1 .. c) = c
    BY <1>2, FS_Interval
  <2>3. IsFiniteSet(1 .. c)
    BY <1>2, FS_Interval
  <2> QED BY <1>1, <2>1, <2>2, FS_Injection
<1>6. \A n \in S : \E i \in 1 .. c : f[i] = n
  BY <1>5 DEF Surjection
<1>7. Len(f) = c
  BY <1>2, <1>4
<1>8. Replayed(k) = [i \in 1 .. c |-> [type |-> "ADDED", name |-> f[i]]]
  BY <1>7 DEF Replayed
<1> HIDE DEF f, c, S
<1>9. ASSUME NEW i \in 1 .. c
      PROVE  [type |-> "ADDED", name |-> f[i]] \in Events /\ f[i] \in S
  BY <1>4 DEF Events, S
<1>10. Replayed(k) \in Seq(Events) /\ Len(Replayed(k)) = c
  BY <1>2, <1>8, <1>9
<1>11. ASSUME NEW n \in S PROVE AddedIn(Replayed(k), n)
  <2>1. PICK i \in 1 .. c : f[i] = n
    BY <1>6
  <2>2. Replayed(k)[i] = AddedEvent(n)
    BY <1>8, <2>1 DEF AddedEvent
  <2> QED BY <1>10, <2>2 DEF AddedIn
<1>12. ASSUME NEW i \in 1 .. Len(Replayed(k)) PROVE Replayed(k)[i].type = "ADDED"
  <2>1. i \in 1 .. c
    BY <1>10
  <2>2. Replayed(k)[i] = [type |-> "ADDED", name |-> f[i]]
    BY <1>8, <2>1
  <2> QED BY <2>2
<1> QED BY <1>10, <1>11, <1>12 DEF S

\* The event at the head of a queue.
LEMMA HeadEvent ==
  ASSUME TypeOK, NEW k \in Kinds, NEW type, HeadIs(k, type)
  PROVE  /\ Head(events[k]) \in Events /\ Subject(k) \in Names
         /\ Head(events[k]).type = type /\ Head(events[k]).name = Subject(k)
         /\ events[k] # <<>> /\ events[k] \in Seq(Events) /\ Tail(events[k]) \in Seq(Events)
<1>1. events[k] \in Seq(Events) /\ events[k] # <<>> /\ Head(events[k]).type = type
  BY DEF TypeOK, HeadIs
<1>2. Head(events[k]) \in Events /\ Tail(events[k]) \in Seq(Events)
  BY <1>1, FirstEvent
<1> QED BY <1>1, <1>2 DEF Subject, Events

\* The rules of a namespace only add to the user's data.
LEMMA Reviewed ==
  ASSUME TypeOK, user # None, NEW n \in Names, ReviewNamespace(n)
  PROVE  /\ user \in UserData /\ user' \in UserData /\ user' # None
         /\ user'.reviewed = user.reviewed \cup {n}
         /\ user'.partial = user.partial /\ user'.fresh = user.fresh
         /\ changes' \in 0 .. MaxChanges
<1>1. user \in UserData
  BY DEF TypeOK
<1> DEFINE asked == [user EXCEPT !.reviewed = @ \cup {n}]
<1>2. /\ asked \in UserData /\ asked.reviewed = user.reviewed \cup {n}
      /\ asked.partial = user.partial /\ asked.fresh = user.fresh
  BY <1>1 DEF UserData
<1>3. user' = asked \/ user' = Granted(asked, n)
  BY DEF ReviewNamespace
<1> HIDE DEF asked
<1>4. AsCluster(n) \subseteq Names
  BY DEF AsCluster
<1>5. /\ Granted(asked, n) \in UserData /\ Granted(asked, n).reviewed = asked.reviewed
      /\ Granted(asked, n).partial = asked.partial /\ Granted(asked, n).fresh = asked.fresh
  BY <1>2, <1>4 DEF Granted, UserData
<1>6. changes' \in 0 .. MaxChanges
  BY RbacCacheAssumption DEF TypeOK, ReviewNamespace, Fault, NoFault, Happens
<1> QED BY <1>1, <1>2, <1>3, <1>5, <1>6, NilAssumption

\* Every step keeps the variables typed.
LEMMA TypeStep ==
  ASSUME TypeOK, LockOk, [Next]_vars
  PROVE  TypeOK'
<1> USE DEF TypeOK
<1>0. /\ NoCopy \in Copies /\ NewUser \in UserData /\ <<>> \in Seq(Events)
      /\ \A u \in UserData : Copy(u) \in Copies
      /\ \A u \in UserData : \A b \in BOOLEAN : [u EXCEPT !.fresh = b] \in UserData /\ [u EXCEPT !.partial = b] \in UserData
  <2>1. NoCopy \in Copies /\ NewUser \in UserData
    BY DEF NoCopy, Copies, NewUser, UserData
  <2>2. <<>> \in Seq(Events)
    OBVIOUS
  <2>3. ASSUME NEW u \in UserData PROVE Copy(u) \in Copies
    BY DEF UserData, Copies, Copy
  <2>4. ASSUME NEW u \in UserData, NEW b \in BOOLEAN
        PROVE  [u EXCEPT !.fresh = b] \in UserData /\ [u EXCEPT !.partial = b] \in UserData
    BY DEF UserData
  <2> QED BY <2>1, <2>2, <2>3, <2>4
<1>h. Happens \/ NoFault => changes' \in 0 .. MaxChanges
  BY RbacCacheAssumption DEF Happens, NoFault
<1>1. ASSUME NEW k \in Kinds, NEW n \in Names, Change(k, n) PROVE TypeOK'
  <2>1. exists' \in [Kinds -> SUBSET Names] /\ exists'["clusters"] \subseteq Clusters
    BY <1>1 DEF Change, Kinds
  <2>2. events' \in [Kinds -> Seq(Events)]
    <3>1. PICK type \in {"ADDED", "DELETED"} : Notify(k, type, n)
      BY <1>1 DEF Change
    <3> DEFINE e == [type |-> type, name |-> n]
    <3>2. e \in Events
      BY DEF Events
    <3> HIDE DEF e
    <3>3. Append(events[k], e) \in Seq(Events)
      BY <3>2, AppendProperties
    <3>4. events' = events \/ events' = [events EXCEPT ![k] = Append(events[k], e)]
      BY <3>1 DEF Notify, e
    <3> QED BY <3>3, <3>4
  <2>3. changes' \in 0 .. MaxChanges
    BY <1>1, <1>h DEF Change
  <2> QED BY <1>1, <2>1, <2>2, <2>3 DEF Change, sharedVars, requestVars
<1>2. ASSUME NEW n \in Names, ChangePolicy(n) PROVE TypeOK'
  <2>1. permitted' \subseteq Names /\ changes' \in 0 .. MaxChanges
    BY <1>2, <1>h DEF ChangePolicy
  <2> QED BY <1>2, <2>1 DEF ChangePolicy, sharedVars, requestVars, watchVars
<1>3. CASE ExpireList
  BY <1>3 DEF ExpireList, worldVars, requestVars, watchVars
<1>4. CASE ExpireUser
  <2>1. user' \in UserData
    BY <1>0, <1>4 DEF ExpireUser
  <2> QED BY <1>4, <2>1 DEF ExpireUser, worldVars, sharedVars, requestVars, watchVars
<1>5. CASE Panic
  BY <1>0, <1>5 DEF Panic, worldVars, RequestPc
<1>6. ASSUME NEW r \in Requests, PopulateSharedCache(r) PROVE TypeOK'
  <2>1. task' \in [Requests -> [Kinds -> {"none", "start", "listing"}]]
    BY <1>6 DEF PopulateSharedCache
  <2> QED BY <1>6, <2>1 DEF PopulateSharedCache, worldVars, sharedVars, watchVars
<1>7. ASSUME NEW r \in Requests, UseCached(r) PROVE TypeOK'
  <2>1. answer' \in [Requests -> Copies]
    BY <1>0, <1>7 DEF UseCached, Valid
  <2>2. /\ pc' \in [Requests -> RequestPc] /\ todo' = todo
        /\ \A s \in Requests : todo[s] # {} => pc'[s] = "reviews"
    BY <1>7 DEF UseCached, Go, RequestPc
  <2> QED BY <1>7, <2>1, <2>2 DEF UseCached, worldVars, sharedVars, watchVars
<1>8. ASSUME NEW r \in Requests, NewUserData(r) PROVE TypeOK'
  <2>1. /\ pc' \in [Requests -> RequestPc] /\ todo' = todo
        /\ \A s \in Requests : todo[s] # {} => pc'[s] = "reviews"
    BY <1>8 DEF NewUserData, Go, RequestPc
  <2> QED BY <1>0, <1>8, <2>1 DEF NewUserData, worldVars, sharedVars, watchVars
<1>l. ASSUME NEW k \in Kinds, Clear(k)
      PROVE  list' \in [Kinds -> (SUBSET Names) \cup {None}] /\ failed' \in BOOLEAN /\ fresh' \in BOOLEAN
  <2>1. list' \in [Kinds -> (SUBSET Names) \cup {None}]
    BY <1>l DEF Clear
  <2>2. failed' \in BOOLEAN /\ fresh' \in BOOLEAN
    BY <1>l DEF Clear
  <2> QED BY <2>1, <2>2
<1>r. ASSUME NEW k \in Kinds, Refresh(k)
      PROVE  /\ list' \in [Kinds -> (SUBSET Names) \cup {None}] /\ failed' \in BOOLEAN /\ fresh' \in BOOLEAN
             /\ changes' \in 0 .. MaxChanges
  <2>1. list' \in [Kinds -> (SUBSET Names) \cup {None}]
    BY <1>r DEF Refresh
  <2>2. failed' \in BOOLEAN /\ fresh' \in BOOLEAN
    BY <1>r DEF Refresh
  <2> QED BY <1>h, <1>r, <2>1, <2>2 DEF Refresh, Fault
<1>9. ASSUME NEW r \in Requests, NEW k \in Kinds, StartTask(r, k) PROVE TypeOK'
  <2>1. task' \in [Requests -> [Kinds -> {"none", "start", "listing"}]]
    <3>1. PICK t \in {"none", "listing"} : task' = [task EXCEPT ![r][k] = t]
      BY <1>9 DEF StartTask
    <3> QED BY <3>1
  <2>2. list' \in [Kinds -> (SUBSET Names) \cup {None}] /\ failed' \in BOOLEAN /\ fresh' \in BOOLEAN
    BY <1>9, <1>l DEF StartTask, sharedVars
  <2> QED BY <1>9, <2>1, <2>2 DEF StartTask, worldVars, watchVars
<1>10. ASSUME NEW r \in Requests, NEW k \in Kinds, EndTask(r, k) PROVE TypeOK'
  <2>1. task' \in [Requests -> [Kinds -> {"none", "start", "listing"}]]
    BY <1>10 DEF EndTask
  <2> QED BY <1>10, <1>r, <2>1 DEF EndTask, worldVars, watchVars
<1>11. ASSUME NEW r \in Requests, AllAccess(r) PROVE TypeOK'
  <2>1. Everything \in UserData
    BY <1>0 DEF Everything, NewUser, UserData
  <2>2. /\ pc' \in [Requests -> RequestPc] /\ todo' = todo
        /\ \A s \in Requests : todo[s] # {} => pc'[s] = "reviews"
    BY <1>11 DEF AllAccess, Go, RequestPc
  <2>3. user' \in UserData \cup {None} /\ answer' \in [Requests -> Copies]
    BY <1>0, <1>11, <2>1 DEF AllAccess
  <2>4. changes' \in 0 .. MaxChanges
    BY <1>h, <1>11 DEF AllAccess, Fault
  <2> QED BY <1>11, <2>2, <2>3, <2>4 DEF AllAccess, worldVars, sharedVars, watchVars
<1>u. ASSUME NEW r \in Requests, NEW names \in SUBSET Names, NEW err \in BOOLEAN,
             UseNamespaces(r, names, err), pc[r] # "reviews", user \in UserData
      PROVE  /\ pc' \in [Requests -> RequestPc] /\ todo' \in [Requests -> SUBSET Names]
             /\ \A s \in Requests : todo'[s] # {} => pc'[s] = "reviews"
             /\ user' \in UserData /\ answer' \in [Requests -> Copies]
  <2>1. CASE names # {}
    <3>1. /\ pc' = [pc EXCEPT ![r] = "reviews"] /\ todo' = [todo EXCEPT ![r] = names]
          /\ user' = [user EXCEPT !.partial = err] /\ answer' = answer
      BY <1>u, <2>1 DEF UseNamespaces
    <3>2. user' \in UserData
      BY <1>0, <1>u, <3>1
    <3> QED BY <3>1, <3>2 DEF RequestPc
  <2>2. CASE names = {}
    <3>1. /\ pc' = [pc EXCEPT ![r] = IF err THEN "idle" ELSE "answered"] /\ user' = user /\ todo' = todo
          /\ answer' = [answer EXCEPT ![r] = IF err THEN NoCopy ELSE Copy(user)]
      BY <1>u, <2>2 DEF UseNamespaces
    <3>2. pc' \in [Requests -> RequestPc] /\ \A s \in Requests : todo'[s] # {} => pc'[s] = "reviews"
      BY <1>u, <3>1 DEF RequestPc
    <3>3. answer' \in [Requests -> Copies]
      BY <1>0, <1>u, <3>1
    <3> QED BY <1>u, <3>1, <3>2, <3>3
  <2> QED BY <2>1, <2>2
<1>12. ASSUME NEW r \in Requests, GetNamespaces(r) PROVE TypeOK'
  <2>1. user \in UserData /\ pc[r] = "namespaces"
    BY <1>12 DEF GetNamespaces, LockOk, Updating
  <2>2. CASE fresh
    <3>1. UseNamespaces(r, Listed("namespaces"), failed) /\ UNCHANGED sharedVars
      BY <1>12, <2>2 DEF GetNamespaces
    <3>2. Listed("namespaces") \in SUBSET Names
      BY DEF Listed, Kinds
    <3>3. pc[r] # "reviews" /\ failed \in BOOLEAN
      BY <2>1
    <3>4. /\ pc' \in [Requests -> RequestPc] /\ todo' \in [Requests -> SUBSET Names]
          /\ \A s \in Requests : todo'[s] # {} => pc'[s] = "reviews"
          /\ user' \in UserData /\ answer' \in [Requests -> Copies]
      BY <1>u, <2>1, <3>1, <3>2, <3>3
    <3> QED BY <1>12, <3>1, <3>4 DEF GetNamespaces, worldVars, watchVars, sharedVars
  <2>3. CASE ~fresh
    <3>1. Clear("namespaces") /\ pc' = [pc EXCEPT ![r] = "listing"] /\ UNCHANGED <<user, todo, answer>>
      BY <1>12, <2>3 DEF GetNamespaces
    <3>2. pc' \in [Requests -> RequestPc] /\ \A s \in Requests : todo'[s] # {} => pc'[s] = "reviews"
      BY <2>1, <3>1 DEF RequestPc
    <3>3. list' \in [Kinds -> (SUBSET Names) \cup {None}] /\ failed' \in BOOLEAN /\ fresh' \in BOOLEAN
      BY <1>l, <3>1 DEF Kinds
    <3> QED BY <1>12, <3>1, <3>2, <3>3 DEF GetNamespaces, worldVars, watchVars
  <2> QED BY <2>2, <2>3
<1>13. ASSUME NEW r \in Requests, ListNamespaces(r) PROVE TypeOK'
  <2>1. user \in UserData /\ pc[r] = "listing"
    BY <1>13 DEF ListNamespaces, LockOk, Updating
  <2>2. /\ list' \in [Kinds -> (SUBSET Names) \cup {None}] /\ failed' \in BOOLEAN /\ fresh' \in BOOLEAN
        /\ changes' \in 0 .. MaxChanges
    BY <1>13, <1>r DEF ListNamespaces, Kinds
  <2>3. Listed("namespaces")' \in SUBSET Names
    BY <2>2 DEF Listed, Kinds
  <2>4. UseNamespaces(r, Listed("namespaces")', failed')
    BY <1>13 DEF ListNamespaces
  <2>5. /\ pc' \in [Requests -> RequestPc] /\ todo' \in [Requests -> SUBSET Names]
        /\ \A s \in Requests : todo'[s] # {} => pc'[s] = "reviews"
        /\ user' \in UserData /\ answer' \in [Requests -> Copies]
    BY <1>u, <2>1, <2>2, <2>3, <2>4
  <2> QED BY <1>13, <2>2, <2>5 DEF ListNamespaces, worldVars, watchVars
<1>14. ASSUME NEW r \in Requests, NEW n \in Names, Review(r, n) PROVE TypeOK'
  <2>1. user' \in UserData /\ changes' \in 0 .. MaxChanges
    BY <1>14, Reviewed DEF Review, LockOk, Updating
  <2>2. todo' \in [Requests -> SUBSET Names] /\ \A s \in Requests : todo'[s] # {} => pc[s] = "reviews"
    BY <1>14 DEF Review
  <2> QED BY <1>14, <2>1, <2>2 DEF Review, worldVars, sharedVars, watchVars
<1>15. ASSUME NEW r \in Requests, EndUpdate(r) PROVE TypeOK'
  <2>1. user \in UserData
    BY <1>15 DEF EndUpdate, Go, LockOk, Updating
  <2>2. user' \in UserData /\ answer' \in [Requests -> Copies]
    <3>1. PICK valid \in BOOLEAN : user' = [user EXCEPT !.fresh = valid]
      BY <1>15 DEF EndUpdate
    <3>2. Copy(user) \in Copies
      BY <1>0, <2>1
    <3>3. answer' = [answer EXCEPT ![r] = Copy(user)]
      BY <1>15 DEF EndUpdate
    <3> HIDE DEF UserData, Copies, Copy
    <3> QED BY <1>0, <2>1, <3>1, <3>2, <3>3
  <2>3. pc' \in [Requests -> RequestPc] /\ todo' = todo
        /\ \A s \in Requests : todo[s] # {} => pc'[s] = "reviews"
    BY <1>15 DEF EndUpdate, Go, RequestPc
  <2> QED BY <1>15, <2>2, <2>3 DEF EndUpdate, worldVars, sharedVars, watchVars
<1>16. ASSUME NEW r \in Requests, End(r) PROVE TypeOK'
  <2>1. pc' \in [Requests -> RequestPc] /\ todo' = todo
        /\ \A s \in Requests : todo[s] # {} => pc'[s] = "reviews"
    BY <1>16 DEF End, Go, RequestPc
  <2>2. answer' \in [Requests -> Copies]
    BY <1>0, <1>16 DEF End
  <2> QED BY <1>16, <2>1, <2>2 DEF End, worldVars, sharedVars, watchVars
<1>17. ASSUME NEW k \in Kinds, WatchStarts(k) PROVE TypeOK'
  <2>1. events' \in [Kinds -> Seq(Events)]
    BY <1>17, ReplayedAll DEF WatchStarts
  <2> QED BY <1>17, <2>1 DEF WatchStarts, worldVars, sharedVars, requestVars
<1>18. ASSUME NEW k \in Kinds, WatchBreaks(k) PROVE TypeOK'
  BY <1>0, <1>h, <1>18 DEF WatchBreaks, Fault, worldVars, sharedVars, requestVars
<1>19. ASSUME NEW k \in Kinds, AddToList(k) PROVE TypeOK'
  <2>1. Subject(k) \in Names
    BY <1>19, HeadEvent DEF AddToList, EditList
  <2>2. list' \in [Kinds -> (SUBSET Names) \cup {None}]
    BY <1>19, <2>1 DEF AddToList
  <2> QED BY <1>19, <2>2 DEF AddToList, EditList, worldVars, requestVars
<1>20. ASSUME NEW k \in Kinds, AddToUsers(k) PROVE TypeOK'
  <2>1. Subject(k) \in Names /\ Tail(events[k]) \in Seq(Events)
    BY <1>20, HeadEvent DEF AddToUsers, EditUsers
  <2>2. user' \in UserData \cup {None} /\ changes' \in 0 .. MaxChanges
    BY <1>20, <2>1, Reviewed DEF AddToUsers
  <2>3. events' \in [Kinds -> Seq(Events)]
    BY <1>20, <2>1 DEF AddToUsers, EditUsers
  <2> QED BY <1>20, <2>2, <2>3 DEF AddToUsers, EditUsers, worldVars, sharedVars, requestVars
<1>21. ASSUME NEW k \in Kinds, RemoveFromList(k) PROVE TypeOK'
  <2>1. list' \in [Kinds -> (SUBSET Names) \cup {None}]
    BY <1>21 DEF RemoveFromList
  <2> QED BY <1>21, <2>1 DEF RemoveFromList, EditList, worldVars, requestVars
<1>22. ASSUME NEW k \in Kinds, RemoveFromUsers(k) PROVE TypeOK'
  <2>1. Tail(events[k]) \in Seq(Events)
    BY <1>22, HeadEvent DEF RemoveFromUsers, EditUsers
  <2>2. user' \in UserData \cup {None} /\ changes' = changes
    BY <1>22 DEF RemoveFromUsers, Without, UserData, NoFault
  <2>3. events' \in [Kinds -> Seq(Events)]
    BY <1>22, <2>1 DEF RemoveFromUsers, EditUsers
  <2> QED BY <1>22, <2>2, <2>3 DEF RemoveFromUsers, EditUsers, worldVars, sharedVars, requestVars
<1>23. CASE UNCHANGED vars
  BY <1>23 DEF vars, worldVars, sharedVars, requestVars, watchVars
<1> QED
  BY <1>1, <1>2, <1>3, <1>4, <1>5, <1>6, <1>7, <1>8, <1>9, <1>10, <1>11, <1>12, <1>13, <1>14, <1>15,
     <1>16, <1>17, <1>18, <1>19, <1>20, <1>21, <1>22, <1>23 DEF Next, RequestStep, HandlerStep

-----------------------------------------------------------------------------
\* Handling an event does not lose what was added again.
LEMMA ReaddedTail ==
  ASSUME NEW s \in Seq(Events), s # <<>>, NEW names, Readded(s, names)
  PROVE  Readded(Tail(s), names)
<1> SUFFICES ASSUME NEW i \in 1 .. Len(Tail(s)), Tail(s)[i].type = "DELETED", Tail(s)[i].name \in names
             PROVE  \E j \in 1 .. Len(Tail(s)) : i < j /\ Tail(s)[j] = AddedEvent(Tail(s)[i].name)
  BY DEF Readded
<1>1. /\ Len(s) \in Nat /\ Len(Tail(s)) = Len(s) - 1
      /\ \A k \in 1 .. Len(Tail(s)) : Tail(s)[k] = s[k + 1] /\ k + 1 \in 1 .. Len(s)
  BY FirstEvent
<1>2. Tail(s)[i] = s[i + 1] /\ i + 1 \in 1 .. Len(s)
  BY <1>1
<1>3. PICK m \in 1 .. Len(s) : i + 1 < m /\ s[m] = AddedEvent(s[i + 1].name)
  BY <1>2 DEF Readded
<1>4. m - 1 \in 1 .. Len(Tail(s)) /\ i < m - 1 /\ (m - 1) + 1 = m
  BY <1>1, <1>3
<1>5. Tail(s)[m - 1] = s[(m - 1) + 1]
  BY <1>1, <1>4
<1> QED BY <1>2, <1>3, <1>4, <1>5

\* The event of a change keeps it true, too.
LEMMA ReaddedAppend ==
  ASSUME NEW s \in Seq(Events), NEW names, Readded(s, names), NEW e \in Events, NEW newNames,
         \/ e = AddedEvent(e.name) /\ newNames = names \cup {e.name}
         \/ newNames = names \ {e.name}
  PROVE  Readded(Append(s, e), newNames)
<1> DEFINE t == Append(s, e)
<1>1. /\ Len(t) = Len(s) + 1 /\ Len(s) \in Nat /\ t[Len(s) + 1] = e
      /\ \A i \in 1 .. Len(s) : t[i] = s[i]
  BY AppendProperties, LenProperties
<1> HIDE DEF t
<1> SUFFICES ASSUME NEW i \in 1 .. Len(t), t[i].type = "DELETED", t[i].name \in newNames
             PROVE  \E j \in 1 .. Len(t) : i < j /\ t[j] = AddedEvent(t[i].name)
  BY DEF Readded, t
<1>2. CASE i = Len(s) + 1
  <2>1. e.type = "DELETED" /\ e.name \in newNames
    BY <1>1, <1>2
  <2>2. e # AddedEvent(e.name)
    BY <2>1 DEF AddedEvent
  <2> QED BY <2>1, <2>2
<1>3. CASE i # Len(s) + 1
  <2>1. i \in 1 .. Len(s) /\ t[i] = s[i]
    BY <1>1, <1>3
  <2>2. CASE t[i].name \in names
    <3>1. PICK j \in 1 .. Len(s) : i < j /\ s[j] = AddedEvent(s[i].name)
      BY <2>1, <2>2 DEF Readded
    <3>2. j \in 1 .. Len(t) /\ t[j] = s[j]
      BY <1>1
    <3> QED BY <2>1, <3>1, <3>2
  <2>3. CASE t[i].name \notin names
    <3>1. e = AddedEvent(e.name) /\ t[i].name = e.name
      BY <2>3
    <3>2. Len(s) + 1 \in 1 .. Len(t) /\ i < Len(s) + 1
      BY <1>1, <2>1
    <3> QED BY <1>1, <3>1, <3>2
  <2> QED BY <2>2, <2>3
<1> QED BY <1>2, <1>3

\* The head of a queue stays when an event is appended.
LEMMA TailAppend ==
  ASSUME NEW s \in Seq(Events), s # <<>>, NEW e \in Events
  PROVE  Head(Append(s, e)) = Head(s) /\ Tail(Append(s, e)) = Append(Tail(s), e)
<1> DEFINE t == Append(s, e)
           u == Append(Tail(s), e)
<1>1. /\ t \in Seq(Events) /\ t # <<>> /\ Len(t) = Len(s) + 1 /\ t[Len(s) + 1] = e
      /\ \A i \in 1 .. Len(s) : t[i] = s[i]
  BY AppendProperties
<1>2. /\ Len(s) \in Nat /\ 1 \in 1 .. Len(s) /\ Head(s) = s[1] /\ Tail(s) \in Seq(Events)
      /\ Len(Tail(s)) = Len(s) - 1
      /\ \A i \in 1 .. Len(Tail(s)) : Tail(s)[i] = s[i + 1] /\ i + 1 \in 1 .. Len(s)
  BY FirstEvent
<1>3. /\ u \in Seq(Events) /\ Len(u) = Len(Tail(s)) + 1 /\ u[Len(Tail(s)) + 1] = e
      /\ \A i \in 1 .. Len(Tail(s)) : u[i] = Tail(s)[i]
  BY <1>2, AppendProperties
<1> HIDE DEF t, u
<1>4. /\ Head(t) = t[1] /\ Tail(t) \in Seq(Events) /\ Len(Tail(t)) = Len(t) - 1
      /\ \A i \in 1 .. Len(Tail(t)) : Tail(t)[i] = t[i + 1]
  BY <1>1, FirstEvent
<1>s. Len(Tail(t)) = Len(s) /\ Len(Tail(s)) = Len(s) - 1 /\ Len(s) \in Nat
  BY <1>1, <1>2, <1>4
<1>5. ASSUME NEW i \in 1 .. Len(Tail(t)) PROVE Tail(t)[i] = u[i]
  <2>1. CASE i = Len(s)
    BY <1>1, <1>2, <1>3, <1>4, <2>1
  <2>2. CASE i # Len(s)
    <3>1. i \in 1 .. Len(Tail(s)) /\ i + 1 \in 1 .. Len(s)
      <4>1. i \in 1 .. Len(s)
        BY <1>s
      <4>2. \A n \in Nat : \A j \in 1 .. n : j # n => j \in 1 .. (n - 1) /\ j + 1 \in 1 .. n
        OBVIOUS
      <4> QED BY <1>s, <2>2, <4>1, <4>2
    <3> QED BY <1>1, <1>2, <1>3, <1>4, <3>1
  <2> QED BY <2>1, <2>2
<1>6. Len(Tail(t)) = Len(u)
  BY <1>1, <1>2, <1>3, <1>4
<1>7. Tail(t) = u
  BY <1>3, <1>4, <1>5, <1>6, SeqEqual
<1> QED BY <1>1, <1>2, <1>4, <1>7 DEF t, u

\* What a change in the hub cluster does to the events.
LEMMA ChangeEvents ==
  ASSUME TypeOK, HandlingOk, ReaddedOk, NEW k \in Kinds, NEW n \in Names, Change(k, n)
  PROVE  /\ ReaddedOk' /\ HandlingOk'
         /\ \A m \in exists'["namespaces"] :
              m \notin exists["namespaces"] \/ Coming(m) => Coming(m)'
         /\ handling["namespaces"] =>
              /\ Head(events'["namespaces"]) = Head(events["namespaces"])
              /\ \A m \in exists'["namespaces"] :
                   m \notin exists["namespaces"] \/ AddedIn(Tail(events["namespaces"]), m)
                     => AddedIn(Tail(events'["namespaces"]), m)
<1>0. "namespaces" \in Kinds
  BY DEF Kinds
<1> DEFINE ns == "namespaces"
<1>1. PICK type \in {"ADDED", "DELETED"} :
        /\ Notify(k, type, n)
        /\ \/ type = "ADDED" /\ exists' = [exists EXCEPT ![k] = @ \cup {n}]
           \/ type = "DELETED" /\ exists' = [exists EXCEPT ![k] = @ \ {n}]
  BY DEF Change
<1> DEFINE e == [type |-> type, name |-> n]
           t == Append(events[k], e)
<1>2. e \in Events /\ e.name = n /\ (type = "ADDED" => e = AddedEvent(n))
  BY DEF Events, AddedEvent
<1>3. events[k] \in Seq(Events)
  BY DEF TypeOK
<1> HIDE DEF e
<1>4. t \in Seq(Events) /\ t # <<>> /\ (events[k] # <<>> => Head(t) = Head(events[k]))
  <2>1. /\ Len(t) = Len(events[k]) + 1 /\ Len(events[k]) \in Nat /\ t \in Seq(Events)
        /\ \A i \in 1 .. Len(events[k]) : t[i] = events[k][i]
    BY <1>2, <1>3, AppendProperties, LenProperties
  <2>2. t # <<>>
    BY <1>2, <1>3, AppendProperties
  <2>3. ASSUME events[k] # <<>> PROVE Head(t) = Head(events[k])
    <3>1. Head(events[k]) = events[k][1] /\ 1 \in 1 .. Len(events[k])
      BY <1>3, <2>3, FirstEvent
    <3>2. Head(t) = t[1]
      BY <2>1, <2>2, FirstEvent
    <3> QED BY <2>1, <3>1, <3>2
  <2> QED BY <2>1, <2>2, <2>3
<1>5. /\ up' = up /\ handling' = handling
      /\ events' = IF up[k] THEN [events EXCEPT ![k] = t] ELSE events
  BY <1>1 DEF Change, Notify, e
<1> HIDE DEF t
<1>6. HandlingOk'
  <2> SUFFICES ASSUME NEW j \in Kinds
               PROVE  /\ handling[j] => up[j] /\ events'[j] # <<>>
                      /\ ~up[j] => events'[j] = <<>>
    BY <1>5 DEF HandlingOk
  <2>1. CASE j = k /\ up[k]
    BY <1>4, <1>5, <2>1 DEF TypeOK
  <2>2. CASE j # k \/ ~up[k]
    BY <1>5, <2>2 DEF TypeOK, HandlingOk
  <2> QED BY <2>1, <2>2
<1>7. CASE k # ns
  <2>1. exists'[ns] = exists[ns] /\ events'[ns] = events[ns] /\ up' = up
    BY <1>0, <1>1, <1>5, <1>7 DEF TypeOK
  <2> QED BY <1>6, <2>1 DEF ReaddedOk, NsEvents, Coming
<1>8. CASE k = ns
  <2>1. \/ e = AddedEvent(n) /\ exists'[ns] = exists[ns] \cup {n}
        \/ exists'[ns] = exists[ns] \ {n}
    BY <1>0, <1>1, <1>2, <1>8 DEF TypeOK
  <2>2. CASE up[ns]
    <3>1. events'[ns] = Append(events[ns], e) /\ events'[ns] = t
      BY <1>0, <1>5, <1>8, <2>2 DEF TypeOK, t
    <3>2. ReaddedOk'
      <4>1. Readded(events[ns], exists[ns])
        BY DEF ReaddedOk, NsEvents
      <4>2. Readded(Append(events[ns], e), exists'[ns])
        BY <1>2, <1>3, <1>8, <2>1, <4>1, ReaddedAppend
      <4> QED BY <3>1, <4>2 DEF ReaddedOk, NsEvents
    <3>3. ASSUME NEW m \in exists'[ns], m \notin exists[ns] \/ Coming(m)
          PROVE  Coming(m)'
      <4>1. CASE Coming(m)
        <5>1. AddedIn(events[ns], m)
          BY <2>2, <4>1 DEF Coming, NsEvents
        <5>2. AddedIn(Append(events[ns], e), m)
          BY <1>2, <1>3, <1>8, <5>1, AddedStays
        <5> QED BY <3>1, <5>2 DEF Coming, NsEvents
      <4>2. CASE m \notin exists[ns]
        <5>1. m = n /\ e = AddedEvent(m)
          BY <2>1, <3>3, <4>2
        <5>2. AddedIn(Append(events[ns], e), m)
          BY <1>2, <1>3, <1>8, <5>1, AddedLast
        <5> QED BY <3>1, <5>2 DEF Coming, NsEvents
      <4> QED BY <3>3, <4>1, <4>2
    <3>4. ASSUME handling[ns]
          PROVE  /\ Head(events'[ns]) = Head(events[ns])
                 /\ \A m \in exists'[ns] :
                      m \notin exists[ns] \/ AddedIn(Tail(events[ns]), m) => AddedIn(Tail(events'[ns]), m)
      <4>1. events[ns] # <<>> /\ events[ns] \in Seq(Events)
        BY <1>0, <3>4 DEF HandlingOk, TypeOK
      <4>2. /\ Head(events'[ns]) = Head(events[ns])
            /\ Tail(events'[ns]) = Append(Tail(events[ns]), e) /\ Tail(events[ns]) \in Seq(Events)
        BY <1>2, <3>1, <4>1, TailAppend, FirstEvent
      <4>3. ASSUME NEW m \in exists'[ns], m \notin exists[ns] PROVE AddedIn(Tail(events'[ns]), m)
        <5>1. m = n /\ e = AddedEvent(m)
          BY <2>1, <4>3
        <5> QED BY <1>2, <4>2, <5>1, AddedLast
      <4>4. ASSUME NEW m, AddedIn(Tail(events[ns]), m) PROVE AddedIn(Tail(events'[ns]), m)
        BY <1>2, <4>2, <4>4, AddedStays
      <4> QED BY <4>2, <4>3, <4>4
    <3> QED BY <1>6, <3>2, <3>3, <3>4
  <2>3. CASE ~up[ns]
    <3>1. /\ events' = events /\ up' = up /\ events[ns] = <<>> /\ ~handling[ns]
      BY <1>0, <1>5, <1>8, <2>3 DEF HandlingOk
    <3>2. ReaddedOk'
      <4>1. Len(<<>>) = 0
        OBVIOUS
      <4> QED BY <3>1, <4>1 DEF ReaddedOk, Readded, NsEvents
    <3> QED BY <1>6, <2>3, <3>1, <3>2 DEF Coming
  <2> QED BY <2>2, <2>3
<1> QED BY <1>7, <1>8

\* What the second half of a handler does to the events.
LEMMA HandledEvents ==
  ASSUME TypeOK, HandlingOk, ReaddedOk, NEW k \in Kinds, NEW type, EditUsers(k, type)
  PROVE  /\ ReaddedOk' /\ HandlingOk'
         /\ \A n : Coming(n) =>
              Coming(n)' \/ (k = "namespaces" /\ type = "ADDED" /\ n = Subject(k))
         /\ \A n \in exists[k] :
              k = "namespaces" /\ type = "DELETED" /\ n = Subject(k) => Coming(n)'
<1> DEFINE ns == "namespaces"
           s == events[k]
<1>1. /\ s \in Seq(Events) /\ s # <<>> /\ Head(s).type = type /\ Head(s).name = Subject(k)
      /\ Head(s) \in Events /\ up' = up /\ exists' = exists
      /\ handling' = [handling EXCEPT ![k] = FALSE] /\ events' = [events EXCEPT ![k] = Tail(s)]
  BY HeadEvent DEF EditUsers, worldVars
<1>2. HandlingOk'
  <2>1. handling[k]
    BY DEF EditUsers
  <2> QED BY <1>1, <2>1 DEF HandlingOk, TypeOK
<1>3. CASE k # ns
  <2>1. events'[ns] = events[ns]
    BY <1>1, <1>3 DEF TypeOK, Kinds
  <2> QED BY <1>1, <1>2, <1>3, <2>1 DEF ReaddedOk, NsEvents, Coming
<1>4. CASE k = ns
  <2>1. events'[ns] = Tail(s)
    BY <1>1, <1>4 DEF TypeOK
  <2>2. Readded(s, exists[ns])
    BY <1>4 DEF ReaddedOk, NsEvents
  <2>3. ReaddedOk'
    BY <1>1, <2>1, <2>2, ReaddedTail DEF ReaddedOk, NsEvents
  <2>4. ASSUME NEW n, Coming(n), ~(type = "ADDED" /\ n = Subject(k)) PROVE Coming(n)'
    <3>1. CASE AddedIn(s, n)
      <4>1. Head(s) # AddedEvent(n)
        BY <1>1, <2>4 DEF AddedEvent
      <4>2. AddedIn(Tail(s), n)
        BY <1>1, <3>1, <4>1, AddedStays
      <4> QED BY <2>1, <4>2 DEF Coming, NsEvents
    <3>2. CASE ~up[ns]
      BY <1>1, <3>2 DEF Coming
    <3> QED BY <1>4, <2>4, <3>1, <3>2 DEF Coming, NsEvents
  <2>5. ASSUME NEW n \in exists[k], type = "DELETED", n = Subject(k) PROVE Coming(n)'
    <3>1. AddedIn(Tail(s), n)
      BY <1>1, <1>4, <2>2, <2>5, DeletedHead
    <3> QED BY <2>1, <3>1 DEF Coming, NsEvents
  <2> QED BY <1>2, <1>4, <2>3, <2>4, <2>5
<1> QED BY <1>3, <1>4

\* No step forgets that a namespace is coming, but the one that handles it.
LEMMA EventStep ==
  ASSUME TypeOK, HandlingOk, ReaddedOk, [Next]_vars
  PROVE  /\ ReaddedOk' /\ HandlingOk'
         /\ \A n \in exists'["namespaces"] :
              n \notin exists["namespaces"] \/ Coming(n) =>
                Coming(n)' \/ (AddToUsers("namespaces") /\ n = Subject("namespaces"))
<1> DEFINE ns == "namespaces"
           Kept == /\ ReaddedOk' /\ HandlingOk'
                   /\ \A n \in exists'[ns] : n \notin exists[ns] \/ Coming(n) =>
                        Coming(n)' \/ (AddToUsers(ns) /\ n = Subject(ns))
<1> SUFFICES Kept
  OBVIOUS
<1>0. ns \in Kinds /\ Len(<<>>) = 0
  BY DEF Kinds
<1>1. ASSUME NEW k \in Kinds, NEW n \in Names, Change(k, n) PROVE Kept
  BY <1>1, ChangeEvents
<1>2. ASSUME NEW k \in Kinds, WatchStarts(k) PROVE Kept
  <2>1. /\ Replayed(k) \in Seq(Events)
        /\ \A i \in 1 .. Len(Replayed(k)) : Replayed(k)[i].type = "ADDED"
        /\ \A n \in exists[k] : AddedIn(Replayed(k), n)
    BY ReplayedAll DEF TypeOK
  <2>2. /\ ~up[k] /\ up' = [up EXCEPT ![k] = TRUE] /\ events' = [events EXCEPT ![k] = Replayed(k)]
        /\ exists' = exists /\ handling' = handling
    BY <1>2 DEF WatchStarts, worldVars
  <2>3. HandlingOk'
    BY <2>2 DEF HandlingOk, TypeOK
  <2>4. CASE k = ns
    <3>1. events'[ns] = Replayed(k)
      BY <2>2, <2>4 DEF TypeOK
    <3>2. ReaddedOk'
      BY <2>1, <3>1 DEF ReaddedOk, Readded, NsEvents
    <3>3. \A n \in exists'[ns] : Coming(n)'
      BY <2>1, <2>2, <2>4, <3>1 DEF Coming, NsEvents
    <3> QED BY <2>3, <3>2, <3>3
  <2>5. CASE k # ns
    <3>1. events'[ns] = events[ns] /\ up'[ns] = up[ns]
      BY <1>0, <2>2, <2>5 DEF TypeOK
    <3> QED BY <2>2, <2>3, <3>1 DEF ReaddedOk, NsEvents, Coming
  <2> QED BY <2>4, <2>5
<1>3. ASSUME NEW k \in Kinds, WatchBreaks(k) PROVE Kept
  <2>2. /\ ~handling[k] /\ up' = [up EXCEPT ![k] = FALSE] /\ events' = [events EXCEPT ![k] = <<>>]
        /\ exists' = exists /\ handling' = handling
    BY <1>3 DEF WatchBreaks, worldVars
  <2>3. HandlingOk'
    BY <2>2 DEF HandlingOk, TypeOK
  <2>4. CASE k = ns
    <3>1. events'[ns] = <<>> /\ ~up'[ns]
      BY <2>2, <2>4 DEF TypeOK
    <3> QED BY <1>0, <2>3, <3>1 DEF ReaddedOk, Readded, NsEvents, Coming
  <2>5. CASE k # ns
    <3>1. events'[ns] = events[ns] /\ up'[ns] = up[ns]
      BY <1>0, <2>2, <2>5 DEF TypeOK
    <3> QED BY <2>2, <2>3, <3>1 DEF ReaddedOk, NsEvents, Coming
  <2> QED BY <2>4, <2>5
<1>4. ASSUME NEW k \in Kinds, NEW type, EditList(k, type) PROVE Kept
  <2>1. /\ events[k] # <<>> /\ handling' = [handling EXCEPT ![k] = TRUE]
        /\ UNCHANGED <<exists, up, events>>
    BY <1>4 DEF EditList, HeadIs, worldVars
  <2>2. HandlingOk'
    BY <2>1 DEF HandlingOk, TypeOK
  <2> QED BY <2>1, <2>2 DEF ReaddedOk, NsEvents, Coming
<1>5. ASSUME NEW k \in Kinds, AddToUsers(k) PROVE Kept
  <2>1. EditUsers(k, "ADDED") /\ exists' = exists
    BY <1>5 DEF AddToUsers, EditUsers, worldVars
  <2> QED BY <1>5, <2>1, HandledEvents
<1>6. ASSUME NEW k \in Kinds, RemoveFromUsers(k) PROVE Kept
  <2>1. EditUsers(k, "DELETED") /\ exists' = exists
    BY <1>6 DEF RemoveFromUsers, EditUsers, worldVars
  <2> QED BY <2>1, HandledEvents
<1>7. CASE Panic
  <2>1. events'[ns] = <<>> /\ ~up'[ns]
    BY <1>0, <1>7 DEF Panic
  <2>2. HandlingOk'
    BY <1>7 DEF Panic, HandlingOk
  <2> QED BY <1>0, <2>1, <2>2 DEF ReaddedOk, Readded, NsEvents, Coming
<1>8. CASE UNCHANGED <<exists, up, events, handling>>
  BY <1>8 DEF ReaddedOk, NsEvents, HandlingOk, Coming
<1> HIDE DEF Kept
<1>9. ASSUME NEW r \in Requests,
             PopulateSharedCache(r) \/ UseCached(r) \/ NewUserData(r) \/ RequestStep(r)
      PROVE  UNCHANGED <<exists, up, events, handling>>
  BY <1>9 DEF PopulateSharedCache, UseCached, NewUserData, RequestStep, StartTask, EndTask, AllAccess,
              GetNamespaces, ListNamespaces, Review, EndUpdate, End, worldVars, watchVars
<1>10. ASSUME (\E n \in Names : ChangePolicy(n)) \/ ExpireList \/ ExpireUser \/ UNCHANGED vars
       PROVE  UNCHANGED <<exists, up, events, handling>>
  BY <1>10 DEF ChangePolicy, ExpireList, ExpireUser, vars, worldVars, watchVars
<1> QED
  BY <1>1, <1>2, <1>3, <1>4, <1>5, <1>6, <1>7, <1>8, <1>9, <1>10
     DEF Next, HandlerStep, AddToList, RemoveFromList

-----------------------------------------------------------------------------
\* usersLock is taken when no request holds it, and the data stays invalid
\* until it is given back.
LEMMA LockStep ==
  ASSUME TypeOK, LockOk, [Next]_vars
  PROVE  LockOk'
<1> USE DEF TypeOK
<1>k. ASSUME \A s \in Requests : Updating(s)' => Updating(s),
             user = None \/ (user' # None /\ (user'.fresh => user.fresh))
      PROVE  LockOk'
  BY <1>k DEF LockOk
<1>n. /\ NewUser \in UserData /\ NewUser # None /\ ~NewUser.fresh
      /\ \A u \in UserData : u # None
  <2>1. NewUser \in UserData /\ ~NewUser.fresh
    BY DEF NewUser, UserData
  <2>2. \A u \in UserData : u # None
    BY NilAssumption
  <2> QED BY <2>1, <2>2
<1>1. CASE UNCHANGED <<pc, user>>
  BY <1>1 DEF LockOk, Updating
<1>2. CASE ExpireUser
  <2>1. pc' = pc /\ user' = [user EXCEPT !.fresh = FALSE] /\ user \in UserData
    BY <1>2 DEF ExpireUser, requestVars
  <2>2. user' \in UserData /\ ~user'.fresh
    BY <2>1 DEF UserData
  <2> QED BY <1>k, <1>n, <2>1, <2>2 DEF Updating
<1>3. CASE Panic
  BY <1>3 DEF Panic, LockOk, Updating
<1>4. ASSUME NEW r \in Requests, UseCached(r) \/ End(r) PROVE LockOk'
  BY <1>4, <1>k DEF UseCached, End, Go, Updating
<1>5. ASSUME NEW r \in Requests, NewUserData(r) PROVE LockOk'
  <2>1. \A s \in Requests : ~Updating(s)
    BY <1>5 DEF NewUserData, UsersFree
  <2>2. user' = NewUser /\ pc' = [pc EXCEPT ![r] = "access"]
    BY <1>5 DEF NewUserData, Go
  <2>3. \A s \in Requests : Updating(s)' => s = r
    BY <2>1, <2>2 DEF Updating
  <2> QED BY <1>n, <2>2, <2>3 DEF LockOk
<1>6. ASSUME NEW r \in Requests, AllAccess(r) PROVE LockOk'
  <2>1. Updating(r) /\ \A s \in Requests : Updating(s)' => Updating(s)
    BY <1>6 DEF AllAccess, Go, Updating
  <2>2. CASE pc' = [pc EXCEPT ![r] = "answered"]
    <3>1. \A s \in Requests : ~Updating(s)'
      BY <2>1, <2>2 DEF LockOk, Updating
    <3> QED BY <3>1 DEF LockOk
  <2>3. CASE user' = user
    BY <1>k, <2>1, <2>3
  <2> QED BY <1>6, <2>2, <2>3 DEF AllAccess, Go
<1>7. ASSUME NEW r \in Requests, GetNamespaces(r) \/ ListNamespaces(r) PROVE LockOk'
  <2>1. /\ Updating(r) /\ user \in UserData
        /\ \E p \in {"idle", "answered", "reviews", "listing"} : pc' = [pc EXCEPT ![r] = p]
    BY <1>7 DEF GetNamespaces, ListNamespaces, UseNamespaces, Updating, LockOk
  <2>2. \A s \in Requests : Updating(s)' => Updating(s)
    BY <2>1 DEF Updating
  <2>3. user' = user \/ \E err \in BOOLEAN : user' = [user EXCEPT !.partial = err]
    <3>1. failed' \in BOOLEAN \/ failed' = failed
      BY <1>7 DEF GetNamespaces, ListNamespaces, Refresh, Clear, sharedVars
    <3> QED BY <1>7, <3>1 DEF GetNamespaces, ListNamespaces, UseNamespaces
  <2>4. user' \in UserData /\ user'.fresh = user.fresh
    BY <2>1, <2>3 DEF UserData
  <2> QED BY <1>k, <1>n, <2>2, <2>4
<1>8. ASSUME NEW r \in Requests, NEW n \in Names, Review(r, n) PROVE LockOk'
  <2>1. user # None
    BY <1>8 DEF Review, Updating, LockOk
  <2>2. user' # None /\ user'.fresh = user.fresh /\ pc' = pc
    BY <1>8, <2>1, Reviewed DEF Review
  <2> QED BY <1>k, <2>2 DEF Updating
<1>9. ASSUME NEW r \in Requests, EndUpdate(r) PROVE LockOk'
  <2>1. Updating(r) /\ pc' = [pc EXCEPT ![r] = "answered"]
    BY <1>9 DEF EndUpdate, Go, Updating
  <2>2. \A s \in Requests : ~Updating(s)'
    BY <2>1 DEF LockOk, Updating
  <2> QED BY <2>2 DEF LockOk
<1>10. ASSUME NEW k \in Kinds, AddToUsers(k) \/ RemoveFromUsers(k) PROVE LockOk'
  <2>1. \A s \in Requests : ~Updating(s)'
    BY <1>10 DEF AddToUsers, RemoveFromUsers, EditUsers, UsersFree, Updating, requestVars
  <2> QED BY <2>1 DEF LockOk
<1> QED
  BY <1>1, <1>2, <1>3, <1>4, <1>5, <1>6, <1>7, <1>8, <1>9, <1>10
     DEF Next, RequestStep, HandlerStep, Change, ChangePolicy, ExpireList, PopulateSharedCache, StartTask,
         EndTask, WatchStarts, WatchBreaks, AddToList, RemoveFromList, EditList, requestVars, vars

\* How a step changes the list of namespaces: it is kept, refreshed, about to
\* be refreshed, or edited.
LEMMA ListSteps ==
  ASSUME TypeOK, [Next]_vars
  PROVE  \/ /\ list'["namespaces"] = list["namespaces"] /\ failed' = failed
            /\ \A r \in Requests : Listing(r, "namespaces") <=> Listing(r, "namespaces")'
         \/ failed' \/ (\E r \in Requests : Listing(r, "namespaces")')
         \/ list'["namespaces"] = exists["namespaces"] /\ exists' = exists
         \/ AddToList("namespaces")
         \/ RemoveFromList("namespaces")
         \/ Panic
<1> USE DEF TypeOK
<1> DEFINE ns == "namespaces"
           Kept == /\ list'[ns] = list[ns] /\ failed' = failed
                   /\ \A r \in Requests : Listing(r, ns) <=> Listing(r, ns)'
           Cleared == \E r \in Requests : Listing(r, ns)'
           Refreshed == list'[ns] = exists[ns] /\ exists' = exists
<1>0. ns \in Kinds /\ "clusters" \in Kinds /\ \A k \in Kinds : k # ns => k = "clusters"
  BY DEF Kinds
<1>1. CASE UNCHANGED <<list, failed, pc, task>>
  BY <1>1 DEF Listing
<1>2. ASSUME NEW r \in Requests, PopulateSharedCache(r) PROVE Kept
  <2>1. \A s \in Requests, k \in Kinds : task'[s][k] = "listing" <=> task[s][k] = "listing"
    BY <1>2 DEF PopulateSharedCache, Populating
  <2>2. list' = list /\ failed' = failed /\ pc' = pc
    BY <1>2 DEF PopulateSharedCache, sharedVars
  <2> QED BY <1>0, <2>1, <2>2 DEF Listing
<1>3. ASSUME NEW r \in Requests,
             UseCached(r) \/ NewUserData(r) \/ AllAccess(r) \/ EndUpdate(r) \/ End(r)
      PROVE  Kept
  <2>1. list' = list /\ failed' = failed /\ task' = task
    BY <1>3 DEF UseCached, NewUserData, AllAccess, EndUpdate, End, sharedVars
  <2>2. \A s \in Requests : pc'[s] = "listing" <=> pc[s] = "listing"
    BY <1>3 DEF UseCached, NewUserData, AllAccess, EndUpdate, End, Go
  <2> QED BY <2>1, <2>2 DEF Listing
<1>4. ASSUME NEW r \in Requests, NEW k \in Kinds, StartTask(r, k) PROVE Kept \/ Cleared
  <2>1. pc' = pc /\ task[r][k] = "start"
    BY <1>4 DEF StartTask
  <2>2. CASE task' = [task EXCEPT ![r][k] = "none"] /\ UNCHANGED sharedVars
    <3>1. \A s \in Requests : task'[s][ns] = "listing" <=> task[s][ns] = "listing"
      BY <1>0, <2>1, <2>2
    <3> QED BY <2>1, <2>2, <3>1 DEF Listing, sharedVars
  <2>3. CASE task' = [task EXCEPT ![r][k] = "listing"] /\ Clear(k)
    <3>1. CASE k = ns
      BY <2>3, <3>1 DEF Listing
    <3>2. CASE k # ns
      <4>1. \A s \in Requests : task'[s][ns] = task[s][ns]
        BY <1>0, <2>3, <3>2
      <4>2. list'[ns] = list[ns] /\ failed' = failed
        BY <1>0, <2>3, <3>2 DEF Clear
      <4> QED BY <2>1, <4>1, <4>2 DEF Listing
    <3> QED BY <3>1, <3>2
  <2> QED BY <1>4, <2>2, <2>3 DEF StartTask
<1>5. ASSUME NEW r \in Requests, NEW k \in Kinds, EndTask(r, k) PROVE Kept \/ failed' \/ Refreshed
  <2>1. /\ pc' = pc /\ task' = [task EXCEPT ![r][k] = "none"] /\ exists' = exists /\ Refresh(k)
    BY <1>5 DEF EndTask, worldVars
  <2>2. CASE k = ns
    BY <2>1, <2>2 DEF Refresh
  <2>3. CASE k # ns
    <3>1. \A s \in Requests : task'[s][ns] = task[s][ns]
      BY <1>0, <2>1, <2>3
    <3>2. list'[ns] = list[ns] /\ failed' = failed
      BY <1>0, <2>1, <2>3 DEF Refresh
    <3> QED BY <2>1, <3>1, <3>2 DEF Listing
  <2> QED BY <2>2, <2>3
<1>6. ASSUME NEW r \in Requests, GetNamespaces(r) PROVE Kept \/ Cleared
  <2>1. CASE fresh
    <3>1. pc[r] = "namespaces" /\ list' = list /\ failed' = failed /\ task' = task
      BY <1>6, <2>1 DEF GetNamespaces, sharedVars
    <3>2. \E p \in {"reviews", "idle", "answered"} : pc' = [pc EXCEPT ![r] = p]
      BY <1>6, <2>1 DEF GetNamespaces, UseNamespaces
    <3>3. \A s \in Requests : pc'[s] = "listing" <=> pc[s] = "listing"
      BY <3>1, <3>2
    <3> QED BY <3>1, <3>3 DEF Listing
  <2>2. CASE ~fresh
    BY <1>6, <2>2 DEF GetNamespaces, Listing
  <2> QED BY <2>1, <2>2
<1>7. ASSUME NEW r \in Requests, ListNamespaces(r) PROVE failed' \/ Refreshed
  BY <1>0, <1>7 DEF ListNamespaces, Refresh, worldVars
<1>8. ASSUME NEW r \in Requests, NEW n \in Names, Review(r, n) PROVE UNCHANGED <<list, failed, pc, task>>
  BY <1>8 DEF Review, sharedVars
<1>9. ASSUME NEW k \in Kinds, AddToList(k) \/ RemoveFromList(k), k # ns PROVE Kept
  <2>1. list'[ns] = list[ns] /\ failed' = failed /\ pc' = pc /\ task' = task
    BY <1>0, <1>9 DEF AddToList, RemoveFromList, EditList, requestVars
  <2> QED BY <2>1 DEF Listing
<1>10. ASSUME NEW k \in Kinds, WatchStarts(k) \/ WatchBreaks(k) \/ AddToUsers(k) \/ RemoveFromUsers(k)
       PROVE  UNCHANGED <<list, failed, pc, task>>
  BY <1>10 DEF WatchStarts, WatchBreaks, AddToUsers, RemoveFromUsers, EditUsers, sharedVars, requestVars
<1>11. ASSUME \/ \E k \in Kinds, n \in Names : Change(k, n)
              \/ \E n \in Names : ChangePolicy(n)
              \/ ExpireList \/ ExpireUser \/ UNCHANGED vars
       PROVE  UNCHANGED <<list, failed, pc, task>>
  BY <1>11 DEF Change, ChangePolicy, ExpireList, ExpireUser, vars, sharedVars, requestVars
<1> HIDE DEF Kept, Cleared, Refreshed
<1>12. Kept \/ failed' \/ Cleared \/ Refreshed \/ AddToList(ns) \/ RemoveFromList(ns) \/ Panic
  <2>1. UNCHANGED <<list, failed, pc, task>> => Kept
    BY DEF Kept, Listing
  <2> QED BY <2>1, <1>2, <1>3, <1>4, <1>5, <1>6, <1>7, <1>8, <1>9, <1>10, <1>11
          DEF Next, RequestStep, HandlerStep
<1> QED BY <1>12 DEF Kept, Cleared, Refreshed

\* What the handlers make of the list.
LEMMA EditedList ==
  ASSUME TypeOK, NEW type, EditList("namespaces", type),
         AddToList("namespaces") \/ RemoveFromList("namespaces")
  PROVE  /\ UNCHANGED <<exists, up, events, failed, pc, task>>
         /\ Subject("namespaces") \in Names
         /\ AddToList("namespaces") => Listed("namespaces")' = Listed("namespaces") \cup {Subject("namespaces")}
         /\ RemoveFromList("namespaces") => Listed("namespaces")' = Listed("namespaces") \ {Subject("namespaces")}
<1> DEFINE ns == "namespaces"
           n == Subject(ns)
<1>1. ns \in Kinds /\ n \in Names
  BY HeadEvent DEF EditList, Kinds
<1>2. list[ns] = None \/ (list[ns] \in SUBSET Names /\ list[ns] # None)
  BY <1>1, NilAssumption DEF TypeOK
<1> HIDE DEF n
<1>3. ASSUME AddToList(ns) PROVE Listed(ns)' = Listed(ns) \cup {n}
  <2>1. list[ns] # None /\ list' = [list EXCEPT ![ns] = list[ns] \cup {n}]
    BY <1>3 DEF AddToList, n
  <2>2. list'[ns] = list[ns] \cup {n}
    BY <1>1, <2>1 DEF TypeOK
  <2>3. list[ns] \cup {n} \in SUBSET Names
    BY <1>1, <1>2, <2>1
  <2> QED BY <2>1, <2>2, <2>3, NilAssumption DEF Listed
<1>4. ASSUME RemoveFromList(ns) PROVE Listed(ns)' = Listed(ns) \ {n}
  <2>1. list' = [list EXCEPT ![ns] = IF list[ns] = None THEN None ELSE list[ns] \ {n}]
    BY <1>4 DEF RemoveFromList, n
  <2>2. list'[ns] = IF list[ns] = None THEN None ELSE list[ns] \ {n}
    BY <1>1, <2>1 DEF TypeOK
  <2>3. list[ns] # None => list[ns] \ {n} \in SUBSET Names
    BY <1>2
  <2> QED BY <2>2, <2>3, NilAssumption DEF Listed
<1> QED BY <1>1, <1>3, <1>4 DEF EditList, worldVars, requestVars, n

\* A complete list has every namespace there is or will be told of it.
LEMMA ListStep ==
  ASSUME CacheInv, TypeOK', [Next]_vars
  PROVE  ListOk'
<1> DEFINE ns == "namespaces"
<1>0. TypeOK /\ HandlingOk /\ ReaddedOk /\ ListOk /\ HandledOk /\ ns \in Kinds
  BY DEF CacheInv, Kinds
<1> SUFFICES ASSUME Complete', NEW n \in exists'[ns], ~Coming(n)'
             PROVE  n \in Listed(ns)'
  BY DEF ListOk
<1>1. CASE AddToUsers(ns) /\ n = Subject(ns)
  <2>1. /\ UNCHANGED <<list, failed, pc, task, exists, up>> /\ handling[ns]
        /\ HeadIs(ns, "ADDED") /\ events'[ns] = Tail(events[ns])
    BY <1>0, <1>1 DEF AddToUsers, EditUsers, worldVars, sharedVars, requestVars, TypeOK
  <2>2. Complete
    BY <2>1 DEF Complete, Listing
  <2>3. ~AddedIn(Tail(events[ns]), n)
    BY <2>1 DEF Coming, NsEvents
  <2>4. n \in Listed(ns)
    BY <1>0, <1>1, <2>1, <2>2, <2>3 DEF HandledOk, NsEvents
  <2> QED BY <2>1, <2>4 DEF Listed
<1>2. CASE ~(AddToUsers(ns) /\ n = Subject(ns))
  <2>1. n \in exists[ns] /\ ~Coming(n)
    BY <1>0, <1>2, EventStep
  <2>2. CASE /\ list'[ns] = list[ns] /\ failed' = failed
             /\ \A r \in Requests : Listing(r, ns) <=> Listing(r, ns)'
    <3>1. Complete
      BY <2>2 DEF Complete
    <3> QED BY <1>0, <2>1, <2>2, <3>1 DEF ListOk, Listed
  <2>3. CASE failed' \/ \E r \in Requests : Listing(r, ns)'
    BY <2>3 DEF Complete
  <2>4. CASE list'[ns] = exists[ns] /\ exists' = exists
    <3>1. exists[ns] \in SUBSET Names
      BY <1>0 DEF TypeOK
    <3> QED BY <2>1, <2>4, <3>1, NilAssumption DEF Listed
  <2>5. CASE AddToList(ns)
    <3>1. EditList(ns, "ADDED")
      BY <2>5 DEF AddToList
    <3>2. /\ UNCHANGED <<failed, pc, task>> /\ Listed(ns)' = Listed(ns) \cup {Subject(ns)}
      BY <1>0, <2>5, <3>1, EditedList
    <3>3. Complete
      BY <3>2 DEF Complete, Listing
    <3> QED BY <1>0, <2>1, <3>2, <3>3 DEF ListOk
  <2>6. CASE RemoveFromList(ns)
    <3>1. EditList(ns, "DELETED")
      BY <2>6 DEF RemoveFromList
    <3>2. /\ UNCHANGED <<exists, failed, pc, task>> /\ Listed(ns)' = Listed(ns) \ {Subject(ns)}
      BY <1>0, <2>6, <3>1, EditedList
    <3>3. Complete
      BY <3>2 DEF Complete, Listing
    <3>4. n \in Listed(ns)
      BY <1>0, <2>1, <3>3 DEF ListOk
    <3>5. n # Subject(ns)
      <4>1. /\ Head(events[ns]).type = "DELETED" /\ Head(events[ns]).name = Subject(ns)
            /\ events[ns] \in Seq(Events) /\ events[ns] # <<>>
        BY <1>0, <3>1, HeadEvent DEF EditList
      <4>2. Readded(events[ns], exists[ns])
        BY <1>0 DEF ReaddedOk, NsEvents
      <4>3. Subject(ns) \in exists[ns] => AddedIn(events[ns], Subject(ns))
        BY <4>1, <4>2, DeletedHead
      <4> QED BY <2>1, <4>3 DEF Coming, NsEvents
    <3> QED BY <3>2, <3>4, <3>5
  <2>7. CASE Panic
    BY <1>0, <2>7 DEF Panic, Coming
  <2> QED BY <1>0, <2>2, <2>3, <2>4, <2>5, <2>6, <2>7, ListSteps
<1> QED BY <1>1, <1>2

\* A namespace that has been put into the list stays there, or is deleted, or
\* its refresh fails, or it is added again, before the users' data get it.
LEMMA HandledStep ==
  ASSUME CacheInv, TypeOK', [Next]_vars
  PROVE  HandledOk'
<1> DEFINE ns == "namespaces"
           n == Subject(ns)
<1>0. TypeOK /\ HandlingOk /\ ReaddedOk /\ HandledOk /\ ns \in Kinds
  BY DEF CacheInv, Kinds
<1> DEFINE Safe == \/ Subject(ns)' \notin exists'[ns]
                   \/ Subject(ns)' \in Listed(ns)'
                   \/ AddedIn(Tail(events'[ns]), Subject(ns)')
<1> SUFFICES ASSUME Complete', handling'[ns], HeadIs(ns, "ADDED")'
             PROVE  Safe
  BY DEF HandledOk, NsEvents
<1>1. CASE AddToList(ns)
  <2>1. EditList(ns, "ADDED")
    BY <1>1 DEF AddToList
  <2>2. events' = events /\ Listed(ns)' = Listed(ns) \cup {Subject(ns)}
    BY <1>0, <1>1, <2>1, EditedList
  <2> QED BY <2>2 DEF Subject
<1>2. CASE RemoveFromList(ns)
  <2>1. EditList(ns, "DELETED") /\ events' = events
    BY <1>2 DEF RemoveFromList, EditList
  <2> QED BY <2>1 DEF EditList, HeadIs
<1>3. CASE list'[ns] = exists[ns] /\ exists' = exists
  <2>1. exists[ns] \in SUBSET Names
    BY <1>0 DEF TypeOK
  <2> QED BY <1>3, <2>1, NilAssumption DEF Listed
<1>4. CASE failed' \/ (\E r \in Requests : Listing(r, ns)') \/ Panic
  BY <1>0, <1>4 DEF Complete, Panic
<1>5. CASE /\ list'[ns] = list[ns] /\ failed' = failed
           /\ \A r \in Requests : Listing(r, ns) <=> Listing(r, ns)'
           /\ ~AddToList(ns) /\ ~RemoveFromList(ns) /\ ~Panic
  <2>1. Complete /\ Listed(ns)' = Listed(ns)
    BY <1>5 DEF Complete, Listed
  <2>2. /\ handling[ns]
        /\ \/ exists'[ns] = exists[ns] /\ events'[ns] = events[ns]
           \/ /\ Head(events'[ns]) = Head(events[ns])
              /\ \A m \in exists'[ns] :
                   m \notin exists[ns] \/ AddedIn(Tail(events[ns]), m) => AddedIn(Tail(events'[ns]), m)
    <3>1. CASE \E k \in Kinds, m \in Names : Change(k, m)
      <4>1. handling' = handling
        BY <3>1 DEF Change
      <4> QED BY <1>0, <3>1, <4>1, ChangeEvents
    <3>2. ASSUME NEW k \in Kinds, WatchStarts(k) \/ WatchBreaks(k) \/ AddToUsers(k) \/ RemoveFromUsers(k)
          PROVE  handling[ns] /\ exists'[ns] = exists[ns] /\ events'[ns] = events[ns]
      <4>1. handling[k] => up[k]
        BY <1>0 DEF HandlingOk
      <4>2. k # ns
        <5>1. CASE WatchStarts(k) \/ WatchBreaks(k)
          <6>1. handling' = handling /\ ~handling[k]
            BY <4>1, <5>1 DEF WatchStarts, WatchBreaks
          <6> QED BY <6>1
        <5>2. CASE AddToUsers(k) \/ RemoveFromUsers(k)
          <6>1. handling' = [handling EXCEPT ![k] = FALSE]
            BY <5>2 DEF AddToUsers, RemoveFromUsers, EditUsers
          <6> QED BY <1>0, <6>1 DEF TypeOK
        <5> QED BY <3>2, <5>1, <5>2
      <4>3. /\ exists' = exists
            /\ \E e : events' = [events EXCEPT ![k] = e]
            /\ handling' = handling \/ handling' = [handling EXCEPT ![k] = FALSE]
        BY <3>2 DEF WatchStarts, WatchBreaks, AddToUsers, RemoveFromUsers, EditUsers, worldVars
      <4> QED BY <1>0, <4>2, <4>3 DEF TypeOK
    <3>3. ASSUME NEW k \in Kinds, AddToList(k) \/ RemoveFromList(k)
          PROVE  handling[ns] /\ exists'[ns] = exists[ns] /\ events'[ns] = events[ns]
      <4>1. k # ns
        BY <1>5, <3>3
      <4> QED BY <1>0, <3>3, <4>1 DEF AddToList, RemoveFromList, EditList, worldVars, TypeOK
    <3>4. CASE UNCHANGED <<exists, events, handling>>
      BY <3>4
    <3>5. ASSUME NEW r \in Requests,
                 PopulateSharedCache(r) \/ UseCached(r) \/ NewUserData(r) \/ RequestStep(r)
          PROVE  UNCHANGED <<exists, events, handling>>
      BY <3>5 DEF PopulateSharedCache, UseCached, NewUserData, RequestStep, StartTask, EndTask, AllAccess,
                  GetNamespaces, ListNamespaces, Review, EndUpdate, End, worldVars, watchVars
    <3>6. ASSUME (\E m \in Names : ChangePolicy(m)) \/ ExpireList \/ ExpireUser \/ UNCHANGED vars
          PROVE  UNCHANGED <<exists, events, handling>>
      BY <3>6 DEF ChangePolicy, ExpireList, ExpireUser, vars, worldVars, watchVars
    <3> QED BY <1>5, <3>1, <3>2, <3>3, <3>4, <3>5, <3>6 DEF Next, HandlerStep
  <2>3. events[ns] # <<>> /\ Head(events'[ns]) = Head(events[ns])
    BY <1>0, <2>2 DEF HandlingOk
  <2>4. HeadIs(ns, "ADDED") /\ Subject(ns)' = Subject(ns)
    BY <2>3 DEF HeadIs, Subject
  <2>5. \/ Subject(ns) \notin exists[ns] \/ Subject(ns) \in Listed(ns)
        \/ AddedIn(Tail(events[ns]), Subject(ns))
    BY <1>0, <2>1, <2>2, <2>4 DEF HandledOk, NsEvents
  <2> QED BY <2>1, <2>2, <2>4, <2>5
<1> QED BY <1>0, <1>1, <1>2, <1>3, <1>4, <1>5, ListSteps

-----------------------------------------------------------------------------
\* What is known of a namespace stays known until the data is built anew.
LEMMA KnownStep ==
  ASSUME CacheInv, [Next]_vars, user \in UserData, ~Panic,
         \A r \in Requests : ~NewUserData(r) /\ ~AllAccess(r) /\ ~GetNamespaces(r) /\ ~ListNamespaces(r),
         NEW n \in exists'["namespaces"], n \notin exists["namespaces"] \/ Known(n)
  PROVE  Known(n)'
<1> DEFINE ns == "namespaces"
<1>0. TypeOK /\ HandlingOk /\ ReaddedOk /\ ns \in Kinds /\ user # None
  BY NilAssumption DEF CacheInv, Kinds
<1>1. n \notin exists[ns] \/ Coming(n) => Coming(n)' \/ (AddToUsers(ns) /\ n = Subject(ns))
  BY <1>0, EventStep
<1>2. ASSUME user'.reviewed = user.reviewed, user'.partial = user.partial,
             ~(AddToUsers(ns) /\ n = Subject(ns))
      PROVE  Known(n)'
  BY <1>1, <1>2 DEF Known
<1>3. ASSUME NEW k \in Kinds, AddToUsers(k) PROVE Known(n)'
  <2>1. Subject(k) \in Names /\ ReviewNamespace(Subject(k))
    BY <1>0, <1>3, HeadEvent DEF AddToUsers, EditUsers
  <2>2. user'.reviewed = user.reviewed \cup {Subject(k)} /\ user'.partial = user.partial
    BY <1>0, <2>1, Reviewed
  <2>3. CASE AddToUsers(ns) /\ n = Subject(ns)
    <3>1. Subject(ns) \in Names /\ ReviewNamespace(Subject(ns))
      BY <1>0, <2>3, HeadEvent DEF AddToUsers, EditUsers
    <3>2. user'.reviewed = user.reviewed \cup {Subject(ns)}
      BY <1>0, <3>1, Reviewed
    <3> QED BY <2>3, <3>2 DEF Known
  <2> QED BY <1>1, <2>2, <2>3 DEF Known
<1>4. ASSUME NEW k \in Kinds, RemoveFromUsers(k) PROVE Known(n)'
  <2>1. EditUsers(k, "DELETED") /\ user' = Without(user, k, Subject(k)) /\ exists' = exists
    BY <1>0, <1>4 DEF RemoveFromUsers, EditUsers, worldVars
  <2>2. CASE k = ns /\ n = Subject(k)
    BY <1>0, <2>1, <2>2, HandledEvents DEF Known
  <2>3. CASE ~(k = ns /\ n = Subject(k))
    <3>1. /\ user'.partial = user.partial
          /\ user'.reviewed = user.reviewed \/ user'.reviewed = user.reviewed \ {Subject(k)}
          /\ k # ns => user'.reviewed = user.reviewed
      BY <2>1 DEF Without, UserData
    <3>2. n \in user.reviewed => n \in user'.reviewed
      BY <2>3, <3>1
    <3>3. ~AddToUsers(ns) \/ n # Subject(ns) \/ Known(n)'
      BY <1>0, <1>3
    <3> QED BY <1>1, <3>1, <3>2, <3>3 DEF Known
  <2> QED BY <2>2, <2>3
<1>5. ASSUME NEW r \in Requests, NEW m \in Names, Review(r, m) PROVE Known(n)'
  <2>1. user'.reviewed = user.reviewed \cup {m} /\ user'.partial = user.partial
    BY <1>0, <1>5, Reviewed DEF Review
  <2>2. ~AddToUsers(ns) \/ Known(n)'
    BY <1>0, <1>3
  <2> QED BY <1>1, <2>1, <2>2 DEF Known
<1>6. ASSUME user' = user \/ \E b \in BOOLEAN : user' = [user EXCEPT !.fresh = b] PROVE Known(n)'
  <2>1. user'.reviewed = user.reviewed /\ user'.partial = user.partial
    BY <1>6 DEF UserData
  <2>2. ~AddToUsers(ns) \/ Known(n)'
    BY <1>0, <1>3
  <2> QED BY <1>2, <2>1, <2>2
<1>7. ASSUME NEW r \in Requests, EndUpdate(r) PROVE \E b \in BOOLEAN : user' = [user EXCEPT !.fresh = b]
  BY <1>7 DEF EndUpdate
<1> QED
  BY <1>3, <1>4, <1>5, <1>6, <1>7
     DEF Next, RequestStep, HandlerStep, Change, ChangePolicy, ExpireList, ExpireUser, PopulateSharedCache,
         UseCached, StartTask, EndTask, End, WatchStarts, WatchBreaks, AddToList, RemoveFromList, EditList, vars

\* While a request waits for its reviews, every namespace there is is known,
\* or one of those it still has to review.
LEMMA ReviewsStep ==
  ASSUME CacheInv, TypeOK', [Next]_vars
  PROVE  ReviewsOk'
<1> DEFINE ns == "namespaces"
<1>0. TypeOK /\ LockOk /\ ListOk /\ ReviewsOk /\ ns \in Kinds
  BY DEF CacheInv, Kinds
<1> SUFFICES ASSUME NEW r \in Requests, pc'[r] = "reviews", NEW n \in exists'[ns]
             PROVE  Known(n)' \/ n \in todo'[r]
  BY DEF ReviewsOk
<1>1. CASE pc[r] = "reviews"
  <2>1. Updating(r) /\ user \in UserData /\ ~UsersFree
    BY <1>0, <1>1 DEF Updating, UsersFree, LockOk, TypeOK
  <2>2. \A s \in Requests : ~NewUserData(s) /\ ~AllAccess(s) /\ ~GetNamespaces(s) /\ ~ListNamespaces(s)
    <3>1. ASSUME NEW s \in Requests, pc[s] \in {"access", "namespaces", "listing"} PROVE FALSE
      BY <1>0, <1>1, <2>1, <3>1 DEF LockOk, Updating
    <3> QED BY <2>1, <3>1 DEF NewUserData, AllAccess, GetNamespaces, ListNamespaces, Go
  <2>3. ~Panic
    BY DEF Panic
  <2>4. CASE n \notin exists[ns] \/ Known(n)
    BY <2>1, <2>2, <2>3, <2>4, KnownStep
  <2>5. CASE n \in todo[r] /\ n \in exists[ns]
    <3>1. CASE UNCHANGED todo
      BY <2>5, <3>1
    <3>2. ASSUME NEW s \in Requests, NEW m \in Names, Review(s, m) PROVE Known(n)' \/ n \in todo'[r]
      <4>1. user'.reviewed = user.reviewed \cup {m}
        BY <1>0, <2>1, <3>2, NilAssumption, Reviewed DEF Review
      <4>2. todo' = [todo EXCEPT ![s] = todo[s] \ {m}]
        BY <3>2 DEF Review
      <4>3. n = m \/ n \in todo'[r]
        BY <1>0, <2>5, <4>2 DEF TypeOK
      <4> QED BY <4>1, <4>3 DEF Known
    <3> QED BY <2>2, <2>3, <3>1, <3>2
            DEF Next, RequestStep, HandlerStep, Change, ChangePolicy, ExpireList, ExpireUser,
                PopulateSharedCache, UseCached, StartTask, EndTask, EndUpdate, End, WatchStarts, WatchBreaks,
                AddToList, AddToUsers, RemoveFromList, RemoveFromUsers, EditList, EditUsers,
                requestVars, vars
  <2> QED BY <1>0, <1>1, <2>4, <2>5 DEF ReviewsOk
<1>2. CASE pc[r] # "reviews"
  <2>1. GetNamespaces(r) \/ ListNamespaces(r)
    <3>1. ASSUME NEW s \in Requests, UseCached(s) \/ NewUserData(s) \/ AllAccess(s) \/ EndUpdate(s) \/ End(s)
          PROVE  FALSE
      <4>1. \E p \in {"answered", "access", "namespaces", "idle"} : pc' = [pc EXCEPT ![s] = p]
        BY <3>1 DEF UseCached, NewUserData, AllAccess, EndUpdate, End, Go
      <4> QED BY <1>0, <1>2, <4>1 DEF TypeOK
    <3>2. ASSUME NEW s \in Requests, s # r, GetNamespaces(s) \/ ListNamespaces(s) PROVE FALSE
      <4>1. \E p : pc' = [pc EXCEPT ![s] = p]
        BY <3>2 DEF GetNamespaces, ListNamespaces, UseNamespaces
      <4> QED BY <1>0, <1>2, <3>2, <4>1 DEF TypeOK
    <3>3. ~UNCHANGED pc /\ ~Panic
      BY <1>2 DEF Panic
    <3> QED BY <3>1, <3>2, <3>3
            DEF Next, RequestStep, HandlerStep, Change, ChangePolicy, ExpireList, ExpireUser,
                PopulateSharedCache, StartTask, EndTask, Review, WatchStarts, WatchBreaks,
                AddToList, AddToUsers, RemoveFromList, RemoveFromUsers, EditList, EditUsers,
                requestVars, vars
  <2>2. user \in UserData /\ exists' = exists /\ UNCHANGED <<events, up>>
    <3>1. Updating(r)
      BY <2>1 DEF GetNamespaces, ListNamespaces, Updating
    <3> QED BY <1>0, <2>1, <3>1 DEF LockOk, TypeOK, GetNamespaces, ListNamespaces, worldVars, watchVars
  <2>3. ASSUME NEW names, NEW err \in BOOLEAN, UseNamespaces(r, names, err)
        PROVE  todo'[r] = names /\ user'.partial = err
    <3>1. names # {} /\ todo' = [todo EXCEPT ![r] = names] /\ user' = [user EXCEPT !.partial = err]
      <4>1. CASE names = {}
        <5>1. \E p \in {"idle", "answered"} : pc' = [pc EXCEPT ![r] = p]
          BY <2>3, <4>1 DEF UseNamespaces
        <5> QED BY <1>0, <5>1 DEF TypeOK
      <4> QED BY <2>3, <4>1 DEF UseNamespaces
    <3> QED BY <1>0, <2>2, <3>1 DEF TypeOK, UserData
  <2>4. CASE GetNamespaces(r)
    <3>1. ListFree(ns) /\ UseNamespaces(r, Listed(ns), failed)
      <4>1. ~(pc' = [pc EXCEPT ![r] = "listing"])
        BY <1>0 DEF TypeOK
      <4> QED BY <2>4, <4>1 DEF GetNamespaces
    <3>2. failed \in BOOLEAN
      BY <1>0 DEF TypeOK
    <3>3. todo'[r] = Listed(ns) /\ user'.partial = failed
      BY <2>3, <3>1, <3>2
    <3>4. CASE failed
      BY <3>3, <3>4 DEF Known
    <3>5. CASE ~failed
      <4>1. Complete
        BY <3>1, <3>5 DEF Complete, ListFree
      <4>2. n \in Listed(ns) \/ Coming(n)
        BY <1>0, <2>2, <4>1 DEF ListOk
      <4>3. Coming(n) => Coming(n)'
        BY <2>2 DEF Coming, NsEvents
      <4> QED BY <3>3, <4>2, <4>3 DEF Known
    <3> QED BY <3>4, <3>5
  <2>5. CASE ListNamespaces(r)
    <3>1. Refresh(ns) /\ UseNamespaces(r, Listed(ns)', failed')
      BY <2>5 DEF ListNamespaces
    <3>2. failed' \in BOOLEAN
      BY DEF TypeOK
    <3>3. todo'[r] = Listed(ns)' /\ user'.partial = failed'
      BY <2>3, <3>1, <3>2
    <3>4. failed' \/ list'[ns] = exists[ns]
      BY <1>0, <3>1 DEF Refresh, TypeOK
    <3>5. exists[ns] \in SUBSET Names
      BY <1>0 DEF TypeOK
    <3>6. list'[ns] = exists[ns] => Listed(ns)' = exists[ns]
      BY <3>5, NilAssumption DEF Listed
    <3> QED BY <2>2, <3>3, <3>4, <3>6 DEF Known
  <2> QED BY <2>1, <2>4, <2>5
<1> QED BY <1>1, <1>2

\* When data becomes valid every namespace there is is known, and so it stays.
LEMMA UserStep ==
  ASSUME CacheInv, TypeOK', [Next]_vars
  PROVE  UserOk'
<1> DEFINE ns == "namespaces"
<1>0. TypeOK /\ LockOk /\ ReviewsOk /\ UserOk /\ ns \in Kinds
  BY DEF CacheInv, Kinds
<1> SUFFICES ASSUME Valid', NEW n \in exists'[ns]
             PROVE  Known(n)'
  BY DEF UserOk
<1>1. user' # None /\ user'.fresh
  BY DEF Valid
<1>2. ~Panic /\ \A r \in Requests : ~NewUserData(r)
  BY <1>1 DEF Panic, NewUserData, NewUser
<1>3. ASSUME NEW r \in Requests, AllAccess(r) PROVE Known(n)'
  <2>1. user \in UserData /\ ~user.fresh
    BY <1>0, <1>3 DEF AllAccess, Go, LockOk, Updating, TypeOK
  <2>2. user' = Everything
    BY <1>1, <1>3, <2>1 DEF AllAccess
  <2>3. user'.reviewed = Names
    BY <2>2 DEF Everything, NewUser
  <2> QED BY <1>0, <2>3 DEF Known, TypeOK
<1>4. ASSUME NEW r \in Requests, GetNamespaces(r) \/ ListNamespaces(r) PROVE FALSE
  <2>1. user \in UserData /\ ~user.fresh
    BY <1>0, <1>4 DEF GetNamespaces, ListNamespaces, LockOk, Updating, TypeOK
  <2>2. user' = user \/ \E err : user' = [user EXCEPT !.partial = err]
    BY <1>4 DEF GetNamespaces, ListNamespaces, UseNamespaces
  <2>3. user'.fresh = user.fresh
    BY <2>1, <2>2 DEF UserData
  <2> QED BY <1>1, <2>1, <2>3
<1>5. CASE \A r \in Requests : ~AllAccess(r)
  <2>1. user \in UserData /\ \A m \in exists[ns] : Known(m)
    <3>1. ASSUME NEW r \in Requests, EndUpdate(r) PROVE user \in UserData /\ \A m \in exists[ns] : Known(m)
      BY <1>0, <3>1 DEF EndUpdate, Go, ReviewsOk, LockOk, Updating, TypeOK
    <3>2. ASSUME NEW r \in Requests, NEW m \in Names, Review(r, m) PROVE FALSE
      <4>1. user # None /\ ~user.fresh
        BY <1>0, <3>2 DEF Review, LockOk, Updating
      <4> QED BY <1>0, <1>1, <3>2, <4>1, Reviewed DEF Review
    <3>3. ASSUME NEW k \in Kinds, AddToUsers(k) PROVE user # None /\ user.fresh
      <4>1. user # None
        BY <1>1, <3>3 DEF AddToUsers
      <4>2. Subject(k) \in Names /\ ReviewNamespace(Subject(k))
        BY <1>0, <3>3, <4>1, HeadEvent DEF AddToUsers, EditUsers
      <4> QED BY <1>0, <1>1, <4>1, <4>2, Reviewed
    <3>4. ASSUME NEW k \in Kinds, RemoveFromUsers(k) PROVE user # None /\ user.fresh
      <4>1. user # None /\ user' = Without(user, k, Subject(k))
        BY <1>1, <3>4 DEF RemoveFromUsers
      <4>2. user \in UserData
        BY <1>0, <4>1 DEF TypeOK
      <4>3. user'.fresh = user.fresh
        BY <4>1, <4>2 DEF Without, UserData
      <4> QED BY <1>1, <4>1, <4>3
    <3>5. CASE ExpireUser
      <4>1. user \in UserData /\ user' = [user EXCEPT !.fresh = FALSE]
        BY <1>0, <3>5 DEF ExpireUser, TypeOK
      <4> QED BY <1>1, <4>1 DEF UserData
    <3>6. ASSUME user' = user PROVE user # None /\ user.fresh
      BY <1>1, <3>6
    <3>7. ASSUME user # None, user.fresh PROVE user \in UserData /\ \A m \in exists[ns] : Known(m)
      BY <1>0, <3>7 DEF UserOk, Valid, TypeOK
    <3> QED BY <1>2, <1>4, <1>5, <3>1, <3>2, <3>3, <3>4, <3>5, <3>6, <3>7
            DEF Next, RequestStep, HandlerStep, Change, ChangePolicy, ExpireList,
                PopulateSharedCache, UseCached, StartTask, EndTask, End, WatchStarts, WatchBreaks,
                AddToList, RemoveFromList, EditList, vars
  <2> QED BY <1>2, <1>4, <1>5, <2>1, KnownStep
<1> QED BY <1>3, <1>5

-----------------------------------------------------------------------------
\* The invariant holds before the first request.
LEMMA CacheStart ==
  ASSUME Init
  PROVE  CacheInv
<1> USE DEF Init
<1>1. TypeOK
  <2>1. NoCopy \in Copies /\ <<>> \in Seq(Events)
    BY DEF NoCopy, Copies
  <2>2. 0 \in 0 .. MaxChanges
    BY RbacCacheAssumption
  <2>3. /\ list \in [Kinds -> (SUBSET Names) \cup {None}]
        /\ pc \in [Requests -> RequestPc]
        /\ task \in [Requests -> [Kinds -> {"none", "start", "listing"}]]
        /\ todo \in [Requests -> SUBSET Names] /\ \A r \in Requests : todo[r] = {}
    BY DEF RequestPc
  <2>4. /\ answer \in [Requests -> Copies] /\ events \in [Kinds -> Seq(Events)]
        /\ up \in [Kinds -> BOOLEAN] /\ handling \in [Kinds -> BOOLEAN]
    BY <2>1
  <2> QED BY <2>2, <2>3, <2>4 DEF TypeOK
<1>2. "namespaces" \in Kinds /\ Len(<<>>) = 0
  BY DEF Kinds
<1>3. \A r \in Requests : ~Updating(r)
  BY DEF Updating
<1>4. LockOk /\ HandlingOk /\ HandledOk /\ ReviewsOk /\ UserOk
  BY <1>2, <1>3 DEF LockOk, HandlingOk, HandledOk, ReviewsOk, UserOk, Valid
<1>5. ReaddedOk /\ ListOk
  BY <1>2 DEF ReaddedOk, Readded, NsEvents, ListOk, Coming
<1> QED BY <1>1, <1>4, <1>5 DEF CacheInv

\* Every step keeps it.
LEMMA CacheStep ==
  ASSUME CacheInv, [Next]_vars
  PROVE  CacheInv'
<1>1. TypeOK /\ LockOk /\ HandlingOk /\ ReaddedOk
  BY DEF CacheInv
<1>2. TypeOK' /\ LockOk'
  BY <1>1, TypeStep, LockStep
<1>3. HandlingOk' /\ ReaddedOk'
  BY <1>1, EventStep
<1>4. ListOk' /\ HandledOk' /\ ReviewsOk' /\ UserOk'
  BY <1>2, ListStep, HandledStep, ReviewsStep, UserStep
<1> QED BY <1>2, <1>3, <1>4 DEF CacheInv

\* So it is an invariant.
LEMMA CacheInductive == Spec => []CacheInv
<1>1. Init => CacheInv
  BY CacheStart
<1>2. CacheInv /\ [Next]_vars => CacheInv'
  BY CacheStep
<1> QED BY <1>1, <1>2, PTL DEF Spec

\* The shared lists, the user's data, its requests and the watches keep their
\* types (sharedData.go, userData.go, cacheValidation.go).
THEOREM CacheTypes == Spec => []TypeOK
<1>1. CacheInv => TypeOK
  BY DEF CacheInv
<1> QED BY <1>1, CacheInductive, PTL

\* One request at a time computes the data of a user, and nobody is given the
\* data as valid meanwhile: GetUserDataCache holds usersLock from the new,
\* empty UserDataCache to the last review (userData.go).
THEOREM OneUpdate == Spec => []LockOk
<1>1. CacheInv => LockOk
  BY DEF CacheInv
<1> QED BY <1>1, CacheInductive, PTL

\* However many requests, refreshes, failures and events there are, a user
\* whose data is valid misses no namespace of the list: some request or
\* namespaceAdded has asked, or will ask, for its rules.
THEOREM NoneMissed == Spec => []NoNamespaceMissed
<1>1. CacheInv => NoNamespaceMissed
  BY DEF CacheInv, UserOk, Known, Coming, AddedIn, AddedEvent, NsEvents, NoNamespaceMissed, Added
<1> QED BY <1>1, CacheInductive, PTL

=============================================================================
