----------------------------- MODULE RbacCache -----------------------------
(***************************************************************************)
(* What a user may see, as ordinary requests learn it: the shared lists of *)
(* namespaces and managed clusters (pkg/rbac/sharedData.go), the data of   *)
(* the user computed from them (pkg/rbac/userData.go), and the goroutines  *)
(* that watch both kinds and edit the lists and the data in place          *)
(* (pkg/rbac/cacheValidation.go).                                          *)
(*                                                                         *)
(* The requests are those of one user.  A mutex that is held across steps  *)
(* is read off the program counters of those who may hold it, see Locks.   *)
(* A call to the Kubernetes API is one step with the use of its reply.  A  *)
(* request copies the data in the step that gives it to it: an event that  *)
(* comes in between is seen by the next request that finds it valid.       *)
(*                                                                         *)
(* Left out: the cluster called local-cluster (the lists differ on it),    *)
(* cluster-scoped kinds, disabled clusters, fine-grained permissions, and  *)
(* which resources of a namespace the rules permit.                        *)
(* Time is left out: what is valid may expire at any moment.               *)
(***************************************************************************)
EXTENDS Integers, FiniteSets, Sequences, SequencesExt

CONSTANTS
  Requests,    \* calls of PopulateSharedCache and GetUserData
  Middleware,  \* the requests that may come through the middleware
  Names,       \* names of namespaces
  Clusters,    \* names of managed clusters, each with a namespace of its own
  Access,      \* what the user may be, see AccessLevels
  Faults,      \* what may go wrong, see FaultKinds
  MaxChanges,  \* bound: how often something changes or goes wrong
  All,         \* "*", for every namespace or cluster
  None         \* nil

Kinds == {"namespaces", "clusters"}

\* The List calls of both kinds, the reviews of a user, and the watches.
FaultKinds == Kinds \cup {"review", "watch"}

\* all: may do everything.  managed: may search all managed clusters.  rules:
\* what the rules of each namespace permit.
AccessLevels == {"all", "managed", "rules"}

ASSUME RbacCacheAssumption ==
  /\ Middleware \subseteq Requests
  /\ Clusters \subseteq Names
  /\ Access \subseteq AccessLevels
  /\ Faults \subseteq FaultKinds
  /\ MaxChanges \in Nat
  /\ IsFiniteSet(Names)
  /\ All \notin Names

VARIABLES
  exists,     \* exists[k]: the objects of kind k in the hub cluster
  access,     \* the user's access level
  permitted,  \* the namespaces whose resources the user may list, and view
  changes,    \* how often something changed or went wrong
  list,       \* list[k]: the shared list of kind k, None for a nil map
  fresh,      \* the list of namespaces is valid
  failed,     \* the error of its last refresh
  user,       \* the user's UserDataCache, or None
  pc,         \* pc[r]: where request r is
  task,       \* task[r][k]: r's goroutine that refreshes list k
  todo,       \* todo[r]: namespaces r has not reviewed yet
  answer,     \* answer[r]: the copy of the user's data r was given
  up,         \* up[k]: the watch of kind k is established
  events,     \* events[k]: its events, the one being handled included
  handling    \* handling[k]: its handler is between its two halves

worldVars   == <<exists, access, permitted>>
sharedVars  == <<list, fresh, failed>>
requestVars == <<pc, task, todo, answer>>
watchVars   == <<up, events, handling>>
vars == <<worldVars, changes, sharedVars, user, requestVars, watchVars>>

-----------------------------------------------------------------------------
\* ns: keys of NsResources.  mc: keys of ManagedClusters.
Copies == [ns : SUBSET (Names \cup {All}), mc : SUBSET (Names \cup {All})]
NoCopy == [ns |-> {}, mc |-> {}]

\* fresh: all its metadata say valid.  History: reviewed, the namespaces
\* asked about; partial, built from what a failed refresh left of the list.
UserData == [ns : SUBSET (Names \cup {All}), mc : SUBSET (Names \cup {All}),
             fresh : BOOLEAN, reviewed : SUBSET Names, partial : BOOLEAN]
NewUser  == [ns |-> {}, mc |-> {}, fresh |-> FALSE,
             reviewed |-> {}, partial |-> FALSE]

ASSUME NilAssumption ==
  /\ \A names \in SUBSET Names : names # None
  /\ \A u \in UserData : u # None

Events   == [type : {"ADDED", "DELETED"}, name : Names]

\* idle: before GetUserDataCache, which holds usersLock from access to reviews.
RequestPc == {"idle", "access", "namespaces", "listing",
              "reviews", "answered"}

TypeOK ==
  /\ exists \in [Kinds -> SUBSET Names] /\ exists["clusters"] \subseteq Clusters
  /\ access \in Access
  /\ permitted \subseteq Names
  /\ changes \in 0..MaxChanges
  /\ list \in [Kinds -> (SUBSET Names) \cup {None}]
  /\ fresh \in BOOLEAN
  /\ failed \in BOOLEAN
  /\ user \in UserData \cup {None}
  /\ pc \in [Requests -> RequestPc]
  /\ task \in [Requests -> [Kinds -> {"none", "start", "listing"}]]
  /\ todo \in [Requests -> SUBSET Names]
  /\ \A r \in Requests : todo[r] # {} => pc[r] = "reviews"
  /\ answer \in [Requests -> Copies]
  /\ up \in [Kinds -> BOOLEAN]
  /\ events \in [Kinds -> Seq(Events)]
  /\ handling \in [Kinds -> BOOLEAN]

Init ==
  /\ exists \in [Kinds -> SUBSET Names] /\ exists["clusters"] \subseteq Clusters
  /\ access \in Access
  /\ permitted \in SUBSET Names
  /\ changes = 0
  /\ list = [k \in Kinds |-> {}]
  /\ fresh = FALSE
  /\ failed = FALSE
  /\ user = None
  /\ pc = [r \in Requests |-> "idle"]
  /\ task = [r \in Requests |-> [k \in Kinds |-> "none"]]
  /\ todo = [r \in Requests |-> {}]
  /\ answer = [r \in Requests |-> NoCopy]
  /\ up = [k \in Kinds |-> FALSE]
  /\ events = [k \in Kinds |-> <<>>]
  /\ handling = [k \in Kinds |-> FALSE]

-----------------------------------------------------------------------------
(* Locks.                                                                  *)

HeadIs(k, type) == events[k] # <<>> /\ Head(events[k]).type = type
Subject(k)      == Head(events[k]).name

\* A request that computes the user's data holds usersLock.
Updating(r) == pc[r] \in {"access", "namespaces", "listing", "reviews"}
UsersFree   == \A r \in Requests : ~Updating(r)

\* The mutex of a list is held during its List call.
Listing(r, k) ==
  task[r][k] = "listing" \/ (k = "namespaces" /\ pc[r] = "listing")

\* namespaceDeleted keeps that of the namespaces while it gets to the users.
Deleting == handling["namespaces"] /\ HeadIs("namespaces", "DELETED")

ListFree(k) ==
  /\ \A r \in Requests : ~Listing(r, k)
  /\ k = "namespaces" => ~Deleting

-----------------------------------------------------------------------------
(* The hub cluster, and time.                                              *)

Happens == changes < MaxChanges /\ changes' = changes + 1

\* This goes wrong, or it does not.
Fault(kind) == kind \in Faults /\ Happens
NoFault     == UNCHANGED changes

Notify(k, type, n) ==
  events' = IF up[k] THEN [events EXCEPT ![k] = Append(@, [type |-> type, name |-> n])]
                     ELSE events

Change(k, n) ==
  /\ Happens
  /\ k = "clusters" => n \in Clusters
  /\ \/ /\ n \notin exists[k]
        /\ exists' = [exists EXCEPT ![k] = @ \cup {n}]
        /\ Notify(k, "ADDED", n)
     \/ /\ n \in exists[k]
        /\ exists' = [exists EXCEPT ![k] = @ \ {n}]
        /\ Notify(k, "DELETED", n)
  /\ UNCHANGED <<access, permitted, sharedVars, user, requestVars, up, handling>>

ChangePolicy(n) ==
  /\ Happens
  /\ permitted' = IF n \in permitted THEN permitted \ {n} ELSE permitted \cup {n}
  /\ UNCHANGED <<exists, access, sharedVars, user, requestVars, watchVars>>

ExpireList ==
  /\ fresh
  /\ fresh' = FALSE
  /\ UNCHANGED <<worldVars, changes, list, failed, user, requestVars, watchVars>>

ExpireUser ==
  /\ user # None
  /\ user.fresh
  /\ user' = [user EXCEPT !.fresh = FALSE]
  /\ UNCHANGED <<worldVars, changes, sharedVars, requestVars, watchVars>>

-----------------------------------------------------------------------------
(* The shared lists.                                                       *)

Listed(k) == IF list[k] = None THEN {} ELSE list[k]

\* A refresh begins by clearing the list.
Clear(k) ==
  /\ list' = [list EXCEPT ![k] = IF k = "clusters" THEN None ELSE {}]
  /\ failed' = IF k = "namespaces" THEN FALSE ELSE failed
  /\ UNCHANGED fresh

\* The List call and what follows it; an error is valid for a while, too.
\* The validity of the managed clusters matters to no one but the
\* middleware, see BeginInMiddleware.
Refresh(k) ==
  /\ \/ /\ NoFault
        /\ list' = [list EXCEPT ![k] = exists[k]]
        /\ UNCHANGED failed
     \/ /\ Fault(k)
        /\ failed' = (failed \/ k = "namespaces")
        /\ UNCHANGED list
  /\ fresh' = (fresh \/ k = "namespaces")

-----------------------------------------------------------------------------
(* A request: PopulateSharedCache, which the middleware calls first and    *)
(* resolvers do not call.                                                  *)

Go(r, from, to) ==
  /\ pc[r] = from
  /\ pc' = [pc EXCEPT ![r] = to]

Populating(r) == \E k \in Kinds : task[r][k] # "none"

\* The lists are refreshed when one of them, or that of the cluster-scoped
\* kinds, is not valid.
PopulateSharedCache(r) ==
  /\ r \in Middleware
  /\ pc[r] = "idle"
  /\ ~Populating(r)
  /\ task' = [task EXCEPT ![r] = [k \in Kinds |-> "start"]]
  /\ UNCHANGED <<worldVars, changes, sharedVars, user, pc, todo, answer, watchVars>>

\* getNamespaces does nothing when the list is valid by then;
\* getManagedClusters does not look.
StartTask(r, k) ==
  /\ task[r][k] = "start"
  /\ ListFree(k)
  /\ \/ /\ k = "namespaces" /\ fresh
        /\ task' = [task EXCEPT ![r][k] = "none"]
        /\ UNCHANGED sharedVars
     \/ /\ k = "namespaces" => ~fresh
        /\ task' = [task EXCEPT ![r][k] = "listing"]
        /\ Clear(k)
  /\ UNCHANGED <<worldVars, changes, user, pc, todo, answer, watchVars>>

EndTask(r, k) ==
  /\ task[r][k] = "listing"
  /\ task' = [task EXCEPT ![r][k] = "none"]
  /\ Refresh(k)
  /\ UNCHANGED <<worldVars, user, pc, todo, answer, watchVars>>

-----------------------------------------------------------------------------
(* GetUserDataCache and GetUserData.                                       *)

Copy(u) == [ns |-> u.ns, mc |-> u.mc]

ValidForEver == user # None /\ user.reviewed # {}            \* mutant: no TTL
Valid == user # None /\ user.fresh

UseCached(r) ==
  /\ UsersFree
  /\ Valid
  /\ ~Populating(r)
  /\ Go(r, "idle", "answered")
  /\ answer' = [answer EXCEPT ![r] = Copy(user)]
  /\ UNCHANGED <<worldVars, changes, sharedVars, user, task, todo, watchVars>>

\* A new, empty UserDataCache takes the place of the user's old one.
NewUserData(r) ==
  /\ UsersFree
  /\ ~Valid
  /\ ~Populating(r)
  /\ Go(r, "idle", "access")
  /\ user' = NewUser
  /\ UNCHANGED <<worldVars, changes, sharedVars, task, todo, answer, watchVars>>

Everything == [NewUser EXCEPT !.mc = {All}, !.fresh = TRUE, !.reviewed = Names,
                              !.ns = IF access = "all" THEN {All} ELSE {}]

\* userHasAllAccess, which takes the mutex of the shared list of managed
\* clusters for the user's.  A review that fails counts as a denial.
AllAccess(r) ==
  /\ \/ /\ access # "rules"
        /\ NoFault
        /\ ListFree("clusters")
        /\ Go(r, "access", "answered")
        /\ user' = Everything
        /\ answer' = [answer EXCEPT ![r] = Copy(Everything)]
     \/ /\ IF access = "rules" THEN NoFault ELSE Fault("review")
        /\ Go(r, "access", "namespaces")
        /\ UNCHANGED <<user, answer>>
  /\ UNCHANGED <<worldVars, sharedVars, task, todo, watchVars>>

\* getNamespacedResources with the list it got: an empty one ends the
\* update, with an error if the list has one.
UseNamespaces(r, names, err) ==
  \/ /\ names # {}
     /\ pc' = [pc EXCEPT ![r] = "reviews"]
     /\ todo' = [todo EXCEPT ![r] = names]
     /\ user' = [user EXCEPT !.partial = err]
     /\ UNCHANGED answer
  \/ /\ names = {}
     /\ pc' = [pc EXCEPT ![r] = IF err THEN "idle" ELSE "answered"]
     /\ answer' = [answer EXCEPT ![r] = IF err THEN NoCopy ELSE Copy(user)]
     /\ UNCHANGED <<user, todo>>

GetNamespaces(r) ==
  /\ pc[r] = "namespaces"
  /\ ListFree("namespaces")
  /\ \/ /\ fresh
        /\ UseNamespaces(r, Listed("namespaces"), failed)
        /\ UNCHANGED sharedVars
     \/ /\ ~fresh
        /\ pc' = [pc EXCEPT ![r] = "listing"]
        /\ Clear("namespaces")
        /\ UNCHANGED <<user, todo, answer>>
  /\ UNCHANGED <<worldVars, changes, task, watchVars>>

ListNamespaces(r) ==
  /\ pc[r] = "listing"
  /\ Refresh("namespaces")
  /\ UseNamespaces(r, Listed("namespaces")', failed')
  /\ UNCHANGED <<worldVars, task, watchVars>>

AsClusterIfAny(n) == {n}              \* mutant: any namespace will do

\* updateUserManagedClusterList reads the list of managed clusters without
\* its mutex.
AsCluster(n) == {n} \cap Listed("clusters")

Granted(u, n) == [u EXCEPT !.ns = @ \cup {n}, !.mc = @ \cup AsCluster(n)]

\* getSSRRforNamespace: the user's data after the rules of namespace n were
\* asked for.  When that fails there are no rules.
ReviewNamespace(n) ==
  LET asked == [user EXCEPT !.reviewed = @ \cup {n}] IN
    \/ /\ NoFault
       /\ user' = IF n \in permitted \/ access = "all" THEN Granted(asked, n) ELSE asked
    \/ /\ Fault("review")
       /\ user' = asked

\* The goroutine of one namespace; they are independent of each other.
Review(r, n) ==
  /\ pc[r] = "reviews"
  /\ n \in todo[r]
  /\ todo' = [todo EXCEPT ![r] = @ \ {n}]
  /\ ReviewNamespace(n)
  /\ UNCHANGED <<worldVars, sharedVars, pc, task, answer, watchVars>>

EndUpdateEarly(r) ==                                   \* mutant: no wg.Wait
  /\ Go(r, "reviews", "answered")
  /\ user' = [user EXCEPT !.fresh = TRUE]
  /\ answer' = [answer EXCEPT ![r] = Copy(user)]
  /\ UNCHANGED <<worldVars, changes, sharedVars, task, todo, watchVars>>

\* The cluster-scoped kinds are next; when their list is empty, being
\* refreshed, the user's data stays invalid.
EndUpdate(r) ==
  /\ todo[r] = {}
  /\ Go(r, "reviews", "answered")
  /\ \E valid \in BOOLEAN : user' = [user EXCEPT !.fresh = valid]
  /\ answer' = [answer EXCEPT ![r] = Copy(user)]
  /\ UNCHANGED <<worldVars, changes, sharedVars, task, todo, watchVars>>

\* The request ends, and the client has another.
End(r) ==
  /\ Go(r, "answered", "idle")
  /\ answer' = [answer EXCEPT ![r] = NoCopy]
  /\ UNCHANGED <<worldVars, changes, sharedVars, user, task, todo, watchVars>>

-----------------------------------------------------------------------------
(* The goroutines that watch namespaces and managed clusters.              *)

\* A new watch begins with an ADDED event for everything there is; nothing
\* tells it what was deleted in between.
Replayed(k) ==
  LET names == SetToSeq(exists[k]) IN
    [i \in 1..Len(names) |-> [type |-> "ADDED", name |-> names[i]]]

WatchStarts(k) ==
  /\ ~up[k]
  /\ up' = [up EXCEPT ![k] = TRUE]
  /\ events' = [events EXCEPT ![k] = Replayed(k)]
  /\ UNCHANGED <<worldVars, changes, sharedVars, user, requestVars, handling>>

WatchBreaks(k) ==
  /\ up[k]
  /\ ~handling[k]
  /\ Fault("watch")
  /\ up' = [up EXCEPT ![k] = FALSE]
  /\ events' = [events EXCEPT ![k] = <<>>]
  /\ UNCHANGED <<worldVars, sharedVars, user, requestVars, handling>>

\* A handler edits the list first, with its mutex; its validity is renewed,
\* and the error of a failed refresh is kept.
EditList(k, type) ==
  /\ HeadIs(k, type)
  /\ ~handling[k]
  /\ ListFree(k)
  /\ handling' = [handling EXCEPT ![k] = TRUE]
  /\ fresh' = (fresh \/ k = "namespaces")
  /\ UNCHANGED <<worldVars, changes, failed, user, requestVars, up, events>>

\* It edits the data of all users then, with usersLock.
EditUsers(k, type) ==
  /\ HeadIs(k, type)
  /\ handling[k]
  /\ UsersFree
  /\ handling' = [handling EXCEPT ![k] = FALSE]
  /\ events' = [events EXCEPT ![k] = Tail(@)]
  /\ UNCHANGED <<worldVars, sharedVars, requestVars, up>>

\* namespaceAdded and managedClusterAdded.
AddToListIfNew(k) ==             \* mutant: a listed namespace is no news
  /\ HeadIs(k, "ADDED") /\ ~handling[k] /\ ListFree(k)
  /\ list[k] # None
  /\ IF Subject(k) \in list[k]
     THEN events' = [events EXCEPT ![k] = Tail(@)] /\ UNCHANGED <<list, fresh, handling>>
     ELSE /\ list' = [list EXCEPT ![k] = @ \cup {Subject(k)}]
          /\ EditList(k, "ADDED")
  /\ UNCHANGED <<worldVars, changes, failed, user, requestVars, up>>

AddToList(k) ==
  /\ EditList(k, "ADDED")
  /\ list[k] # None
  /\ list' = [list EXCEPT ![k] = @ \cup {Subject(k)}]

\* Both ask for the rules of the namespace.
AddToUsers(k) ==
  /\ EditUsers(k, "ADDED")
  /\ IF user # None THEN ReviewNamespace(Subject(k)) ELSE UNCHANGED <<user, changes>>

\* managedClusterAdded writes to a map that is nil since a List call failed:
\* that ends the process, and with it its requests.  A new one starts.
Panic ==
  /\ HeadIs("clusters", "ADDED")
  /\ ~handling["clusters"]
  /\ ListFree("clusters")
  /\ list["clusters"] = None
  /\ list' = [k \in Kinds |-> {}]
  /\ fresh' = FALSE
  /\ failed' = FALSE
  /\ user' = None
  /\ pc' = [r \in Requests |-> "idle"]
  /\ task' = [r \in Requests |-> [k \in Kinds |-> "none"]]
  /\ todo' = [r \in Requests |-> {}]
  /\ answer' = [r \in Requests |-> NoCopy]
  /\ up' = [k \in Kinds |-> FALSE]
  /\ events' = [k \in Kinds |-> <<>>]
  /\ handling' = [k \in Kinds |-> FALSE]
  /\ UNCHANGED <<worldVars, changes>>

\* namespaceDeleted and managedClusterDeleted.
RemoveFromList(k) ==
  /\ EditList(k, "DELETED")
  /\ list' = [list EXCEPT ![k] = IF @ = None THEN None ELSE @ \ {Subject(k)}]

Without(u, k, n) ==
  IF k = "namespaces"
  THEN [u EXCEPT !.ns = @ \ {n}, !.mc = @ \ {n}, !.reviewed = @ \ {n}]
  ELSE [u EXCEPT !.mc = @ \ {n}]

RemoveFromUsers(k) ==
  /\ EditUsers(k, "DELETED")
  /\ user' = IF user = None THEN None ELSE Without(user, k, Subject(k))
  /\ NoFault

-----------------------------------------------------------------------------
\* The steps of a request that has begun.
RequestStep(r) ==
  \/ \E k \in Kinds : StartTask(r, k) \/ EndTask(r, k)
  \/ AllAccess(r) \/ GetNamespaces(r) \/ ListNamespaces(r)
  \/ \E n \in Names : Review(r, n)
  \/ EndUpdate(r) \/ End(r)

HandlerStep(k) ==
  \/ AddToList(k) \/ AddToUsers(k) \/ RemoveFromList(k) \/ RemoveFromUsers(k)

Next ==
  \/ \E k \in Kinds, n \in Names : Change(k, n)
  \/ \E n \in Names : ChangePolicy(n)
  \/ ExpireList \/ ExpireUser \/ Panic
  \/ \E r \in Requests :
       PopulateSharedCache(r) \/ UseCached(r) \/ NewUserData(r) \/ RequestStep(r)
  \/ \E k \in Kinds : WatchStarts(k) \/ WatchBreaks(k) \/ HandlerStep(k)

Spec == Init /\ [][Next]_vars

\* Time passes.
ExpiringSpec == Spec /\ WF_vars(ExpireUser) /\ WF_vars(ExpireList)

\* Goroutines run and API calls end; a mutex lets every waiter in eventually.
FairSpec ==
  /\ ExpiringSpec
  /\ \A r \in Requests : SF_vars(RequestStep(r))
  /\ \A k \in Kinds : SF_vars(HandlerStep(k))

-----------------------------------------------------------------------------
(* Properties.                                                             *)

Added(n) ==
  \E i \in 1..Len(events["namespaces"]) :
    events["namespaces"][i] = [type |-> "ADDED", name |-> n]

\* No namespace of the shared list that is still there is missed by a user
\* whose data is valid: its rules were asked for, or its event is still to be
\* handled, or a new watch will bring one; unless his data was built from what
\* a failed refresh left.  However a request that builds the data, refreshes of
\* the list and namespaceAdded follow each other, one of them gets to it.
NoNamespaceMissed ==
  Valid => \A n \in Listed("namespaces") \cap exists["namespaces"] :
             \/ n \in user.reviewed
             \/ Added(n)
             \/ ~up["namespaces"]
             \/ user.partial

RightNamespaces(ans) ==
  ans.ns = CASE access = "all"     -> {All}
             [] access = "managed" -> {}
             [] access = "rules"   -> permitted \cap exists["namespaces"]

NoWrongCluster(ans) ==
  IF access = "rules" THEN ans.mc \subseteq permitted \cap exists["clusters"]
                      ELSE ans.mc = {All}

Answered(r) == pc[r] = "answered"

\* Whatever went wrong, and however requests, events and refreshes overlap:
\* once things stop changing, requests come to be answered with exactly the
\* permitted namespaces there are (if they are answered: see DeletionHandled).
NamespacesSettle == <>[](\A r \in Requests : Answered(r) => RightNamespaces(answer[r]))

\* Only PopulateSharedCache corrects the managed clusters after a lost event.
PopulatedAgain == []<>(\E r \in Requests : Populating(r))

\* With the same liberties, as long as lists are refreshed: no managed cluster
\* that is gone, or no longer permitted, stays in what requests are answered.
NoWrongClusterSettles ==
  PopulatedAgain => <>[](\A r \in Requests : Answered(r) => NoWrongCluster(answer[r]))

\* "Update the cache when a namespace is DELETED" (cacheValidation.go:157):
\* a handler that has begun gets to the users.
DeletionHandled == Deleting ~> ~Deleting
=============================================================================
