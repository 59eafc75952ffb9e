----------------------------- MODULE WatchCache -----------------------------
(***************************************************************************)
(* The RBAC check of the events of a user's watches, and the cache of its  *)
(* answers (pkg/rbac/watchCache.go, called by eventMatchesRbac in          *)
(* pkg/resolver/watchSubscription.go).                                     *)
(*                                                                         *)
(* The watches of the user share one UserWatchData: its client, which      *)
(* impersonates the user as the TokenReview described him when the first   *)
(* watch came, and a map of answers.  A check looks its key up with the    *)
(* read lock, asks the Kubernetes API without a lock when there is no      *)
(* valid answer, and stores the reply with the write lock, so two checks   *)
(* of a key can overlap.  The call is made with the context of the watch.  *)
(*                                                                         *)
(* Time is left out: an answer that is valid may expire at any moment.     *)
(***************************************************************************)
EXTENDS Integers

CONSTANTS
  Watches,     \* the watches of the user
  Keys,        \* the permissions their events need
  Identities,  \* what a TokenReview may say of the user: his groups
  None

ASSUME WatchCacheAssumption == None \notin Identities

VARIABLES
  policy,    \* policy[i][k]: the Kubernetes API permits k to identity i
  identity,  \* the user's present identity
  healthy,   \* calls to the Kubernetes API succeed, TokenReviews included
  client,    \* the identity the cached client impersonates, or None
  entry,     \* entry[k]: the cached answer, see Entries
  pc,        \* pc[w]: where the check of watch w is
  key,       \* key[w]: the permission it is about
  answer,    \* answer[w]: the API's reply, then the result of the check
  done       \* done[w]: the context of w is done

apiVars   == <<policy, identity, healthy>>
cacheVars == <<client, entry>>
watchVars == <<pc, key, answer, done>>
vars == <<apiVars, cacheVars, watchVars>>

-----------------------------------------------------------------------------
\* fresh: stored less than the TTL ago.
Entries == [cached : BOOLEAN, allowed : BOOLEAN, fresh : BOOLEAN]
NoEntry == [cached |-> FALSE, allowed |-> FALSE, fresh |-> FALSE]

\* select: between events. lookup, asking, storing: in
\* CheckPermissionAndCache. decided: it returned. ended: the watch is over.
WatchPc == {"select", "lookup", "asking", "storing", "decided", "ended"}

TypeOK ==
  /\ policy \in [Identities -> [Keys -> BOOLEAN]]
  /\ identity \in Identities
  /\ healthy \in BOOLEAN
  /\ client \in Identities \cup {None}
  /\ entry \in [Keys -> Entries]
  /\ pc \in [Watches -> WatchPc]
  /\ key \in [Watches -> Keys]
  /\ answer \in [Watches -> BOOLEAN]
  /\ done \in [Watches -> BOOLEAN]
  /\ \A w \in Watches : pc[w] \in {"lookup", "asking", "storing"} => client # None

Init ==
  /\ policy \in [Identities -> [Keys -> BOOLEAN]]
  /\ identity \in Identities
  /\ healthy = TRUE
  /\ client = None
  /\ entry = [k \in Keys |-> NoEntry]
  /\ pc = [w \in Watches |-> "select"]
  /\ key \in [Watches -> Keys]
  /\ answer = [w \in Watches |-> FALSE]
  /\ done = [w \in Watches |-> FALSE]

Go(w, from, to) ==
  /\ pc[w] = from
  /\ pc' = [pc EXCEPT ![w] = to]

-----------------------------------------------------------------------------
(* The world.                                                              *)

ChangePolicy(i, k) ==
  /\ policy' = [policy EXCEPT ![i][k] = ~@]
  /\ UNCHANGED <<identity, healthy, cacheVars, watchVars>>

ChangeIdentity(i) ==
  /\ identity # i
  /\ identity' = i
  /\ UNCHANGED <<policy, healthy, cacheVars, watchVars>>

ApiFailsOrRecovers ==
  /\ healthy' = ~healthy
  /\ UNCHANGED <<policy, identity, cacheVars, watchVars>>

\* Client gone, watch ended or evicted.
Cancel(w) ==
  /\ pc[w] # "ended"
  /\ ~done[w]
  /\ done' = [done EXCEPT ![w] = TRUE]
  /\ UNCHANGED <<apiVars, cacheVars, pc, key, answer>>

Expire(k) ==
  /\ entry[k].fresh
  /\ entry' = [entry EXCEPT ![k].fresh = FALSE]
  /\ UNCHANGED <<apiVars, client, watchVars>>

-----------------------------------------------------------------------------
(* A check.                                                                *)

\* Mutant: the client is not remembered.
WithClientForgotten == UNCHANGED client
\* GetUserWatchDataCache: the user's entry, made the first time.
WithClient == client' = IF client = None THEN identity ELSE client

\* An event is taken from the receiver channel: the select may prefer it to
\* a context that is done.  Without the user's UID it is refused.
Begin(w, k) ==
  /\ key' = [key EXCEPT ![w] = k]
  /\ \/ /\ Go(w, "select", "lookup")
        /\ WithClient
        /\ UNCHANGED answer
     \/ /\ ~healthy
        /\ Go(w, "select", "decided")
        /\ answer' = [answer EXCEPT ![w] = FALSE]
        /\ UNCHANGED client
  /\ UNCHANGED <<apiVars, entry, done>>

ValidForEver(e) == e.cached                        \* mutant: no TTL
DenialValidForEver(e) == e.cached /\ (e.fresh \/ ~e.allowed)       \* mutant
Valid(e) == e.cached /\ e.fresh

Lookup(w) ==
  LET e == entry[key[w]] IN
  /\ \/ /\ Valid(e)
        /\ Go(w, "lookup", "decided")
        /\ answer' = [answer EXCEPT ![w] = e.allowed]
     \/ /\ ~Valid(e)
        /\ Go(w, "lookup", "asking")
        /\ UNCHANGED answer
  /\ UNCHANGED <<apiVars, cacheVars, key, done>>

\* userAuthorizedWatchSSAR: a call that fails counts as a denial, and it
\* fails when the context of the watch is done.
Ask(w) ==
  /\ Go(w, "asking", "storing")
  /\ answer' = [answer EXCEPT ![w] = healthy /\ ~done[w] /\ policy[client][key[w]]]
  /\ UNCHANGED <<apiVars, cacheVars, key, done>>

Store(w) ==
  /\ Go(w, "storing", "decided")
  /\ entry' = [entry EXCEPT ![key[w]] =
                 [cached |-> TRUE, allowed |-> answer[w], fresh |-> TRUE]]
  /\ UNCHANGED <<apiVars, client, key, answer, done>>

\* The event is sent or skipped.
Continue(w) ==
  /\ Go(w, "decided", "select")
  /\ UNCHANGED <<apiVars, cacheVars, key, answer, done>>

End(w) ==
  /\ done[w]
  /\ Go(w, "select", "ended")
  /\ UNCHANGED <<apiVars, cacheVars, key, answer, done>>

-----------------------------------------------------------------------------
Next ==
  \/ \E i \in Identities, k \in Keys : ChangePolicy(i, k)
  \/ \E i \in Identities : ChangeIdentity(i)
  \/ ApiFailsOrRecovers
  \/ \E k \in Keys : Expire(k)
  \/ \E w \in Watches :
       \/ \E k \in Keys : Begin(w, k)
       \/ Cancel(w) \/ Lookup(w) \/ Ask(w) \/ Store(w) \/ Continue(w) \/ End(w)

\* Checks proceed, calls end, answers expire, and a select that finds both
\* cases ready again and again takes each of them (Go picks at random).
Fairness ==
  /\ \A k \in Keys : WF_vars(Expire(k))
  /\ \A w \in Watches :
       /\ WF_vars(Lookup(w) \/ Ask(w) \/ Store(w) \/ Continue(w))
       /\ SF_vars(End(w))

Spec     == Init /\ [][Next]_vars
FairSpec == Spec /\ Fairness

-----------------------------------------------------------------------------
(* Properties.                                                             *)

Decides(w, k, result) ==
  pc[w] = "decided" /\ ~done[w] /\ key[w] = k /\ answer[w] = result

Permitted(k) == client # None /\ policy[client][k]
Refused(k)   == client # None /\ ~policy[client][k]

\* Once a permission is withdrawn for good from the identity the client
\* impersonates, checks that overlap and store each other's answers do not
\* keep it alive in the cache: from some time on no event passes on it.
RevocationTakesEffect ==
  \A k \in Keys :
    <>[]Refused(k) => <>[](\A w \in Watches : ~Decides(w, k, TRUE))

\* Once it is granted for good, and the API answers, events are no longer
\* refused: denials cached for a failed or an aborted call go away too.
GrantTakesEffect ==
  \A k \in Keys :
    <>[](healthy /\ Permitted(k)) => <>[](\A w \in Watches : ~Decides(w, k, FALSE))
=============================================================================
