-------------------------- MODULE WatchCacheProofs --------------------------
(***************************************************************************)
(* Theorems about WatchCache, for any numbers of watches, permissions and  *)
(* identities: types, and that a withdrawn permission that has left the    *)
(* cache does not come back.                                               *)
(***************************************************************************)
EXTENDS WatchCache, TLAPS

\* The permission is withdrawn, and neither a valid answer nor one on its way
\* into the cache or to an event says otherwise.
Gone(k) ==
  /\ Refused(k)
  /\ ~(Valid(entry[k]) /\ entry[k].allowed)
  /\ \A w \in Watches : key[w] = k /\ pc[w] \in {"storing", "decided"} => ~answer[w]

StaysGone == \A k \in Keys : Gone(k) /\ Refused(k)' => Gone(k)'

\* Where a check goes from here.
LEMMA Going ==
  ASSUME TypeOK, NEW w \in Watches, NEW from, NEW to \in WatchPc, Go(w, from, to)
  PROVE  /\ pc' \in [Watches -> WatchPc] /\ pc[w] = from /\ pc'[w] = to
         /\ \A v \in Watches : v # w => pc'[v] = pc[v]
BY DEF TypeOK, Go

\* What a step of a check does to what it knows.
LEMMA Replies ==
  ASSUME TypeOK, NEW w \in Watches, NEW b \in BOOLEAN, answer' = [answer EXCEPT ![w] = b]
  PROVE  /\ answer' \in [Watches -> BOOLEAN] /\ answer'[w] = b
         /\ \A v \in Watches : v # w => answer'[v] = answer[v]
BY DEF TypeOK

-----------------------------------------------------------------------------
\* The variables are typed before the first watch.
LEMMA TypeInit == Init => TypeOK
<1> SUFFICES ASSUME Init PROVE TypeOK
  OBVIOUS
<1>1. NoEntry \in Entries /\ "select" \in WatchPc
  BY DEF NoEntry, Entries, WatchPc
<1> QED BY <1>1 DEF Init, TypeOK

\* Every step keeps them so; a check that has begun has a client.
LEMMA TypeStep == TypeOK /\ [Next]_vars => TypeOK'
<1> SUFFICES ASSUME TypeOK, [Next]_vars PROVE TypeOK'
  OBVIOUS
<1> USE DEF TypeOK
<1>pc. WatchPc = {"select", "lookup", "asking", "storing", "decided", "ended"}
  BY DEF WatchPc
<1>1. ASSUME NEW i \in Identities, NEW k \in Keys, ChangePolicy(i, k) PROVE TypeOK'
  <2>1. policy' \in [Identities -> [Keys -> BOOLEAN]]
    <3>1. [policy[i] EXCEPT ![k] = ~policy[i][k]] \in [Keys -> BOOLEAN]
      OBVIOUS
    <3>2. policy' = [policy EXCEPT ![i] = [policy[i] EXCEPT ![k] = ~policy[i][k]]]
      BY <1>1 DEF ChangePolicy
    <3> QED BY <3>1, <3>2
  <2> QED BY <1>1, <2>1 DEF ChangePolicy, cacheVars, watchVars
<1>2. ASSUME NEW i \in Identities, ChangeIdentity(i) PROVE TypeOK'
  BY <1>2 DEF ChangeIdentity, cacheVars, watchVars
<1>3. CASE ApiFailsOrRecovers
  BY <1>3 DEF ApiFailsOrRecovers, cacheVars, watchVars
<1>4. ASSUME NEW k \in Keys, Expire(k) PROVE TypeOK'
  <2>1. [entry[k] EXCEPT !.fresh = FALSE] \in Entries
    BY DEF Entries
  <2>2. entry' \in [Keys -> Entries]
    BY <1>4, <2>1 DEF Expire
  <2> QED BY <1>4, <2>2 DEF Expire, apiVars, watchVars
<1>5. ASSUME NEW w \in Watches, NEW k \in Keys, Begin(w, k) PROVE TypeOK'
  <2>1. key' \in [Watches -> Keys]
    BY <1>5 DEF Begin
  <2>2. CASE Go(w, "select", "lookup") /\ WithClient /\ UNCHANGED answer
    <3>1. /\ pc' \in [Watches -> WatchPc] /\ \A v \in Watches : v # w => pc'[v] = pc[v]
      BY <1>pc, <2>2, Going
    <3>2. client' \in Identities
      BY <2>2 DEF WithClient
    <3>3. client' # None
      BY <3>2, WatchCacheAssumption
    <3> QED BY <1>5, <2>1, <2>2, <3>1, <3>2, <3>3 DEF Begin, apiVars
  <2>3. CASE Go(w, "select", "decided") /\ answer' = [answer EXCEPT ![w] = FALSE] /\ UNCHANGED client
    <3>1. /\ pc' \in [Watches -> WatchPc] /\ pc'[w] = "decided"
          /\ \A v \in Watches : v # w => pc'[v] = pc[v]
      BY <1>pc, <2>3, Going
    <3>2. answer' \in [Watches -> BOOLEAN]
      BY <2>3, Replies
    <3> QED BY <1>5, <2>1, <2>3, <3>1, <3>2 DEF Begin, apiVars
  <2> QED BY <1>5, <2>2, <2>3 DEF Begin
<1>6. ASSUME NEW w \in Watches, Cancel(w) PROVE TypeOK'
  BY <1>6 DEF Cancel, apiVars, cacheVars
<1>7. ASSUME NEW w \in Watches, Lookup(w) PROVE TypeOK'
  <2>1. entry[key[w]].allowed \in BOOLEAN
    BY DEF Entries
  <2>2. CASE Go(w, "lookup", "decided") /\ answer' = [answer EXCEPT ![w] = entry[key[w]].allowed]
    <3>1. pc' \in [Watches -> WatchPc] /\ pc'[w] = "decided" /\ \A v \in Watches : v # w => pc'[v] = pc[v]
      BY <1>pc, <2>2, Going
    <3>2. answer' \in [Watches -> BOOLEAN]
      BY <2>1, <2>2, Replies
    <3> QED BY <1>7, <3>1, <3>2 DEF Lookup, apiVars, cacheVars
  <2>3. CASE Go(w, "lookup", "asking") /\ UNCHANGED answer
    <3>1. pc' \in [Watches -> WatchPc] /\ pc[w] = "lookup" /\ \A v \in Watches : v # w => pc'[v] = pc[v]
      BY <1>pc, <2>3, Going
    <3> QED BY <1>7, <2>3, <3>1 DEF Lookup, apiVars, cacheVars
  <2> QED BY <1>7, <2>2, <2>3 DEF Lookup
<1>8. ASSUME NEW w \in Watches, Ask(w) PROVE TypeOK'
  <2>1. /\ pc' \in [Watches -> WatchPc] /\ pc[w] = "asking" /\ \A v \in Watches : v # w => pc'[v] = pc[v]
    BY <1>8, <1>pc, Going DEF Ask
  <2>2. (healthy /\ ~done[w] /\ policy[client][key[w]]) \in BOOLEAN
    OBVIOUS
  <2>3. answer' \in [Watches -> BOOLEAN]
    BY <1>8, <2>2, Replies DEF Ask
  <2> QED BY <1>8, <2>1, <2>3 DEF Ask, apiVars, cacheVars
<1>9. ASSUME NEW w \in Watches, Store(w) PROVE TypeOK'
  <2>1. /\ pc' \in [Watches -> WatchPc] /\ pc'[w] = "decided" /\ \A v \in Watches : v # w => pc'[v] = pc[v]
    BY <1>9, <1>pc, Going DEF Store
  <2>2. [cached |-> TRUE, allowed |-> answer[w], fresh |-> TRUE] \in Entries
    BY DEF Entries
  <2>3. entry' \in [Keys -> Entries]
    BY <1>9, <2>2 DEF Store
  <2> QED BY <1>9, <2>1, <2>3 DEF Store, apiVars
<1>10. ASSUME NEW w \in Watches, Continue(w) \/ End(w) PROVE TypeOK'
  <2>1. /\ pc' \in [Watches -> WatchPc] /\ pc'[w] \in {"select", "ended"}
        /\ \A v \in Watches : v # w => pc'[v] = pc[v]
    BY <1>10, <1>pc, Going DEF Continue, End
  <2> QED BY <1>10, <2>1 DEF Continue, End, apiVars, cacheVars
<1>11. CASE UNCHANGED vars
  BY <1>11 DEF vars, apiVars, cacheVars, watchVars
<1> QED
  BY <1>1, <1>2, <1>3, <1>4, <1>5, <1>6, <1>7, <1>8, <1>9, <1>10, <1>11 DEF Next

\* The user's client, the cached answers and the checks of his watches keep
\* their types, and a check that asks or stores has a client
\* (GetUserWatchDataCache and CheckPermissionAndCache, watchCache.go).
THEOREM WatchCacheTypes == Spec => []TypeOK
BY TypeInit, TypeStep, PTL DEF Spec

-----------------------------------------------------------------------------
\* No step brings a withdrawn permission back.
LEMMA GoneStep == TypeOK /\ [Next]_vars => StaysGone
<1> SUFFICES ASSUME TypeOK, [Next]_vars, NEW k \in Keys, Gone(k), Refused(k)'
             PROVE  Gone(k)'
  BY DEF StaysGone
<1> USE DEF TypeOK
<1> DEFINE Quiet(w) == key[w] = k /\ pc[w] \in {"storing", "decided"} => ~answer[w]
<1>pc. WatchPc = {"select", "lookup", "asking", "storing", "decided", "ended"}
  BY DEF WatchPc
<1>0. /\ client \in Identities /\ ~policy[client][k] /\ ~(Valid(entry[k]) /\ entry[k].allowed)
      /\ \A w \in Watches : Quiet(w)
  BY DEF Gone, Refused
<1>g. ASSUME ~(Valid(entry'[k]) /\ entry'[k].allowed), \A w \in Watches : Quiet(w)'
      PROVE  Gone(k)'
  BY <1>g DEF Gone
\* A check of one watch, which leaves the others quiet.
<1>w. ASSUME NEW w \in Watches, Quiet(w)', UNCHANGED entry,
             \A v \in Watches : v # w => pc'[v] = pc[v] /\ key'[v] = key[v] /\ answer'[v] = answer[v]
      PROVE  Gone(k)'
  <2>1. ASSUME NEW v \in Watches PROVE Quiet(v)'
    BY <1>0, <1>w
  <2> QED BY <1>0, <1>g, <1>w, <2>1
<1>1. CASE UNCHANGED <<entry, pc, key, answer>>
  BY <1>0, <1>1, <1>g
<1>2. ASSUME NEW j \in Keys, Expire(j) PROVE Gone(k)'
  <2>1. UNCHANGED <<pc, key, answer>> /\ entry' = [entry EXCEPT ![j] = [entry[j] EXCEPT !.fresh = FALSE]]
    BY <1>2 DEF Expire, watchVars
  <2>2. CASE j = k
    <3>1. ~entry'[k].fresh
      BY <2>1, <2>2 DEF Entries
    <3> QED BY <1>0, <1>g, <2>1, <3>1 DEF Valid
  <2>3. CASE j # k
    BY <1>0, <1>g, <2>1, <2>3
  <2> QED BY <2>2, <2>3
<1>3. ASSUME NEW w \in Watches, NEW j \in Keys, Begin(w, j) PROVE Gone(k)'
  <2>1. entry' = entry /\ key' = [key EXCEPT ![w] = j]
    BY <1>3 DEF Begin
  <2>2. CASE Go(w, "select", "lookup") /\ UNCHANGED answer
    BY <1>pc, <1>w, <2>1, <2>2, Going
  <2>3. CASE Go(w, "select", "decided") /\ answer' = [answer EXCEPT ![w] = FALSE]
    <3>1. ~answer'[w] /\ \A v \in Watches : v # w => answer'[v] = answer[v]
      BY <2>3
    <3> QED BY <1>pc, <1>w, <2>1, <2>3, <3>1, Going
  <2> QED BY <1>3, <2>2, <2>3 DEF Begin
<1>4. ASSUME NEW w \in Watches, Lookup(w) PROVE Gone(k)'
  <2>1. entry' = entry /\ key' = key
    BY <1>4 DEF Lookup, cacheVars
  <2>2. CASE Valid(entry[key[w]]) /\ Go(w, "lookup", "decided") /\ answer' = [answer EXCEPT ![w] = entry[key[w]].allowed]
    <3>1. entry[key[w]].allowed \in BOOLEAN
      BY DEF Entries
    <3>2. answer'[w] = entry[key[w]].allowed /\ \A v \in Watches : v # w => answer'[v] = answer[v]
      BY <2>2, <3>1, Replies
    <3>3. key[w] = k => ~answer'[w]
      BY <1>0, <2>2, <3>2
    <3> QED BY <1>pc, <1>w, <2>1, <2>2, <3>2, <3>3, Going
  <2>3. CASE Go(w, "lookup", "asking") /\ UNCHANGED answer
    BY <1>pc, <1>w, <2>1, <2>3, Going
  <2> QED BY <1>4, <2>2, <2>3 DEF Lookup
<1>5. ASSUME NEW w \in Watches, Ask(w) PROVE Gone(k)'
  <2>1. entry' = entry /\ key' = key /\ Go(w, "asking", "storing")
    BY <1>5 DEF Ask, cacheVars
  <2>2. (healthy /\ ~done[w] /\ policy[client][key[w]]) \in BOOLEAN
    BY <1>0
  <2>3. /\ answer'[w] = (healthy /\ ~done[w] /\ policy[client][key[w]])
        /\ \A v \in Watches : v # w => answer'[v] = answer[v]
    BY <1>5, <2>2, Replies DEF Ask
  <2>4. key[w] = k => ~answer'[w]
    BY <1>0, <2>3
  <2> QED BY <1>pc, <1>w, <2>1, <2>3, <2>4, Going
<1>6. ASSUME NEW w \in Watches, Store(w) PROVE Gone(k)'
  <2>1. /\ pc[w] = "storing" /\ \A v \in Watches : v # w => pc'[v] = pc[v]
        /\ key' = key /\ answer' = answer
    BY <1>6, <1>pc, Going DEF Store
  <2>2. \A v \in Watches : Quiet(v)'
    BY <1>0, <2>1
  <2>3. entry' = [entry EXCEPT ![key[w]] = [cached |-> TRUE, allowed |-> answer[w], fresh |-> TRUE]]
    BY <1>6 DEF Store
  <2>4. CASE key[w] = k
    <3>1. ~answer[w]
      BY <1>0, <2>1, <2>4
    <3>2. entry'[k].allowed = answer[w]
      BY <2>3, <2>4
    <3> QED BY <1>g, <2>2, <3>1, <3>2
  <2>5. CASE key[w] # k
    BY <1>0, <1>g, <2>2, <2>3, <2>5
  <2> QED BY <2>4, <2>5
<1>7. ASSUME NEW w \in Watches, Continue(w) \/ End(w) PROVE Gone(k)'
  <2>1. UNCHANGED <<entry, key, answer>>
    BY <1>7 DEF Continue, End, cacheVars
  <2>2. pc'[w] \in {"select", "ended"} /\ \A v \in Watches : v # w => pc'[v] = pc[v]
    BY <1>7, <1>pc, Going DEF Continue, End
  <2> QED BY <1>w, <2>1, <2>2
<1>8. ASSUME \/ \E i \in Identities, j \in Keys : ChangePolicy(i, j)
             \/ \E i \in Identities : ChangeIdentity(i)
             \/ ApiFailsOrRecovers \/ UNCHANGED vars
             \/ \E w \in Watches : Cancel(w)
      PROVE  UNCHANGED <<entry, pc, key, answer>>
  BY <1>8 DEF ChangePolicy, ChangeIdentity, ApiFailsOrRecovers, Cancel, vars, cacheVars, watchVars
<1> QED
  BY <1>1, <1>2, <1>3, <1>4, <1>5, <1>6, <1>7, <1>8 DEF Next

\* Once a withdrawn permission is out of the cache and out of the checks under
\* way, no overlap of checks, no expiry, failed or aborted call brings it back
\* before the API grants it again (CheckPermissionAndCache, watchCache.go).
THEOREM WithdrawnStays == Spec => [][StaysGone]_vars
<1>1. TypeOK /\ [Next]_vars => [StaysGone]_vars
  BY GoneStep
<1>2. Spec => []TypeOK
  BY WatchCacheTypes
<1> QED BY <1>1, <1>2, PTL DEF Spec
=============================================================================
