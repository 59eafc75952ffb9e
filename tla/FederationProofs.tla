-------------------------- MODULE FederationProofs --------------------------
(***************************************************************************)
(* Theorems about Federation, for any number of clients and hubs, whatever *)
(* the hubs hold and whichever calls fail.                                 *)
(***************************************************************************)
EXTENDS Federation, FiniteSetTheorems, SequenceTheorems, NaturalsInduction, TLAPS

Idle == {"none", "done"}

\* The goroutine of service n goes to a place, and nothing else that the types of
\* the goroutines and of the lock are about changes but the lock itself.
LEMMA GoroutineMoves ==
  ASSUME TypeOK, NEW q \in Callers, NEW n \in Names, at[q][n] \in Running,
         NEW place \in {"done"} \cup Running, Moves(q, n, place),
         UNCHANGED <<pc, asked>>, outcome' \in [Callers -> [Names -> DOMAIN Place \cup {None}]],
         writeLock' \in [Callers -> Names \cup {None}],
         \A r \in Callers : writeLock'[r] = IF r # q THEN writeLock[r]
                                           ELSE IF place = "merge" THEN n
                                           ELSE IF at[q][n] = "merge" THEN None
                                           ELSE writeLock[q],
         place = "merge" => writeLock[q] = None
  PROVE  /\ GoroutinesOk'
         /\ \A r \in Callers, m \in Names : writeLock'[r] = m <=> at'[r][m] = "merge"
<1> USE DEF TypeOK, GoroutinesOk, Running, Moves
<1>1. /\ at' \in [Callers -> [Names -> {"none", "done"} \cup Running]]
      /\ \A r \in Callers, m \in Names :
           at'[r][m] = IF r = q /\ m = n THEN place ELSE at[r][m]
  OBVIOUS
<1>2. GoroutinesOk'
  BY <1>1
<1>3. ASSUME NEW r \in Callers, NEW m \in Names
      PROVE  writeLock'[r] = m <=> at'[r][m] = "merge"
  <2>1. m # None
    BY NamesAssumption DEF Names
  <2>2. CASE r = q
    BY <1>1, <2>1, <2>2
  <2>3. CASE r # q
    BY <1>1, <2>3
  <2> QED BY <2>2, <2>3
<1> QED BY <1>2, <1>3

\* The first state.
LEMMA TypeInit == Init => TypeOK
<1> SUFFICES ASSUME Init PROVE TypeOK
  OBVIOUS
<1> USE DEF Init
<1>1. ConfigOk
  BY BoundsAssumption DEF ConfigOk
<1>2. GoroutinesOk
  BY DEF GoroutinesOk, Running
<1>3. \A q \in Callers, n \in Names : writeLock[q] = n <=> at[q][n] = "merge"
  BY NamesAssumption DEF Names
<1> QED BY <1>1, <1>2, <1>3 DEF TypeOK, Phases

\* The steps of the handler change neither a goroutine nor the lock.
LEMMA HandlerMoves ==
  ASSUME TypeOK, NEW q \in Callers, NEW place, Goto(q, place),
         place \in {"idle", "config", "fetch", "store", "stamp", "use", "answered", "aborted"},
         pc[q] # "wait" \/ \A n \in Names : at[q][n] \in Idle,
         UNCHANGED <<at, outcome, writeLock>>,
         \A r \in Callers \ {q} : asked'[r] = asked[r]
  PROVE  /\ GoroutinesOk'
         /\ pc' \in [Callers -> Phases]
         /\ writeLock' \in [Callers -> Names \cup {None}]
         /\ \A r \in Callers, n \in Names : writeLock'[r] = n <=> at'[r][n] = "merge"
<1>1. \A n \in Names : at[q][n] \notin Running
  BY DEF TypeOK, GoroutinesOk, Running, Idle
<1>2. pc' \in [Callers -> Phases]
  BY DEF TypeOK, Goto, Phases
<1>3. \A r \in Callers, n \in Names :
        at'[r][n] \in Running => pc'[r] = "wait" /\ \E s \in asked'[r] : s.name = n
  <2> SUFFICES ASSUME NEW r \in Callers, NEW n \in Names, at[r][n] \in Running
               PROVE  pc'[r] = "wait" /\ \E s \in asked'[r] : s.name = n
    OBVIOUS
  <2>1. r # q
    BY <1>1
  <2>2. pc'[r] = pc[r] /\ asked'[r] = asked[r]
    BY <2>1 DEF TypeOK, Goto
  <2> QED BY <2>2 DEF TypeOK, GoroutinesOk
<1>4. GoroutinesOk'
  BY <1>3 DEF TypeOK, GoroutinesOk
<1> QED BY <1>2, <1>4 DEF TypeOK

(***************************************************************************)
(* Failures. What a goroutine is about to write is a list of names, or     *)
(* torn; one whose call failed writes it before it is done; and whatever   *)
(* is written is not empty.                                                *)
(***************************************************************************)
Bad == {"errors", "unreachable", "unreadable"}

ReportOk ==
  /\ DOMAIN copy = Callers /\ \A q \in Callers : DOMAIN copy[q] = Names
  /\ \A q \in Callers, n \in Names :
       /\ at[q][n] = "write" => copy[q][n] \in {Torn} \cup Seq(Names)
       /\ outcome[q][n] \in Bad => at[q][n] \in {"append", "write"} \/ errors[q] # <<>>

FedInv == TypeOK /\ ReportOk

\* What append returns is a list, and not an empty one.
LEMMA AppendType ==
  ASSUME NEW s \in Seq(Names), NEW n \in Names
  PROVE  Append(s, n) \in Seq(Names) /\ Append(s, n) # <<>>
<1>1. Len(Append(s, n)) = Len(s) + 1 /\ Len(s) \in Nat
  OBVIOUS
<1>2. Len(<<>>) = 0
  OBVIOUS
<1>3. Append(s, n) # <<>>
  BY <1>1, <1>2
<1> QED BY <1>3

\* A call that has no outcome yet has not failed.
LEMMA NoneIsNotBad == None \notin Bad
BY OutcomeAssumption DEF Bad, Place

ConfigSteps(q) ==
  ReceiveFails(q) \/ getFederationConfig(q) \/ getFederationConfigFromSecret(q) \/ ConfigPanics(q)
    \/ StoreConfig(q) \/ StampConfig(q)

GoroutineSteps(q, n) == ReadErrors(q, n) \/ WriteErrors(q, n) \/ LockData(q, n) \/ MergeData(q, n)

\* The steps by the state that they change.
LEMMA StepCases ==
  ASSUME Next
  PROVE  \/ \E q \in Callers : \/ \E r \in Inputs[q] : Receive(q, r)
                               \/ ConfigSteps(q)
                               \/ HandleFederatedRequest(q) \/ sendResponse(q)
                               \/ \E s \in asked[q] : s.name \in Names /\ getFederatedResponse(q, s)
                               \/ \E n \in Names : GoroutineSteps(q, n)
         \/ Tick
BY DEF Next, Handler, Refresh, Goroutine, ConfigSteps, GoroutineSteps

ControlOk ==
  /\ GoroutinesOk
  /\ pc \in [Callers -> Phases]
  /\ writeLock \in [Callers -> Names \cup {None}]
  /\ \A q \in Callers, n \in Names : writeLock[q] = n <=> at[q][n] = "merge"

\* The goroutines of a request are those of the services it was sent to.
LEMMA ControlStep ==
  ASSUME TypeOK, [Next]_vars
  PROVE  ControlOk'
<1>1. ASSUME NEW q \in Callers, NEW r \in Inputs[q], Receive(q, r) PROVE ControlOk'
  <2>1. pc[q] # "wait" /\ \A n \in Names : at[q][n] \notin Running
    BY <1>1 DEF Receive, TypeOK, GoroutinesOk
  <2>2. \A p \in Callers :
          /\ at'[p] = IF p = q THEN [n \in Names |-> "none"] ELSE at[p]
          /\ pc'[p] = IF p = q THEN "config" ELSE pc[p]
          /\ p # q => asked'[p] = asked[p]
    BY <1>1 DEF Receive, Goto, TypeOK, GoroutinesOk, ConfigOk
  <2>3. \A p \in Callers, n \in Names : at'[p][n] = IF p = q THEN "none" ELSE at[p][n]
    BY <2>2
  <2>4. /\ at' \in [Callers -> [Names -> {"none", "done"} \cup Running]]
        /\ outcome' \in [Callers -> [Names -> DOMAIN Place \cup {None}]]
        /\ pc' \in [Callers -> Phases]
    BY <1>1 DEF Receive, Goto, TypeOK, GoroutinesOk, Phases
  <2>5. ASSUME NEW p \in Callers, NEW n \in Names, at'[p][n] \in Running
        PROVE  pc'[p] = "wait" /\ \E s \in asked'[p] : s.name = n
    <3>1. p # q
      BY <2>3, <2>5 DEF Running
    <3>2. at[p][n] \in Running
      BY <2>3, <2>5, <3>1
    <3>3. pc[p] = "wait" /\ \E s \in asked[p] : s.name = n
      BY <3>2 DEF TypeOK, GoroutinesOk
    <3> QED BY <2>2, <3>1, <3>3
  <2>6. \A p \in Callers, n \in Names : writeLock'[p] = n <=> at'[p][n] = "merge"
    BY <1>1, <2>1, <2>3 DEF Receive, TypeOK, Running
  <2> QED BY <1>1, <2>4, <2>5, <2>6 DEF Receive, TypeOK, ControlOk, GoroutinesOk
<1>2. ASSUME NEW q \in Callers, ConfigSteps(q) PROVE ControlOk'
  <2>1. /\ pc[q] # "wait" /\ UNCHANGED <<at, outcome, writeLock, asked>>
        /\ \E place \in {"fetch", "use", "store", "stamp", "answered", "aborted"} : Goto(q, place)
    BY <1>2 DEF ConfigSteps, ReceiveFails, getFederationConfig, getFederationConfigFromSecret,
                ConfigPanics, StoreConfig, StampConfig, goroutineVars
  <2> QED BY <2>1, HandlerMoves DEF ControlOk
<1>3. ASSUME NEW q \in Callers, HandleFederatedRequest(q) PROVE ControlOk'
  <2>1. PICK services \in SUBSET cached, places \in [Names -> {"send", "none"}] :
          /\ asked' = [asked EXCEPT ![q] = services]
          /\ at' = [at EXCEPT ![q] = places]
          /\ \A n \in Names : places[n] = "send" => \E s \in services : s.name = n
    <3> DEFINE values == retrieveManagedHubValues(request[q])
               services == {s \in cached : values = {} \/ s.name \in values}
               places == [n \in Names |-> IF n \in {s.name : s \in services} THEN "send" ELSE "none"]
    <3>1. asked' = [asked EXCEPT ![q] = services] /\ at' = [at EXCEPT ![q] = places]
      BY <1>3 DEF HandleFederatedRequest
    <3>2. services \in SUBSET cached
      OBVIOUS
    <3> HIDE DEF services
    <3>3. /\ places \in [Names -> {"send", "none"}]
          /\ \A n \in Names : places[n] = "send" => \E s \in services : s.name = n
      OBVIOUS
    <3> HIDE DEF places
    <3> QED BY <3>1, <3>2, <3>3
  <2>2. \A p \in Callers :
          /\ at'[p] = IF p = q THEN places ELSE at[p]
          /\ asked'[p] = IF p = q THEN services ELSE asked[p]
          /\ pc'[p] = IF p = q THEN "wait" ELSE pc[p]
    <3>1. pc' = [pc EXCEPT ![q] = "wait"]
      BY <1>3 DEF HandleFederatedRequest, Goto
    <3>2. /\ pc \in [Callers -> Phases] /\ asked \in [Callers -> SUBSET Service]
          /\ at \in [Callers -> [Names -> {"none", "done"} \cup Running]]
      BY DEF TypeOK, GoroutinesOk, ConfigOk
    <3>3. /\ DOMAIN pc = Callers /\ DOMAIN asked = Callers /\ DOMAIN at = Callers
      BY <3>2
    <3> QED BY <2>1, <3>1, <3>3
  <2>3. \A n \in Names : at[q][n] \notin Running /\ at'[q][n] # "merge"
    BY <1>3, <2>1, <2>2 DEF HandleFederatedRequest, TypeOK, GoroutinesOk
  <2>4. /\ at' \in [Callers -> [Names -> {"none", "done"} \cup Running]]
        /\ UNCHANGED <<outcome, writeLock>>
        /\ pc' \in [Callers -> Phases]
    BY <1>3, <2>1 DEF HandleFederatedRequest, Goto, TypeOK, GoroutinesOk, Running, Phases
  <2>5. ASSUME NEW p \in Callers, NEW n \in Names, at'[p][n] \in Running
        PROVE  pc'[p] = "wait" /\ \E s \in asked'[p] : s.name = n
    <3>1. CASE p = q
      <4>1. places[n] = "send"
        BY <2>1, <2>2, <2>5, <3>1 DEF Running
      <4> QED BY <2>1, <2>2, <3>1, <4>1
    <3>2. CASE p # q
      BY <2>2, <2>5, <3>2 DEF TypeOK, GoroutinesOk
    <3> QED BY <3>1, <3>2
  <2>6. \A p \in Callers, n \in Names : writeLock'[p] = n <=> at'[p][n] = "merge"
    <3>1. \A p \in Callers, n \in Names : writeLock[p] = n <=> at[p][n] = "merge"
      BY DEF TypeOK
    <3>2. \A p \in Callers, n \in Names : at'[p][n] = "merge" <=> at[p][n] = "merge"
      BY <2>2, <2>3 DEF Running
    <3> QED BY <2>4, <3>1, <3>2
  <2> QED BY <2>4, <2>5, <2>6 DEF TypeOK, ControlOk, GoroutinesOk
<1>4. ASSUME NEW q \in Callers, sendResponse(q) PROVE ControlOk'
  <2>1. \A n \in Names : at[q][n] \in Idle
    <3> SUFFICES ASSUME NEW n \in Names, at[q][n] \notin Idle PROVE FALSE
      OBVIOUS
    <3>1. PICK s \in asked[q] : s.name = n
      BY DEF TypeOK, GoroutinesOk, Idle
    <3> QED BY <1>4, <3>1 DEF sendResponse, Idle
  <2>2. UNCHANGED <<at, outcome, writeLock, asked>> /\ Goto(q, "answered")
    BY <1>4 DEF sendResponse, goroutineVars
  <2> QED BY <2>1, <2>2, HandlerMoves DEF ControlOk
<1>5. ASSUME NEW q \in Callers, NEW s \in asked[q], s.name \in Names, getFederatedResponse(q, s)
      PROVE  ControlOk'
  <2>1. PICK o \in DOMAIN Place : /\ outcome' = [outcome EXCEPT ![q][s.name] = o]
                                  /\ Moves(q, s.name, Place[o])
    BY <1>5 DEF getFederatedResponse
  <2>2. Place[o] \in {"lock", "done", "append"}
    BY DEF Place
  <2>3. outcome' \in [Callers -> [Names -> DOMAIN Place \cup {None}]]
    BY <1>5, <2>1 DEF TypeOK, GoroutinesOk
  <2>4. at[q][s.name] = "send" /\ UNCHANGED <<pc, asked, writeLock>>
    BY <1>5 DEF getFederatedResponse
  <2>5. /\ GoroutinesOk'
        /\ \A r \in Callers, m \in Names : writeLock'[r] = m <=> at'[r][m] = "merge"
    <3> DEFINE place == Place[o]
    <3>1. place \in {"done"} \cup Running /\ place # "merge" /\ Moves(q, s.name, place)
          /\ at[q][s.name] \in Running /\ at[q][s.name] # "merge"
      BY <2>1, <2>2, <2>4 DEF Running
    <3>2. writeLock' \in [Callers -> Names \cup {None}] /\ UNCHANGED writeLock
      BY <2>4 DEF TypeOK
    <3> HIDE DEF place
    <3> QED BY <1>5, <2>3, <2>4, <3>1, <3>2, GoroutineMoves
  <2> QED BY <2>4, <2>5 DEF ControlOk, TypeOK
<1>6. ASSUME NEW q \in Callers, NEW n \in Names, GoroutineSteps(q, n) PROVE ControlOk'
  <2>1. UNCHANGED <<pc, asked, outcome>>
    BY <1>6 DEF GoroutineSteps, ReadErrors, WriteErrors, LockData, MergeData, configVars
  <2>2. outcome' \in [Callers -> [Names -> DOMAIN Place \cup {None}]]
    BY <2>1 DEF TypeOK, GoroutinesOk
  <2>3. PICK place \in {"done", "write", "merge"} :
          /\ Moves(q, n, place) /\ at[q][n] \in {"append", "write", "lock", "merge"}
          /\ place = "merge" => at[q][n] = "lock" /\ writeLock[q] = None
          /\ writeLock' = IF place = "merge" THEN [writeLock EXCEPT ![q] = n]
                          ELSE IF at[q][n] = "merge" THEN [writeLock EXCEPT ![q] = None]
                          ELSE writeLock
    BY <1>6 DEF GoroutineSteps, ReadErrors, WriteErrors, LockData, MergeData
  <2>4. /\ writeLock' \in [Callers -> Names \cup {None}]
        /\ \A r \in Callers : writeLock'[r] = IF r # q THEN writeLock[r]
                                             ELSE IF place = "merge" THEN n
                                             ELSE IF at[q][n] = "merge" THEN None
                                             ELSE writeLock[q]
    BY <2>3 DEF TypeOK
  <2>5. /\ GoroutinesOk'
        /\ \A r \in Callers, m \in Names : writeLock'[r] = m <=> at'[r][m] = "merge"
    BY <2>1, <2>2, <2>3, <2>4, GoroutineMoves DEF Running
  <2> QED BY <2>1, <2>4, <2>5 DEF ControlOk, TypeOK
<1>7. CASE Tick \/ UNCHANGED vars
  <2>1. UNCHANGED <<at, outcome, pc, asked, writeLock>>
    BY <1>7 DEF Tick, vars, goroutineVars
  <2> QED BY <2>1 DEF ControlOk, TypeOK, GoroutinesOk
<1> QED BY <1>1, <1>2, <1>3, <1>4, <1>5, <1>6, <1>7, StepCases DEF vars

\* The configuration is made of services, its age stays below the TTL, and no more
\* calls fail than the bound allows.
LEMMA ConfigStep ==
  ASSUME TypeOK, [Next]_vars
  PROVE  ConfigOk'
<1> USE DEF ConfigOk
<1>t. /\ cached \subseteq Service /\ age \in {None} \cup 0 .. TTL
      /\ found \in [Callers -> SUBSET Service] /\ asked \in [Callers -> SUBSET Service]
      /\ faults \in 0 .. MaxFaults
  BY DEF TypeOK
<1>1. ASSUME NEW q \in Callers, NEW r \in Inputs[q], Receive(q, r) PROVE ConfigOk'
  BY <1>1, <1>t DEF Receive, configVars
<1>2. ASSUME NEW q \in Callers, ConfigSteps(q) PROVE ConfigOk'
  <2>1. CASE getFederationConfigFromSecret(q)
    <3>1. PICK hubs \in SUBSET Hubs, known \in BOOLEAN :
            found' = [found EXCEPT ![q] = {LocalService(q)} \cup {HubService(h, known) : h \in hubs}]
      BY <2>1 DEF getFederationConfigFromSecret
    <3>2. LocalService(q) \in Service /\ \A h \in hubs : HubService(h, known) \in Service
      BY DEF LocalService, HubService, Service, Names
    <3>3. found' \in [Callers -> SUBSET Service]
      BY <1>t, <3>1, <3>2
    <3>4. faults' \in 0 .. MaxFaults
      BY <1>t, <2>1, BoundsAssumption DEF getFederationConfigFromSecret, MayFail, Failing
    <3> QED BY <1>t, <2>1, <3>3, <3>4 DEF getFederationConfigFromSecret
  <2>2. CASE ReceiveFails(q) \/ ConfigPanics(q)
    BY <1>t, <2>2, BoundsAssumption DEF ReceiveFails, ConfigPanics, MayFail, Failing, configVars
  <2>3. CASE getFederationConfig(q)
    BY <1>t, <2>3 DEF getFederationConfig, configVars
  <2>4. CASE StoreConfig(q)
    BY <1>t, <2>4 DEF StoreConfig
  <2>5. CASE StampConfig(q)
    BY <1>t, <2>5, BoundsAssumption DEF StampConfig
  <2> QED BY <1>2, <2>1, <2>2, <2>3, <2>4, <2>5 DEF ConfigSteps
<1>3. ASSUME NEW q \in Callers, HandleFederatedRequest(q) PROVE ConfigOk'
  <2>1. PICK services \in SUBSET cached : asked' = [asked EXCEPT ![q] = services]
    BY <1>3 DEF HandleFederatedRequest
  <2> QED BY <1>t, <1>3, <2>1 DEF HandleFederatedRequest, configVars
<1>4. ASSUME NEW q \in Callers, sendResponse(q) PROVE ConfigOk'
  BY <1>t, <1>4 DEF sendResponse, configVars
<1>5. ASSUME NEW q \in Callers, NEW s \in asked[q], getFederatedResponse(q, s) PROVE ConfigOk'
  <2>1. faults' \in 0 .. MaxFaults
    BY <1>t, <1>5, BoundsAssumption DEF getFederatedResponse, MayFail, Failing
  <2> QED BY <1>t, <1>5, <2>1 DEF getFederatedResponse, configVars
<1>6. ASSUME NEW q \in Callers, NEW n \in Names, GoroutineSteps(q, n) PROVE ConfigOk'
  BY <1>t, <1>6 DEF GoroutineSteps, ReadErrors, WriteErrors, LockData, MergeData, configVars
<1>7. CASE Tick
  BY <1>t, <1>7, BoundsAssumption, NamesAssumption DEF Tick, goroutineVars
<1>8. CASE UNCHANGED vars
  BY <1>t, <1>8 DEF vars
<1> QED BY <1>1, <1>2, <1>3, <1>4, <1>5, <1>6, <1>7, <1>8, StepCases

\* A client's request is one of those that it sends.
LEMMA RequestStep ==
  ASSUME TypeOK, [Next]_vars
  PROVE  DOMAIN request' = Callers /\ \A q \in Callers : request'[q] \in Inputs[q] \cup {None}
<1>1. ASSUME NEW q \in Callers, NEW r \in Inputs[q], Receive(q, r),
             NEW p \in Callers
      PROVE  DOMAIN request' = Callers /\ request'[p] \in Inputs[p] \cup {None}
  <2>1. DOMAIN request = Callers /\ request[p] \in Inputs[p] \cup {None}
    BY DEF TypeOK
  <2>2. request' = [request EXCEPT ![q] = r]
    BY <1>1 DEF Receive
  <2>3. DOMAIN request' = Callers
    BY <2>1, <2>2
  <2>4. request'[p] = IF p = q THEN r ELSE request[p]
    BY <2>1, <2>2
  <2> QED BY <2>1, <2>3, <2>4
<1>2. CASE UNCHANGED request
  BY <1>2 DEF TypeOK
<1>3. ASSUME NEW q \in Callers,
             \/ ConfigSteps(q) \/ HandleFederatedRequest(q) \/ sendResponse(q)
             \/ \E s \in asked[q] : getFederatedResponse(q, s)
             \/ \E n \in Names : GoroutineSteps(q, n)
      PROVE  UNCHANGED request
  BY <1>3 DEF ConfigSteps, ReceiveFails, getFederationConfig, getFederationConfigFromSecret,
              ConfigPanics, StoreConfig, StampConfig, HandleFederatedRequest, sendResponse,
              getFederatedResponse, GoroutineSteps, ReadErrors, WriteErrors, LockData, MergeData
<1>4. Tick \/ UNCHANGED vars => UNCHANGED request
  BY DEF Tick, vars
<1>5. ASSUME NEW q \in Callers, NEW r \in Inputs[q], Receive(q, r)
      PROVE  DOMAIN request' = Callers
  BY <1>5 DEF Receive, TypeOK
<1>6. (\E q \in Callers : \E r \in Inputs[q] : Receive(q, r)) \/ UNCHANGED request
  BY <1>3, <1>4, StepCases
<1> QED BY <1>1, <1>2, <1>5, <1>6 DEF TypeOK

\* A step that changes nothing about errors and goroutines but where those stand
\* that neither append nor write.
LEMMA ReportKept ==
  ASSUME FedInv, UNCHANGED <<outcome, errors, copy>>,
         \A q \in Callers, n \in Names :
           at'[q][n] = at[q][n] \/ {at[q][n], at'[q][n]} \cap {"append", "write"} = {}
  PROVE  ReportOk' /\ errors' \in [Callers -> {Torn} \cup Seq(Names)]
<1>1. \A q \in Callers, n \in Names :
        at'[q][n] \in {"append", "write"} \/ at[q][n] \in {"append", "write"} => at'[q][n] = at[q][n]
  OBVIOUS
<1> QED BY <1>1 DEF FedInv, TypeOK, ReportOk

\* An append leaves at least one error, and an answer that is no use leads to one.
LEMMA ReportStep ==
  ASSUME FedInv, [Next]_vars
  PROVE  ReportOk' /\ errors' \in [Callers -> {Torn} \cup Seq(Names)]
<1> DEFINE Goal == ReportOk /\ errors \in [Callers -> {Torn} \cup Seq(Names)]
<1>t. /\ at \in [Callers -> [Names -> {"none", "done"} \cup Running]]
      /\ outcome \in [Callers -> [Names -> DOMAIN Place \cup {None}]]
      /\ errors \in [Callers -> {Torn} \cup Seq(Names)]
      /\ DOMAIN copy = Callers /\ \A q \in Callers : DOMAIN copy[q] = Names
  BY DEF FedInv, TypeOK, ReportOk, GoroutinesOk
<1>r. \A q \in Callers, n \in Names :
        /\ at[q][n] = "write" => copy[q][n] \in {Torn} \cup Seq(Names)
        /\ outcome[q][n] \in Bad => at[q][n] \in {"append", "write"} \/ errors[q] # <<>>
  BY DEF FedInv, ReportOk
<1>1. ASSUME NEW q \in Callers, NEW r \in Inputs[q], Receive(q, r) PROVE Goal'
  <2>1. \A p \in Callers, n \in Names :
          /\ at'[p][n] = IF p = q THEN "none" ELSE at[p][n]
          /\ outcome'[p][n] = IF p = q THEN None ELSE outcome[p][n]
          /\ errors'[p] = IF p = q THEN <<>> ELSE errors[p]
    BY <1>1, <1>t DEF Receive
  <2>2. errors' \in [Callers -> {Torn} \cup Seq(Names)] /\ UNCHANGED copy
    BY <1>1, <1>t DEF Receive
  <2> QED BY <1>t, <1>r, <2>1, <2>2, NoneIsNotBad DEF ReportOk
<1>2. ASSUME NEW q \in Callers, ReceiveFails(q) PROVE Goal'
  <2>1. <<Local>> \in Seq(Names) /\ <<Local>> # <<>>
    BY DEF Names
  <2>2. /\ errors' \in [Callers -> {Torn} \cup Seq(Names)]
        /\ \A p \in Callers : errors'[p] = IF p = q THEN <<Local>> ELSE errors[p]
        /\ UNCHANGED <<at, outcome, copy>>
    BY <1>2, <1>t, <2>1 DEF ReceiveFails
  <2> QED BY <1>t, <1>r, <2>1, <2>2 DEF ReportOk
<1>3. ASSUME NEW q \in Callers, HandleFederatedRequest(q) PROVE Goal'
  <2>1. \A n \in Names : at[q][n] \notin {"append", "write"}
    BY <1>3 DEF HandleFederatedRequest, FedInv, TypeOK, GoroutinesOk, Running
  <2>2. \A p \in Callers \ {q} : at'[p] = at[p]
    BY <1>3, <1>t DEF HandleFederatedRequest
  <2>3. \A n \in Names : at'[q][n] \in {"send", "none"}
    BY <1>3, <1>t DEF HandleFederatedRequest
  <2>4. UNCHANGED <<outcome, errors, copy>>
    BY <1>3 DEF HandleFederatedRequest
  <2>5. \A p \in Callers, n \in Names :
          at'[p][n] = at[p][n] \/ {at[p][n], at'[p][n]} \cap {"append", "write"} = {}
    BY <2>1, <2>2, <2>3
  <2> QED BY <2>4, <2>5, ReportKept
<1>4. ASSUME UNCHANGED <<at, outcome, errors, copy>> PROVE Goal'
  BY <1>4, ReportKept
<1>5. ASSUME NEW q \in Callers, NEW s \in asked[q], s.name \in Names, getFederatedResponse(q, s)
      PROVE  Goal'
  <2>1. PICK o \in DOMAIN Place : /\ outcome' = [outcome EXCEPT ![q][s.name] = o]
                                  /\ at' = [at EXCEPT ![q][s.name] = Place[o]]
    BY <1>5 DEF getFederatedResponse, Moves
  <2>2. Place[o] # "write" /\ (o \in Bad => Place[o] = "append")
    BY DEF Place, Bad
  <2>3. \A p \in Callers, n \in Names :
          /\ at'[p][n] = IF p = q /\ n = s.name THEN Place[o] ELSE at[p][n]
          /\ outcome'[p][n] = IF p = q /\ n = s.name THEN o ELSE outcome[p][n]
    BY <1>t, <1>5, <2>1
  <2>4. UNCHANGED <<errors, copy>>
    BY <1>5 DEF getFederatedResponse
  <2> QED BY <1>t, <1>r, <2>2, <2>3, <2>4 DEF ReportOk
<1>6. ASSUME NEW q \in Callers, NEW n \in Names, ReadErrors(q, n) PROVE Goal'
  <2>1. /\ at' = [at EXCEPT ![q][n] = "write"] /\ at[q][n] = "append"
        /\ copy' = [copy EXCEPT ![q][n] = errors[q]]
        /\ UNCHANGED <<outcome, errors>>
    BY <1>6 DEF ReadErrors, Moves
  <2>2. \A p \in Callers, m \in Names :
          /\ at'[p][m] = IF p = q /\ m = n THEN "write" ELSE at[p][m]
          /\ copy'[p][m] = IF p = q /\ m = n THEN errors[q] ELSE copy[p][m]
    BY <1>t, <2>1
  <2>3. DOMAIN copy' = Callers /\ \A p \in Callers : DOMAIN copy'[p] = Names
    BY <1>t, <2>1
  <2> QED BY <1>t, <1>r, <2>1, <2>2, <2>3 DEF ReportOk
<1>7. ASSUME NEW q \in Callers, NEW n \in Names, WriteErrors(q, n) PROVE Goal'
  <2>1. /\ at' = [at EXCEPT ![q][n] = "done"] /\ at[q][n] = "write"
        /\ copy' = [copy EXCEPT ![q][n] = None] /\ UNCHANGED outcome
    BY <1>7 DEF WriteErrors, Moves
  <2>2. PICK new \in {Torn} \cup Seq(Names) : errors' = [errors EXCEPT ![q] = new] /\ new # <<>>
    <3>1. copy[q][n] \in {Torn} \cup Seq(Names)
      BY <1>r, <2>1
    <3>2. CASE errors' = [errors EXCEPT ![q] = Torn]
      BY <3>2, TornAssumption
    <3>3. CASE copy[q][n] \in Seq(Names) /\ errors' = [errors EXCEPT ![q] = Append(copy[q][n], n)]
      BY <3>3, AppendType
    <3> QED BY <1>7, <3>1, <3>2, <3>3 DEF WriteErrors
  <2>3. \A p \in Callers, m \in Names :
          /\ at'[p][m] = IF p = q /\ m = n THEN "done" ELSE at[p][m]
          /\ copy'[p][m] = IF p = q /\ m = n THEN None ELSE copy[p][m]
    BY <1>t, <2>1
  <2>4. DOMAIN copy' = Callers /\ \A p \in Callers : DOMAIN copy'[p] = Names
    BY <1>t, <2>1
  <2>5. /\ errors' \in [Callers -> {Torn} \cup Seq(Names)]
        /\ \A p \in Callers : errors'[p] = IF p = q THEN new ELSE errors[p]
    BY <1>t, <2>2
  <2> QED BY <1>t, <1>r, <2>1, <2>2, <2>3, <2>4, <2>5 DEF ReportOk
<1>8. ASSUME NEW q \in Callers, NEW n \in Names, LockData(q, n) \/ MergeData(q, n) PROVE Goal'
  <2>0. PICK place \in {"merge", "done"} :
          /\ at' = [at EXCEPT ![q][n] = place] /\ at[q][n] \in {"lock", "merge"}
          /\ UNCHANGED <<outcome, errors>>
    BY <1>8 DEF LockData, MergeData, Moves
  <2>1. PICK mine : copy' = [copy EXCEPT ![q][n] = mine]
    BY <1>8 DEF LockData, MergeData
  <2>2. \A p \in Callers, m \in Names :
          /\ at'[p][m] = IF p = q /\ m = n THEN place ELSE at[p][m]
          /\ copy'[p][m] = IF p = q /\ m = n THEN mine ELSE copy[p][m]
    BY <1>t, <2>0, <2>1
  <2>3. DOMAIN copy' = Callers /\ \A p \in Callers : DOMAIN copy'[p] = Names
    BY <1>t, <2>1
  <2> QED BY <1>t, <1>r, <2>0, <2>2, <2>3 DEF ReportOk
<1>9. ASSUME NEW q \in Callers, (ConfigSteps(q) /\ ~ReceiveFails(q)) \/ sendResponse(q)
      PROVE  UNCHANGED <<at, outcome, errors, copy>>
  BY <1>9 DEF ConfigSteps, getFederationConfig, getFederationConfigFromSecret, ConfigPanics,
              StoreConfig, StampConfig, sendResponse, goroutineVars
<1>10. Tick \/ UNCHANGED vars => UNCHANGED <<at, outcome, errors, copy>>
  BY DEF Tick, vars, goroutineVars
<1> HIDE DEF Goal
<1>11. ASSUME NEW q \in Callers, ConfigSteps(q) \/ sendResponse(q) PROVE Goal'
  BY <1>2, <1>4, <1>9, <1>11
<1>12. ASSUME NEW q \in Callers, NEW n \in Names, GoroutineSteps(q, n) PROVE Goal'
  BY <1>6, <1>7, <1>8, <1>12 DEF GoroutineSteps
<1>13. ASSUME Next PROVE Goal'
  <2>1. CASE Tick
    BY <1>4, <1>10, <2>1
  <2>2. CASE ~Tick
    BY <1>1, <1>3, <1>5, <1>11, <1>12, <1>13, <2>2, StepCases
  <2> QED BY <2>1, <2>2
<1>14. ASSUME UNCHANGED vars PROVE Goal'
  BY <1>4, <1>10, <1>14
<1> QED BY <1>13, <1>14 DEF Goal

\* The inductive invariant holds at first.
LEMMA FedInit == Init => FedInv
<1>1. Init => ReportOk
  BY NoneIsNotBad DEF Init, ReportOk
<1> QED BY <1>1, TypeInit DEF FedInv

\* Every step keeps the inductive invariant.
LEMMA FedStep == FedInv /\ [Next]_vars => FedInv'
<1> SUFFICES ASSUME FedInv, [Next]_vars PROVE FedInv'
  OBVIOUS
<1>1. TypeOK
  BY DEF FedInv
<1> QED BY <1>1, ControlStep, ConfigStep, RequestStep, ReportStep DEF FedInv, TypeOK, ControlOk

\* The goroutines of a request run only while it waits, one for each service it was
\* sent to, and one at a time merges: the one that holds writeLock
\* (getFederatedResponse and the merges of mergeResponses.go).
THEOREM FederationTypes == Spec => []TypeOK
<1>1. FedInv => TypeOK
  BY DEF FedInv
<1> QED BY <1>1, FedInit, FedStep, PTL DEF Spec

\* However the unlocked appends to Response.Errors meet, a response whose hubs did
\* not all answer in a way that can be used has an error.
THEOREM FailuresReported == Spec => []FailureIsReported
<1>1. FedInv => FailureIsReported
  <2> SUFFICES ASSUME FedInv, NEW q \in Callers, Answered(q), NEW s \in asked[q],
                      outcome[q][s.name] \in Bad
               PROVE  errors[q] # <<>>
    BY DEF FailureIsReported, Bad
  <2>1. s.name \in Names
    BY DEF FedInv, TypeOK, ConfigOk, Service
  <2>2. at[q][s.name] \notin {"append", "write"}
    BY <2>1 DEF FedInv, TypeOK, GoroutinesOk, Answered, Running
  <2> QED BY <2>1, <2>2 DEF FedInv, ReportOk
<1> QED BY <1>1, FedInit, FedStep, PTL DEF Spec

(***************************************************************************)
(* While nothing has failed: what is cached, once it has a time, has every *)
(* hub and the namespace of each; so has what a request is about to use,   *)
(* and what it asks unless it names hubs; and every answer can be used.    *)
(***************************************************************************)
Whole(c) == {s.name : s \in c} = Names /\ \A s \in c : s.namespace

RequestOk == \A q \in Callers : pc[q] # "idle" => request[q] \in Inputs[q]

ConfigWhole ==
  /\ \A s \in cached : s.namespace
  /\ age # None => Whole(cached)
  /\ \A q \in Callers : /\ pc[q] = "store" => Whole(found[q])
                        /\ pc[q] \in {"stamp", "use"} => Whole(cached)
                        /\ \A s \in asked[q] : s.namespace

AnswersUsable ==
  \A q \in Callers, n \in Names :
    /\ outcome[q][n] \in {None, "ok"}
    /\ at[q][n] \notin {"none", "send"} => outcome[q][n] = "ok"

AllAsked ==
  \A q \in Callers :
    pc[q] \in {"wait", "answered"} /\ retrieveManagedHubValues(request[q]) = {} =>
      \A n \in Names : at[q][n] # "none"

Healthy == ConfigWhole /\ AnswersUsable /\ AllAsked

HealthyInv == RequestOk /\ (SeesHubs = Callers /\ faults = 0 => Healthy)

\* A client has a request from the first that it sends.
LEMMA RequestOkStep ==
  ASSUME FedInv, RequestOk, [Next]_vars
  PROVE  RequestOk'
<1>t. pc \in [Callers -> Phases] /\ DOMAIN request = Callers
  BY DEF FedInv, TypeOK
<1>1. ASSUME NEW q \in Callers, NEW r \in Inputs[q], Receive(q, r) PROVE RequestOk'
  <2>1. request' = [request EXCEPT ![q] = r] /\ \A p \in Callers \ {q} : pc'[p] = pc[p]
    BY <1>1, <1>t DEF Receive, Goto
  <2> QED BY <1>1, <1>t, <2>1 DEF RequestOk
<1>2. ASSUME NEW q \in Callers,
             \/ ConfigSteps(q) \/ HandleFederatedRequest(q) \/ sendResponse(q)
             \/ \E s \in asked[q] : getFederatedResponse(q, s)
             \/ \E n \in Names : GoroutineSteps(q, n)
      PROVE  RequestOk'
  <2>1. UNCHANGED request
    BY <1>2 DEF ConfigSteps, ReceiveFails, getFederationConfig, getFederationConfigFromSecret,
              ConfigPanics, StoreConfig, StampConfig, HandleFederatedRequest, sendResponse,
              getFederatedResponse, GoroutineSteps, ReadErrors, WriteErrors, LockData, MergeData
  <2>2. \A p \in Callers : pc'[p] # pc[p] => pc[p] # "idle"
    BY <1>2, <1>t DEF ConfigSteps, ReceiveFails, getFederationConfig, getFederationConfigFromSecret,
              ConfigPanics, StoreConfig, StampConfig, HandleFederatedRequest, sendResponse, Goto,
              getFederatedResponse, GoroutineSteps, ReadErrors, WriteErrors, LockData, MergeData
  <2> QED BY <2>1, <2>2 DEF RequestOk
<1>3. CASE Tick \/ UNCHANGED vars
  BY <1>3 DEF Tick, vars, RequestOk
<1> QED BY <1>1, <1>2, <1>3, StepCases

\* The configuration is made without a failure, or the request waits for one.
LEMMA ConfigWholeStep ==
  ASSUME FedInv, SeesHubs = Callers, ConfigWhole, [Next]_vars, UNCHANGED faults
  PROVE  ConfigWhole'
<1>t. /\ pc \in [Callers -> Phases] /\ found \in [Callers -> SUBSET Service]
      /\ asked \in [Callers -> SUBSET Service] /\ faults \in Nat
  BY BoundsAssumption DEF FedInv, TypeOK, ConfigOk
<1>f. faults + 1 # faults
  BY <1>t
<1>1. ASSUME NEW q \in Callers, NEW r \in Inputs[q], Receive(q, r) PROVE ConfigWhole'
  BY <1>1, <1>t DEF Receive, Goto, configVars, ConfigWhole, Whole
<1>2. ASSUME NEW q \in Callers, ConfigSteps(q) PROVE ConfigWhole'
  <2>1. CASE getFederationConfigFromSecret(q)
    <3>1. PICK hubs \in SUBSET Hubs, known \in BOOLEAN :
            /\ found' = [found EXCEPT ![q] = {LocalService(q)} \cup {HubService(h, known) : h \in hubs}]
            /\ hubs = Hubs /\ known = (q \in SeesHubs)
      BY <2>1, <1>f DEF getFederationConfigFromSecret, Failing
    <3>2. found'[q] = {LocalService(q)} \cup {HubService(h, TRUE) : h \in Hubs}
      BY <1>t, <3>1
    <3>3. Whole(found'[q])
      <4>1. \A s \in found'[q] : s.namespace /\ s.name \in Names
        BY <3>2 DEF Names, LocalService, HubService
      <4>2. \A n \in Names : \E s \in found'[q] : s.name = n
        <5>1. LocalService(q).name = Local /\ \A h \in Hubs : HubService(h, TRUE).name = h
          BY DEF LocalService, HubService
        <5> QED BY <3>2, <5>1 DEF Names
      <4> QED BY <4>1, <4>2 DEF Whole
    <3>4. \A p \in Callers : p # q => found'[p] = found[p] /\ pc'[p] = pc[p]
      BY <1>t, <2>1 DEF getFederationConfigFromSecret, Goto
    <3>5. pc'[q] = "store" /\ UNCHANGED <<cached, age, asked>>
      BY <1>t, <2>1 DEF getFederationConfigFromSecret, Goto
    <3> QED BY <3>3, <3>4, <3>5 DEF ConfigWhole, Whole
  <2>2. CASE ReceiveFails(q) \/ ConfigPanics(q)
    BY <1>f, <2>2 DEF ReceiveFails, ConfigPanics, Failing
  <2>3. CASE getFederationConfig(q)
    <3>1. \A p \in Callers : pc'[p] = IF p # q THEN pc[p] ELSE IF Expired THEN "fetch" ELSE "use"
      BY <1>t, <2>3 DEF getFederationConfig, Goto
    <3>2. ~Expired => age # None
      BY DEF Expired
    <3>3. UNCHANGED <<cached, age, found, asked>>
      BY <2>3 DEF getFederationConfig, configVars
    <3> QED BY <3>1, <3>2, <3>3 DEF ConfigWhole, Whole
  <2>4. CASE StoreConfig(q)
    <3>1. Whole(found[q]) /\ cached' = found[q] /\ UNCHANGED <<age, found, asked>>
      BY <2>4 DEF StoreConfig, ConfigWhole
    <3>2. \A p \in Callers : pc'[p] = IF p # q THEN pc[p] ELSE "stamp"
      BY <1>t, <2>4 DEF StoreConfig, Goto
    <3>3. Whole(cached') /\ \A s \in cached' : s.namespace
      BY <3>1 DEF Whole
    <3> QED BY <3>1, <3>2, <3>3 DEF ConfigWhole
  <2>5. CASE StampConfig(q)
    <3>1. Whole(cached) /\ UNCHANGED <<cached, found, asked>>
      BY <2>5 DEF StampConfig, ConfigWhole
    <3>2. \A p \in Callers : pc'[p] = IF p # q THEN pc[p] ELSE "use"
      BY <1>t, <2>5 DEF StampConfig, Goto
    <3> QED BY <3>1, <3>2 DEF ConfigWhole
  <2> QED BY <1>2, <2>1, <2>2, <2>3, <2>4, <2>5 DEF ConfigSteps
<1>3. ASSUME NEW q \in Callers, HandleFederatedRequest(q) PROVE ConfigWhole'
  <2>1. PICK services \in SUBSET cached : asked' = [asked EXCEPT ![q] = services]
    BY <1>3 DEF HandleFederatedRequest
  <2>2. \A p \in Callers : /\ asked'[p] = IF p = q THEN services ELSE asked[p]
                           /\ pc'[p] = IF p = q THEN "wait" ELSE pc[p]
    BY <1>3, <1>t, <2>1 DEF HandleFederatedRequest, Goto
  <2> QED BY <1>3, <2>1, <2>2 DEF HandleFederatedRequest, configVars, ConfigWhole
<1>4. ASSUME NEW q \in Callers, sendResponse(q) PROVE ConfigWhole'
  <2>1. \A p \in Callers : pc'[p] = IF p = q THEN "answered" ELSE pc[p]
    BY <1>4, <1>t DEF sendResponse, Goto
  <2> QED BY <1>4, <2>1 DEF sendResponse, configVars, ConfigWhole
<1>5. ASSUME NEW q \in Callers, \/ \E s \in asked[q] : getFederatedResponse(q, s)
                                \/ \E n \in Names : GoroutineSteps(q, n)
      PROVE  ConfigWhole'
  BY <1>5 DEF getFederatedResponse, GoroutineSteps, ReadErrors, WriteErrors, LockData, MergeData,
              configVars, ConfigWhole
<1>6. CASE Tick
  <2>1. age # None /\ UNCHANGED <<cached, found, asked, pc>>
    BY <1>6 DEF Tick, goroutineVars
  <2> QED BY <2>1 DEF ConfigWhole
<1>7. CASE UNCHANGED vars
  BY <1>7 DEF vars, ConfigWhole
<1> QED BY <1>1, <1>2, <1>3, <1>4, <1>5, <1>6, <1>7, StepCases

\* A service that is known with its namespace, and asked in the way of its
\* version, answers with data.
LEMMA WellAnswered ==
  ASSUME FedInv, RequestOk, ConfigWhole, NEW q \in Callers, NEW s \in asked[q],
         s.name \in Names, at[q][s.name] = "send"
  PROVE  Answer(s, modifyRequestBodyForVersion(s.name, request[q])) = "ok"
<1> DEFINE r == request[q]
           sent == modifyRequestBodyForVersion(s.name, r)
<1>1. s.namespace
  BY DEF ConfigWhole
<1>2. r \in Inputs[q]
  BY DEF FedInv, TypeOK, GoroutinesOk, Running, RequestOk
<1>3. r = [op |-> r.op, filtered |-> r.filtered, query |-> r.query, input |-> r.input]
  BY <1>2, RequestAssumption
<1>4. s.name \in Old /\ sent.op = "schema" => ~sent.filtered
  <2>1. [r EXCEPT !.filtered = FALSE].op = r.op /\ [r EXCEPT !.filtered = FALSE].filtered = FALSE
    BY <1>3
  <2> HIDE DEF r
  <2> QED BY <2>1 DEF modifyRequestBodyForVersion
<1> HIDE DEF sent
<1> QED BY <1>1, <1>4 DEF Answer, sent

\* As nothing fails the services answer, and nothing else changes what a goroutine
\* has for an answer.
LEMMA AnswersUsableStep ==
  ASSUME FedInv, RequestOk, ConfigWhole, AnswersUsable, [Next]_vars, UNCHANGED faults
  PROVE  AnswersUsable'
<1>t. /\ at \in [Callers -> [Names -> {"none", "done"} \cup Running]]
      /\ outcome \in [Callers -> [Names -> DOMAIN Place \cup {None}]]
      /\ faults \in Nat
  BY BoundsAssumption DEF FedInv, TypeOK, ConfigOk, GoroutinesOk
<1>f. faults + 1 # faults
  BY <1>t
<1>1. ASSUME NEW q \in Callers, NEW r \in Inputs[q], Receive(q, r) PROVE AnswersUsable'
  <2>1. \A p \in Callers, n \in Names :
          /\ at'[p][n] = IF p = q THEN "none" ELSE at[p][n]
          /\ outcome'[p][n] = IF p = q THEN None ELSE outcome[p][n]
    BY <1>1, <1>t DEF Receive
  <2> QED BY <2>1 DEF AnswersUsable
<1>2. ASSUME NEW q \in Callers, ConfigSteps(q) \/ sendResponse(q) PROVE AnswersUsable'
  <2>1. UNCHANGED <<at, outcome>>
    BY <1>2 DEF ConfigSteps, ReceiveFails, getFederationConfig, getFederationConfigFromSecret,
                ConfigPanics, StoreConfig, StampConfig, sendResponse, goroutineVars
  <2> QED BY <2>1 DEF AnswersUsable
<1>3. ASSUME NEW q \in Callers, HandleFederatedRequest(q) PROVE AnswersUsable'
  <2>1. \A p \in Callers, n \in Names : at'[p][n] = at[p][n] \/ at'[p][n] \in {"send", "none"}
    BY <1>3, <1>t DEF HandleFederatedRequest
  <2> QED BY <1>3, <2>1 DEF HandleFederatedRequest, AnswersUsable
<1>4. ASSUME NEW q \in Callers, NEW s \in asked[q], s.name \in Names, getFederatedResponse(q, s)
      PROVE  AnswersUsable'
  <2>1. outcome' = [outcome EXCEPT ![q][s.name] = "ok"] /\ at' = [at EXCEPT ![q][s.name] = "lock"]
    <3>1. PICK o \in DOMAIN Place :
            /\ outcome' = [outcome EXCEPT ![q][s.name] = o]
            /\ at' = [at EXCEPT ![q][s.name] = Place[o]]
            /\ IF o = Answer(s, modifyRequestBodyForVersion(s.name, request[q])) THEN UNCHANGED faults
               ELSE IF CallsFailed(q) THEN UNCHANGED faults ELSE Failing
      BY <1>4 DEF getFederatedResponse, Moves
    <3>2. ~CallsFailed(q)
      <4>1. None \notin {"unreachable", "unreadable"}
        BY OutcomeAssumption DEF Place
      <4> QED BY <4>1 DEF CallsFailed, AnswersUsable
    <3>3. o = "ok"
      BY <1>4, <1>f, <3>1, <3>2, WellAnswered DEF Failing, getFederatedResponse
    <3> QED BY <3>1, <3>3 DEF Place
  <2>2. \A p \in Callers, n \in Names :
          /\ at'[p][n] = IF p = q /\ n = s.name THEN "lock" ELSE at[p][n]
          /\ outcome'[p][n] = IF p = q /\ n = s.name THEN "ok" ELSE outcome[p][n]
    BY <1>t, <1>4, <2>1
  <2> QED BY <2>2 DEF AnswersUsable
<1>5. ASSUME NEW q \in Callers, NEW n \in Names, GoroutineSteps(q, n) PROVE AnswersUsable'
  <2>1. PICK place : /\ at' = [at EXCEPT ![q][n] = place] /\ at[q][n] \notin {"none", "send"}
                     /\ UNCHANGED outcome
    BY <1>5 DEF GoroutineSteps, ReadErrors, WriteErrors, LockData, MergeData, Moves
  <2>2. \A p \in Callers, m \in Names : at'[p][m] = IF p = q /\ m = n THEN place ELSE at[p][m]
    BY <1>t, <2>1
  <2> QED BY <2>1, <2>2 DEF AnswersUsable
<1>6. CASE Tick \/ UNCHANGED vars
  BY <1>6 DEF Tick, vars, goroutineVars, AnswersUsable
<1> QED BY <1>1, <1>2, <1>3, <1>4, <1>5, <1>6, StepCases

\* A request that names no hub is sent to all that are in a whole configuration.
LEMMA AllAskedStep ==
  ASSUME FedInv, ConfigWhole, AllAsked, [Next]_vars, UNCHANGED faults
  PROVE  AllAsked'
<1>t. /\ at \in [Callers -> [Names -> {"none", "done"} \cup Running]]
      /\ pc \in [Callers -> Phases] /\ DOMAIN request = Callers
      /\ faults \in Nat
  BY BoundsAssumption DEF FedInv, TypeOK, ConfigOk, GoroutinesOk
<1>f. faults + 1 # faults
  BY <1>t
<1>1. ASSUME NEW q \in Callers, NEW r \in Inputs[q], Receive(q, r) PROVE AllAsked'
  <2>1. /\ \A p \in Callers : pc'[p] = IF p = q THEN "config" ELSE pc[p]
        /\ \A p \in Callers \ {q} : request'[p] = request[p] /\ at'[p] = at[p]
    BY <1>1, <1>t DEF Receive, Goto
  <2> QED BY <2>1 DEF AllAsked
<1>2. ASSUME NEW q \in Callers, ConfigSteps(q) PROVE AllAsked'
  <2>1. ~ReceiveFails(q)
    BY <1>f DEF ReceiveFails, Failing
  <2>2. /\ UNCHANGED <<at, request>>
        /\ \E place \in {"fetch", "use", "store", "stamp", "aborted"} : Goto(q, place)
    BY <1>2, <2>1 DEF ConfigSteps, getFederationConfig, getFederationConfigFromSecret,
                ConfigPanics, StoreConfig, StampConfig, goroutineVars
  <2>3. \A p \in Callers : pc'[p] = pc[p] \/ pc'[p] \notin {"wait", "answered"}
    BY <1>t, <2>2 DEF Goto
  <2> QED BY <2>2, <2>3 DEF AllAsked
<1>3. ASSUME NEW q \in Callers, HandleFederatedRequest(q) PROVE AllAsked'
  <2> DEFINE values == retrieveManagedHubValues(request[q])
             services == {s \in cached : values = {} \/ s.name \in values}
  <2>1. at' = [at EXCEPT ![q] = [n \in Names |->
                 IF n \in {s.name : s \in services} THEN "send" ELSE "none"]]
    BY <1>3 DEF HandleFederatedRequest
  <2>2. ASSUME values = {} PROVE {s.name : s \in services} = Names
    <3>1. services = cached
      BY <2>2
    <3> QED BY <1>3, <3>1 DEF HandleFederatedRequest, ConfigWhole, Whole
  <2> HIDE DEF services
  <2>3. values = {} => \A n \in Names : at'[q][n] = "send"
    BY <1>t, <2>1, <2>2
  <2>4. \A p \in Callers \ {q} : at'[p] = at[p] /\ pc'[p] = pc[p]
    BY <1>3, <1>t, <2>1 DEF HandleFederatedRequest, Goto
  <2>5. UNCHANGED request
    BY <1>3 DEF HandleFederatedRequest
  <2> QED BY <2>3, <2>4, <2>5 DEF AllAsked
<1>4. ASSUME NEW q \in Callers, sendResponse(q) PROVE AllAsked'
  <2>1. pc[q] = "wait" /\ UNCHANGED <<at, request>> /\ \A p \in Callers \ {q} : pc'[p] = pc[p]
    BY <1>4, <1>t DEF sendResponse, Goto, goroutineVars
  <2> QED BY <2>1 DEF AllAsked
<1>5. ASSUME NEW q \in Callers, NEW n \in Names, NEW place, place # "none",
             at' = [at EXCEPT ![q][n] = place], UNCHANGED <<pc, request>>
      PROVE  AllAsked'
  <2>1. \A p \in Callers, m \in Names : at'[p][m] = IF p = q /\ m = n THEN place ELSE at[p][m]
    BY <1>t, <1>5
  <2> QED BY <1>5, <2>1 DEF AllAsked
<1>6. ASSUME NEW q \in Callers, NEW s \in asked[q], s.name \in Names, getFederatedResponse(q, s)
      PROVE  AllAsked'
  <2>1. \A o \in DOMAIN Place : Place[o] # "none"
    BY DEF Place
  <2> QED BY <1>5, <1>6, <2>1 DEF getFederatedResponse, Moves
<1>7. ASSUME NEW q \in Callers, NEW n \in Names, GoroutineSteps(q, n) PROVE AllAsked'
  <2>1. /\ UNCHANGED <<pc, request>>
        /\ \E place \in {"write", "done", "merge"} : at' = [at EXCEPT ![q][n] = place]
    BY <1>7 DEF GoroutineSteps, ReadErrors, WriteErrors, LockData, MergeData, Moves
  <2> QED BY <1>5, <2>1
<1>8. CASE Tick \/ UNCHANGED vars
  BY <1>8 DEF Tick, vars, goroutineVars, AllAsked
<1> QED BY <1>1, <1>2, <1>3, <1>4, <1>6, <1>7, <1>8, StepCases

\* A failure is not undone.
LEMMA FaultsStep ==
  ASSUME FedInv, [Next]_vars, faults' = 0
  PROVE  faults = 0
<1>1. faults \in Nat
  BY BoundsAssumption DEF FedInv, TypeOK, ConfigOk
<1>2. faults' = faults \/ faults' = faults + 1
  BY DEF Next, Receive, ReceiveFails, ConfigPanics, Handler, getFederationConfig, Refresh,
         getFederationConfigFromSecret, StoreConfig, StampConfig, HandleFederatedRequest,
         sendResponse, Goroutine, getFederatedResponse, ReadErrors, WriteErrors, LockData,
         MergeData, Tick, vars, Failing
<1> QED BY <1>1, <1>2

\* As long as nothing fails, a request that names no hub has the answer of each:
\* whoever has made the configuration it uses, and whatever version the hubs have.
THEOREM EveryHubIsHeard == Spec => []EveryHubContributes
<1>1. Init => HealthyInv
  BY DEF Init, HealthyInv, Healthy, RequestOk, ConfigWhole, AnswersUsable, AllAsked
<1>2. FedInv /\ HealthyInv /\ [Next]_vars => HealthyInv'
  <2> SUFFICES ASSUME FedInv, HealthyInv, [Next]_vars PROVE HealthyInv'
    OBVIOUS
  <2>1. RequestOk'
    BY RequestOkStep DEF HealthyInv
  <2>2. ASSUME SeesHubs = Callers, faults' = 0 PROVE Healthy'
    <3>1. faults = 0
      BY <2>2, FaultsStep
    <3>2. ConfigWhole /\ AnswersUsable /\ AllAsked /\ RequestOk /\ UNCHANGED faults
      BY <2>2, <3>1 DEF HealthyInv, Healthy
    <3> QED BY <2>2, <3>2, ConfigWholeStep, AnswersUsableStep, AllAskedStep DEF Healthy
  <2> QED BY <2>1, <2>2 DEF HealthyInv
<1>3. FedInv /\ HealthyInv => EveryHubContributes
  <2> SUFFICES ASSUME FedInv, HealthyInv, NEW q \in Callers, Answered(q), faults = 0,
                      SeesHubs = Callers, retrieveManagedHubValues(request[q]) = {},
                      NEW n \in Names
               PROVE  outcome[q][n] = "ok"
    BY DEF EveryHubContributes, Good
  <2>1. at[q][n] # "none"
    BY DEF HealthyInv, Healthy, AllAsked, Answered
  <2>2. at[q][n] \notin Running
    BY DEF FedInv, TypeOK, GoroutinesOk, Answered
  <2> QED BY <2>1, <2>2 DEF HealthyInv, Healthy, AnswersUsable, Running
<1> QED BY <1>1, <1>2, <1>3, FedInit, FedStep, PTL DEF Spec

(***************************************************************************)
(* The values that a merge appends. FoldLeft is a recursion over the sets  *)
(* of positions, of which each takes away the greatest: it is a function,  *)
(* and its value at 1 .. k is the list after k values.                     *)
(***************************************************************************)

\* A set of numbers has a least one.
LEMMA Least ==
  ASSUME NEW T, T \subseteq Nat, T # {}
  PROVE  \E m \in T : \A k \in T : m <= k
<1> DEFINE R == {ss \in Nat \X Nat : ss[1] < ss[2]}
<1>0. IsWellFoundedOn(R, Nat)
  BY NatLessThanWellFounded, Zenon DEF OpToRel
<1>1. \E x \in T : \A y \in T : ~ (<<y, x>> \in R)
  <2> HIDE DEF R
  <2> QED BY <1>0, WFMin, Zenon
<1>2. \A x, y \in Nat : y < x => <<y, x>> \in R
  OBVIOUS
<1> HIDE DEF R
<1>3. PICK m \in T : \A y \in T : ~ (<<y, m>> \in R)
  BY <1>1
<1>4. ASSUME NEW k \in T PROVE m <= k
  <2>1. m \in Nat /\ k \in Nat /\ ~ (k < m)
    BY <1>2, <1>3
  <2> QED BY <2>1
<1> QED BY <1>4

\* A nonempty set of positions has a last one.
LEMMA Greatest ==
  ASSUME NEW n \in Nat, NEW s \in SUBSET (1 .. n), s # {}
  PROVE  Max(s) \in s /\ \A i \in s : i <= Max(s)
<1> DEFINE T == {n - i : i \in s}
<1>1. T \subseteq Nat /\ T # {}
  <2>1. \A i \in s : n - i \in Nat
    OBVIOUS
  <2> QED BY <2>1
<1>2. PICK m \in T : \A k \in T : m <= k
  <2> HIDE DEF T
  <2> QED BY <1>1, Least
<1>3. PICK x \in s : m = n - x
  BY <1>2
<1>4. ASSUME NEW y \in s PROVE x >= y
  <2>1. n - x <= n - y
    BY <1>2, <1>3
  <2>2. x \in Int /\ y \in Int
    OBVIOUS
  <2> QED BY <2>1, <2>2
<1>5. \E z \in s : \A y \in s : z >= y
  BY <1>4
<1>6. Max(s) \in s /\ \A y \in s : Max(s) >= y
  BY <1>5, Zenon DEF Max
<1>7. \A i \in s : i \in Int
  OBVIOUS
<1> QED BY <1>6, <1>7

\* The list with one value more.
Added(values, v) == IF Contains(values, v) THEN values ELSE Append(values, v)

FoldAt(f, s, a, b) == IF s = {} THEN a ELSE Added(f[s \ {Max(s)}], b[Max(s)])

IsFold(f, n, a, b) == f = [s \in SUBSET (1 .. n) |-> FoldAt(f, s, a, b)]

\* The fold is a function of the sets of positions.
LEMMA FoldExists ==
  ASSUME NEW n \in Nat, NEW a, NEW b
  PROVE  \E f : IsFold(f, n, a, b)
<1> DEFINE Upto(f, k) ==
      /\ f = [s \in SUBSET (1 .. n) |-> f[s]]
      /\ \A s \in SUBSET (1 .. n) : s \subseteq 1 .. k => f[s] = FoldAt(f, s, a, b)
    T == {k \in Nat : ~\E f : Upto(f, k)}
<1>1. T = {}
  <2> SUFFICES ASSUME T # {} PROVE FALSE
    OBVIOUS
  <2>1. PICK k \in T : \A j \in T : k <= j
    <3>1. T \subseteq Nat
      OBVIOUS
    <3> HIDE DEF T
    <3> QED BY <3>1, Least
  <2>2. k # 0
    <3> DEFINE g == [s \in SUBSET (1 .. n) |-> a]
    <3>1. \A s : s \subseteq 1 .. 0 => s = {}
      OBVIOUS
    <3>2. Upto(g, 0)
      BY <3>1 DEF FoldAt
    <3> QED BY <2>1, <3>2
  <2>3. PICK f : Upto(f, k - 1)
    <3>1. k - 1 \in Nat /\ ~(k <= k - 1)
      BY <2>2
    <3> QED BY <2>1, <3>1
  <2> DEFINE g == [s \in SUBSET (1 .. n) |-> FoldAt(f, s, a, b)]
  <2>4. ASSUME NEW s \in SUBSET (1 .. n), s \subseteq 1 .. k PROVE g[s] = FoldAt(g, s, a, b)
    <3>1. CASE s = {}
      BY <3>1 DEF FoldAt
    <3>2. CASE s # {}
      <4> DEFINE x == Max(s)
                 t == s \ {x}
      <4>1. x \in s /\ \A i \in s : i <= x
        BY <3>2, Greatest
      <4> HIDE DEF x
      <4>2. t \subseteq 1 .. (k - 1) /\ t \in SUBSET (1 .. n)
        BY <2>4, <4>1
      <4>3. f[t] = FoldAt(f, t, a, b)
        BY <2>3, <4>2
      <4>4. g[t] = f[t]
        BY <4>2, <4>3
      <4>5. g[s] = Added(f[t], b[x])
        BY <3>2 DEF FoldAt, x
      <4>6. FoldAt(g, s, a, b) = Added(g[t], b[x])
        BY <3>2 DEF FoldAt, x
      <4> QED BY <4>4, <4>5, <4>6
    <3> QED BY <3>1, <3>2
  <2>5. Upto(g, k)
    BY <2>4
  <2> QED BY <2>1, <2>5
<1>2. PICK f : Upto(f, n)
  BY <1>1
<1>3. IsFold(f, n, a, b)
  BY <1>2 DEF IsFold
<1> QED BY <1>3

\* What the merge appends is what the recursion has for all the positions.
LEMMA AppendNewFold ==
  ASSUME NEW n \in Nat, NEW a, NEW b, DOMAIN b = 1 .. n
  PROVE  \E f : IsFold(f, n, a, b) /\ AppendNew(a, b) = f[1 .. n]
<1> DEFINE f == CHOOSE g : IsFold(g, n, a, b)
<1>1. IsFold(f, n, a, b)
  BY FoldExists, Zenon
<1>2. AppendNew(a, b) = f[1 .. n]
  BY Zenon DEF AppendNew, FoldLeft, MapThenFoldSet, IsFold, FoldAt, Added
<1> QED BY <1>1, <1>2

\* A value is added unless it is there.
LEMMA AddedOnce ==
  ASSUME NEW V, NEW values \in Seq(V), NEW v \in V
  PROVE  /\ Added(values, v) \in Seq(V)
         /\ ToSet(Added(values, v)) = ToSet(values) \cup {v}
         /\ IsInjective(values) => IsInjective(Added(values, v))
<1> DEFINE k == Len(values)
<1>1. k \in Nat /\ DOMAIN values = 1 .. k
  OBVIOUS
<1>2. CASE Contains(values, v)
  BY <1>1, <1>2 DEF Added, Contains, ToSet
<1>3. CASE ~Contains(values, v)
  <2> DEFINE new == Append(values, v)
  <2>1. /\ new \in Seq(V) /\ DOMAIN new = 1 .. (k + 1)
        /\ \A i \in 1 .. k : new[i] = values[i]
        /\ new[k + 1] = v
    OBVIOUS
  <2>2. \A i \in 1 .. k : values[i] # v
    BY <1>3 DEF Contains
  <2>3. 1 .. (k + 1) = (1 .. k) \cup {k + 1}
    BY <1>1
  <2> HIDE DEF new, k
  <2>4. ToSet(new) = ToSet(values) \cup {v}
    BY <1>1, <2>1, <2>3 DEF ToSet
  <2>5. IsInjective(values) => IsInjective(new)
    BY <1>1, <2>1, <2>2, <2>3 DEF IsInjective
  <2>6. Added(values, v) = new
    BY <1>3 DEF Added, new
  <2> QED BY <2>1, <2>4, <2>5, <2>6
<1> QED BY <1>2, <1>3

ValuesUpto(b, k) == {b[i] : i \in 1 .. k}

\* The values that are added are there, after those that were, and none is twice.
LEMMA AppendedOnce ==
  ASSUME NEW V, NEW a \in Seq(V), NEW b \in Seq(V)
  PROVE  /\ AppendNew(a, b) \in Seq(V)
         /\ ToSet(AppendNew(a, b)) = ToSet(a) \cup ToSet(b)
         /\ IsInjective(a) => IsInjective(AppendNew(a, b))
<1> DEFINE n == Len(b)
<1>1. n \in Nat /\ DOMAIN b = 1 .. n /\ \A i \in 1 .. n : b[i] \in V
  OBVIOUS
<1> HIDE DEF n
<1>2. PICK f : IsFold(f, n, a, b) /\ AppendNew(a, b) = f[1 .. n]
  BY <1>1, AppendNewFold
<1>3. f[1 .. 0] = a
  <2>1. 1 .. 0 = {} /\ {} \in SUBSET (1 .. n)
    OBVIOUS
  <2>2. f[{}] = FoldAt(f, {}, a, b)
    BY <1>2, <2>1 DEF IsFold
  <2> QED BY <2>1, <2>2 DEF FoldAt
<1>4. ASSUME NEW k \in 1 .. n PROVE f[1 .. k] = Added(f[1 .. (k - 1)], b[k])
  <2>1. 1 .. k \in SUBSET (1 .. n) /\ k \in 1 .. k /\ 1 .. k # {}
    <3>1. 1 .. k \in SUBSET (1 .. n) /\ k \in 1 .. k
      BY <1>1
    <3> QED BY <3>1
  <2>2. Max(1 .. k) = k
    <3>1. Max(1 .. k) \in 1 .. k /\ \A i \in 1 .. k : i <= Max(1 .. k)
      BY <1>1, <2>1, Greatest
    <3> QED BY <1>1, <3>1
  <2>3. (1 .. k) \ {k} = 1 .. (k - 1)
    BY <1>1
  <2>4. f[1 .. k] = FoldAt(f, 1 .. k, a, b)
    BY <1>2, <2>1 DEF IsFold
  <2> QED BY <2>1, <2>2, <2>3, <2>4 DEF FoldAt
<1> DEFINE Appended(k) ==
             /\ f[1 .. k] \in Seq(V)
             /\ ToSet(f[1 .. k]) = ToSet(a) \cup ValuesUpto(b, k)
             /\ IsInjective(a) => IsInjective(f[1 .. k])
           T == {k \in 0 .. n : ~Appended(k)}
<1>5. T = {}
  <2> SUFFICES ASSUME T # {} PROVE FALSE
    OBVIOUS
  <2>1. PICK k \in T : \A j \in T : k <= j
    <3>1. T \subseteq Nat
      BY <1>1
    <3> HIDE DEF T
    <3> QED BY <3>1, Least
  <2>2. k # 0
    <3>1. ValuesUpto(b, 0) = {}
      BY DEF ValuesUpto
    <3>2. Appended(0)
      BY <1>3, <3>1
    <3> QED BY <2>1, <3>2
  <2>3. k \in 1 .. n /\ k - 1 \in 0 .. n /\ ~(k <= k - 1)
    BY <1>1, <2>1, <2>2
  <2>4. Appended(k - 1)
    BY <2>1, <2>3
  <2>5. ValuesUpto(b, k) = ValuesUpto(b, k - 1) \cup {b[k]}
    <3>1. 1 .. k = 1 .. (k - 1) \cup {k}
      BY <2>3
    <3> QED BY <3>1 DEF ValuesUpto
  <2>6. b[k] \in V
    BY <1>1, <2>3
  <2>7. Appended(k)
    <3> DEFINE old == f[1 .. (k - 1)]
    <3>1. f[1 .. k] = Added(old, b[k])
      BY <1>4, <2>3
    <3>2. /\ old \in Seq(V)
          /\ ToSet(old) = ToSet(a) \cup ValuesUpto(b, k - 1)
          /\ IsInjective(a) => IsInjective(old)
      BY <2>4, Zenon
    <3> HIDE DEF old
    <3>3. /\ Added(old, b[k]) \in Seq(V)
          /\ ToSet(Added(old, b[k])) = ToSet(old) \cup {b[k]}
          /\ IsInjective(old) => IsInjective(Added(old, b[k]))
      BY <2>6, <3>2, AddedOnce
    <3>4. ToSet(old) \cup {b[k]} = ToSet(a) \cup ValuesUpto(b, k)
      BY <2>5, <3>2
    <3> QED BY <3>1, <3>2, <3>3, <3>4
  <2> QED BY <2>1, <2>7
<1>6. Appended(n)
  BY <1>1, <1>5
<1>7. ValuesUpto(b, n) = ToSet(b)
  BY <1>1 DEF ToSet, ValuesUpto
<1> QED BY <1>2, <1>6, <1>7, Zenon

(***************************************************************************)
(* The sums.                                                               *)
(***************************************************************************)
Parts(f, S) == UNION {{n} \X (1 .. f[n]) : n \in S}

\* A sum is the size of its parts.
LEMMA SumParts == \A f, S : Sum(f, S) = Cardinality(Parts(f, S))
BY Zenon DEF Sum, Parts

\* A part has the size of its number.
LEMMA PartSize ==
  ASSUME NEW n, NEW k \in Nat
  PROVE  IsFiniteSet({n} \X (1 .. k)) /\ Cardinality({n} \X (1 .. k)) = k
<1> DEFINE g == [i \in 1 .. k |-> <<n, i>>]
<1>1. g \in Bijection(1 .. k, {n} \X (1 .. k))
  <2>1. g \in [1 .. k -> {n} \X (1 .. k)]
    OBVIOUS
  <2>2. \A i, j \in 1 .. k : g[i] = g[j] => i = j
    OBVIOUS
  <2>3. \A p \in {n} \X (1 .. k) : \E i \in 1 .. k : g[i] = p
    OBVIOUS
  <2> QED BY <2>1, <2>2, <2>3 DEF Bijection, Injection, Surjection, IsInjective
<1>2. ExistsBijection(1 .. k, {n} \X (1 .. k))
  BY <1>1 DEF ExistsBijection
<1>3. IsFiniteSet(1 .. k) /\ Cardinality(1 .. k) = k
  BY FS_Interval
<1> QED BY <1>2, <1>3, FS_Bijection

\* The parts of finitely many numbers are finite.
LEMMA PartsFinite ==
  ASSUME NEW M, IsFiniteSet(M), NEW f, \A n \in M : f[n] \in Nat
  PROVE  IsFiniteSet(Parts(f, M))
<1> DEFINE T == {c \in Nat : \E S \in SUBSET M : Cardinality(S) = c /\ ~IsFiniteSet(Parts(f, S))}
<1>1. \A S \in SUBSET M : IsFiniteSet(S) /\ Cardinality(S) \in Nat
  BY FS_Subset, FS_CardinalityType
<1>2. SUFFICES ASSUME T # {} PROVE FALSE
  BY <1>1
<1>3. PICK c \in T : \A d \in T : c <= d
  <2>1. T \subseteq Nat
    OBVIOUS
  <2> HIDE DEF T
  <2> QED BY <1>2, <2>1, Least
<1>4. PICK S \in SUBSET M : Cardinality(S) = c /\ ~IsFiniteSet(Parts(f, S))
  BY <1>3
<1>5. S # {}
  BY <1>4, FS_EmptySet DEF Parts
<1>6. PICK n \in S : TRUE
  BY <1>5
<1>7. /\ S \ {n} \in SUBSET M /\ Cardinality(S \ {n}) \in Nat
      /\ Cardinality(S \ {n}) = Cardinality(S) - 1
  BY <1>1, <1>6, FS_RemoveElement
<1>8. IsFiniteSet(Parts(f, S \ {n}))
  <2>1. c \in Nat /\ ~(c <= c - 1)
    BY <1>3
  <2> QED BY <1>3, <1>4, <1>7, <2>1
<1>9. Parts(f, S) = Parts(f, S \ {n}) \cup ({n} \X (1 .. f[n]))
  BY <1>6 DEF Parts
<1> DEFINE part == {n} \X (1 .. f[n])
<1>10. IsFiniteSet(part)
  BY <1>6, PartSize
<1> HIDE DEF part
<1>11. IsFiniteSet(Parts(f, S \ {n}) \cup part)
  BY <1>8, <1>10, FS_Union
<1> QED BY <1>4, <1>9, <1>11 DEF part

\* Nothing sums to nothing.
LEMMA SumEmpty == \A f : Sum(f, {}) = 0
<1> TAKE f
<1>1. UNION {{n} \X (1 .. f[n]) : n \in {}} = {}
  OBVIOUS
<1> QED BY <1>1, SumParts, FS_EmptySet DEF Parts

\* One number more adds to the sum.
LEMMA SumAdds ==
  ASSUME NEW M, IsFiniteSet(M), NEW n, n \notin M, NEW f, NEW g, g[n] \in Nat,
         \A m \in M : f[m] \in Nat /\ g[m] = f[m]
  PROVE  Sum(g, M \cup {n}) = Sum(f, M) + g[n]
<1> DEFINE new == {n} \X (1 .. g[n])
<1>1. Parts(g, M \cup {n}) = Parts(f, M) \cup new
  BY DEF Parts
<1>2. Parts(f, M) \cap new = {}
  BY DEF Parts
<1>3. IsFiniteSet(new) /\ Cardinality(new) = g[n]
  BY PartSize
<1>4. IsFiniteSet(Parts(f, M))
  BY PartsFinite
<1> HIDE DEF new
<1>5. Cardinality(Parts(f, M) \cup new)
        = Cardinality(Parts(f, M)) + Cardinality(new) - Cardinality({})
  BY <1>2, <1>3, <1>4, FS_Union
<1>6. Cardinality({}) = 0 /\ Cardinality(Parts(f, M)) \in Nat
  BY <1>4, FS_EmptySet, FS_CardinalityType
<1>7. Cardinality(Parts(f, M) \cup new) = Cardinality(Parts(f, M)) + g[n]
  BY <1>3, <1>5, <1>6
<1>8. Cardinality(Parts(g, M \cup {n})) = Cardinality(Parts(f, M)) + g[n]
  BY <1>1, <1>7 DEF new
<1> QED BY <1>8, SumParts

(***************************************************************************)
(* What a merge makes of a response.                                       *)
(***************************************************************************)
\* There are finitely many hubs.
LEMMA NamesFinite == \A M \in SUBSET Names : IsFiniteSet(M)
<1>1. IsFiniteSet(Names)
  BY HubsAssumption, FS_AddElement DEF Names
<1> QED BY <1>1, FS_Subset

\* The result of the model's merge of one more hub.
MergedWith(base, n, i) ==
  [count |-> base.count + SearchOf(n, i).count,
   items |-> base.items \cup FromHub(n, SearchOf(n, i).items),
   related |-> appendRelatedResults(base.related,
                 [kind \in DOMAIN SearchOf(n, i).related |->
                    [SearchOf(n, i).related[kind] EXCEPT !.items = FromHub(n, @)]])]

WithKind(kind, i, M) == {m \in M : kind \in DOMAIN SearchOf(m, i).related}

\* What the hubs M have of a kind related to result i.
GroupHas(group, kind, i, M) ==
  /\ group.items = UNION {FromHub(m, SearchOf(m, i).related[kind].items) : m \in M}
  /\ group.count = Sum([m \in M |-> SearchOf(m, i).related[kind].count], M)

\* What a result has, by its parts.
LEMMA ResultParts ==
  ASSUME NEW result, NEW i, NEW M
  PROVE  ResultHas(result, i, M) <=>
           /\ result.items = UNION {FromHub(m, SearchOf(m, i).items) : m \in M}
           /\ result.count = Sum([m \in M |-> SearchOf(m, i).count], M)
           /\ DOMAIN result.related = UNION {DOMAIN SearchOf(m, i).related : m \in M}
           /\ \A kind \in DOMAIN result.related :
                GroupHas(result.related[kind], kind, i, WithKind(kind, i, M))
BY Zenon DEF ResultHas, GroupHas, WithKind

\* One hub more has its items of a kind put to those that are there.
LEMMA GroupAdds ==
  ASSUME NEW M \in SUBSET Names, NEW n \in Names, n \notin M, NEW i, NEW kind,
         NEW old, GroupHas(old, kind, i, M), NEW new,
         \A m \in M \cup {n} : SearchOf(m, i).related[kind].count \in Nat,
         new.count = old.count + SearchOf(n, i).related[kind].count,
         new.items = old.items \cup FromHub(n, SearchOf(n, i).related[kind].items)
  PROVE  GroupHas(new, kind, i, M \cup {n})
<1> DEFINE f == [m \in M |-> SearchOf(m, i).related[kind].count]
           g == [m \in M \cup {n} |-> SearchOf(m, i).related[kind].count]
<1>1. /\ g[n] = SearchOf(n, i).related[kind].count /\ g[n] \in Nat
      /\ \A m \in M : f[m] \in Nat /\ g[m] = f[m]
  OBVIOUS
<1>2. old.count = Sum(f, M)
  BY DEF GroupHas
<1> HIDE DEF f, g
<1>3. Sum(g, M \cup {n}) = Sum(f, M) + g[n]
  <2>1. IsFiniteSet(M)
    BY NamesFinite
  <2>2. g[n] \in Nat /\ \A m \in M : f[m] \in Nat /\ g[m] = f[m]
    BY <1>1
  <2> QED BY <2>1, <2>2, SumAdds
<1>4. new.count = Sum(g, M \cup {n})
  BY <1>1, <1>2, <1>3
<1>5. new.items = UNION {FromHub(m, SearchOf(m, i).related[kind].items) : m \in M \cup {n}}
  BY DEF GroupHas
<1> QED BY <1>4, <1>5 DEF GroupHas, g

\* No hub has nothing.
LEMMA GroupEmpty ==
  ASSUME NEW group, NEW kind, NEW i, group.items = {}, group.count = 0
  PROVE  GroupHas(group, kind, i, {})
<1>1. UNION {FromHub(m, SearchOf(m, i).related[kind].items) : m \in {}} = {}
  OBVIOUS
<1> QED BY <1>1, SumEmpty DEF GroupHas

\* Nor has a result without hubs anything.
LEMMA ResultEmpty == \A i : ResultHas(Empty, i, {})
<1> TAKE i
<1>1. /\ Empty.items = {} /\ Empty.count = 0 /\ DOMAIN Empty.related = {}
  BY DEF Empty
<1>2. /\ UNION {FromHub(m, SearchOf(m, i).items) : m \in {}} = {}
      /\ UNION {DOMAIN SearchOf(m, i).related : m \in {}} = {}
  OBVIOUS
<1> QED BY <1>1, <1>2, SumEmpty, ResultParts

\* The result of one hub more.
LEMMA ResultAdds ==
  ASSUME NEW M \in SUBSET Names, NEW n \in Names, n \notin M, NEW i,
         \A m \in Names : i \in DOMAIN Held[m].search,
         NEW base, ResultHas(base, i, M)
  PROVE  ResultHas(MergedWith(base, n, i), i, M \cup {n})
<1> DEFINE new == SearchOf(n, i)
           added == [kind \in DOMAIN new.related |-> [new.related[kind] EXCEPT !.items = FromHub(n, @)]]
           result == MergedWith(base, n, i)
<1>1. /\ base.items = UNION {FromHub(m, SearchOf(m, i).items) : m \in M}
      /\ base.count = Sum([m \in M |-> SearchOf(m, i).count], M)
      /\ DOMAIN base.related = UNION {DOMAIN SearchOf(m, i).related : m \in M}
      /\ \A kind \in DOMAIN base.related :
           GroupHas(base.related[kind], kind, i, WithKind(kind, i, M))
  BY ResultParts
<1>2. /\ result.count = base.count + new.count
      /\ result.items = base.items \cup FromHub(n, new.items)
      /\ result.related = appendRelatedResults(base.related, added)
  BY DEF MergedWith
<1>3. /\ \A m \in Names : SearchOf(m, i).count \in Nat
      /\ \A m \in Names : \A kind : kind \in DOMAIN SearchOf(m, i).related =>
           /\ SearchOf(m, i).related[kind] = [count |-> SearchOf(m, i).related[kind].count,
                                             items |-> SearchOf(m, i).related[kind].items]
           /\ SearchOf(m, i).related[kind].count \in Nat
  BY HeldAssumption DEF SearchOf
<1>4. /\ DOMAIN added = DOMAIN new.related
      /\ \A kind \in DOMAIN new.related :
           /\ added[kind].count = new.related[kind].count
           /\ added[kind].items = FromHub(n, new.related[kind].items)
  <2>1. DOMAIN added = DOMAIN new.related
    OBVIOUS
  <2>2. ASSUME NEW kind \in DOMAIN new.related
        PROVE  /\ added[kind].count = new.related[kind].count
               /\ added[kind].items = FromHub(n, new.related[kind].items)
    <3> DEFINE group == new.related[kind]
    <3>1. group = [count |-> group.count, items |-> group.items]
      BY <1>3, <2>2
    <3>2. added[kind] = [group EXCEPT !.items = FromHub(n, @)]
      BY <2>2
    <3> HIDE DEF group, added
    <3>3. /\ [group EXCEPT !.items = FromHub(n, @)].count = group.count
          /\ [group EXCEPT !.items = FromHub(n, @)].items = FromHub(n, group.items)
      BY <3>1
    <3> QED BY <3>2, <3>3 DEF group
  <2> QED BY <2>1, <2>2
<1> HIDE DEF added, result
<1>5. result.items = UNION {FromHub(m, SearchOf(m, i).items) : m \in M \cup {n}}
  BY <1>1, <1>2
<1>6. result.count = Sum([m \in M \cup {n} |-> SearchOf(m, i).count], M \cup {n})
  <2> DEFINE f == [m \in M |-> SearchOf(m, i).count]
             g == [m \in M \cup {n} |-> SearchOf(m, i).count]
  <2>1. g[n] \in Nat /\ \A m \in M : f[m] \in Nat /\ g[m] = f[m]
    BY <1>3
  <2>2. base.count = Sum(f, M)
    BY <1>1
  <2>3. IsFiniteSet(M) /\ g[n] = new.count
    BY NamesFinite
  <2> HIDE DEF f, g
  <2>4. Sum(g, M \cup {n}) = Sum(f, M) + g[n]
    BY <2>1, NamesFinite, SumAdds
  <2>5. result.count = Sum(g, M \cup {n})
    BY <1>2, <2>2, <2>3, <2>4
  <2> QED BY <2>5 DEF g
<1>7. DOMAIN result.related = UNION {DOMAIN SearchOf(m, i).related : m \in M \cup {n}}
  BY <1>1, <1>2, <1>4 DEF appendRelatedResults
<1>8. ASSUME NEW kind \in DOMAIN result.related
      PROVE  GroupHas(result.related[kind], kind, i, WithKind(kind, i, M \cup {n}))
  <2> DEFINE some == WithKind(kind, i, M)
  <2>1. /\ some \in SUBSET Names /\ n \notin some
        /\ WithKind(kind, i, M \cup {n}) = IF kind \in DOMAIN new.related THEN some \cup {n} ELSE some
        /\ some # {} <=> kind \in DOMAIN base.related
        /\ \A m \in some : SearchOf(m, i).related[kind].count \in Nat
    BY <1>1, <1>3 DEF WithKind
  <2>2. result.related[kind] =
          IF kind \notin DOMAIN added THEN base.related[kind]
          ELSE IF kind \notin DOMAIN base.related THEN added[kind]
          ELSE [count |-> base.related[kind].count + added[kind].count,
                items |-> base.related[kind].items \cup added[kind].items]
    BY <1>2, <1>8 DEF appendRelatedResults
  <2>3. kind \in DOMAIN base.related \/ kind \in DOMAIN new.related
    BY <1>1, <1>7
  <2> HIDE DEF some
  <2>4. CASE kind \notin DOMAIN new.related
    <3>1. GroupHas(base.related[kind], kind, i, some)
      BY <1>1, <2>3, <2>4 DEF some
    <3> QED BY <1>4, <2>1, <2>2, <2>4, <3>1
  <2>5. CASE kind \in DOMAIN new.related /\ kind \in DOMAIN base.related
    <3>1. GroupHas(base.related[kind], kind, i, some)
      BY <1>1, <2>5 DEF some
    <3>2. /\ result.related[kind].count = base.related[kind].count + new.related[kind].count
          /\ result.related[kind].items = base.related[kind].items \cup FromHub(n, new.related[kind].items)
      BY <1>4, <2>2, <2>5
    <3>3. \A m \in some \cup {n} : SearchOf(m, i).related[kind].count \in Nat
      BY <1>3, <2>1, <2>5
    <3>4. GroupHas(result.related[kind], kind, i, some \cup {n})
      BY <2>1, <3>1, <3>2, <3>3, GroupAdds
    <3> QED BY <2>1, <2>5, <3>4
  <2>6. CASE kind \in DOMAIN new.related /\ kind \notin DOMAIN base.related
    <3> DEFINE nothing == [count |-> 0, items |-> {}]
    <3>1. GroupHas(nothing, kind, i, some)
      <4>1. nothing.items = {} /\ nothing.count = 0
        OBVIOUS
      <4> QED BY <2>1, <2>6, <4>1, GroupEmpty
    <3>2. \A m \in some \cup {n} : SearchOf(m, i).related[kind].count \in Nat
      BY <1>3, <2>1, <2>6
    <3>3. /\ result.related[kind].count = nothing.count + new.related[kind].count
          /\ result.related[kind].items = nothing.items \cup FromHub(n, new.related[kind].items)
      BY <1>4, <2>2, <2>6, <3>2
    <3> HIDE DEF nothing
    <3>4. GroupHas(result.related[kind], kind, i, some \cup {n})
      BY <2>1, <3>1, <3>2, <3>3, GroupAdds
    <3> QED BY <2>1, <2>6, <3>4
  <2> QED BY <2>3, <2>4, <2>5, <2>6
<1> QED BY <1>5, <1>6, <1>7, <1>8, ResultParts DEF result

CompleteValues == UNION {ToSet(Held[n].complete) : n \in Names}
SchemaValues == {"managedHub"} \cup UNION {ToSet(Held[n].schema) : n \in Names}
MessageValues == UNION {ToSet(Held[n].messages) : n \in Names}

\* The response once the hubs M are merged.
DataOk(d, op, M) ==
  /\ d = [search |-> d.search, complete |-> d.complete, schema |-> d.schema, messages |-> d.messages]
  /\ d.complete \in Seq(CompleteValues) /\ d.schema \in Seq(SchemaValues)
  /\ d.messages \in Seq(MessageValues)
  /\ M = {} => d = NoData
  /\ HasOnce(d, op, M)

\* The lists of a hub are of the values of all.
LEMMA ListsOfHub ==
  ASSUME NEW n \in Names
  PROVE  /\ Held[n].complete \in Seq(CompleteValues)
         /\ Held[n].schema \in Seq(SchemaValues)
         /\ Held[n].messages \in Seq(MessageValues)
<1>1. /\ Held[n].complete \in Seq(ToSet(Held[n].complete))
      /\ Held[n].schema \in Seq(ToSet(Held[n].schema))
      /\ Held[n].messages \in Seq(ToSet(Held[n].messages))
  BY HeldAssumption
<1>2. /\ ToSet(Held[n].complete) \subseteq CompleteValues
      /\ ToSet(Held[n].schema) \subseteq SchemaValues
      /\ ToSet(Held[n].messages) \subseteq MessageValues
  BY DEF CompleteValues, SchemaValues, MessageValues
<1> QED BY <1>1, <1>2, SeqMonotonic

\* A response that nothing is merged into.
LEMMA NoDataOk == \A op : DataOk(NoData, op, {})
<1> TAKE op
<1>1. /\ NoData.search = <<>> /\ NoData.complete = <<>> /\ NoData.schema = <<>> /\ NoData.messages = <<>>
  BY DEF NoData
<1>2. NoData = [search |-> NoData.search, complete |-> NoData.complete, schema |-> NoData.schema,
                messages |-> NoData.messages]
  BY DEF NoData
<1>3. ToSet(<<>>) = {} /\ IsInjective(<<>>) /\ Len(<<>>) = 0 /\ DOMAIN <<>> = {}
  BY DEF ToSet, IsInjective
<1>4. UNION {ToSet(Held[n].complete) : n \in {}} = {}
  OBVIOUS
<1>5. HasOnce(NoData, op, {})
  <2>1. CASE op = "search"
    BY <1>1, <1>3, <2>1 DEF HasOnce
  <2>2. CASE op = "complete"
    BY <1>1, <1>3, <1>4, <2>2 DEF HasOnce
  <2>3. CASE op = "schema"
    BY <1>1, <1>3, <2>3 DEF HasOnce
  <2>4. CASE op \notin {"search", "complete", "schema"}
    BY <1>1, <1>3, <2>4, SumEmpty DEF HasOnce
  <2> QED BY <2>1, <2>2, <2>3, <2>4
<1>6. <<>> \in Seq(CompleteValues) /\ <<>> \in Seq(SchemaValues) /\ <<>> \in Seq(MessageValues)
  OBVIOUS
<1> QED BY <1>1, <1>2, <1>5, <1>6 DEF DataOk

\* The fields of a response of which one is replaced.
LEMMA FieldReplaced ==
  ASSUME NEW d, d = [search |-> d.search, complete |-> d.complete, schema |-> d.schema,
                     messages |-> d.messages], NEW v
  PROVE  /\ [d EXCEPT !.search = v] = [search |-> v, complete |-> d.complete, schema |-> d.schema,
                                       messages |-> d.messages]
         /\ [d EXCEPT !.complete = v] = [search |-> d.search, complete |-> v, schema |-> d.schema,
                                         messages |-> d.messages]
         /\ [d EXCEPT !.schema = v] = [search |-> d.search, complete |-> d.complete, schema |-> v,
                                       messages |-> d.messages]
         /\ [d EXCEPT !.messages = v] = [search |-> d.search, complete |-> d.complete,
                                         schema |-> d.schema, messages |-> v]
OBVIOUS

\* The response of searchSchema leads with the name of the hubs' property.
LEMMA SchemaMerged ==
  ASSUME NEW old \in Seq(SchemaValues), NEW n \in Names
  PROVE  LET new == mergeSearchSchema(old, Held[n].schema)
         IN  /\ new \in Seq(SchemaValues)
             /\ ToSet(new) = ToSet(old) \cup {"managedHub"} \cup ToSet(Held[n].schema)
             /\ IsInjective(old) => IsInjective(new)
<1> DEFINE props == Held[n].schema
           more == IF Contains(props, "managedHub") THEN props ELSE <<"managedHub">> \o props
<1>1. props \in Seq(SchemaValues)
  BY ListsOfHub
<1> HIDE DEF props
<1>2. more \in Seq(SchemaValues) /\ ToSet(more) = {"managedHub"} \cup ToSet(props)
  <2>1. CASE Contains(props, "managedHub")
    <3>1. more = props
      BY <2>1
    <3>2. "managedHub" \in ToSet(props)
      BY <1>1, <2>1 DEF Contains, ToSet
    <3> QED BY <1>1, <3>1, <3>2
  <2>2. CASE ~Contains(props, "managedHub")
    <3> DEFINE one == <<"managedHub">>
    <3>1. /\ one \in Seq(SchemaValues) /\ Len(one) = 1 /\ one[1] = "managedHub"
      BY DEF SchemaValues
    <3> HIDE DEF one
    <3>2. /\ one \o props \in Seq(SchemaValues)
          /\ Len(one \o props) = 1 + Len(props)
          /\ \A i \in 1 .. 1 + Len(props) :
               (one \o props)[i] = IF i <= 1 THEN one[i] ELSE props[i - 1]
      <4>1. /\ one \o props \in Seq(SchemaValues)
            /\ Len(one \o props) = Len(one) + Len(props)
            /\ \A i \in 1 .. Len(one) + Len(props) :
                 (one \o props)[i] = IF i <= Len(one) THEN one[i] ELSE props[i - Len(one)]
        BY <1>1, <3>1, ConcatProperties
      <4> QED BY <3>1, <4>1
    <3>3. Len(props) \in Nat /\ DOMAIN props = 1 .. Len(props)
          /\ DOMAIN (one \o props) = 1 .. 1 + Len(props)
      BY <1>1, <3>2
    <3>4. ToSet(one \o props) \subseteq {"managedHub"} \cup ToSet(props)
      BY <3>1, <3>2, <3>3 DEF ToSet
    <3>5. "managedHub" \in ToSet(one \o props)
      <4>1. 1 \in 1 .. 1 + Len(props) /\ (one \o props)[1] = "managedHub"
        BY <3>1, <3>2, <3>3
      <4> QED BY <3>3, <4>1 DEF ToSet
    <3>6. ASSUME NEW i \in 1 .. Len(props) PROVE props[i] \in ToSet(one \o props)
      <4>1. i + 1 \in 1 .. 1 + Len(props) /\ (one \o props)[i + 1] = props[i]
        BY <3>2, <3>3
      <4> QED BY <3>3, <4>1 DEF ToSet
    <3>7. ToSet(props) \subseteq ToSet(one \o props)
      BY <3>3, <3>6 DEF ToSet
    <3>8. more = one \o props
      BY <2>2 DEF one
    <3> QED BY <3>2, <3>4, <3>5, <3>7, <3>8
  <2> QED BY <2>1, <2>2
<1>3. mergeSearchSchema(old, props) = AppendNew(old, more)
  BY DEF mergeSearchSchema
<1> HIDE DEF more
<1>4. /\ AppendNew(old, more) \in Seq(SchemaValues)
      /\ ToSet(AppendNew(old, more)) = ToSet(old) \cup ToSet(more)
      /\ IsInjective(old) => IsInjective(AppendNew(old, more))
  BY <1>2, AppendedOnce
<1> QED BY <1>2, <1>3, <1>4 DEF props

\* The answer of a hub that is not in the response yet is put to what is.
LEMMA MergeOk ==
  ASSUME NEW d, NEW op, NEW M \in SUBSET Names, NEW n \in Names, n \notin M, DataOk(d, op, M)
  PROVE  DataOk(parseResponse(d, n, op), op, M \cup {n})
<1> DEFINE new == parseResponse(d, n, op)
           N == M \cup {n}
<1>1. /\ d = [search |-> d.search, complete |-> d.complete, schema |-> d.schema, messages |-> d.messages]
      /\ d.complete \in Seq(CompleteValues) /\ d.schema \in Seq(SchemaValues)
      /\ d.messages \in Seq(MessageValues)
      /\ M = {} => d = NoData
      /\ HasOnce(d, op, M)
  BY DEF DataOk
<1>2. N # {}
  OBVIOUS
<1>3. CASE op = "search"
  <2> DEFINE results == mergeSearchResults(d.search, n, Held[n].search)
  <2>1. new = [search |-> results, complete |-> d.complete, schema |-> d.schema, messages |-> d.messages]
    BY <1>1, <1>3, FieldReplaced DEF parseResponse
  <2>2. DOMAIN results = DOMAIN Held[n].search
    BY DEF mergeSearchResults
  <2>3. \A m \in Names : DOMAIN Held[m].search = DOMAIN results
    BY <2>2, HeldAssumption
  <2>4. ASSUME NEW i \in DOMAIN results PROVE ResultHas(results[i], i, N)
    <3> DEFINE base == IF d.search = <<>> THEN Empty ELSE d.search[i]
    <3>1. results[i] = MergedWith(base, n, i)
      BY <2>2, <2>4 DEF mergeSearchResults, MergedWith, SearchOf
    <3>2. ResultHas(base, i, M)
      <4>1. CASE M = {}
        <5>1. d.search = <<>>
          BY <1>1, <4>1 DEF NoData
        <5> QED BY <4>1, <5>1, ResultEmpty
      <4>2. CASE M # {}
        <5>1. PICK m \in M : TRUE
          BY <4>2
        <5>2. DOMAIN d.search = DOMAIN results /\ \A j \in DOMAIN d.search : ResultHas(d.search[j], j, M)
          BY <1>1, <1>3, <2>3, <5>1 DEF HasOnce
        <5>3. d.search # <<>>
          BY <2>4, <5>2
        <5> QED BY <2>4, <5>2, <5>3
      <4> QED BY <4>1, <4>2
    <3> HIDE DEF base, results
    <3>3. ResultHas(MergedWith(base, n, i), i, M \cup {n})
      BY <2>3, <2>4, <3>2, ResultAdds
    <3> QED BY <3>1, <3>3
  <2> HIDE DEF results
  <2>5. HasOnce(new, op, N)
    BY <1>3, <2>1, <2>3, <2>4 DEF HasOnce
  <2> HIDE DEF new
  <2> QED BY <1>1, <1>2, <2>1, <2>5 DEF DataOk, new
<1>4. CASE op = "complete"
  <2> DEFINE values == AppendNew(d.complete, Held[n].complete)
  <2>1. new = [search |-> d.search, complete |-> values, schema |-> d.schema, messages |-> d.messages]
    BY <1>1, <1>4, FieldReplaced DEF parseResponse
  <2>2. /\ values \in Seq(CompleteValues)
        /\ ToSet(values) = ToSet(d.complete) \cup ToSet(Held[n].complete)
        /\ IsInjective(d.complete) => IsInjective(values)
    BY <1>1, ListsOfHub, AppendedOnce
  <2>3. ToSet(d.complete) = UNION {ToSet(Held[m].complete) : m \in M} /\ IsInjective(d.complete)
    BY <1>1, <1>4 DEF HasOnce
  <2> HIDE DEF values
  <2>4. ToSet(values) = UNION {ToSet(Held[m].complete) : m \in N} /\ IsInjective(values)
    BY <2>2, <2>3
  <2>5. HasOnce(new, op, N)
    BY <1>4, <2>1, <2>4 DEF HasOnce
  <2> HIDE DEF new
  <2> QED BY <1>1, <1>2, <2>1, <2>2, <2>5 DEF DataOk, new
<1>5. CASE op = "schema"
  <2> DEFINE props == mergeSearchSchema(d.schema, Held[n].schema)
  <2>1. new = [search |-> d.search, complete |-> d.complete, schema |-> props, messages |-> d.messages]
    BY <1>1, <1>5, FieldReplaced DEF parseResponse
  <2>2. /\ props \in Seq(SchemaValues)
        /\ ToSet(props) = ToSet(d.schema) \cup {"managedHub"} \cup ToSet(Held[n].schema)
        /\ IsInjective(d.schema) => IsInjective(props)
    BY <1>1, SchemaMerged
  <2>3. /\ M # {} => ToSet(d.schema) = {"managedHub"} \cup UNION {ToSet(Held[m].schema) : m \in M}
        /\ M = {} => ToSet(d.schema) = {}
        /\ IsInjective(d.schema)
    <3>1. M = {} => d.schema = <<>>
      BY <1>1 DEF NoData
    <3>2. ToSet(<<>>) = {}
      BY DEF ToSet
    <3> QED BY <1>1, <1>5, <3>1, <3>2 DEF HasOnce
  <2> HIDE DEF props
  <2>4. ToSet(props) = {"managedHub"} \cup UNION {ToSet(Held[m].schema) : m \in N} /\ IsInjective(props)
    BY <2>2, <2>3
  <2>5. HasOnce(new, op, N)
    BY <1>5, <2>1, <2>4 DEF HasOnce
  <2> HIDE DEF new
  <2> QED BY <1>1, <1>2, <2>1, <2>2, <2>5 DEF DataOk, new
<1>6. CASE op \notin {"search", "complete", "schema"}
  <2> DEFINE lines == d.messages \o Held[n].messages
             f == [m \in M |-> Len(Held[m].messages)]
             g == [m \in N |-> Len(Held[m].messages)]
  <2>1. new = [search |-> d.search, complete |-> d.complete, schema |-> d.schema, messages |-> lines]
    BY <1>1, <1>6, FieldReplaced DEF parseResponse
  <2>2. \A m \in Names : Len(Held[m].messages) \in Nat
    BY HeldAssumption
  <2>3. lines \in Seq(MessageValues) /\ Len(lines) = Len(d.messages) + Len(Held[n].messages)
    BY <1>1, ListsOfHub, ConcatProperties
  <2>4. Len(d.messages) = Sum(f, M)
    BY <1>1, <1>6 DEF HasOnce
  <2>5. g[n] \in Nat /\ \A m \in M : f[m] \in Nat /\ g[m] = f[m]
    BY <2>2
  <2>6. g[n] = Len(Held[n].messages)
    OBVIOUS
  <2> HIDE DEF f, g, lines
  <2>7. Sum(g, M \cup {n}) = Sum(f, M) + g[n]
    <3>1. IsFiniteSet(M)
      BY NamesFinite
    <3> QED BY <2>5, <3>1, SumAdds
  <2>8. Len(lines) = Sum(g, N)
    BY <2>3, <2>4, <2>6, <2>7
  <2>9. HasOnce(new, op, N)
    BY <1>6, <2>1, <2>8 DEF HasOnce, g
  <2> HIDE DEF new
  <2> QED BY <1>1, <1>2, <2>1, <2>3, <2>9 DEF DataOk, new
<1> QED BY <1>3, <1>4, <1>5, <1>6

(***************************************************************************)
(* Merging. A goroutine merges into the response that it has read under    *)
(* writeLock, which is still the response when it replaces it.             *)
(***************************************************************************)
Merged(q) == {n \in Names : at[q][n] = "done" /\ outcome[q][n] = "ok"}

NothingYet ==
  \A q \in Callers : pc[q] \in {"config", "fetch", "store", "stamp", "use"} =>
    data[q] = NoData /\ \A n \in Names : outcome[q][n] = None

MergersOk ==
  \A q \in Callers, n \in Names :
    /\ outcome[q][n] = "ok" => at[q][n] \in {"lock", "merge", "done"}
    /\ at[q][n] \in {"lock", "merge"} => outcome[q][n] = "ok"
    /\ at[q][n] = "merge" => copy[q][n] = data[q]

DataMerged == DOMAIN data = Callers /\ \A q \in Callers : DataOk(data[q], request[q].op, Merged(q))

MergeInv == NothingYet /\ MergersOk /\ DataMerged

\* A call without an outcome is not one with an answer.
LEMMA NoneIsNotOk == None # "ok"
BY OutcomeAssumption DEF Place

\* A response stays whole while no goroutine is done with its merge.
LEMMA DataKept ==
  ASSUME DataMerged, UNCHANGED <<data, request>>, \A q \in Callers : Merged(q)' = Merged(q)
  PROVE  DataMerged'
BY DEF DataMerged

\* A goroutine goes to a place and may have an outcome, without merging.
LEMMA MergesNothing ==
  ASSUME FedInv, MergeInv, NEW q \in Callers, NEW n \in Names, at[q][n] \in Running,
         NEW place, NEW o, place # "merge", place = "lock" => o = "ok",
         o = "ok" => place = "lock",
         at' = [at EXCEPT ![q][n] = place], outcome' = [outcome EXCEPT ![q][n] = o],
         UNCHANGED <<pc, request, data>>,
         \A p \in Callers, m \in Names : p # q \/ m # n => copy'[p][m] = copy[p][m]
  PROVE  MergeInv'
<1>1. \A p \in Callers, m \in Names :
        /\ at'[p][m] = IF p = q /\ m = n THEN place ELSE at[p][m]
        /\ outcome'[p][m] = IF p = q /\ m = n THEN o ELSE outcome[p][m]
  BY DEF FedInv, TypeOK, GoroutinesOk
<1>2. pc[q] = "wait"
  BY DEF FedInv, TypeOK, GoroutinesOk
<1>3. NothingYet'
  BY <1>1, <1>2 DEF MergeInv, NothingYet
<1>4. MergersOk'
  BY <1>1 DEF MergeInv, MergersOk
<1>5. \A p \in Callers : Merged(p)' = Merged(p)
  <2>1. at[q][n] # "done"
    BY DEF Running
  <2>2. \A p \in Callers, m \in Names :
          (at'[p][m] = "done" /\ outcome'[p][m] = "ok") <=> (at[p][m] = "done" /\ outcome[p][m] = "ok")
    BY <1>1, <2>1
  <2> QED BY <2>2 DEF Merged
<1> QED BY <1>3, <1>4, <1>5, DataKept DEF MergeInv

\* The steps that leave the goroutines of every request where they are.
LEMMA GoroutinesKept ==
  ASSUME MergeInv, UNCHANGED <<at, outcome, copy, request, data>>,
         \A q \in Callers : pc'[q] \in {"config", "fetch", "store", "stamp", "use"} =>
                              pc[q] \in {"config", "fetch", "store", "stamp", "use"}
  PROVE  MergeInv'
<1>1. NothingYet' /\ MergersOk'
  BY DEF MergeInv, NothingYet, MergersOk
<1>2. \A q \in Callers : Merged(q)' = Merged(q)
  BY DEF Merged
<1> QED BY <1>1, <1>2, DataKept DEF MergeInv

\* The response has the hubs that are merged, whoever is merging another one.
LEMMA MergeStep ==
  ASSUME FedInv, MergeInv, [Next]_vars
  PROVE  MergeInv'
<1>t. /\ at \in [Callers -> [Names -> {"none", "done"} \cup Running]]
      /\ outcome \in [Callers -> [Names -> DOMAIN Place \cup {None}]]
      /\ pc \in [Callers -> Phases] /\ DOMAIN request = Callers /\ DOMAIN data = Callers
      /\ DOMAIN copy = Callers /\ \A q \in Callers : DOMAIN copy[q] = Names
  BY DEF FedInv, TypeOK, ReportOk, GoroutinesOk, MergeInv, DataMerged
<1>1. ASSUME NEW q \in Callers, NEW r \in Inputs[q], Receive(q, r) PROVE MergeInv'
  <2>1. \A p \in Callers :
          /\ pc'[p] = IF p = q THEN "config" ELSE pc[p]
          /\ request'[p] = IF p = q THEN r ELSE request[p]
          /\ data'[p] = IF p = q THEN NoData ELSE data[p]
          /\ \A n \in Names : /\ at'[p][n] = IF p = q THEN "none" ELSE at[p][n]
                              /\ outcome'[p][n] = IF p = q THEN None ELSE outcome[p][n]
    BY <1>1, <1>t DEF Receive, Goto
  <2>2. UNCHANGED copy /\ DOMAIN data' = Callers
    BY <1>1, <1>t DEF Receive
  <2>3. NothingYet'
    BY <2>1 DEF MergeInv, NothingYet
  <2>4. MergersOk'
    BY <2>1, <2>2, NoneIsNotOk DEF MergeInv, MergersOk
  <2>5. ASSUME NEW p \in Callers PROVE DataOk(data'[p], request'[p].op, Merged(p)')
    <3>1. CASE p = q
      <4>1. Merged(p)' = {}
        BY <2>1, <3>1 DEF Merged
      <4> QED BY <2>1, <3>1, <4>1, NoDataOk
    <3>2. CASE p # q
      <4>1. Merged(p)' = Merged(p)
        BY <2>1, <3>2 DEF Merged
      <4> QED BY <2>1, <3>2, <4>1 DEF MergeInv, DataMerged
    <3> QED BY <3>1, <3>2
  <2> QED BY <2>2, <2>3, <2>4, <2>5 DEF MergeInv, DataMerged
<1>2. ASSUME NEW q \in Callers, ConfigSteps(q) PROVE MergeInv'
  <2>1. /\ UNCHANGED <<at, outcome, copy, request, data>>
        /\ pc[q] \in {"config", "fetch", "store", "stamp", "use"} /\ \E place : Goto(q, place)
    BY <1>2 DEF ConfigSteps, ReceiveFails, getFederationConfig, getFederationConfigFromSecret,
                ConfigPanics, StoreConfig, StampConfig, goroutineVars
  <2>2. \A p \in Callers \ {q} : pc'[p] = pc[p]
    BY <1>t, <2>1 DEF Goto
  <2> QED BY <2>1, <2>2, GoroutinesKept
<1>3. ASSUME NEW q \in Callers, HandleFederatedRequest(q) PROVE MergeInv'
  <2>1. /\ \A p \in Callers \ {q} : at'[p] = at[p] /\ pc'[p] = pc[p]
        /\ \A n \in Names : at'[q][n] \in {"send", "none"}
        /\ pc'[q] = "wait" /\ UNCHANGED <<outcome, copy, request, data>>
    BY <1>3, <1>t DEF HandleFederatedRequest, Goto
  <2>2. \A n \in Names : outcome[q][n] # "ok"
    BY <1>3, NoneIsNotOk DEF HandleFederatedRequest, MergeInv, NothingYet
  <2>3. NothingYet'
    BY <2>1 DEF MergeInv, NothingYet
  <2>4. MergersOk'
    <3> SUFFICES ASSUME NEW p \in Callers, NEW n \in Names
                 PROVE  /\ outcome[p][n] = "ok" => at'[p][n] \in {"lock", "merge", "done"}
                        /\ at'[p][n] \in {"lock", "merge"} => outcome[p][n] = "ok"
                        /\ at'[p][n] = "merge" => copy[p][n] = data[p]
      BY <2>1 DEF MergersOk
    <3> QED BY <2>1, <2>2 DEF MergeInv, MergersOk
  <2>5. \A p \in Callers : Merged(p)' = Merged(p)
    <3> TAKE p \in Callers
    <3> QED BY <2>1, <2>2 DEF Merged
  <2> QED BY <2>1, <2>3, <2>4, <2>5, DataKept DEF MergeInv
<1>4. ASSUME NEW q \in Callers, sendResponse(q) PROVE MergeInv'
  <2>1. /\ UNCHANGED <<at, outcome, copy, request, data>>
        /\ \A p \in Callers : pc'[p] = IF p = q THEN "answered" ELSE pc[p]
    BY <1>4, <1>t DEF sendResponse, Goto, goroutineVars
  <2> QED BY <2>1, GoroutinesKept
<1>5. ASSUME NEW q \in Callers, NEW s \in asked[q], s.name \in Names, getFederatedResponse(q, s)
      PROVE  MergeInv'
  <2>1. PICK o \in DOMAIN Place : /\ outcome' = [outcome EXCEPT ![q][s.name] = o]
                                  /\ at' = [at EXCEPT ![q][s.name] = Place[o]]
    BY <1>5 DEF getFederatedResponse, Moves
  <2> DEFINE place == Place[o]
  <2>2. place # "merge" /\ (place = "lock" <=> o = "ok")
    BY DEF Place
  <2>3. at[q][s.name] \in Running /\ UNCHANGED <<pc, request, data, copy>>
    BY <1>5 DEF getFederatedResponse, Running
  <2> HIDE DEF place
  <2>4. at' = [at EXCEPT ![q][s.name] = place]
    BY <2>1 DEF place
  <2> QED BY <1>5, <2>1, <2>2, <2>3, <2>4, MergesNothing
<1>6. ASSUME NEW q \in Callers, NEW n \in Names, ReadErrors(q, n) \/ WriteErrors(q, n) PROVE MergeInv'
  <2>1. PICK place \in {"write", "done"} :
          /\ at' = [at EXCEPT ![q][n] = place] /\ at[q][n] \in {"append", "write"}
          /\ UNCHANGED <<pc, request, data, outcome>>
          /\ \E c : copy' = [copy EXCEPT ![q][n] = c]
    BY <1>6 DEF ReadErrors, WriteErrors, Moves
  <2>2. \A p \in Callers, m \in Names : p # q \/ m # n => copy'[p][m] = copy[p][m]
    BY <1>t, <2>1
  <2> DEFINE o == outcome[q][n]
  <2>3. o # "ok" /\ outcome' = [outcome EXCEPT ![q][n] = o]
    BY <1>t, <2>1 DEF MergeInv, MergersOk
  <2>4. at[q][n] \in Running /\ place \notin {"merge", "lock"}
    BY <2>1 DEF Running
  <2>5. at' = [at EXCEPT ![q][n] = place] /\ UNCHANGED <<pc, request, data>>
    BY <2>1
  <2> HIDE DEF o
  <2> QED BY <2>2, <2>3, <2>4, <2>5, MergesNothing
<1>7. ASSUME NEW q \in Callers, NEW n \in Names, LockData(q, n) PROVE MergeInv'
  <2>1. \A p \in Callers, m \in Names :
          /\ at'[p][m] = IF p = q /\ m = n THEN "merge" ELSE at[p][m]
          /\ copy'[p][m] = IF p = q /\ m = n THEN data[q] ELSE copy[p][m]
    BY <1>7, <1>t DEF LockData, Moves
  <2>2. at[q][n] = "lock" /\ UNCHANGED <<pc, request, outcome, data>>
    BY <1>7 DEF LockData
  <2>3. NothingYet' /\ MergersOk'
    BY <2>1, <2>2 DEF MergeInv, NothingYet, MergersOk
  <2>4. \A p \in Callers : Merged(p)' = Merged(p)
    <3> TAKE p \in Callers
    <3> QED BY <2>1, <2>2 DEF Merged
  <2> QED BY <2>2, <2>3, <2>4, DataKept DEF MergeInv
<1>8. ASSUME NEW q \in Callers, NEW n \in Names, MergeData(q, n) PROVE MergeInv'
  <2> DEFINE new == parseResponse(data[q], n, request[q].op)
  <2>1. copy[q][n] = data[q] /\ outcome[q][n] = "ok" /\ at[q][n] = "merge"
    BY <1>8 DEF MergeData, MergeInv, MergersOk
  <2>2. \A m \in Names : at[q][m] = "merge" => m = n
    <3>1. \A m \in Names : writeLock[q] = m <=> at[q][m] = "merge"
      BY DEF FedInv, TypeOK
    <3> QED BY <2>1, <3>1
  <2>3. \A p \in Callers, m \in Names :
          /\ at'[p][m] = IF p = q /\ m = n THEN "done" ELSE at[p][m]
          /\ copy'[p][m] = IF p = q /\ m = n THEN None ELSE copy[p][m]
    BY <1>8, <1>t DEF MergeData, Moves
  <2>4. /\ DOMAIN data' = Callers
        /\ \A p \in Callers : data'[p] = IF p = q THEN new ELSE data[p]
    <3>1. data' = [data EXCEPT ![q] = parseResponse(copy[q][n], n, request[q].op)]
      BY <1>8 DEF MergeData
    <3>2. data' = [data EXCEPT ![q] = new]
      BY <2>1, <3>1
    <3> HIDE DEF new
    <3> QED BY <1>t, <3>2
  <2>5. UNCHANGED <<pc, request, outcome>> /\ pc[q] = "wait"
    BY <1>8, <2>1 DEF MergeData, FedInv, TypeOK, GoroutinesOk, Running
  <2> HIDE DEF new
  <2>6. NothingYet'
    BY <2>4, <2>5 DEF MergeInv, NothingYet
  <2>7. MergersOk'
    BY <2>1, <2>2, <2>3, <2>4, <2>5 DEF MergeInv, MergersOk
  <2>8. ASSUME NEW p \in Callers PROVE DataOk(data'[p], request'[p].op, Merged(p)')
    <3>1. DataOk(data[p], request[p].op, Merged(p))
      BY DEF MergeInv, DataMerged
    <3>2. CASE p = q
      <4>1. Merged(p)' = Merged(p) \cup {n}
        BY <2>1, <2>3, <2>5, <3>2 DEF Merged
      <4>2. n \notin Merged(p) /\ Merged(p) \in SUBSET Names
        BY <2>1, <3>2 DEF Merged
      <4>3. DataOk(new, request[p].op, Merged(p) \cup {n})
        BY <3>1, <3>2, <4>2, MergeOk DEF new
      <4> QED BY <2>4, <2>5, <3>2, <4>1, <4>3
    <3>3. CASE p # q
      <4>1. Merged(p)' = Merged(p)
        BY <2>3, <2>5, <3>3 DEF Merged
      <4> QED BY <2>4, <2>5, <3>1, <3>3, <4>1
    <3> QED BY <3>2, <3>3
  <2> QED BY <2>4, <2>6, <2>7, <2>8 DEF MergeInv, DataMerged
<1>9. CASE Tick \/ UNCHANGED vars
  <2>1. UNCHANGED <<at, outcome, copy, request, data, pc>>
    BY <1>9 DEF Tick, vars, goroutineVars
  <2> QED BY <2>1, GoroutinesKept
<1> QED BY <1>1, <1>2, <1>3, <1>4, <1>5, <1>6, <1>7, <1>8, <1>9, StepCases DEF GoroutineSteps

\* Every response has what each hub that has answered has, once: however the
\* goroutines meet at writeLock, and whatever the hubs hold.
THEOREM AnswersMergedOnce == Spec => []MergedOnce
<1>1. Init => MergeInv
  <2> SUFFICES ASSUME Init PROVE MergeInv
    OBVIOUS
  <2>1. NothingYet /\ MergersOk /\ DOMAIN data = Callers
    BY NoneIsNotOk DEF Init, NothingYet, MergersOk
  <2>2. \A q \in Callers : data[q] = NoData /\ Merged(q) = {}
    BY DEF Init, Merged
  <2> QED BY <2>1, <2>2, NoDataOk DEF MergeInv, DataMerged
<1>2. FedInv /\ MergeInv /\ [Next]_vars => MergeInv'
  BY MergeStep
<1>3. FedInv /\ MergeInv => MergedOnce
  <2> SUFFICES ASSUME FedInv, MergeInv, NEW q \in Callers, Answered(q)
               PROVE  HasOnce(data[q], request[q].op, Good(q))
    BY DEF MergedOnce
  <2>1. \A n \in Names : at[q][n] \notin Running
    BY DEF FedInv, TypeOK, GoroutinesOk, Answered
  <2>2. \A n \in Names : outcome[q][n] = "ok" => at[q][n] = "done"
    BY <2>1 DEF MergeInv, MergersOk, Running
  <2>3. Good(q) = Merged(q)
    BY <2>2 DEF Good, Merged
  <2> QED BY <2>3 DEF MergeInv, DataMerged, DataOk
<1> QED BY <1>1, <1>2, <1>3, FedInit, FedStep, PTL DEF Spec

=============================================================================
