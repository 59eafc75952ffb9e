----------------------------- MODULE Federation -----------------------------
(***************************************************************************)
(* Federated search on the global hub (pkg/federated): a request is sent   *)
(* to the search API of every hub in the cached configuration, each by a   *)
(* goroutine that merges the answer into the one response.                 *)
(*                                                                         *)
(* A request is [op, filtered, query, input]: the managedHub values in the *)
(* filters of variables.query, None without filters, and those of each     *)
(* element of variables.input. A service is [name, token, namespace]: the  *)
(* request whose token the local service is asked with, and whether the    *)
(* namespace of a hub's URL is known. Held[n] is what hub n has: search, a *)
(* sequence of [count, items, related], complete, schema and messages.     *)
(***************************************************************************)
EXTENDS Integers, FiniteSets, Sequences, SequencesExt

CONSTANTS
  None, Torn,
  Callers,     \* clients, each with one request at a time
  Inputs,      \* by client, the requests it may send
  Local, Hubs,
  Held,
  Old,         \* the hubs of version 2.13
  SeesHubs,    \* the callers that may see the MultiClusterHub resources
  TTL,         \* ConfigCacheTTL, in ticks
  MaxFaults    \* bound: failures of the API server, and requests with failed calls

ASSUME BoundsAssumption == TTL \in Nat /\ MaxFaults \in Nat
ASSUME NamesAssumption == Local \notin Hubs /\ None \notin Hubs \cup {Local}
ASSUME TornAssumption == Torn # <<>>
ASSUME HubsAssumption == IsFiniteSet(Hubs)
ASSUME RequestAssumption == \A q \in Callers : \A r \in Inputs[q] :
  r = [op |-> r.op, filtered |-> r.filtered, query |-> r.query, input |-> r.input]

Names == Hubs \cup {Local}

\* A hub answers one result for each input; counts are numbers, and lists are lists.
ASSUME HeldAssumption == \A n \in Names :
  /\ DOMAIN Held[n].search = DOMAIN Held[Local].search
  /\ \A i \in DOMAIN Held[n].search :
       /\ Held[n].search[i].count \in Nat
       /\ \A kind \in DOMAIN Held[n].search[i].related :
            LET group == Held[n].search[i].related[kind]
            IN group = [count |-> group.count, items |-> group.items] /\ group.count \in Nat
  /\ Held[n].complete \in Seq(ToSet(Held[n].complete))
  /\ Held[n].schema \in Seq(ToSet(Held[n].schema))
  /\ Held[n].messages \in Seq(ToSet(Held[n].messages))

VARIABLES
  cached,      \* cachedFedConfig.fedConfig
  age,         \* ticks since cachedFedConfig.lastUpdated; None when it is zero
  pc, request,
  found,       \* the configuration a caller's refresh has made
  asked,       \* the services the request is sent to
  at,          \* by caller and service name, where the goroutine is
  outcome,     \* what became of the call
  copy,        \* what the goroutine has read and is about to replace
  writeLock,   \* Data.writeLock: the holder, or None
  data, errors,
  faults

vars == <<cached, age, pc, request, found, asked, at, outcome, copy, writeLock, data,
          errors, faults>>

NoData == [search |-> <<>>, complete |-> <<>>, schema |-> <<>>, messages |-> <<>>]

Init ==
  /\ cached = {} /\ age = None
  /\ pc = [q \in Callers |-> "idle"]
  /\ request = [q \in Callers |-> None]
  /\ found = [q \in Callers |-> {}]
  /\ asked = [q \in Callers |-> {}]
  /\ at = [q \in Callers |-> [n \in Names |-> "none"]]
  /\ outcome = [q \in Callers |-> [n \in Names |-> None]]
  /\ copy = [q \in Callers |-> [n \in Names |-> None]]
  /\ writeLock = [q \in Callers |-> None]
  /\ data = [q \in Callers |-> NoData]
  /\ errors = [q \in Callers |-> <<>>]
  /\ faults = 0

Goto(q, place) == pc' = [pc EXCEPT ![q] = place]
Moves(q, n, place) == at' = [at EXCEPT ![q][n] = place]
MayFail == faults < MaxFaults
Failing == faults' = faults + 1

goroutineVars == <<at, outcome, copy, writeLock, data, errors>>
configVars == <<cached, age, found>>

-----------------------------------------------------------------------------
(***************************************************************************)
(* The configuration.                                                      *)
(***************************************************************************)
Receive(q, r) ==
  /\ pc[q] \in {"idle", "answered", "aborted"} /\ Goto(q, "config")
  /\ request' = [request EXCEPT ![q] = r]
  /\ asked' = [asked EXCEPT ![q] = {}]
  /\ at' = [at EXCEPT ![q] = [n \in Names |-> "none"]]
  /\ outcome' = [outcome EXCEPT ![q] = [n \in Names |-> None]]
  /\ data' = [data EXCEPT ![q] = NoData]
  /\ errors' = [errors EXCEPT ![q] = <<>>]
  /\ UNCHANGED <<copy, writeLock, faults, configVars>>

ExpiredOnce == age = None                    \* mutant: no TTL

Expired == age = None \/ age >= TTL

\* The request whose body cannot be read is answered with the error.
ReceiveFails(q) ==
  /\ pc[q] = "config" /\ MayFail /\ Failing
  /\ errors' = [errors EXCEPT ![q] = <<Local>>]
  /\ Goto(q, "answered")
  /\ UNCHANGED <<request, asked, at, outcome, copy, writeLock, data, configVars>>

getFederationConfig(q) ==
  /\ pc[q] = "config" /\ Goto(q, IF Expired THEN "fetch" ELSE "use")
  /\ UNCHANGED <<request, asked, faults, configVars, goroutineVars>>

LocalService(q) == [name |-> Local, token |-> q, namespace |-> TRUE]

HubServiceAsked(h, known) == [name |-> h, token |-> h, namespace |-> known]     \* mutant

HubService(h, known) == [name |-> h, token |-> None, namespace |-> known]

\* Mutant: the time is set before the configuration is there.
StampBeforeStore(q) ==
  /\ pc[q] = "fetch" /\ Goto(q, "store")
  /\ found' = [found EXCEPT ![q] = {LocalService(q)} \cup {HubService(h, TRUE) : h \in Hubs}]
  /\ age' = 0
  /\ UNCHANGED <<cached, request, asked, faults, goroutineVars>>

\* The clusters cannot be listed, a hub's secret not be read, or the local
\* service not be reached, which leaves the namespaces unknown.
getFederationConfigFromSecret(q) ==
  /\ pc[q] = "fetch" /\ Goto(q, "store")
  /\ \E hubs \in SUBSET Hubs, known \in BOOLEAN :
       /\ found' = [found EXCEPT ![q] = {LocalService(q)} \cup {HubService(h, known) : h \in hubs}]
       /\ known => q \in SeesHubs
       /\ IF hubs = Hubs /\ known = (q \in SeesHubs) THEN UNCHANGED faults
          ELSE MayFail /\ Failing
  /\ UNCHANGED <<cached, age, request, asked, goroutineVars>>

\* The answer with the namespaces, or the list of routes, is empty and indexed
\* all the same: the server ends the request.
ConfigPanics(q) ==
  /\ pc[q] = "fetch" /\ MayFail /\ Failing
  /\ Goto(q, "aborted")
  /\ UNCHANGED <<request, asked, configVars, goroutineVars>>

StoreConfig(q) ==
  /\ pc[q] = "store" /\ Goto(q, "stamp")
  /\ cached' = found[q]
  /\ UNCHANGED <<age, found, request, asked, faults, goroutineVars>>

StampConfig(q) ==
  /\ pc[q] = "stamp" /\ Goto(q, "use")
  /\ age' = 0
  /\ UNCHANGED <<cached, found, request, asked, faults, goroutineVars>>

\* The filters of variables.query, or of the first input.
retrieveManagedHubValues(r) ==
  IF r.query # None THEN r.query ELSE IF r.input = <<>> THEN {} ELSE r.input[1]

\* What is used is what the cache has now, whoever has put it there.
HandleFederatedRequest(q) ==
  /\ pc[q] = "use" /\ Goto(q, "wait")
  /\ LET values == retrieveManagedHubValues(request[q])
         services == {s \in cached : values = {} \/ s.name \in values}
     IN /\ asked' = [asked EXCEPT ![q] = services]
        /\ at' = [at EXCEPT ![q] = [n \in Names |->
                    IF n \in {s.name : s \in services} THEN "send" ELSE "none"]]
  /\ UNCHANGED <<request, outcome, copy, writeLock, data, errors, faults, configVars>>

-----------------------------------------------------------------------------
(***************************************************************************)
(* The goroutine of a service.                                             *)
(***************************************************************************)
\* A hub of version 2.13 does not take the filters of searchSchema.
modifyRequestBodyForVersion(n, r) ==
  IF n \in Old /\ r.op = "schema" THEN [r EXCEPT !.filtered = FALSE] ELSE r

\* What a service that is well answers: its data; errors that are objects, which
\* do not parse; or, through the proxy and from a namespace that is not the
\* hub's, a status, which parses as a response without data.
Answer(s, r) ==
  IF ~s.namespace THEN "status"
  ELSE IF s.name \in Old /\ r.op = "schema" /\ r.filtered THEN "errors" ELSE "ok"

\* Mutant: errors that do not parse are passed over.
PlaceSilent == [ok |-> "lock", status |-> "done", errors |-> "done",
                unreachable |-> "append", unreadable |-> "append"]

Place == [ok |-> "lock", status |-> "done", errors |-> "append",
          unreachable |-> "append", unreadable |-> "append"]

ASSUME OutcomeAssumption == None \notin DOMAIN Place

CallsFailed(q) == \E n \in Names : outcome[q][n] \in {"unreachable", "unreadable"}

getFederatedResponse(q, s) ==
  /\ at[q][s.name] = "send"
  /\ \E o \in DOMAIN Place :
       /\ outcome' = [outcome EXCEPT ![q][s.name] = o]
       /\ Moves(q, s.name, Place[o])
       /\ IF o = Answer(s, modifyRequestBodyForVersion(s.name, request[q])) THEN UNCHANGED faults
          ELSE /\ o # "ok"
               /\ IF CallsFailed(q) THEN UNCHANGED faults ELSE MayFail /\ Failing
  /\ UNCHANGED <<pc, request, asked, copy, writeLock, data, errors, configVars>>

\* append reads and writes Response.Errors without the lock: of two at once one
\* may be lost, and the three words of the slice may be of both.
ReadErrors(q, n) ==
  /\ at[q][n] = "append" /\ Moves(q, n, "write")
  /\ copy' = [copy EXCEPT ![q][n] = errors[q]]
  /\ UNCHANGED <<pc, request, asked, outcome, writeLock, data, errors, faults, configVars>>

WriteErrors(q, n) ==
  /\ at[q][n] = "write" /\ Moves(q, n, "done")
  /\ \/ errors' = [errors EXCEPT ![q] = IF copy[q][n] = Torn THEN Torn ELSE Append(copy[q][n], n)]
     \/ /\ \E m \in Names \ {n} : at[q][m] = "write"
        /\ errors' = [errors EXCEPT ![q] = Torn]
  /\ copy' = [copy EXCEPT ![q][n] = None]
  /\ UNCHANGED <<pc, request, asked, outcome, writeLock, data, faults, configVars>>

AppendNew(values, more) ==
  FoldLeft(LAMBDA all, v : IF Contains(all, v) THEN all ELSE Append(all, v), values, more)

mergeSearchSchema(old, props) ==
  AppendNew(old, IF Contains(props, "managedHub") THEN props ELSE <<"managedHub">> \o props)

appendRelatedResults(merged, new) ==
  [kind \in DOMAIN merged \cup DOMAIN new |->
     IF kind \notin DOMAIN new THEN merged[kind]
     ELSE IF kind \notin DOMAIN merged THEN new[kind]
     ELSE [count |-> merged[kind].count + new[kind].count,
           items |-> merged[kind].items \cup new[kind].items]]

FromHub(n, items) == {<<n, item>> : item \in items}

Empty == [count |-> 0, items |-> {}, related |-> [kind \in {} |-> {}]]

\* Every hub answers one result for each input, so that the indices agree.
mergeSearchResults(old, n, results) ==
  [i \in DOMAIN results |->
     LET base == IF old = <<>> THEN Empty ELSE old[i]
         new == results[i]
     IN [count |-> base.count + new.count,
         items |-> base.items \cup FromHub(n, new.items),
         related |-> appendRelatedResults(base.related,
                       [kind \in DOMAIN new.related |->
                          [new.related[kind] EXCEPT !.items = FromHub(n, @)]])]]

parseResponse(old, n, op) ==
  CASE op = "search" -> [old EXCEPT !.search = mergeSearchResults(@, n, Held[n].search)]
    [] op = "complete" -> [old EXCEPT !.complete = AppendNew(@, Held[n].complete)]
    [] op = "schema" -> [old EXCEPT !.schema = mergeSearchSchema(@, Held[n].schema)]
    [] OTHER -> [old EXCEPT !.messages = @ \o Held[n].messages]

LockNothing(q, n) ==                          \* mutant: no mutual exclusion
  /\ at[q][n] = "lock" /\ Moves(q, n, "merge")
  /\ writeLock' = [writeLock EXCEPT ![q] = n]
  /\ copy' = [copy EXCEPT ![q][n] = data[q]]
  /\ UNCHANGED <<pc, request, asked, outcome, data, errors, faults, configVars>>

LockData(q, n) ==
  /\ at[q][n] = "lock" /\ writeLock[q] = None
  /\ Moves(q, n, "merge")
  /\ writeLock' = [writeLock EXCEPT ![q] = n]
  /\ copy' = [copy EXCEPT ![q][n] = data[q]]
  /\ UNCHANGED <<pc, request, asked, outcome, data, errors, faults, configVars>>

MergeWithoutUnlock(q, n) ==                   \* mutant
  /\ at[q][n] = "merge" /\ Moves(q, n, "done")
  /\ data' = [data EXCEPT ![q] = parseResponse(copy[q][n], n, request[q].op)]
  /\ copy' = [copy EXCEPT ![q][n] = None]
  /\ UNCHANGED <<pc, request, asked, outcome, writeLock, errors, faults, configVars>>

MergeData(q, n) ==
  /\ at[q][n] = "merge" /\ Moves(q, n, "done")
  /\ data' = [data EXCEPT ![q] = parseResponse(copy[q][n], n, request[q].op)]
  /\ copy' = [copy EXCEPT ![q][n] = None]
  /\ writeLock' = [writeLock EXCEPT ![q] = None]
  /\ UNCHANGED <<pc, request, asked, outcome, errors, faults, configVars>>

sendResponse(q) ==
  /\ pc[q] = "wait" /\ \A s \in asked[q] : at[q][s.name] = "done"
  /\ Goto(q, "answered")
  /\ UNCHANGED <<request, asked, faults, configVars, goroutineVars>>

Tick ==
  /\ age # None /\ age < TTL /\ age' = age + 1
  /\ UNCHANGED <<cached, pc, request, found, asked, goroutineVars, faults>>

-----------------------------------------------------------------------------
Refresh(q) == getFederationConfigFromSecret(q) \/ StoreConfig(q) \/ StampConfig(q)

Goroutine(q, n) ==
  \/ \E s \in asked[q] : s.name = n /\ getFederatedResponse(q, s)
  \/ ReadErrors(q, n) \/ WriteErrors(q, n) \/ LockData(q, n) \/ MergeData(q, n)

Handler(q) ==
  \/ getFederationConfig(q) \/ Refresh(q) \/ HandleFederatedRequest(q) \/ sendResponse(q)

Next ==
  \/ \E q \in Callers :
       \/ \E r \in Inputs[q] : Receive(q, r)
       \/ ReceiveFails(q) \/ ConfigPanics(q)
       \/ Handler(q)
       \/ \E n \in Names : Goroutine(q, n)
  \/ Tick

Spec == Init /\ [][Next]_vars

\* The handler and its goroutines run, and time passes; clients that go on asking
\* are those of the last property.
Progress ==
  /\ WF_vars(Tick)
  /\ \A q \in Callers : /\ WF_vars(Handler(q))
                        /\ \A n \in Names : WF_vars(Goroutine(q, n))

FairSpec == Spec /\ Progress

-----------------------------------------------------------------------------
(***************************************************************************)
(* Properties.                                                             *)
(***************************************************************************)
Phases == {"idle", "config", "fetch", "store", "stamp", "use", "wait", "answered", "aborted"}

Service == [name : Names, token : Callers \cup {None}, namespace : BOOLEAN]

ConfigOk ==
  /\ cached \subseteq Service /\ age \in {None} \cup 0 .. TTL
  /\ found \in [Callers -> SUBSET Service] /\ asked \in [Callers -> SUBSET Service]
  /\ faults \in 0 .. MaxFaults

Running == {"send", "append", "write", "lock", "merge"}

\* The goroutines of a request run while it waits, one for each service asked.
GoroutinesOk ==
  /\ at \in [Callers -> [Names -> {"none", "done"} \cup Running]]
  /\ outcome \in [Callers -> [Names -> DOMAIN Place \cup {None}]]
  /\ \A q \in Callers, n \in Names :
       at[q][n] \in Running => pc[q] = "wait" /\ \E s \in asked[q] : s.name = n

\* The shape of the state; writeLock is held by the goroutine that merges.
TypeOK ==
  /\ ConfigOk /\ GoroutinesOk
  /\ pc \in [Callers -> Phases]
  /\ DOMAIN request = Callers /\ \A q \in Callers : request[q] \in Inputs[q] \cup {None}
  /\ writeLock \in [Callers -> Names \cup {None}]
  /\ \A q \in Callers, n \in Names : writeLock[q] = n <=> at[q][n] = "merge"
  /\ errors \in [Callers -> {Torn} \cup Seq(Names)]

Answered(q) == pc[q] = "answered"
Good(q) == {n \in Names : outcome[q][n] = "ok"}

\* The sum of the numbers f[n], as the size of a union of as large parts.
Sum(f, S) == Cardinality(UNION {{n} \X (1 .. f[n]) : n \in S})

SearchOf(n, i) == Held[n].search[i]

\* Result i has what the hubs M have for it.
ResultHas(result, i, M) ==
  /\ result.items = UNION {FromHub(n, SearchOf(n, i).items) : n \in M}
  /\ result.count = Sum([n \in M |-> SearchOf(n, i).count], M)
  /\ DOMAIN result.related = UNION {DOMAIN SearchOf(n, i).related : n \in M}
  /\ \A kind \in DOMAIN result.related :
       LET some == {n \in M : kind \in DOMAIN SearchOf(n, i).related}
       IN /\ result.related[kind].items =
               UNION {FromHub(n, SearchOf(n, i).related[kind].items) : n \in some}
          /\ result.related[kind].count = Sum([n \in some |-> SearchOf(n, i).related[kind].count], some)

HasOnce(d, op, M) ==
  CASE op = "search" -> /\ \A n \in M : DOMAIN d.search = DOMAIN Held[n].search
                        /\ \A i \in DOMAIN d.search : ResultHas(d.search[i], i, M)
    [] op = "complete" -> /\ ToSet(d.complete) = UNION {ToSet(Held[n].complete) : n \in M}
                          /\ IsInjective(d.complete)
    [] op = "schema" -> /\ M # {} => ToSet(d.schema) =
                             {"managedHub"} \cup UNION {ToSet(Held[n].schema) : n \in M}
                        /\ IsInjective(d.schema)
    [] OTHER -> Len(d.messages) = Sum([n \in M |-> Len(Held[n].messages)], M)

\* The response has what each hub with an answer has, once: the items under its
\* name, the sums of the counts, the related items of a kind together, and no
\* value twice (the merges of mergeResponses.go under writeLock).
MergedOnce == \A q \in Callers : Answered(q) => HasOnce(data[q], request[q].op, Good(q))

\* A response to which some hub did not contribute, for want of an answer that
\* could be used, has an error: of the appends that are lost, one is left. (An
\* answer that is a status, and not one of this API, is not noticed.)
FailureIsReported ==
  \A q \in Callers :
    (Answered(q) /\ \E s \in asked[q] : outcome[q][s.name] \in {"errors", "unreachable", "unreadable"})
      => errors[q] # <<>>

\* When nothing fails every hub contributes to a request that names none: no
\* request uses a configuration that is not yet there, and a hub of another
\* version is asked in a way that it understands.
EveryHubContributes ==
  \A q \in Callers :
    (Answered(q) /\ faults = 0 /\ SeesHubs = Callers /\ retrieveManagedHubValues(request[q]) = {})
      => Good(q) = Names

\* A request is answered, or ended, however its goroutines meet at the lock.
ResponseSent == \A q \in Callers : pc[q] = "config" ~> pc[q] \in {"answered", "aborted"}

\* Whatever failed when the configuration was made, a client that goes on asking
\* for everything reaches every hub again and again once nothing fails: a
\* configuration without a hub is not kept for longer than its TTL.
HubComesBack ==
  \A h \in Hubs :
    (\A q \in Callers : /\ q \in SeesHubs
                        /\ []<>(pc[q] = "config" /\ retrieveManagedHubValues(request[q]) = {}))
      => \A q \in Callers : []<>(\E s \in asked[q] : s.name = h)
=============================================================================
