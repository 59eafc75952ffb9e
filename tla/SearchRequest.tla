---------------------------- MODULE SearchRequest ----------------------------
(***************************************************************************)
(* One GraphQL request on the database: search with its fields count,      *)
(* items and related (search.go, related.go), searchComplete               *)
(* (searchComplete.go) or searchSchema (searchSchema.go). Each field runs  *)
(* its own statements, between which the database and the cache of         *)
(* property types may change.                                              *)
(*                                                                         *)
(* A request is [op, fields, input, property]; an input has, beside its    *)
(* filters and keywords, relatedKinds, limit, offset and order, a          *)
(* [property, desc], each of which may be None; BadOrder stands for what   *)
(* applyOrderBy refuses. searchComplete has a limit of its own, kept in    *)
(* that of the input.                                                      *)
(***************************************************************************)
EXTENDS Relations, EventFilter, FiniteSetsExt

CONSTANTS
  Rows,         \* every row there may be; rows do not change, they come and go
  Databases,    \* the sets of rows a request may find
  Edges,
  Users,        \* the data of a user; None has none of the three maps
  Requests,
  QueryLimit,
  Numbers,      \* the values that are numbers
  Dates,        \* the values that are dates
  Internal,     \* the properties that begin with "_"
  BadOrder,
  Faults,       \* what may fail: "user", "types", "query"
  MaxChanges    \* bound: changes of the database and of the cache by others

VARIABLES
  request, user, fine,
  db,           \* search.resources
  ptCache,      \* the properties in the shared cache of types; {} before the first query
  pc,
  known,        \* s.propTypes
  uids,         \* s.uids, or None
  relations,    \* what the relations query returned
  answer,       \* [count, items, related, values, errors]
  changes

vars == <<request, user, fine, db, ptCache, pc, known, uids, relations, answer, changes>>

ASSUME DataAssumption == \A u \in Users \ {None} : UserDataOk(u)
ASSUME DatabaseAssumption == \A d \in Databases : d \subseteq Rows /\ IsFiniteSet(d)

\* A filter is as its text was parsed: no period has a "*".
FilterOk(f) ==
  /\ f.property \in Properties /\ IsFiniteSet(f.values)
  /\ \A v \in f.values : v.op \in Operators /\ (v.star => v.operand \notin Periods)

ASSUME RequestAssumption == \A r \in Requests :
  /\ r.op \in {"search", "complete", "schema"}
  /\ r.input.filters \in Seq({r.input.filters[i] : i \in DOMAIN r.input.filters})
  /\ \A i \in DOMAIN r.input.filters : FilterOk(r.input.filters[i])
  /\ r.input.limit = None \/ r.input.limit \in Int

\* No time that is stored is the name of a period.
ASSUME RowAssumption == \A row \in Rows :
  /\ RowOk(row)
  /\ \A p \in Properties : Type[p] = "timestamp" => row.data[p] \cap Periods = {}
ASSUME UidAssumption == \A r1, r2 \in Rows : r1.uid = r2.uid => r1 = r2
ASSUME BoundAssumption == {QueryLimit, MaxChanges} \subseteq Nat

input == request.input

Init ==
  /\ request \in Requests /\ user \in Users /\ fine \in BOOLEAN
  /\ db \in Databases
  /\ ptCache = {} /\ known = {} /\ uids = None /\ relations = {}
  /\ pc = "begin"
  /\ answer = [count |-> None, items |-> None, related |-> None, values |-> None,
               errors |-> {}]
  /\ changes = 0

-----------------------------------------------------------------------------
\* Mutant: the uid, which is a column, among the properties.
getPropertyTypesWithUid ==
  {"cluster", "managedHub", "uid"} \cup {p \in Properties : \E row \in db : row.data[p] # {}}

(***************************************************************************)
(* Property types.                                                         *)
(***************************************************************************)
getPropertyTypes == {"cluster", "managedHub"} \cup
                    {p \in Properties : \E row \in db : row.data[p] # {}}

\* What the query for the types may return.
TypeAnswers == {getPropertyTypes} \cup IF "types" \in Faults THEN {None} ELSE {}

Fields == <<"count", "items", "related">>

\* The field resolved after the first n.
After(n) ==
  LET left == {i \in n + 1 .. 3 : Fields[i] \in request.fields}
  IN IF left = {} THEN "done" ELSE Fields[Min(left)]

Goto(place) == pc' = place

Begin ==
  /\ pc = "begin"
  /\ IF ptCache # {}
     THEN known' = ptCache /\ UNCHANGED ptCache
     ELSE \E stored \in TypeAnswers :
            IF stored = None THEN known' = {} /\ UNCHANGED ptCache
            ELSE known' = stored /\ ptCache' = stored
  /\ Goto(IF request.op = "search" THEN After(0) ELSE request.op)
  /\ UNCHANGED <<request, user, fine, db, uids, relations, answer, changes>>

\* GetUserData fails.
BeginFails ==
  /\ pc = "begin" /\ "user" \in Faults
  /\ answer' = [answer EXCEPT !.errors = {"user"}]
  /\ Goto("done")
  /\ UNCHANGED <<request, user, fine, db, ptCache, known, uids, relations, changes>>

-----------------------------------------------------------------------------
(***************************************************************************)
(* The statement of a search.                                              *)
(***************************************************************************)
setLimit(limit) ==
  IF limit # None /\ limit > 0 THEN limit
  ELSE IF limit = -1 THEN 0 ELSE QueryLimit

Visible(row) == Selected(user, fine, row)

Key(row, order) == IF order.property = "uid" THEN {row.uid} ELSE row.data[order.property]

\* What order by lets come first. A missing value is the last, or with desc the first.
NotAfter(r1, r2, order) ==
  LET lo == IF order.desc THEN Key(r2, order) ELSE Key(r1, order)
      hi == IF order.desc THEN Key(r1, order) ELSE Key(r2, order)
  IN hi = {} \/ (lo # {} /\ ~\E v \in hi, w \in lo : Before(v, w))

InOrder(first, second) ==
  input.order # None => \A r1 \in first, r2 \in second : NotAfter(r1, r2, input.order)

\* The pages that the offset and the limit may leave of the results, which are
\* pairs of a row and a field with the keywords.
Pages(results, limit) ==
  LET offset == IF input.offset = None THEN 0 ELSE input.offset
      skip == Min({offset, Cardinality(results)})
      rest == Cardinality(results) - skip
      size == IF limit = 0 THEN rest ELSE Min({limit, rest})
      rows(s) == {x[1] : x \in s}
  IN UNION {{page \in kSubset(size, results \ skipped) :
               /\ InOrder(rows(skipped), rows(page))
               /\ InOrder(rows(skipped \cup page), rows(results \ (skipped \cup page)))} :
              skipped \in kSubset(skip, results)}

Refuses(where, counting) ==
  \/ input.filters = <<>> /\ input.keywords = {}
  \/ where.error
  \/ user = None
  \/ ~counting /\ (input.order = BadOrder \/ (input.offset # None /\ input.offset < 0))

\* buildSearchQuery with its query for the types, if any: the state it leaves.
Builds(where, stored) ==
  /\ where.refreshed \/ stored # None
  /\ known' = IF ~where.refreshed THEN known ELSE IF stored = None THEN {} ELSE stored
  /\ ptCache' = IF where.refreshed /\ stored # None THEN stored ELSE ptCache

\* Mutant: no clause for the user.
SelectionForAll(where) == {row \in db : Matches(where, input.keywords, row)}

Selection(where) == {row \in db : Matches(where, input.keywords, row) /\ Visible(row)}

\* With keywords, a row is joined with its fields, and comes once for each that has them.
Joined(where) ==
  IF input.keywords = {} THEN Selection(where) \X {None}
  ELSE UNION {{row} \X FieldsWithKeywords(input.keywords, row) : row \in Selection(where)}

Fails(message) == answer' = [answer EXCEPT !.errors = @ \cup {message}]

\* What each statement may do instead of returning its rows.
QueryFails == "query" \in Faults /\ Fails("query")

Count ==
  /\ pc = "count" /\ Goto(After(1))
  /\ IF ~matchesManagedHubFilter(input)
     THEN answer' = [answer EXCEPT !.count = 0] /\ UNCHANGED <<known, ptCache>>
     ELSE \E stored \in TypeAnswers :
            LET where == WhereClauseFilter(input, known, stored)
            IN /\ Builds(where, stored)
               /\ IF Refuses(where, TRUE) THEN Fails("count")
                  ELSE \/ answer' = [answer EXCEPT !.count = Cardinality(Joined(where))]
                       \/ QueryFails
  /\ UNCHANGED <<request, user, fine, db, uids, relations, changes>>

Items ==
  /\ pc = "items" /\ Goto(After(2))
  /\ IF ~matchesManagedHubFilter(input)
     THEN answer' = [answer EXCEPT !.items = {}] /\ UNCHANGED <<known, ptCache, uids>>
     ELSE \E stored \in TypeAnswers :
            LET where == WhereClauseFilter(input, known, stored)
            IN /\ Builds(where, stored)
               /\ IF Refuses(where, FALSE) THEN Fails("items") /\ UNCHANGED uids
                  ELSE \/ \E page \in Pages(Selection(where) \X {None}, setLimit(input.limit)) :
                            /\ answer' = [answer EXCEPT !.items = {x[1] : x \in page}]
                            /\ uids' = {x[1].uid : x \in page}
                       \/ QueryFails /\ UNCHANGED uids
  /\ UNCHANGED <<request, user, fine, db, relations, changes>>

\* The first step of Related: the uids are those of the items, or of a
\* statement of their own when items was not asked for or has failed.
Related ==
  /\ pc = "related"
  /\ IF ~matchesManagedHubFilter(input)
     THEN /\ answer' = [answer EXCEPT !.related = {}]
          /\ Goto("done") /\ UNCHANGED <<known, ptCache, uids>>
     ELSE IF uids # None
     THEN /\ IF uids = {} THEN answer' = [answer EXCEPT !.related = {}] /\ Goto("done")
             ELSE UNCHANGED answer /\ Goto("relations")
          /\ UNCHANGED <<known, ptCache, uids>>
     ELSE \E stored \in TypeAnswers :
            LET where == WhereClauseFilter(input, known, stored)
            IN /\ Builds(where, stored)
               /\ IF Refuses(where, FALSE)
                  THEN Fails("related") /\ Goto("done") /\ UNCHANGED uids
                  ELSE \/ \E page \in Pages(Joined(where), setLimit(input.limit)) :
                            /\ uids' = {x[1].uid : x \in page}
                            /\ Goto("related") /\ UNCHANGED answer
                       \/ QueryFails /\ Goto("done") /\ UNCHANGED uids
  /\ UNCHANGED <<request, user, fine, db, relations, changes>>

\* getRelationResolvers: a failure is logged, and the field is empty.
RelationResolvers ==
  /\ pc = "relations"
  /\ \/ LET found == buildRelationsQuery(Edges, db, uids, setDepth(input), {row \in db : Visible(row)})
            wanted == filterRelatedUIDs(found, input.relatedKinds)
        IN /\ relations' = [searched |-> uids, relatedUids |-> updResultToCurrSearchUidsMap(found, uids)]
           /\ uids' = wanted
           /\ IF wanted = {} THEN answer' = [answer EXCEPT !.related = {}] /\ Goto("done")
              ELSE UNCHANGED answer /\ Goto("relatedItems")
     \/ /\ "query" \in Faults
        /\ answer' = [answer EXCEPT !.related = {}] /\ Goto("done")
        /\ UNCHANGED <<uids, relations>>
  /\ UNCHANGED <<request, user, fine, db, ptCache, known, changes>>

\* buildQueryToGetItemsFromUIDs has the limit, and no clause of its own.
RelatedItems ==
  /\ pc = "relatedItems" /\ Goto("done")
  /\ LET found == {row \in db : row.uid \in uids}
         limit == setLimit(input.limit)
         size == IF limit = 0 THEN Cardinality(found) ELSE Min({limit, Cardinality(found)})
     IN \/ \E items \in kSubset(size, found) :
             /\ answer' = [answer EXCEPT !.related =
                             searchRelatedResultKindItems(items, relations.relatedUids)]
             /\ uids' = {row.uid : row \in items}
        \/ "query" \in Faults /\ answer' = [answer EXCEPT !.related = {}] /\ UNCHANGED uids
  /\ UNCHANGED <<request, user, fine, db, ptCache, known, relations, changes>>

-----------------------------------------------------------------------------
\* Mutant: no clause for the user.
OfferedToAll(where) ==
  {row \in db : input.filters # <<>> => Matches(where, input.keywords, row)}

(***************************************************************************)
(* The statements for completing a value, and for the schema. Without a    *)
(* filter the keywords are not used either; an error of the filters is not *)
(* looked at, and leaves those before it.                                  *)
(***************************************************************************)
Offered(where) ==
  {row \in db : /\ input.filters # <<>> => Matches(where, input.keywords, row)
                /\ Visible(row)}

\* Numbers are a range, and dates are told to be dates.
Formatted(values) ==
  CASE values # {} /\ values \subseteq Numbers ->
         {"isNumber"} \cup {v \in values : \/ \A w \in values : ~Before(w, v)
                                           \/ \A w \in values : ~Before(v, w)}
    [] values # {} /\ values \subseteq Dates -> {"isDate"}
    [] OTHER -> values

searchComplete ==
  /\ pc = "complete" /\ Goto("done")
  /\ IF request.property = "managedHub"
     THEN answer' = [answer EXCEPT !.values = {HubName}] /\ UNCHANGED <<known, ptCache>>
     ELSE \E stored \in TypeAnswers :
            LET where == WhereClauseFilter(input, known, stored)
                values == {row.data[request.property] : row \in Offered(where)} \ {{}}
                limit == setLimit(input.limit)
                size == IF limit = 0 THEN Cardinality(values)
                        ELSE Min({limit, Cardinality(values)})
            IN /\ Builds(where, stored)
               /\ \/ IF request.property = "" \/ user = None
                     THEN answer' = [answer EXCEPT !.values = {}]
                     ELSE \E page \in kSubset(size, values) :
                            answer' = [answer EXCEPT !.values = Formatted(UNION page)]
                  \/ QueryFails
  /\ UNCHANGED <<request, user, fine, db, uids, relations, changes>>

DefaultSchema == {"cluster", "kind", "label", "name", "namespace", "status"}

searchSchema ==
  /\ pc = "schema" /\ Goto("done")
  /\ \E stored \in TypeAnswers :
       LET where == WhereClauseFilter(input, known, stored)
           rows == IF user = None THEN {} ELSE Offered(where)
           keys == {p \in Properties : \E row \in rows : row.data[p] # {}} \ Internal
       IN /\ Builds(where, stored)
          /\ \/ answer' = [answer EXCEPT !.values = DefaultSchema \cup keys]
             \/ QueryFails
  /\ UNCHANGED <<request, user, fine, db, uids, relations, changes>>

-----------------------------------------------------------------------------
\* Collectors add and remove rows while the request runs.
DatabaseChanges ==
  /\ pc # "done" /\ changes < MaxChanges
  /\ \E row \in Rows : db' = IF row \in db THEN db \ {row} ELSE db \cup {row}
  /\ changes' = changes + 1
  /\ UNCHANGED <<request, user, fine, ptCache, pc, known, uids, relations, answer>>

\* Another request has read the types, perhaps before the last change: an old
\* set of types stays in the cache until a filter names a property without one.
TypesReadByOthers ==
  /\ pc = "begin" /\ changes < MaxChanges
  /\ \E old \in Databases :
       ptCache' = {"cluster", "managedHub"} \cup
                  {p \in Properties : \E row \in old : row.data[p] # {}}
  /\ UNCHANGED <<request, user, fine, db, pc, known, uids, relations, answer, changes>>

Next ==
  \/ Begin \/ BeginFails
  \/ Count \/ Items \/ Related \/ RelationResolvers \/ RelatedItems
  \/ searchComplete \/ searchSchema
  \/ DatabaseChanges \/ TypesReadByOthers

Spec == Init /\ [][Next]_vars
-----------------------------------------------------------------------------
(***************************************************************************)
(* Properties.                                                             *)
(***************************************************************************)
\* The shape of the state.
TypeOK ==
  /\ request \in Requests /\ user \in Users /\ fine \in BOOLEAN
  /\ db \subseteq Rows
  /\ ptCache \subseteq Properties /\ known \subseteq Properties
  /\ pc \in {"begin", "count", "items", "related", "relations", "relatedItems",
             "complete", "schema", "done"}
  /\ uids = None \/ uids \subseteq {row.uid : row \in Rows}
  /\ answer.items = None \/ answer.items \subseteq Rows
  /\ changes \in 0 .. MaxChanges

RelatedRows ==
  IF answer.related = None THEN {}
  ELSE {row \in Rows : \E k \in answer.related : \E i \in k.items : i.uid = row.uid}

MayBeSeen(row) == user # None /\ MayList(user, fine, row)

\* Whatever the statements and the order in which the database changes between
\* them, items, related items and completed values come from rows that the
\* user may list (buildRbacWhereClause in every statement but the last).
OnlyPermitted ==
  /\ answer.items # None => \A row \in answer.items : MayBeSeen(row)
  /\ \A row \in RelatedRows : MayBeSeen(row)
  /\ request.op = "complete" /\ answer.values # None =>
       \A v \in answer.values \ {"isNumber", "isDate", HubName} :
         \E row \in Rows : v \in row.data[request.property] /\ MayBeSeen(row)

\* The clause that the caches' data become selects exactly the rows the user may
\* list: And, Or and "no condition" do not widen it or make it narrower.
ClauseIsExact ==
  user # None => \A row \in Rows : Visible(row) <=> MayList(user, fine, row)

(***************************************************************************)
(* What a filter asks for, for filters that use one operator: a row with   *)
(* the property, one of whose values is, or none of whose values is, one   *)
(* of those given.                                                         *)
(***************************************************************************)
Satisfies(property, stored, v) ==
  IF v.star THEN Like(v.operand, stored)
  ELSE IF Type[property] = "timestamp" /\ v.operand \in Periods
       THEN Before(Since(v.operand), stored)
  ELSE IF property = "kind" /\ v.operand \in Lower THEN Fold(stored) = Fold(v.operand)
  ELSE stored = v.operand

Wants(f, row) ==
  LET stored == row.data[f.property]
  IN IF \A v \in f.values : v.op = "="
     THEN \E x \in stored, v \in f.values : Satisfies(f.property, x, v)
     ELSE IF \A v \in f.values : v.op \in Negations
     THEN stored # {} /\ \A x \in stored, v \in f.values : ~Satisfies(f.property, x, v)
     ELSE \E x \in stored, v \in f.values : Compares(v.op, x, v.operand)

\* Inputs whose meaning nobody would argue about: one operator in each filter,
\* equality with * and with periods only, one negated value, no booleans.
Plain(f) ==
  /\ f.property # "managedHub" /\ f.values # {} /\ Type[f.property] # "boolean"
  /\ ~decodeObjectFails(f)
  /\ Cardinality({v.op : v \in f.values}) = 1
  /\ (\E v \in f.values : v.star \/ v.operand \in Periods) =>
       \A v \in f.values : v.op = "=" /\ (v.star \/ Cardinality(f.values) = 1)
  /\ (\E v \in f.values : v.op # "=") => Type[f.property] \notin {"array", "object"}
  /\ f.property = "kind" => Cardinality(f.values) = 1 /\ \A v \in f.values : v.op = "="

Wanted(row) ==
  /\ \A i \in DOMAIN input.filters : Wants(input.filters[i], row)
  /\ input.keywords # {} => FieldsWithKeywords(input.keywords, row) # {}
  /\ MayBeSeen(row)

PlainRequest ==
  /\ user # None
  /\ \A i \in DOMAIN input.filters : Plain(input.filters[i])

\* Every wanted row, or a page of them, and the number of all of them.
AnswersExact ==
  LET wanted == {row \in db : Wanted(row)}
  IN /\ (answer.items # None) =>
          /\ answer.items \subseteq wanted
          /\ (setLimit(input.limit) = 0 \/ Cardinality(wanted) <= setLimit(input.limit))
               /\ input.offset = None => answer.items = wanted
     /\ (answer.count # None /\ input.keywords = {}) => answer.count = Cardinality(wanted)

\* A search on a database that does not change answers every row that its
\* filters ask for and its user may list, whatever the cache of types held, or
\* a page of them; the count is that of all of them.
SearchIsExact == (pc = "done" /\ changes = 0 /\ PlainRequest) => AnswersExact

\* What the edges reach from S within n steps: the first may leave anything,
\* the others avoid nodes and channels. A cluster is reached from its edges.
Neighbours(S, edges) == S \cup UNION {Ends(e) : e \in {e \in edges : Ends(e) \cap S # {}}}

Within(S, n) ==
  LET near[i \in 1 .. n] ==
        IF i = 1 THEN Neighbours(S, Edges)
        ELSE Neighbours(near[i - 1], {e \in Edges : Followed(e)})
      crossed == {e \in Edges : \/ Ends(e) \cap S # {}
                                \/ n > 1 /\ Followed(e) /\ Ends(e) \cap near[n - 1] # {}}
  IN near[n] \cup {ClusterUid[e.cluster] : e \in crossed}

\* A related item is within the number of steps that its input has, or in a
\* cluster that was searched; the items it is said to be related to are among
\* the ones searched, and it is within that distance of each. An item that is
\* not in a searched cluster is related to at least one.
RelatedIsReachable ==
  (pc = "done" /\ answer.related # None /\ answer.related # {}) =>
    LET searched == relations.searched
        near == Within(searched, setDepth(input))
    IN \A k \in answer.related : \A i \in k.items :
         /\ i.uid \in near \/ \E row \in Rows : row.uid = i.uid /\ ClusterUid[row.cluster] \in searched
         /\ i.uid \in near \ searched => i.relatedUids # {}
         /\ i.relatedUids \subseteq searched
         /\ \A u \in i.relatedUids : i.uid \in Within({u}, setDepth(input))

\* On a database that does not change nothing within reach is missing.
RelatedIsComplete ==
  (pc = "done" /\ changes = 0 /\ answer.related # None /\ answer.related # {}
     /\ input.limit = -1 /\ input.relatedKinds = {}) =>
    \A row \in db :
      (row.uid \in Within(relations.searched, setDepth(input)) \ relations.searched /\ MayBeSeen(row))
        => row \in RelatedRows

\* The related items are those within reach: the recursion goes as far as setDepth
\* says, past no node or channel but the first, and combineIds forgets no end.
RelatedIsExact == RelatedIsReachable /\ RelatedIsComplete

\* A value that searchComplete offers leads somewhere: a search with the same
\* filters and this value has a result, as long as the database is the same and
\* the types could be read: without them the filters are left out.
SuggestionsLead ==
  (pc = "done" /\ request.op = "complete" /\ answer.values # None /\ changes = 0
     /\ known # {} /\ request.property \in Properties \ {"managedHub"} /\ Type[request.property] # "boolean"
     /\ PlainRequest) =>
    \A v \in answer.values \ {"isNumber", "isDate"} :
      LET more == [property |-> request.property,
                   values |-> {[op |-> "=", operand |-> v, star |-> FALSE]}]
          where == WhereClauseFilter([filters |-> Append(input.filters, more)],
                                     known, getPropertyTypes)
      IN \E row \in db : Matches(where, {}, row) /\ Visible(row)

\* Inputs for which a watch is meant to send what a search would return: equality,
\* or one negated value, on properties with one value; "*" in every value of a
\* filter or in none, and in none of a label. No event has a managedHub.
Watchable ==
  /\ validateInputFilters(input)
  /\ \A i \in DOMAIN input.filters :
       LET f == input.filters[i]
       IN /\ f.property # "managedHub"
          /\ IF f.property = "label" THEN ~Partial(f.values)
             ELSE Type[f.property] \in {"string", "number"}
          /\ Partial(f.values) => \A v \in f.values : v.star
          /\ \/ \A v \in f.values : v.op = "="
             \/ Cardinality(f.values) = 1 /\ f.property # "kind" /\ ~Partial(f.values)

\* An event about a row that a search with the same input would return is not
\* held back by the filters of the watch (eventMatchesAllFilters).
WatchCoversSearch ==
  Watchable =>
    \A row \in Rows :
      Matches(WhereClauseFilter(input, Properties, Properties), input.keywords, row)
        => eventMatchesAllFilters(input, row)

\* With fine-grained permissions whose rules give watch only with list, the
\* watch sends no event about a row that a search would hide.
WatchNotWider ==
  (user # None /\ fine
     /\ \A item \in user.perms : \A rule \in item.rules :
          "watch" \in rule.verbs => rule.verbs \cap {"list", "*"} # {}) =>
    \A row \in Rows : eventMatchesRbac({}, user, fine, row) => Visible(row)
=============================================================================
