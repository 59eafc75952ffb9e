---------------------------- MODULE SearchFilters ----------------------------
(***************************************************************************)
(* The WHERE clause that a search input becomes (search.go,                *)
(* searchHelper.go), evaluated on one row.                                 *)
(*                                                                         *)
(* An input has filters, a sequence of [property, values], and keywords.   *)
(* A value is [op, operand, star]: the operator it starts with, the text   *)
(* after it, and whether that text has a "*". A row is that of RbacClause  *)
(* with data: by property, the set of what is stored: the one value of a   *)
(* scalar, the elements of an array, the key=value pairs of an object, and *)
(* nothing for a property that the row does not have.                      *)
(***************************************************************************)
EXTENDS RbacClause, Integers, Sequences, SequencesExt

CONSTANTS
  Properties,     \* the properties a filter may name
  Type,           \* their JSON types, or "timestamp"
  Before(_, _),   \* the order of the values
  Like(_, _),     \* a pattern, and a value it matches
  Fold(_),        \* a value in lower case
  Lower,          \* the operands that begin with a lower case letter
  Labels,         \* the operands of the form key=value
  Periods,        \* the operands that name a period: hour, day, ...
  Since(_),       \* the time at which the period began; "" for no period
  HubName

\* The cluster is a column, and the hub is told by the API itself.
ASSUME PropertyAssumption == {"cluster", "managedHub", "kind", "label"} \subseteq Properties
ASSUME TypeAssumption ==
  /\ Type \in [Properties -> {"string", "number", "boolean", "timestamp", "array", "object"}]
  /\ Type["kind"] = "string" /\ Type["label"] = "object"

Operators == {"=", "!", "!=", "<", "<=", ">", ">="}
Negations == {"!", "!="}

Partial(values) == \E v \in values : v.star

(***************************************************************************)
(* The values of a filter, grouped by operator, and how a group is         *)
(* compared. One value with "*" makes patterns of all of them.             *)
(***************************************************************************)
Style(type, values) ==
  CASE type \in {"array", "object"} /\ ~Partial(values) -> "contains"
    [] type = "timestamp" /\ \E v \in values : v.operand \in Periods -> "since"
    [] OTHER -> IF Partial(values) THEN "pattern" ELSE "plain"

\* "hour" is the last hour: everything after its beginning.
OperatorAndOperand(style, v) ==
  IF style # "since" THEN <<v.op, v.operand>>
  ELSE <<IF v.op = "=" THEN ">" ELSE v.op, Since(v.operand)>>

matchOperatorToProperty(type, values) ==
  LET style == Style(type, values)
      pairs == {OperatorAndOperand(style, v) : v \in values}
  IN {[op |-> o, style |-> style, operands |-> {p[2] : p \in {q \in pairs : q[1] = o}}] :
        o \in {p[1] : p \in pairs}}

Compares(op, v, w) ==
  \/ op \in {"<", "<="} /\ Before(v, w)
  \/ op \in {">", ">="} /\ Before(w, v)
  \/ op \in {"<=", ">="} /\ v = w

\* The default of the switch. Postgres finds no string in a JSON boolean.
EqualsAny(property, operands, row) ==
  IF property = "kind" /\ operands \cap Lower # {}
  THEN \E v \in row.data[property], w \in operands : Fold(v) = Fold(w)
  ELSE Type[property] # "boolean" /\ row.data[property] \cap operands # {}

\* Comparing with a missing property is NULL, and selects nothing; the
\* sub-query that looks for a pattern in an array or object finds nothing
\* in a missing one, and its negation selects the row.
getWhereClauseExpression(property, group, row) ==
  LET stored == row.data[property]
      matching == {p \in stored \X group.operands : Like(p[2], p[1])}
      nested == Type[property] \in {"array", "object"}
  IN \/ group.style = "pattern" /\ group.op = "=" /\ matching # {}
     \/ /\ group.style = "pattern" /\ group.op \in Negations
        /\ IF nested THEN matching = {} ELSE matching # stored \X group.operands
     \/ /\ group.style = "contains" /\ group.op \in {"="} \cup Negations
        /\ stored # {}
        /\ \E w \in group.operands : (group.op = "=") = (w \in stored)
     \/ /\ group.style \in {"plain", "since"} /\ group.op \in Negations
        /\ stored # {} /\ stored \cap group.operands = {}
     \/ /\ group.style \in {"plain", "since"} /\ group.op \notin {"="} \cup Negations
        /\ \E v \in stored, w \in group.operands : Compares(group.op, v, w)
     \/ /\ \/ group.style = "plain" /\ group.op = "="
           \/ group.style = "pattern" /\ group.op \notin {"="} \cup Negations
        /\ EqualsAny(property, group.operands, row)

\* A filter on managedHub has no expression.
FilterClause(f, row) ==
  \/ f.property = "managedHub"
  \/ \E group \in matchOperatorToProperty(Type[f.property], f.values) :
       getWhereClauseExpression(f.property, group, row)

\* The keywords are all looked for in the same field of the data; the cluster
\* is a column of its own.
FieldsWithKeywords(keywords, row) ==
  {field \in UNION {{p} \X row.data[p] : p \in Properties \ {"cluster"}} :
     \A k \in keywords : Like(k, field[2])}

(***************************************************************************)
(* known are the properties in the map of types at hand; stored those in   *)
(* the database, or None if it does not answer. A property that is not     *)
(* known makes the map be read anew; one that is in neither ends the       *)
(* clause with "1 = 0". A label without "=" is an error, and so is no      *)
(* answer: the clause then has the conditions before it.                   *)
(***************************************************************************)
decodeObjectFails(f) ==
  /\ Type[f.property] = "object" /\ ~Partial(f.values)
  /\ \E v \in f.values : v.operand \notin Labels

\* The positions of the filters that have values: the others are skipped.
Used(filters) == {i \in DOMAIN filters : filters[i].values # {}}

\* Mutant: a property that is not known ends the clause, without a new query.
WhereClauseFilterStale(input, known, stored) ==
  LET filter(i) == input.filters[i]
      absent(i) == filter(i).property \notin known
      stops == {i \in Used(input.filters) : absent(i) \/ decodeObjectFails(filter(i))}
      upTo == {i \in Used(input.filters) : \A j \in stops : i <= j}
  IN [filters |-> {filter(i) : i \in upTo \ stops},
      none |-> \E i \in upTo \cap stops : absent(i),
      error |-> \E i \in upTo \cap stops : ~absent(i), refreshed |-> FALSE]

\* upTo are the filters up to the first one that ends the clause.
WhereClauseFilter(input, known, stored) ==
  LET filter(i) == input.filters[i]
      fresh(i) == \E j \in Used(input.filters) : j <= i /\ filter(j).property \notin known
      unread(i) == fresh(i) /\ stored = None
      absent(i) == fresh(i) /\ ~unread(i) /\ filter(i).property \notin stored
      stops == {i \in Used(input.filters) :
                  unread(i) \/ absent(i) \/ decodeObjectFails(filter(i))}
      upTo == {i \in Used(input.filters) : \A j \in stops : i <= j}
  IN [filters |-> {filter(i) : i \in upTo \ stops},
      none |-> \E i \in upTo \cap stops : absent(i),
      error |-> \E i \in upTo \cap stops : ~absent(i),
      refreshed |-> \E i \in upTo : fresh(i)]

Matches(where, keywords, row) ==
  /\ ~where.none
  /\ keywords # {} => FieldsWithKeywords(keywords, row) # {}
  /\ \A f \in where.filters : FilterClause(f, row)

\* Whether this hub is asked for at all; only the first managedHub filter counts.
processOpValueMapManagedHub(group) ==
  LET named == CASE group.style = "pattern" -> \E w \in group.operands : Like(w, HubName)
                 [] OTHER -> HubName \in group.operands
  IN IF group.op = "=" THEN named ELSE group.op \in Negations /\ ~named

matchesManagedHubFilter(input) ==
  LET hubFilters == {i \in DOMAIN input.filters : input.filters[i].property = "managedHub"}
  IN hubFilters # {} =>
       LET f == input.filters[CHOOSE i \in hubFilters : \A j \in hubFilters : i <= j]
       IN \E group \in matchOperatorToProperty("string", f.values) :
            processOpValueMapManagedHub(group)
=============================================================================
