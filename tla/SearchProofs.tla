---------------------------- MODULE SearchProofs ----------------------------
(***************************************************************************)
(* Theorems about SearchRequest, for any rows, edges, users and requests   *)
(* that the assumptions allow, any failures and any changes of the         *)
(* database between the statements of a request: about numbers and the     *)
(* clause first, then each property with its inductive invariant.          *)
(***************************************************************************)
EXTENDS SearchRequest, RbacClauseProofs, FiniteSetTheorems, NaturalsInduction

(***************************************************************************)
(* Numbers: a set of them has a least one. The inductions over the levels  *)
(* and the positions below all take the least exception to what is claimed.*)
(***************************************************************************)
LEMMA Least ==
  ASSUME NEW T, T \subseteq Nat, T # {}
  PROVE  \E m \in T : \A k \in T : m <= k
<1> DEFINE R == {ss \in Nat \X Nat : ss[1] < ss[2]}
<1>0. IsWellFoundedOn(R, Nat)
  BY NatLessThanWellFounded, Zenon DEF OpToRel
<1>1. \E x \in T : \A y \in T : ~ (<<y, x>> \in R)
  <2> HIDE DEF R
  <2> QED BY <1>0, WFMin, Zenon
<1>2. \A x, y \in Nat : y < x => <<y, x>> \in R
  OBVIOUS
<1> HIDE DEF R
<1>3. PICK m \in T : \A y \in T : ~ (<<y, m>> \in R)
  BY <1>1
<1>4. ASSUME NEW k \in T PROVE m <= k
  <2>1. m \in Nat /\ k \in Nat /\ ~ (k < m)
    BY <1>2, <1>3
  <2> QED BY <2>1
<1> QED BY <1>4

(***************************************************************************)
(* The recursions of the relations are functions of the level: an          *)
(* iteration of a step is one.                                             *)
(***************************************************************************)
Iteration(f, m, S, a, step) ==
  /\ f \in [1 .. m -> S]
  /\ f = [n \in 1 .. m |-> IF n = 1 THEN a ELSE step[f[n - 1]]]

\* Every step from S to S has an iteration.
LEMMA Iterates ==
  ASSUME NEW d \in Nat, NEW S, NEW a \in S, NEW step \in [S -> S]
  PROVE  \E f : Iteration(f, d, S, a, step)
<1> DEFINE IsIteration(f, m) == Iteration(f, m, S, a, step)
           T == {m \in Nat : ~\E f : IsIteration(f, m)}
<1> USE DEF Iteration
<1>1. SUFFICES T = {}
  OBVIOUS
<1>2. SUFFICES ASSUME T # {} PROVE FALSE
  OBVIOUS
<1>3. PICK m \in T : \A k \in T : m <= k
  <2>1. T \subseteq Nat
    OBVIOUS
  <2> HIDE DEF T
  <2> QED BY <1>2, <2>1, Least
<1>4. m # 0
  <2>1. IsIteration([n \in 1 .. 0 |-> a], 0)
    OBVIOUS
  <2> QED BY <1>3, <2>1
<1>5. PICK f : IsIteration(f, m - 1)
  <2>1. m - 1 \in Nat /\ ~(m <= m - 1)
    BY <1>4
  <2> QED BY <1>3, <2>1
<1> DEFINE g == [n \in 1 .. m |-> IF n < m THEN f[n] ELSE IF m = 1 THEN a ELSE step[f[m - 1]]]
<1>6. g \in [1 .. m -> S]
  <2>1. ASSUME NEW n \in 1 .. m, n < m PROVE f[n] \in S
    BY <1>5, <2>1
  <2>2. ASSUME m # 1 PROVE step[f[m - 1]] \in S
    <3>1. m - 1 \in 1 .. (m - 1)
      BY <1>4, <2>2
    <3>2. f \in [1 .. (m - 1) -> S]
      BY <1>5
    <3>3. f[m - 1] \in S
      BY <3>1, <3>2
    <3> QED BY <3>3
  <2> QED BY <2>1, <2>2
<1>7. \A n \in 1 .. m : g[n] = IF n = 1 THEN a ELSE step[g[n - 1]]
  <2> TAKE n \in 1 .. m
  <2>1. CASE n < m
    <3>1. n \in 1 .. (m - 1)
      BY <2>1
    <3>2. f[n] = IF n = 1 THEN a ELSE step[f[n - 1]]
      BY <1>5, <3>1
    <3> QED BY <2>1, <3>2
  <2>2. CASE n = m
    BY <2>2
  <2> QED BY <2>1, <2>2
<1>8. IsIteration(g, m)
  <2> HIDE DEF g
  <2> QED BY <1>6, <1>7
<1> QED BY <1>3, <1>8

-----------------------------------------------------------------------------
(***************************************************************************)
(* What WhereClauseFilter makes of the filters that have values, at        *)
(* whichever of them it stops: all of them unless it stops; it stops with  *)
(* no result only at a property that the database lacks, and with an error *)
(* only at a label or without an answer; it reads the types anew only for  *)
(* a property it does not know.                                            *)
(***************************************************************************)
LEMMA WhereFilters ==
  ASSUME NEW in, DOMAIN in.filters \subseteq Nat, NEW kn, NEW stored,
         NEW where, where = WhereClauseFilter(in, kn, stored)
  PROVE  LET used == {in.filters[i] : i \in Used(in.filters)}
         IN  /\ where.filters \subseteq used
             /\ ~where.none /\ ~where.error => where.filters = used
             /\ where.none => stored # None /\ \E f \in used : f.property \notin stored
             /\ where.error /\ (\A f \in used : ~decodeObjectFails(f)) =>
                  where.refreshed /\ stored = None
             /\ where.refreshed => \E f \in used : f.property \notin kn
<1> DEFINE filter(i) == in.filters[i]
           U == Used(in.filters)
           fresh(i) == \E j \in U : j <= i /\ filter(j).property \notin kn
           unread(i) == fresh(i) /\ stored = None
           absent(i) == fresh(i) /\ ~unread(i) /\ filter(i).property \notin stored
           stops == {i \in U : unread(i) \/ absent(i) \/ decodeObjectFails(filter(i))}
           upTo == {i \in U : \A j \in stops : i <= j}
<1>1. /\ where.filters = {filter(i) : i \in upTo \ stops}
      /\ where.none <=> \E i \in upTo \cap stops : absent(i)
      /\ where.error <=> \E i \in upTo \cap stops : ~absent(i)
      /\ where.refreshed <=> \E i \in upTo : fresh(i)
  <2>1. where = [filters |-> {filter(i) : i \in upTo \ stops},
                 none |-> \E i \in upTo \cap stops : absent(i),
                 error |-> \E i \in upTo \cap stops : ~absent(i),
                 refreshed |-> \E i \in upTo : fresh(i)]
    BY Zenon DEF WhereClauseFilter
  <2> HIDE DEF upTo, stops, filter, absent, fresh
  <2> QED BY <2>1
<1>2. where.filters \subseteq {in.filters[i] : i \in U}
  BY <1>1
<1>3. ASSUME ~where.none, ~where.error
      PROVE  where.filters = {in.filters[i] : i \in U}
  <2>1. upTo \cap stops = {}
    <3> HIDE DEF upTo, stops, absent
    <3> QED BY <1>1, <1>3
  <2>2. stops = {}
    <3>1. stops \subseteq Nat
      BY DEF Used
    <3>2. SUFFICES ASSUME stops # {} PROVE FALSE
      OBVIOUS
    <3>3. \E m \in stops : \A k \in stops : m <= k
      <4> HIDE DEF stops
      <4> QED BY <3>1, <3>2, Least
    <3> QED BY <2>1, <3>3
  <2>3. upTo = U
    <3> HIDE DEF stops
    <3> QED BY <2>2
  <2> HIDE DEF upTo, stops
  <2> QED BY <1>1, <2>2, <2>3
<1>4. ASSUME where.none
      PROVE  stored # None /\ \E i \in U : in.filters[i].property \notin stored
  <2>1. PICK i \in upTo \cap stops : absent(i)
    <3> HIDE DEF upTo, stops, absent
    <3> QED BY <1>1, <1>4
  <2> QED BY <2>1
<1>5. ASSUME where.error, \A i \in U : ~decodeObjectFails(in.filters[i])
      PROVE  where.refreshed /\ stored = None
  <2>1. PICK i \in upTo \cap stops : ~absent(i)
    <3> HIDE DEF upTo, stops, absent
    <3> QED BY <1>1, <1>5
  <2>2. unread(i) /\ i \in upTo
    BY <1>5, <2>1
  <2> HIDE DEF upTo, stops
  <2> QED BY <1>1, <2>2
<1>6. ASSUME where.refreshed PROVE \E i \in U : in.filters[i].property \notin kn
  <2>1. PICK i \in upTo : fresh(i)
    <3> HIDE DEF upTo, fresh
    <3> QED BY <1>1, <1>6
  <2> QED BY <2>1
<1> HIDE DEF U
<1> QED BY <1>2, <1>3, <1>4, <1>5, <1>6 DEF U

\* Values with the same operator, and no period among them, are one group.
LEMMA OneGroup ==
  ASSUME NEW type, NEW values, values # {}, NEW o, \A v \in values : v.op = o,
         Style(type, values) # "since"
  PROVE  matchOperatorToProperty(type, values) =
           {[op |-> o, style |-> Style(type, values), operands |-> {v.operand : v \in values}]}
<1> DEFINE style == Style(type, values)
           pairs == {OperatorAndOperand(style, v) : v \in values}
           Group(x) == [op |-> x, style |-> style, operands |-> {p[2] : p \in {q \in pairs : q[1] = x}}]
<1>1. matchOperatorToProperty(type, values) = {Group(x) : x \in {p[1] : p \in pairs}}
  BY DEF matchOperatorToProperty
<1>2. pairs = {<<o, v.operand>> : v \in values}
  <2>1. \A v \in values : OperatorAndOperand(style, v) = <<o, v.operand>>
    BY DEF OperatorAndOperand
  <2> QED BY <2>1
<1>3. {p[1] : p \in pairs} = {o}
  BY <1>2
<1>4. {p[2] : p \in {q \in pairs : q[1] = o}} = {v.operand : v \in values}
  <2>1. {q \in pairs : q[1] = o} = pairs
    BY <1>2
  <2>2. {p[2] : p \in pairs} = {v.operand : v \in values}
    <3> HIDE DEF pairs
    <3>1. ASSUME NEW p \in pairs PROVE p[2] \in {v.operand : v \in values}
      <4>1. PICK v \in values : p = <<o, v.operand>>
        BY <1>2
      <4> QED BY <4>1
    <3>2. ASSUME NEW v \in values PROVE v.operand \in {p[2] : p \in pairs}
      <4>1. <<o, v.operand>> \in pairs /\ <<o, v.operand>>[2] = v.operand
        BY <1>2
      <4> QED BY <4>1
    <3> QED BY <3>1, <3>2
  <2> QED BY <2>1, <2>2
<1> HIDE DEF pairs, style
<1>5. {Group(x) : x \in {p[1] : p \in pairs}} = {Group(o)}
  BY <1>3
<1> QED BY <1>1, <1>4, <1>5 DEF style

\* A set of one operator, told by its cardinality.
LEMMA OneOperator ==
  ASSUME NEW f, FilterOk(f), f.values # {}, Cardinality({v.op : v \in f.values}) = 1
  PROVE  \E o \in Operators : \A v \in f.values : v.op = o
<1> DEFINE ops == {v.op : v \in f.values}
<1>1. ops \subseteq Operators
  BY DEF FilterOk
<1>2. IsFiniteSet(Operators)
  <2>1. Operators = ((((((({} \cup {"="}) \cup {"!"}) \cup {"!="}) \cup {"<"}) \cup {"<="}) \cup {">"}) \cup {">="})
    BY DEF Operators
  <2> QED BY <2>1, FS_EmptySet, FS_AddElement, Zenon
<1>3. IsFiniteSet(ops)
  <2> HIDE DEF ops
  <2> QED BY <1>1, <1>2, FS_Subset
<1>4. PICK o : ops = {o}
  <2> HIDE DEF ops
  <2> QED BY <1>3, FS_Singleton DEF ops
<1>5. \A v \in f.values : v.op \in ops
  OBVIOUS
<1>6. \A v \in f.values : v.op = o
  BY <1>4, <1>5
<1> QED BY <1>1, <1>4, <1>6

\* And a set of one value.
LEMMA OneValue ==
  ASSUME NEW f, FilterOk(f), Cardinality(f.values) = 1
  PROVE  \E v : f.values = {v}
BY FS_Singleton DEF FilterOk

\* A pattern selects a row that has a value it matches.
LEMMA PatternClause ==
  ASSUME NEW property, NEW group, NEW row, group.op = "=", group.style = "pattern"
  PROVE  getWhereClauseExpression(property, group, row) <=>
           \E x \in row.data[property], w \in group.operands : Like(w, x)
<1> DEFINE matching == {p \in row.data[property] \X group.operands : Like(p[2], p[1])}
<1>1. getWhereClauseExpression(property, group, row) => matching # {}
  BY Zenon DEF getWhereClauseExpression, Negations
<1>2. matching # {} => getWhereClauseExpression(property, group, row)
  BY Zenon DEF getWhereClauseExpression
<1>3. ASSUME NEW p \in matching
      PROVE  \E x \in row.data[property], w \in group.operands : Like(w, x)
  OBVIOUS
<1>4. ASSUME NEW x \in row.data[property], NEW w \in group.operands, Like(w, x)
      PROVE  <<x, w>> \in matching
  BY <1>4
<1> QED BY <1>1, <1>2, <1>3, <1>4

(***************************************************************************)
(* The clause of a plain filter selects the rows that satisfy it, in each  *)
(* of the styles of comparison and with each of the operators.             *)
(***************************************************************************)
LEMMA PlainClause ==
  ASSUME NEW f, FilterOk(f), Plain(f), NEW row
  PROVE  FilterClause(f, row) <=> Wants(f, row)
<1> DEFINE stored == row.data[f.property]
           operands == {v.operand : v \in f.values}
           style == Style(Type[f.property], f.values)
<1>1. /\ f.property # "managedHub" /\ f.values # {} /\ f.property \in Properties
      /\ Type[f.property] # "boolean"
      /\ (\E v \in f.values : v.star \/ v.operand \in Periods) =>
           \A v \in f.values : v.op = "=" /\ (v.star \/ Cardinality(f.values) = 1)
      /\ (\E v \in f.values : v.op # "=") => Type[f.property] \notin {"array", "object"}
      /\ f.property = "kind" => Cardinality(f.values) = 1 /\ \A v \in f.values : v.op = "="
      /\ \A v \in f.values : v.star => v.operand \notin Periods
  BY DEF Plain, FilterOk
<1>2. PICK o \in Operators : \A v \in f.values : v.op = o
  BY <1>1, OneOperator DEF Plain
<1>3. CASE style = "since"
  <2>1. Type[f.property] = "timestamp" /\ \E v \in f.values : v.operand \in Periods
    BY <1>3 DEF Style
  <2>2. PICK v : f.values = {v}
    BY <1>1, <2>1, OneValue
  <2>3. v.op = "=" /\ ~v.star /\ v.operand \in Periods
    BY <1>1, <2>1, <2>2
  <2>4. matchOperatorToProperty(Type[f.property], f.values) =
          {[op |-> ">", style |-> "since", operands |-> {Since(v.operand)}]}
    <3>1. {OperatorAndOperand(style, w) : w \in f.values} = {<<">", Since(v.operand)>>}
      BY <1>3, <2>2, <2>3 DEF OperatorAndOperand
    <3> DEFINE pairs == {OperatorAndOperand(style, w) : w \in f.values}
               Group(x) == [op |-> x, style |-> style, operands |-> {p[2] : p \in {q \in pairs : q[1] = x}}]
    <3>2. matchOperatorToProperty(Type[f.property], f.values) = {Group(x) : x \in {p[1] : p \in pairs}}
      BY DEF matchOperatorToProperty
    <3>3. {p[1] : p \in pairs} = {">"} /\ {p[2] : p \in {q \in pairs : q[1] = ">"}} = {Since(v.operand)}
      <4>1. {q \in pairs : q[1] = ">"} = pairs
        BY <3>1
      <4> HIDE DEF pairs
      <4>2. pairs = {<<">", Since(v.operand)>>}
        BY <3>1 DEF pairs
      <4>3. {p[1] : p \in pairs} = {">"} /\ {p[2] : p \in pairs} = {Since(v.operand)}
        BY <4>2
      <4> QED BY <4>1, <4>3
    <3> HIDE DEF pairs
    <3>4. {Group(x) : x \in {p[1] : p \in pairs}} = {Group(">")}
      BY <3>3
    <3> QED BY <1>3, <3>2, <3>3, <3>4
  <2>5. FilterClause(f, row) <=> \E x \in stored : Before(Since(v.operand), x)
    BY <1>1, <2>4 DEF FilterClause, getWhereClauseExpression, Compares, Negations
  <2>6. Wants(f, row) <=> \E x \in stored : Before(Since(v.operand), x)
    BY <2>1, <2>2, <2>3 DEF Wants, Satisfies
  <2> QED BY <2>5, <2>6
<1>4. CASE style # "since"
  <2> DEFINE group == [op |-> o, style |-> style, operands |-> operands]
  <2>0. matchOperatorToProperty(Type[f.property], f.values) = {group}
    BY <1>1, <1>2, <1>4, OneGroup
  <2>1. FilterClause(f, row) <=> getWhereClauseExpression(f.property, group, row)
    <3> HIDE DEF group
    <3> QED BY <1>1, <2>0 DEF FilterClause
  <2>2. CASE o = "="
    <3>1. Wants(f, row) <=> \E x \in stored, v \in f.values : Satisfies(f.property, x, v)
      BY <1>2, <2>2 DEF Wants
    <3>2. CASE Partial(f.values)
      <4>1. \A v \in f.values : v.star
        BY <1>1, <3>2, OneValue DEF Partial
      <4>2. style = "pattern"
        BY <1>4, <3>2 DEF Style
      <4>3. FilterClause(f, row) <=> \E x \in stored, v \in f.values : Like(v.operand, x)
        <5>1. group.op = "=" /\ group.style = "pattern" /\ group.operands = operands
          BY <2>2, <4>2
        <5>2. FilterClause(f, row) <=> \E x \in stored, w \in operands : Like(w, x)
          <6> HIDE DEF group, operands
          <6> QED BY <2>1, <5>1, PatternClause
        <5> QED BY <5>2
      <4> QED BY <3>1, <4>1, <4>3 DEF Satisfies
    <3>3. CASE ~Partial(f.values)
      <4>1. \A v \in f.values : ~v.star
        BY <3>3 DEF Partial
      <4>2. CASE Type[f.property] \in {"array", "object"}
        <5>1. style = "contains" /\ f.property # "kind"
          BY <3>3, <4>2, TypeAssumption DEF Style
        <5>2. FilterClause(f, row) <=> \E v \in f.values : v.operand \in stored
          BY <2>1, <2>2, <5>1 DEF getWhereClauseExpression, Negations
        <5>3. Wants(f, row) <=> \E v \in f.values : v.operand \in stored
          BY <3>1, <4>1, <4>2, <5>1 DEF Satisfies
        <5> QED BY <5>2, <5>3
      <4>3. CASE Type[f.property] \notin {"array", "object"}
        <5>1. style = "plain"
          BY <1>4, <3>3, <4>3 DEF Style
        <5>2. FilterClause(f, row) <=> EqualsAny(f.property, operands, row)
          BY <2>1, <2>2, <5>1 DEF getWhereClauseExpression, Negations
        <5>3. \A v \in f.values : ~(Type[f.property] = "timestamp" /\ v.operand \in Periods)
          BY <1>4, <3>3, <4>3 DEF Style
        <5>4. CASE f.property = "kind"
          <6>1. PICK v : f.values = {v}
            BY <1>1, <5>4, OneValue
          <6>2. operands = {v.operand} /\ ~v.star
            BY <4>1, <6>1
          <6>3. EqualsAny(f.property, operands, row) <=>
                  IF v.operand \in Lower THEN \E x \in stored : Fold(x) = Fold(v.operand)
                  ELSE v.operand \in stored
            BY <1>1, <5>4, <6>2 DEF EqualsAny
          <6>4. Wants(f, row) <=> \E x \in stored : Satisfies(f.property, x, v)
            BY <3>1, <6>1
          <6>5. \A x : Satisfies(f.property, x, v) <=>
                  IF v.operand \in Lower THEN Fold(x) = Fold(v.operand) ELSE x = v.operand
            BY <5>3, <5>4, <6>1, <6>2 DEF Satisfies
          <6> QED BY <5>2, <6>3, <6>4, <6>5
        <5>5. CASE f.property # "kind"
          <6>1. EqualsAny(f.property, operands, row) <=> \E x \in stored : x \in operands
            BY <1>1, <5>5 DEF EqualsAny
          <6>2. \A x, v : v \in f.values => (Satisfies(f.property, x, v) <=> x = v.operand)
            BY <4>1, <5>3, <5>5 DEF Satisfies
          <6> QED BY <3>1, <5>2, <6>1, <6>2
        <5> QED BY <5>4, <5>5
      <4> QED BY <4>2, <4>3
    <3> QED BY <3>2, <3>3
  <2>3. CASE o # "="
    <3>1. /\ Type[f.property] \notin {"array", "object"} /\ f.property # "kind"
          /\ \A v \in f.values : ~v.star /\ v.operand \notin Periods
      BY <1>1, <1>2, <2>3
    <3>2. style = "plain"
      BY <1>4, <3>1 DEF Style, Partial
    <3>3. CASE o \in Negations
      <4>1. FilterClause(f, row) <=> stored # {} /\ \A x \in stored, v \in f.values : x # v.operand
        <5>1. FilterClause(f, row) <=> stored # {} /\ stored \cap operands = {}
          BY <2>1, <2>3, <3>2, <3>3 DEF getWhereClauseExpression
        <5> QED BY <5>1
      <4>2. Wants(f, row) <=> stored # {} /\ \A x \in stored, v \in f.values : ~Satisfies(f.property, x, v)
        BY <1>1, <1>2, <2>3, <3>3 DEF Wants
      <4>3. \A x, v : v \in f.values => (Satisfies(f.property, x, v) <=> x = v.operand)
        BY <3>1 DEF Satisfies
      <4> QED BY <4>1, <4>2, <4>3
    <3>4. CASE o \notin Negations
      <4>1. FilterClause(f, row) <=> \E x \in stored, v \in f.values : Compares(o, x, v.operand)
        BY <2>1, <2>3, <3>2, <3>4 DEF getWhereClauseExpression
      <4>2. Wants(f, row) <=> \E x \in stored, v \in f.values : Compares(v.op, x, v.operand)
        BY <1>1, <1>2, <2>3, <3>4 DEF Wants
      <4> QED BY <1>2, <4>1, <4>2
    <3> QED BY <3>3, <3>4
  <2> QED BY <2>2, <2>3
<1> QED BY <1>3, <1>4

-----------------------------------------------------------------------------
\* What the clause selects is what the user may list.
LEMMA VisibleIsPermitted ==
  ASSUME user \in Users, user # None, fine \in BOOLEAN, NEW row \in Rows
  PROVE  Visible(row) <=> MayList(user, fine, row)
BY ClauseExact, DataAssumption, RowAssumption DEF Visible

\* The fields follow each other.
LEMMA AfterIsPlace ==
  ASSUME NEW n \in {0, 1, 2}
  PROVE  After(n) \in {"done", "count", "items", "related"}
<1> DEFINE left == {i \in n + 1 .. 3 : Fields[i] \in request.fields}
<1>1. CASE left = {}
  BY <1>1 DEF After
<1>2. CASE left # {}
  <2>1. \E m \in left : \A i \in left : m <= i
    <3>1. left \subseteq {1, 2, 3}
      OBVIOUS
    <3>5. left # {} BY <1>2
    <3> HIDE DEF left
    <3>2. CASE 1 \in left BY <3>1, <3>2
    <3>3. CASE 1 \notin left /\ 2 \in left BY <3>1, <3>3
    <3>4. CASE 1 \notin left /\ 2 \notin left
      <4>1. left = {3} BY <3>5, <3>1, <3>4
      <4> QED BY <4>1
    <3> QED BY <3>2, <3>3, <3>4
  <2>2. Min(left) \in left
    <3> HIDE DEF left
    <3> QED BY <2>1 DEF Min
  <2>3. Min(left) \in {1, 2, 3}
    BY <2>2
  <2>4. After(n) = Fields[Min(left)]
    BY <1>2 DEF After
  <2> HIDE DEF left
  <2> QED BY <2>3, <2>4 DEF Fields
<1> QED BY <1>1, <1>2

(***************************************************************************)
(* What a user's answer has is his to list. The inductive invariant says   *)
(* beside it what the steps between the statements keep: the rows of the   *)
(* uids that the relations found are visible, and uids are only there for  *)
(* a user who has data.                                                    *)
(***************************************************************************)
AnswerOk ==
  answer = [count |-> answer.count, items |-> answer.items, related |-> answer.related,
            values |-> answer.values, errors |-> answer.errors]

SessionOk == request \in Requests /\ user \in Users /\ fine \in BOOLEAN /\ db \subseteq Rows

UidsOk ==
  /\ uids # None => user # None
  /\ pc = "relations" => user # None
  /\ pc = "relatedItems" => user # None /\ \A row \in Rows : row.uid \in uids => Visible(row)

ItemsOk ==
  answer.items # None => \A row \in answer.items : row \in Rows /\ user # None /\ Visible(row)

RelatedOk == \A row \in RelatedRows : user # None /\ Visible(row)

ValuesOk ==
  request.op = "complete" =>
    /\ pc # "schema"
    /\ answer.values # None =>
         \A v \in answer.values \ {"isNumber", "isDate", HubName} :
           \E row \in Rows : v \in row.data[request.property] /\ user # None /\ Visible(row)

PermittedInv == AnswerOk /\ SessionOk /\ UidsOk /\ ItemsOk /\ RelatedOk /\ ValuesOk

\* The first state, in which nothing is answered.
LEMMA PermittedInit ==
  ASSUME Init
  PROVE  PermittedInv
BY DatabaseAssumption DEF Init, PermittedInv, AnswerOk, SessionOk, UidsOk, ItemsOk, RelatedOk, ValuesOk, RelatedRows

\* A step of which the user, the feature and the request are the same, and that
\* changes no field of the answer but the count and the errors.
LEMMA SameRows ==
  ASSUME PermittedInv, UNCHANGED <<request, user, fine>>, db' \subseteq Rows,
         AnswerOk', answer'.items = answer.items, answer'.related = answer.related,
         answer'.values = answer.values
  PROVE  /\ SessionOk' /\ ItemsOk' /\ RelatedOk'
         /\ (request.op = "complete" => pc' # "schema") => ValuesOk'
<1>1. \A row : Visible(row)' <=> Visible(row)
  BY DEF Visible
<1> QED BY <1>1 DEF PermittedInv, SessionOk, ItemsOk, RelatedOk, ValuesOk, RelatedRows

\* One step of the request, or of the database.
LEMMA PermittedStep ==
  ASSUME PermittedInv, [Next]_vars
  PROVE  PermittedInv'
<1> USE DEF PermittedInv
<1> DEFINE Same == UNCHANGED <<request, user, fine>>
<1>0. Same => \A row : Visible(row)' <=> Visible(row)
  BY DEF Visible
<1>1. CASE Begin
  <2>1. /\ Same /\ UNCHANGED <<db, uids, answer>>
        /\ pc' = IF request.op = "search" THEN After(0) ELSE request.op
    BY <1>1 DEF Begin, Goto
  <2>2. pc' \notin {"relations", "relatedItems"} /\ (request.op = "complete" => pc' # "schema")
    BY <2>1, AfterIsPlace, RequestAssumption DEF SessionOk
  <2> QED BY <2>1, <2>2, SameRows DEF AnswerOk, SessionOk, UidsOk
<1>2. CASE BeginFails
  <2>1. /\ Same /\ UNCHANGED <<db, uids>> /\ pc' = "done"
        /\ answer' = [answer EXCEPT !.errors = {"user"}]
    BY <1>2 DEF BeginFails, Goto
  <2> QED BY <2>1, SameRows DEF AnswerOk, SessionOk, UidsOk
<1>3. CASE Count
  <2>1. /\ Same /\ UNCHANGED <<db, uids>> /\ pc' = After(1)
        /\ \/ \E n : answer' = [answer EXCEPT !.count = n]
           \/ \E e : answer' = [answer EXCEPT !.errors = @ \cup {e}]
    BY <1>3 DEF Count, Goto, Fails, QueryFails
  <2>2. pc' \notin {"relations", "relatedItems", "schema"}
    BY <2>1, AfterIsPlace
  <2>3. AnswerOk' /\ UNCHANGED <<answer.items, answer.related, answer.values>>
    BY <2>1 DEF AnswerOk
  <2> QED BY <2>1, <2>2, <2>3, SameRows DEF SessionOk, UidsOk
<1>4. CASE Items
  <2>1. /\ Same /\ UNCHANGED db /\ pc' = After(2)
    BY <1>4 DEF Items, Goto
  <2>2. pc' \notin {"relations", "relatedItems", "schema"}
    BY <2>1, AfterIsPlace
  <2>3. \/ /\ answer' = [answer EXCEPT !.items = {}] /\ UNCHANGED uids
        \/ /\ \E e : answer' = [answer EXCEPT !.errors = @ \cup {e}]
           /\ UNCHANGED uids
        \/ /\ user # None
           /\ \E where, page :
                /\ page \in Pages(Selection(where) \X {None}, setLimit(input.limit))
                /\ answer' = [answer EXCEPT !.items = {x[1] : x \in page}]
    BY <1>4 DEF Items, Fails, QueryFails, Refuses
  <2>4. CASE answer' = [answer EXCEPT !.items = {}] /\ UNCHANGED uids
    BY <1>0, <2>1, <2>2, <2>4 DEF AnswerOk, SessionOk, UidsOk, ItemsOk, RelatedOk, ValuesOk, RelatedRows
  <2>5. CASE (\E e : answer' = [answer EXCEPT !.errors = @ \cup {e}]) /\ UNCHANGED uids
    <3>1. AnswerOk' /\ UNCHANGED <<answer.items, answer.related, answer.values>>
      BY <2>5 DEF AnswerOk
    <3> QED BY <2>1, <2>2, <2>5, <3>1, SameRows DEF SessionOk, UidsOk
  <2>6. ASSUME user # None, NEW where, NEW page,
               page \in Pages(Selection(where) \X {None}, setLimit(input.limit)),
               answer' = [answer EXCEPT !.items = {x[1] : x \in page}]
        PROVE  PermittedInv'
    <3>1. \A x \in page : x[1] \in db /\ Visible(x[1])
      <4>1. page \subseteq Selection(where) \X {None}
        BY <2>6 DEF Pages, kSubset
      <4> QED BY <4>1 DEF Selection
    <3>2. \A row \in answer'.items : row \in Rows /\ Visible(row)
      BY <2>6, <3>1 DEF AnswerOk, SessionOk
    <3> QED BY <1>0, <2>1, <2>2, <2>6, <3>2
            DEF AnswerOk, SessionOk, UidsOk, ItemsOk, RelatedOk, ValuesOk, RelatedRows
  <2> QED BY <2>3, <2>4, <2>5, <2>6
<1>5. CASE Related
  <2>1. /\ Same /\ UNCHANGED db /\ pc' \in {"done", "relations", "related"}
        /\ \/ answer' = [answer EXCEPT !.related = {}] /\ pc' = "done" /\ UNCHANGED uids
           \/ answer' = answer /\ uids # None /\ UNCHANGED uids
           \/ (\E e : answer' = [answer EXCEPT !.errors = @ \cup {e}]) /\ pc' = "done" /\ UNCHANGED uids
           \/ answer' = answer /\ user # None /\ pc' = "related"
    BY <1>5 DEF Related, Goto, Fails, QueryFails, Refuses
  <2>2. UidsOk'
    BY <2>1 DEF UidsOk
  <2>3. CASE answer' = [answer EXCEPT !.related = {}]
    BY <1>0, <2>1, <2>2, <2>3 DEF AnswerOk, SessionOk, ItemsOk, RelatedOk, ValuesOk, RelatedRows
  <2>4. CASE answer' = answer \/ \E e : answer' = [answer EXCEPT !.errors = @ \cup {e}]
    <3>1. AnswerOk' /\ UNCHANGED <<answer.items, answer.related, answer.values>>
      BY <2>4 DEF AnswerOk
    <3> QED BY <2>1, <2>2, <3>1, SameRows DEF SessionOk
  <2> QED BY <2>1, <2>3, <2>4
<1>6. CASE RelationResolvers
  <2>1. Same /\ UNCHANGED db /\ pc = "relations"
    BY <1>6 DEF RelationResolvers
  <2>2. CASE answer' = [answer EXCEPT !.related = {}] /\ pc' = "done"
    BY <1>0, <1>6, <2>1, <2>2
    DEF AnswerOk, SessionOk, UidsOk, ItemsOk, RelatedOk, ValuesOk, RelatedRows
  <2>3. CASE answer' = answer /\ pc' = "relatedItems"
    <3> DEFINE visible == {row \in db : Visible(row)}
               found == buildRelationsQuery(Edges, db, uids, setDepth(input), visible)
    <3>1. uids' = filterRelatedUIDs(found, input.relatedKinds)
      BY <1>6, <2>3 DEF RelationResolvers, Goto
    <3>2. \A r \in found : \E row \in visible : row.uid = r.uid
      BY DEF buildRelationsQuery
    <3>3. \A uid \in uids' : \E row \in visible : row.uid = uid
      <4> HIDE DEF found, visible
      <4> QED BY <3>1, <3>2 DEF filterRelatedUIDs
    <3>4. \A row \in Rows : row.uid \in uids' => Visible(row)
      BY <3>3, UidAssumption DEF SessionOk
    <3>5. UidsOk'
      BY <1>0, <2>1, <2>3, <3>4 DEF UidsOk
    <3> QED BY <2>1, <2>3, <3>5, SameRows DEF SessionOk, AnswerOk
  <2> QED BY <1>6, <2>2, <2>3 DEF RelationResolvers, Goto
<1>7. CASE RelatedItems
  <2>1. Same /\ UNCHANGED db /\ pc = "relatedItems" /\ pc' = "done"
    BY <1>7 DEF RelatedItems, Goto
  <2>2. user # None
    BY <2>1 DEF UidsOk
  <2>3. \/ answer' = [answer EXCEPT !.related = {}]
        \/ \E items \in SUBSET {row \in db : row.uid \in uids} :
             answer' = [answer EXCEPT !.related =
                          searchRelatedResultKindItems(items, relations.relatedUids)]
    BY <1>7 DEF RelatedItems, kSubset
  <2>4. RelatedOk'
    <3>1. CASE answer' = [answer EXCEPT !.related = {}]
      BY <3>1 DEF RelatedOk, RelatedRows, AnswerOk
    <3>2. ASSUME NEW items \in SUBSET {row \in db : row.uid \in uids},
                 answer' = [answer EXCEPT !.related =
                              searchRelatedResultKindItems(items, relations.relatedUids)]
          PROVE  RelatedOk'
      <4>1. answer'.related = searchRelatedResultKindItems(items, relations.relatedUids)
        BY <3>2 DEF AnswerOk
      <4>2. \A k \in answer'.related : \A i \in k.items : i.uid \in uids
        BY <4>1 DEF searchRelatedResultKindItems
      <4>3. \A row \in RelatedRows' : row \in Rows /\ row.uid \in uids
        BY <4>2 DEF RelatedRows
      <4> QED BY <1>0, <2>1, <2>2, <4>3 DEF RelatedOk, UidsOk
    <3> QED BY <2>3, <3>1, <3>2
  <2>5. AnswerOk' /\ UNCHANGED <<answer.items, answer.values>>
    BY <2>3 DEF AnswerOk
  <2> QED BY <1>0, <2>1, <2>2, <2>4, <2>5 DEF SessionOk, UidsOk, ItemsOk, ValuesOk
<1>8. CASE searchComplete
  <2>1. Same /\ UNCHANGED <<db, uids>> /\ pc' = "done"
    BY <1>8 DEF searchComplete, Goto
  <2>2. \/ answer' = [answer EXCEPT !.values = {HubName}]
        \/ answer' = [answer EXCEPT !.values = {}]
        \/ \E e : answer' = [answer EXCEPT !.errors = @ \cup {e}]
        \/ /\ user # None
           /\ \E where : \E page \in SUBSET {row.data[request.property] : row \in Offered(where)} :
                answer' = [answer EXCEPT !.values = Formatted(UNION page)]
    BY <1>8 DEF searchComplete, Fails, QueryFails, kSubset
  <2>3. AnswerOk' /\ UNCHANGED <<answer.items, answer.related>>
    BY <2>2 DEF AnswerOk
  <2>4. ValuesOk'
    <3>1. CASE answer' = [answer EXCEPT !.values = {HubName}] \/ answer' = [answer EXCEPT !.values = {}]
      <4>1. answer'.values \subseteq {HubName}
        BY <3>1 DEF AnswerOk
      <4> QED BY <2>1, <4>1 DEF ValuesOk
    <3>2. CASE \E e : answer' = [answer EXCEPT !.errors = @ \cup {e}]
      <4>1. answer'.values = answer.values
        BY <3>2 DEF AnswerOk
      <4> QED BY <1>0, <2>1, <4>1 DEF ValuesOk
    <3>3. ASSUME user # None, NEW where,
                 NEW page \in SUBSET {row.data[request.property] : row \in Offered(where)},
                 answer' = [answer EXCEPT !.values = Formatted(UNION page)]
          PROVE  ValuesOk'
      <4>1. answer'.values = Formatted(UNION page)
        BY <3>3 DEF AnswerOk
      <4>2. answer'.values \subseteq (UNION page) \cup {"isNumber", "isDate"}
        <5> DEFINE values == UNION page
        <5>1. Formatted(values) \subseteq values \cup {"isNumber", "isDate"}
          <6> HIDE DEF values
          <6> QED BY DEF Formatted
        <5> QED BY <4>1, <5>1
      <4>3. \A v \in UNION page : \E row \in db : v \in row.data[request.property] /\ Visible(row)
        BY <3>3 DEF Offered
      <4> QED BY <1>0, <2>1, <3>3, <4>2, <4>3 DEF ValuesOk, SessionOk
    <3> QED BY <2>2, <3>1, <3>2, <3>3
  <2> QED BY <1>0, <2>1, <2>3, <2>4 DEF SessionOk, UidsOk, ItemsOk, RelatedOk, RelatedRows
<1>9. CASE searchSchema
  <2>1. Same /\ UNCHANGED <<db, uids>> /\ pc = "schema" /\ pc' = "done"
    BY <1>9 DEF searchSchema, Goto
  <2>2. \/ \E values : answer' = [answer EXCEPT !.values = values]
        \/ \E e : answer' = [answer EXCEPT !.errors = @ \cup {e}]
    BY <1>9 DEF searchSchema, Fails, QueryFails
  <2>3. AnswerOk' /\ UNCHANGED <<answer.items, answer.related>>
    BY <2>2 DEF AnswerOk
  <2>4. request.op # "complete"
    BY <2>1 DEF ValuesOk
  <2> QED BY <1>0, <2>1, <2>3, <2>4
          DEF SessionOk, UidsOk, ItemsOk, RelatedOk, RelatedRows, ValuesOk
<1>10. CASE DatabaseChanges
  <2>1. Same /\ UNCHANGED <<uids, answer, pc>> /\ db' \subseteq Rows
    BY <1>10 DEF DatabaseChanges, SessionOk
  <2> QED BY <1>0, <2>1
          DEF AnswerOk, SessionOk, UidsOk, ItemsOk, RelatedOk, RelatedRows, ValuesOk
<1>11. CASE TypesReadByOthers \/ UNCHANGED vars
  <2>1. Same /\ UNCHANGED <<uids, answer, pc, db>>
    BY <1>11 DEF TypesReadByOthers, vars
  <2> QED BY <1>0, <2>1
          DEF AnswerOk, SessionOk, UidsOk, ItemsOk, RelatedOk, RelatedRows, ValuesOk
<1> QED BY <1>1, <1>2, <1>3, <1>4, <1>5, <1>6, <1>7, <1>8, <1>9, <1>10, <1>11 DEF Next

\* The inductive invariant holds throughout.
LEMMA PermittedAlways == Spec => []PermittedInv
<1>1. Init => PermittedInv
  BY PermittedInit
<1>2. PermittedInv /\ [Next]_vars => PermittedInv'
  BY PermittedStep
<1> QED BY <1>1, <1>2, PTL DEF Spec

\* The clause of every statement selects the rows its user may list.
THEOREM ExactClause == Spec => []ClauseIsExact
<1>1. PermittedInv => ClauseIsExact
  BY VisibleIsPermitted DEF PermittedInv, SessionOk, ClauseIsExact
<1> QED BY <1>1, PermittedAlways, PTL

\* Items, related items and completed values are of rows that the user may list,
\* whatever the statements found between the changes of the database.
THEOREM PermittedOnly == Spec => []OnlyPermitted
<1>1. PermittedInv => OnlyPermitted
  <2> SUFFICES ASSUME PermittedInv PROVE OnlyPermitted
    OBVIOUS
  <2>1. \A row \in Rows : user # None /\ Visible(row) => MayBeSeen(row)
    BY VisibleIsPermitted DEF PermittedInv, SessionOk, MayBeSeen
  <2>2. RelatedRows \subseteq Rows
    BY DEF RelatedRows
  <2> QED BY <2>1, <2>2 DEF PermittedInv, ItemsOk, RelatedOk, ValuesOk, OnlyPermitted
<1> QED BY <1>1, PermittedAlways, PTL

\* A watch sends no event about a row of a managed cluster that a search hides,
\* as long as the user's rules give watch only with list.
THEOREM WatchWithinSearch == Spec => []WatchNotWider
<1>1. PermittedInv => WatchNotWider
  <2> SUFFICES ASSUME PermittedInv, user # None, fine,
                      \A item \in user.perms : \A rule \in item.rules :
                        "watch" \in rule.verbs => rule.verbs \cap {"list", "*"} # {},
                      NEW row \in Rows, eventMatchesRbac({}, user, fine, row)
               PROVE  Visible(row)
    BY DEF WatchNotWider
  <2>1. CheckUserHasAccess(user, "watch", row)
    BY DEF eventMatchesRbac, checkAndCache
  <2>2. CheckUserHasAccess(user, "list", row)
    BY <2>1 DEF CheckUserHasAccess
  <2> QED BY <2>2, VisibleIsPermitted DEF PermittedInv, SessionOk, MayList, MayListInFleet
<1> QED BY <1>1, PermittedAlways, PTL

(***************************************************************************)
(* The shape of the state. Beside it: the database is finite, and the      *)
(* statement over the edges runs with the uids of a search.                *)
(***************************************************************************)
TypesInv ==
  /\ PermittedInv /\ TypeOK
  /\ IsFiniteSet(db)
  /\ pc = "relations" => uids # None

\* What is read of the types, or kept in the cache, are properties.
LEMMA BuildsTyped ==
  ASSUME NEW where, NEW stored \in TypeAnswers, Builds(where, stored),
         known \subseteq Properties, ptCache \subseteq Properties
  PROVE  known' \subseteq Properties /\ ptCache' \subseteq Properties
<1>1. getPropertyTypes \subseteq Properties
  BY PropertyAssumption DEF getPropertyTypes
<1>2. stored = None \/ stored \subseteq Properties
  BY <1>1 DEF TypeAnswers
<1> QED BY <1>2 DEF Builds

\* A page has nothing but results.
LEMMA PageOfResults ==
  ASSUME NEW results, NEW limit, NEW page \in Pages(results, limit)
  PROVE  page \subseteq results
BY DEF Pages, kSubset

\* A step that leaves the database as it is, and changes of the answer neither
\* the items nor what a place or the uids need.
LEMMA SameTypes ==
  ASSUME TypesInv, PermittedInv', UNCHANGED <<request, user, fine, db, changes>>,
         known' \subseteq Properties, ptCache' \subseteq Properties,
         uids' = None \/ uids' \subseteq {row.uid : row \in Rows},
         answer'.items = None \/ answer'.items \subseteq Rows,
         pc' \in {"count", "items", "related", "relations", "relatedItems",
                  "complete", "schema", "done"},
         pc' = "relations" => uids' # None
  PROVE  TypesInv'
BY DEF TypesInv, TypeOK

\* The first state.
LEMMA TypesInit ==
  ASSUME Init
  PROVE  TypesInv
BY PermittedInit, DatabaseAssumption, BoundAssumption DEF Init, TypesInv, TypeOK

\* One step of the request, or of the database.
LEMMA TypesStep ==
  ASSUME TypesInv, [Next]_vars
  PROVE  TypesInv'
<1> USE DEF TypesInv
<1>0. PermittedInv'
  BY PermittedStep
<1>a. /\ known \subseteq Properties /\ ptCache \subseteq Properties
      /\ uids = None \/ uids \subseteq {row.uid : row \in Rows}
      /\ answer.items = None \/ answer.items \subseteq Rows
      /\ db \subseteq Rows /\ IsFiniteSet(db)
      /\ MaxChanges \in Nat /\ changes \in 0 .. MaxChanges
  BY BoundAssumption DEF TypeOK
<1>b. getPropertyTypes \subseteq Properties
  BY PropertyAssumption DEF getPropertyTypes
<1>c. AnswerOk /\ AnswerOk'
  BY <1>0 DEF PermittedInv
<1> HIDE DEF TypesInv
<1>1. CASE Begin
  <2>1. /\ UNCHANGED <<request, user, fine, db, changes, uids, answer>>
        /\ pc' = IF request.op = "search" THEN After(0) ELSE request.op
        /\ known' \subseteq Properties /\ ptCache' \subseteq Properties
    BY <1>1, <1>a, <1>b DEF Begin, Goto, TypeAnswers
  <2>2. pc' \in {"complete", "schema", "done", "count", "items", "related"}
    BY <2>1, AfterIsPlace, RequestAssumption DEF TypesInv, TypeOK
  <2> QED BY <1>0, <1>a, <2>1, <2>2, SameTypes
<1>2. CASE BeginFails
  <2>1. /\ UNCHANGED <<request, user, fine, db, changes, uids, known, ptCache>>
        /\ pc' = "done" /\ answer' = [answer EXCEPT !.errors = {"user"}]
    BY <1>2 DEF BeginFails, Goto
  <2>2. answer'.items = answer.items
    BY <1>c, <2>1 DEF AnswerOk
  <2> QED BY <1>0, <1>a, <2>1, <2>2, SameTypes
<1>3. CASE Count
  <2>1. /\ UNCHANGED <<request, user, fine, db, changes, uids>> /\ pc' = After(1)
        /\ \/ UNCHANGED <<known, ptCache>>
           \/ \E where : \E stored \in TypeAnswers : Builds(where, stored)
        /\ \/ \E n : answer' = [answer EXCEPT !.count = n]
           \/ \E e : answer' = [answer EXCEPT !.errors = @ \cup {e}]
    BY <1>3 DEF Count, Goto, Fails, QueryFails
  <2>2. known' \subseteq Properties /\ ptCache' \subseteq Properties
    BY <1>a, <2>1, BuildsTyped
  <2>3. answer'.items = answer.items
    BY <1>c, <2>1 DEF AnswerOk
  <2>4. pc' \in {"done", "count", "items", "related"}
    BY <2>1, AfterIsPlace
  <2> QED BY <1>0, <1>a, <2>1, <2>2, <2>3, <2>4, SameTypes
<1>4. CASE Items
  <2>1. /\ UNCHANGED <<request, user, fine, db, changes>> /\ pc' = After(2)
        /\ \/ UNCHANGED <<known, ptCache>>
           \/ \E where : \E stored \in TypeAnswers : Builds(where, stored)
        /\ \/ answer' = [answer EXCEPT !.items = {}] /\ UNCHANGED uids
           \/ (\E e : answer' = [answer EXCEPT !.errors = @ \cup {e}]) /\ UNCHANGED uids
           \/ \E where : \E page \in Pages(Selection(where) \X {None}, setLimit(input.limit)) :
                /\ answer' = [answer EXCEPT !.items = {x[1] : x \in page}]
                /\ uids' = {x[1].uid : x \in page}
    BY <1>4 DEF Items, Goto, Fails, QueryFails
  <2>2. known' \subseteq Properties /\ ptCache' \subseteq Properties
    BY <1>a, <2>1, BuildsTyped
  <2>3. pc' \in {"done", "count", "items", "related"}
    BY <2>1, AfterIsPlace
  <2>4. /\ uids' = None \/ uids' \subseteq {row.uid : row \in Rows}
        /\ answer'.items = None \/ answer'.items \subseteq Rows
    <3>1. CASE answer' = [answer EXCEPT !.items = {}] /\ UNCHANGED uids
      BY <1>a, <1>c, <3>1 DEF AnswerOk
    <3>2. CASE (\E e : answer' = [answer EXCEPT !.errors = @ \cup {e}]) /\ UNCHANGED uids
      <4>1. answer'.items = answer.items
        BY <1>c, <3>2 DEF AnswerOk
      <4> QED BY <1>a, <3>2, <4>1
    <3>3. ASSUME NEW where, NEW page \in Pages(Selection(where) \X {None}, setLimit(input.limit)),
                 answer' = [answer EXCEPT !.items = {x[1] : x \in page}],
                 uids' = {x[1].uid : x \in page}
          PROVE  uids' \subseteq {row.uid : row \in Rows} /\ answer'.items \subseteq Rows
      <4>1. page \subseteq Selection(where) \X {None}
        BY PageOfResults
      <4>2. \A x \in page : x[1] \in Rows
        BY <1>a, <4>1 DEF Selection
      <4>3. answer'.items = {x[1] : x \in page}
        BY <1>c, <3>3 DEF AnswerOk
      <4> QED BY <3>3, <4>2, <4>3
    <3> QED BY <2>1, <3>1, <3>2, <3>3
  <2> QED BY <1>0, <2>1, <2>2, <2>3, <2>4, SameTypes
<1>5. CASE Related
  <2>1. /\ UNCHANGED <<request, user, fine, db, changes>>
        /\ pc' \in {"done", "related", "relations"}
        /\ \/ UNCHANGED <<known, ptCache>>
           \/ \E where : \E stored \in TypeAnswers : Builds(where, stored)
        /\ \/ answer' = answer
           \/ answer' = [answer EXCEPT !.related = {}]
           \/ \E e : answer' = [answer EXCEPT !.errors = @ \cup {e}]
        /\ \/ UNCHANGED uids /\ (pc' = "relations" => uids # None)
           \/ /\ pc' = "related"
              /\ \E where : \E page \in Pages(Joined(where), setLimit(input.limit)) :
                   uids' = {x[1].uid : x \in page}
    BY <1>5 DEF Related, Goto, Fails, QueryFails
  <2>2. known' \subseteq Properties /\ ptCache' \subseteq Properties
    BY <1>a, <2>1, BuildsTyped
  <2>3. answer'.items = answer.items
    BY <1>c, <2>1 DEF AnswerOk
  <2>4. uids' = None \/ uids' \subseteq {row.uid : row \in Rows}
    <3>1. ASSUME NEW where, NEW page \in Pages(Joined(where), setLimit(input.limit))
          PROVE  {x[1].uid : x \in page} \subseteq {row.uid : row \in Rows}
      <4>1. page \subseteq Joined(where)
        BY PageOfResults
      <4>2. \A x \in Joined(where) : x[1] \in Selection(where)
        BY DEF Joined
      <4> QED BY <1>a, <4>1, <4>2 DEF Selection
    <3> QED BY <1>a, <2>1, <3>1
  <2> QED BY <1>0, <1>a, <2>1, <2>2, <2>3, <2>4, SameTypes
<1>6. CASE RelationResolvers
  <2>1. /\ UNCHANGED <<request, user, fine, db, changes, known, ptCache>>
        /\ pc = "relations" /\ pc' \in {"done", "relatedItems"}
        /\ answer' = answer \/ answer' = [answer EXCEPT !.related = {}]
        /\ \/ UNCHANGED uids
           \/ LET found == buildRelationsQuery(Edges, db, uids, setDepth(input), {row \in db : Visible(row)})
              IN uids' = filterRelatedUIDs(found, input.relatedKinds)
    BY <1>6 DEF RelationResolvers, Goto
  <2>2. answer'.items = answer.items
    BY <1>c, <2>1 DEF AnswerOk
  <2>3. filterRelatedUIDs(buildRelationsQuery(Edges, db, uids, setDepth(input), {row \in db : Visible(row)}),
                          input.relatedKinds) \subseteq {row.uid : row \in Rows}
    <3> DEFINE found == buildRelationsQuery(Edges, db, uids, setDepth(input), {row \in db : Visible(row)})
    <3>1. \A r \in found : \E row \in db : row.uid = r.uid
      BY DEF buildRelationsQuery
    <3> HIDE DEF found
    <3>2. filterRelatedUIDs(found, input.relatedKinds) \subseteq {row.uid : row \in Rows}
      BY <1>a, <3>1 DEF filterRelatedUIDs
    <3> QED BY <3>2 DEF found
  <2>4. uids # None
    BY <2>1 DEF TypesInv
  <2>5. CASE UNCHANGED uids
    BY <1>0, <1>a, <2>1, <2>2, <2>4, <2>5, SameTypes
  <2>6. CASE uids' = filterRelatedUIDs(buildRelationsQuery(Edges, db, uids, setDepth(input),
                                         {row \in db : Visible(row)}), input.relatedKinds)
    <3>1. uids' \subseteq {row.uid : row \in Rows}
      BY <2>3, <2>6
    <3> QED BY <1>0, <1>a, <2>1, <2>2, <3>1, SameTypes
  <2> QED BY <2>1, <2>5, <2>6
<1>7. CASE RelatedItems
  <2>1. /\ UNCHANGED <<request, user, fine, db, changes, known, ptCache>> /\ pc' = "done"
        /\ \E rel : answer' = [answer EXCEPT !.related = rel]
        /\ UNCHANGED uids \/ \E items \in SUBSET db : uids' = {row.uid : row \in items}
    BY <1>7 DEF RelatedItems, Goto, kSubset
  <2>2. answer'.items = answer.items
    BY <1>c, <2>1 DEF AnswerOk
  <2>3. uids' = None \/ uids' \subseteq {row.uid : row \in Rows}
    BY <1>a, <2>1
  <2> QED BY <1>0, <1>a, <2>1, <2>2, <2>3, SameTypes
<1>8. CASE searchComplete \/ searchSchema
  <2>1. /\ UNCHANGED <<request, user, fine, db, changes, uids>> /\ pc' = "done"
        /\ \/ UNCHANGED <<known, ptCache>>
           \/ \E where : \E stored \in TypeAnswers : Builds(where, stored)
        /\ \/ \E values : answer' = [answer EXCEPT !.values = values]
           \/ \E e : answer' = [answer EXCEPT !.errors = @ \cup {e}]
    BY <1>8 DEF searchComplete, searchSchema, Goto, Fails, QueryFails
  <2>2. known' \subseteq Properties /\ ptCache' \subseteq Properties
    BY <1>a, <2>1, BuildsTyped
  <2>3. answer'.items = answer.items
    BY <1>c, <2>1 DEF AnswerOk
  <2> QED BY <1>0, <1>a, <2>1, <2>2, <2>3, SameTypes
<1>9. CASE DatabaseChanges
  <2>1. /\ UNCHANGED <<request, user, fine, ptCache, pc, known, uids, relations, answer>>
        /\ changes' = changes + 1 /\ changes < MaxChanges
        /\ \E row \in Rows : db' = IF row \in db THEN db \ {row} ELSE db \cup {row}
    BY <1>9 DEF DatabaseChanges
  <2>2. db' \subseteq Rows /\ IsFiniteSet(db')
    BY <1>a, <2>1, FS_AddElement, FS_RemoveElement
  <2>3. changes' \in 0 .. MaxChanges
    BY <1>a, <2>1
  <2> QED BY <1>0, <2>1, <2>2, <2>3 DEF TypesInv, TypeOK
<1>10. CASE TypesReadByOthers
  <2>1. /\ UNCHANGED <<request, user, fine, db, pc, known, uids, relations, answer, changes>>
        /\ ptCache' \subseteq Properties
    BY <1>10, PropertyAssumption DEF TypesReadByOthers
  <2> QED BY <1>0, <2>1 DEF TypesInv, TypeOK
<1>11. CASE UNCHANGED vars
  BY <1>0, <1>11 DEF TypesInv, TypeOK, vars
<1> QED BY <1>1, <1>2, <1>3, <1>4, <1>5, <1>6, <1>7, <1>8, <1>9, <1>10, <1>11 DEF Next

\* The inductive invariant holds throughout.
LEMMA TypesAlways == Spec => []TypesInv
<1>1. Init => TypesInv
  BY TypesInit
<1>2. TypesInv /\ [Next]_vars => TypesInv'
  BY TypesStep
<1> QED BY <1>1, <1>2, PTL DEF Spec

\* The state of a request has its shape: what is cached or known of the types
\* are properties, items are rows, and uids those of rows.
THEOREM SearchTypes == Spec => []TypeOK
<1>1. TypesInv => TypeOK
  BY DEF TypesInv
<1> QED BY <1>1, TypesAlways, PTL

\* The filters of a request are parsed, and in a sequence.
LEMMA RequestFilters ==
  ASSUME TypesInv
  PROVE  /\ DOMAIN input.filters \subseteq Nat
         /\ \A i \in DOMAIN input.filters : FilterOk(input.filters[i])
         /\ input.limit = None \/ input.limit \in Int
         /\ setLimit(input.limit) \in Nat
<1>1. request \in Requests
  BY DEF TypesInv, TypeOK
<1>2. PICK S : input.filters \in Seq(S)
  BY <1>1, RequestAssumption DEF input
<1>3. DOMAIN input.filters \subseteq Nat
  BY <1>2
<1>4. \A i \in DOMAIN input.filters : FilterOk(input.filters[i])
  BY <1>1, RequestAssumption DEF input
<1>5. input.limit = None \/ input.limit \in Int
  BY <1>1, RequestAssumption DEF input
<1>6. setLimit(input.limit) \in Nat
  BY <1>5, BoundAssumption DEF setLimit
<1> QED BY <1>3, <1>4, <1>5, <1>6

\* No row has a property that the types lack.
LEMMA UntypedProperty ==
  ASSUME NEW f, FilterOk(f), f.property \notin getPropertyTypes, NEW row \in db
  PROVE  row.data[f.property] = {}
BY DEF FilterOk, getPropertyTypes

\* A plain filter that a row satisfies names a property of it.
LEMMA WantsStored ==
  ASSUME NEW f, f.values # {}, NEW row, Wants(f, row)
  PROVE  row.data[f.property] # {}
BY DEF Wants

\* The rows that a statement selects are the ones wanted: stale types make the
\* clause read them anew, and a property that is nowhere wants nothing.
LEMMA SelectionExact ==
  ASSUME TypesInv, PlainRequest, NEW stored \in TypeAnswers,
         NEW where, where = WhereClauseFilter(input, known, stored), ~where.error
  PROVE  Selection(where) = {row \in db : Wanted(row)}
<1> DEFINE used == {input.filters[i] : i \in Used(input.filters)}
<1>1. user \in Users /\ user # None /\ fine \in BOOLEAN /\ db \subseteq Rows
  BY DEF TypesInv, TypeOK, PlainRequest
<1>2. \A row \in db : Visible(row) <=> MayBeSeen(row)
  BY <1>1, VisibleIsPermitted DEF MayBeSeen
<1>3. \A i \in DOMAIN input.filters : Plain(input.filters[i]) /\ FilterOk(input.filters[i])
  BY RequestFilters DEF PlainRequest
<1>4. Used(input.filters) = DOMAIN input.filters
  BY <1>3 DEF Used, Plain
<1>5. /\ ~where.none => where.filters = used
      /\ where.none => stored # None /\ \E f \in used : f.property \notin stored
  BY RequestFilters, WhereFilters
<1>6. \A row : (\A f \in used : FilterClause(f, row)) <=>
                 \A i \in DOMAIN input.filters : Wants(input.filters[i], row)
  BY <1>3, <1>4, PlainClause
<1> HIDE DEF used
<1>7. CASE ~where.none
  BY <1>2, <1>5, <1>6, <1>7 DEF Selection, Matches, Wanted
<1>8. CASE where.none
  <2>1. Selection(where) = {}
    BY <1>8 DEF Selection, Matches
  <2>2. PICK i \in DOMAIN input.filters : input.filters[i].property \notin getPropertyTypes
    BY <1>4, <1>5, <1>8 DEF TypeAnswers, used
  <2>3. \A row \in db : ~Wants(input.filters[i], row)
    <3> DEFINE f == input.filters[i]
    <3>1. FilterOk(f) /\ f.values # {}
      BY <1>3 DEF Plain
    <3> HIDE DEF f
    <3>2. \A row \in db : ~Wants(f, row)
      BY <2>2, <3>1, UntypedProperty, WantsStored DEF f
    <3> QED BY <3>2 DEF f
  <2>4. {row \in db : Wanted(row)} = {}
    BY <2>3 DEF Wanted
  <2> QED BY <2>1, <2>4
<1> QED BY <1>7, <1>8

\* As many pairs with one value as there are members.
LEMMA PairedWithNone ==
  ASSUME NEW S, IsFiniteSet(S)
  PROVE  /\ IsFiniteSet(S \X {None})
         /\ Cardinality(S \X {None}) = Cardinality(S)
<1>1. IsFiniteSet({None}) /\ Cardinality({None}) = 1
  BY FS_Singleton
<1>2. Cardinality(S) \in Nat
  BY FS_CardinalityType
<1>3. IsFiniteSet(S \X {None}) /\ Cardinality(S \X {None}) = Cardinality(S) * Cardinality({None})
  BY <1>1, FS_Product
<1>4. \A n \in Nat : n * 1 = n
  OBVIOUS
<1> QED BY <1>1, <1>2, <1>3, <1>4

\* Without an offset, and with no limit or one that is not reached, the page is all there is.
LEMMA WholePage ==
  ASSUME NEW results, IsFiniteSet(results), NEW limit \in Nat,
         limit = 0 \/ Cardinality(results) <= limit, input.offset = None,
         NEW page \in Pages(results, limit)
  PROVE  page = results
<1> DEFINE n == Cardinality(results)
           skip == Min({0, n})
           rest == n - skip
           size == IF limit = 0 THEN rest ELSE Min({limit, rest})
<1>1. n \in Nat
  BY FS_CardinalityType
<1>2. skip = 0
  BY <1>1 DEF Min
<1>3. rest = n
  BY <1>1, <1>2
<1>4. size = n
  <2>1. limit # 0 => Min({limit, n}) = n
    BY <1>1 DEF Min
  <2> QED BY <1>3, <2>1
<1>5. PICK skipped \in kSubset(skip, results) : page \in kSubset(size, results \ skipped)
  BY DEF Pages
<1> HIDE DEF n, skip, rest, size
<1>6. skipped = {}
  BY <1>2, <1>5, FS_Subset, FS_EmptySet DEF kSubset
<1>7. page \in SUBSET results /\ Cardinality(page) = Cardinality(results)
  BY <1>4, <1>5, <1>6 DEF kSubset, n
<1> QED BY <1>7, FS_Subset

-----------------------------------------------------------------------------
(***************************************************************************)
(* A search is exact. While nothing has changed, what has been answered so *)
(* far is: an answer is only of the statement that gave it, and the        *)
(* database is still the one it was made on.                               *)
(***************************************************************************)
ExactInv == changes = 0 /\ PlainRequest => AnswersExact

\* A step that answers neither items nor count keeps what they are.
LEMMA SameExact ==
  ASSUME ExactInv, UNCHANGED <<request, user, fine, db, changes>>,
         answer'.items = answer.items, answer'.count = answer.count
  PROVE  ExactInv'
<1>1. \A row : Wanted(row)' <=> Wanted(row)
  BY DEF Wanted, MayBeSeen, input
<1>2. {row \in db : Wanted(row)}' = {row \in db : Wanted(row)}
  BY <1>1
<1>3. PlainRequest' <=> PlainRequest
  BY DEF PlainRequest, input
<1>4. input' = input
  BY DEF input
<1> QED BY <1>2, <1>3, <1>4 DEF ExactInv, AnswersExact

\* One step of the request, or of the database.
LEMMA ExactStep ==
  ASSUME TypesInv, ExactInv, [Next]_vars
  PROVE  ExactInv'
<1> DEFINE wanted == {row \in db : Wanted(row)}
<1>1. AnswerOk /\ AnswerOk'
  <2>1. TypesInv'
    BY TypesStep
  <2> QED BY <2>1 DEF TypesInv, PermittedInv
<1>2. CASE Count
  <2>1. UNCHANGED <<request, user, fine, db, changes>>
    BY <1>2 DEF Count
  <2>2. CASE \E e : answer' = [answer EXCEPT !.errors = @ \cup {e}]
    <3>1. answer'.items = answer.items /\ answer'.count = answer.count
      BY <1>1, <2>2 DEF AnswerOk
    <3> QED BY <2>1, <3>1, SameExact
  <2>3. CASE ~(\E e : answer' = [answer EXCEPT !.errors = @ \cup {e}]) /\ PlainRequest
    <3>1. matchesManagedHubFilter(input)
      BY <2>3 DEF PlainRequest, Plain, matchesManagedHubFilter
    <3>2. PICK stored \in TypeAnswers :
            LET where == WhereClauseFilter(input, known, stored)
            IN /\ ~Refuses(where, TRUE)
               /\ answer' = [answer EXCEPT !.count = Cardinality(Joined(where))]
      BY <1>2, <2>3, <3>1 DEF Count, Fails, QueryFails
    <3> DEFINE where == WhereClauseFilter(input, known, stored)
    <3>3. Selection(where) = wanted
      BY <2>3, <3>2, SelectionExact DEF Refuses
    <3>4. answer'.items = answer.items /\ answer'.count = Cardinality(Joined(where))
      BY <1>1, <3>2 DEF AnswerOk
    <3>5. input.keywords = {} => Cardinality(Joined(where)) = Cardinality(wanted)
      <4>1. IsFiniteSet(wanted)
        BY FS_Subset DEF TypesInv
      <4> HIDE DEF where, wanted
      <4> QED BY <3>3, <4>1, PairedWithNone DEF Joined
    <3>6. UNCHANGED <<wanted, input>>
      BY <2>1 DEF Wanted, MayBeSeen, input
    <3>7. PlainRequest' <=> PlainRequest
      BY <2>1 DEF PlainRequest, input
    <3> HIDE DEF wanted, where
    <3> QED BY <2>1, <2>3, <3>4, <3>5, <3>6, <3>7 DEF ExactInv, AnswersExact, wanted
  <2>4. CASE ~PlainRequest
    BY <2>1, <2>4 DEF ExactInv, PlainRequest, input
  <2> QED BY <2>2, <2>3, <2>4
<1>3. CASE Items
  <2>1. UNCHANGED <<request, user, fine, db, changes>>
    BY <1>3 DEF Items
  <2>2. CASE \E e : answer' = [answer EXCEPT !.errors = @ \cup {e}]
    <3>1. answer'.items = answer.items /\ answer'.count = answer.count
      BY <1>1, <2>2 DEF AnswerOk
    <3> QED BY <2>1, <3>1, SameExact
  <2>3. CASE ~(\E e : answer' = [answer EXCEPT !.errors = @ \cup {e}]) /\ PlainRequest
    <3>1. matchesManagedHubFilter(input)
      BY <2>3 DEF PlainRequest, Plain, matchesManagedHubFilter
    <3>2. PICK stored \in TypeAnswers :
            LET where == WhereClauseFilter(input, known, stored)
            IN /\ ~Refuses(where, FALSE)
               /\ \E page \in Pages(Selection(where) \X {None}, setLimit(input.limit)) :
                    answer' = [answer EXCEPT !.items = {x[1] : x \in page}]
      BY <1>3, <2>3, <3>1 DEF Items, Fails, QueryFails
    <3> DEFINE where == WhereClauseFilter(input, known, stored)
    <3>3. Selection(where) = wanted
      BY <2>3, <3>2, SelectionExact DEF Refuses
    <3> HIDE DEF where, wanted
    <3>4. PICK page \in Pages(wanted \X {None}, setLimit(input.limit)) :
            answer' = [answer EXCEPT !.items = {x[1] : x \in page}]
      BY <3>2, <3>3 DEF where
    <3>5. answer'.items = {x[1] : x \in page} /\ answer'.count = answer.count
      BY <1>1, <3>4 DEF AnswerOk
    <3>6. answer'.items \subseteq wanted
      <4>1. page \subseteq wanted \X {None}
        BY PageOfResults
      <4> QED BY <3>5, <4>1
    <3>7. ASSUME setLimit(input.limit) = 0 \/ Cardinality(wanted) <= setLimit(input.limit),
                 input.offset = None
          PROVE  answer'.items = wanted
      <4>1. IsFiniteSet(wanted)
        BY FS_Subset DEF TypesInv, wanted
      <4>2. page = wanted \X {None}
        BY <3>7, <4>1, PairedWithNone, RequestFilters, WholePage
      <4>3. \A row \in wanted : <<row, None>> \in page
        BY <4>2
      <4>4. ASSUME NEW row \in wanted PROVE row \in {x[1] : x \in page}
        <5>1. <<row, None>> \in page /\ <<row, None>>[1] = row
          BY <4>3
        <5> QED BY <5>1
      <4> QED BY <3>5, <3>6, <4>4
    <3>8. UNCHANGED <<wanted, input>>
      BY <2>1 DEF Wanted, MayBeSeen, input, wanted
    <3>9. PlainRequest' <=> PlainRequest
      BY <2>1 DEF PlainRequest, input
    <3> QED BY <2>1, <2>3, <3>5, <3>6, <3>7, <3>8, <3>9 DEF ExactInv, AnswersExact, wanted
  <2>4. CASE ~PlainRequest
    BY <2>1, <2>4 DEF ExactInv, PlainRequest, input
  <2> QED BY <2>2, <2>3, <2>4
<1>4. CASE Begin \/ BeginFails \/ Related \/ RelationResolvers \/ RelatedItems
           \/ searchComplete \/ searchSchema \/ TypesReadByOthers
  <2>1. /\ UNCHANGED <<request, user, fine, db, changes>>
        /\ \/ answer' = answer
           \/ answer' = [answer EXCEPT !.errors = {"user"}]
           \/ \E e : answer' = [answer EXCEPT !.errors = @ \cup {e}]
           \/ \E rel : answer' = [answer EXCEPT !.related = rel]
           \/ \E values : answer' = [answer EXCEPT !.values = values]
    BY <1>4 DEF Begin, BeginFails, Related, RelationResolvers, RelatedItems,
                searchComplete, searchSchema, TypesReadByOthers, Fails, QueryFails
  <2>2. answer'.items = answer.items /\ answer'.count = answer.count
    BY <1>1, <2>1 DEF AnswerOk
  <2> QED BY <2>1, <2>2, SameExact
<1>5. CASE DatabaseChanges
  <2>1. changes' = changes + 1
    BY <1>5 DEF DatabaseChanges
  <2>2. changes' # 0
    BY <2>1, BoundAssumption DEF TypesInv, TypeOK
  <2> QED BY <2>2 DEF ExactInv
<1>6. CASE UNCHANGED vars
  BY <1>6, SameExact DEF vars
<1> QED BY <1>2, <1>3, <1>4, <1>5, <1>6 DEF Next

\* A search on a database that does not change answers the wanted rows, or a page
\* of them, and their number: for any types that the cache held, any filters that
\* are plain, and any user.
THEOREM ExactSearch == Spec => []SearchIsExact
<1>1. Init => ExactInv
  BY DEF Init, ExactInv, AnswersExact
<1>2. TypesInv /\ ExactInv /\ [Next]_vars => ExactInv'
  BY ExactStep
<1>3. ExactInv => SearchIsExact
  BY DEF ExactInv, SearchIsExact
<1> QED BY <1>1, <1>2, <1>3, TypesAlways, PTL DEF Spec

-----------------------------------------------------------------------------
\* A value that a row has is found by equality.
LEMMA StoredIsFound ==
  ASSUME NEW row \in Rows, NEW property \in Properties, property # "managedHub",
         Type[property] # "boolean", NEW x \in row.data[property]
  PROVE  FilterClause([property |-> property,
                       values |-> {[op |-> "=", operand |-> x, star |-> FALSE]}], row)
<1> DEFINE v == [op |-> "=", operand |-> x, star |-> FALSE]
           style == Style(Type[property], {v})
           group == [op |-> "=", style |-> style, operands |-> {x}]
<1>1. style \in {"contains", "plain"}
  BY RowAssumption DEF Style, Partial
<1>2. matchOperatorToProperty(Type[property], {v}) = {group}
  <2>1. {w.operand : w \in {v}} = {x} /\ \A w \in {v} : w.op = "="
    OBVIOUS
  <2> HIDE DEF v
  <2> QED BY <1>1, <2>1, OneGroup
<1>3. getWhereClauseExpression(property, group, row)
  <2>1. CASE style = "contains"
    <3>1. group.style = "contains" /\ group.op = "=" /\ x \in group.operands
      BY <2>1
    <3> HIDE DEF group
    <3> QED BY <3>1 DEF getWhereClauseExpression
  <2>2. CASE style = "plain"
    <3>1. group.style = "plain" /\ group.op = "=" /\ group.operands = {x}
      BY <2>2
    <3>2. EqualsAny(property, {x}, row)
      BY DEF EqualsAny
    <3> HIDE DEF group
    <3> QED BY <3>1, <3>2 DEF getWhereClauseExpression
  <2> QED BY <1>1, <2>1, <2>2
<1> HIDE DEF group, v
<1>4. \E g \in matchOperatorToProperty(Type[property], {v}) : getWhereClauseExpression(property, g, row)
  BY <1>2, <1>3
<1> QED BY <1>4 DEF FilterClause, v

(***************************************************************************)
(* A completed value leads to a result. It was taken from a row that all   *)
(* the filters select; if the types that are known now lack a property of  *)
(* theirs or the one completed, reading them anew finds it, since the row  *)
(* has it.                                                                 *)
(***************************************************************************)
LEMMA OfferedIsFound ==
  ASSUME TypesInv, PlainRequest, NEW row \in db, NEW kn,
         \A i \in DOMAIN input.filters : FilterClause(input.filters[i], row),
         NEW property \in Properties, property # "managedHub", Type[property] # "boolean",
         NEW x \in row.data[property]
  PROVE  LET more == [property |-> property,
                      values |-> {[op |-> "=", operand |-> x, star |-> FALSE]}]
             where == WhereClauseFilter([filters |-> Append(input.filters, more)],
                                        kn, getPropertyTypes)
         IN Matches(where, {}, row)
<1> DEFINE more == [property |-> property,
                    values |-> {[op |-> "=", operand |-> x, star |-> FALSE]}]
           in == [filters |-> Append(input.filters, more)]
           used == {in.filters[i] : i \in Used(in.filters)}
           where == WhereClauseFilter(in, kn, getPropertyTypes)
<1>1. row \in Rows
  BY DEF TypesInv, TypeOK
<1>2. FilterClause(more, row) /\ more.property \in getPropertyTypes
  BY <1>1, StoredIsFound DEF getPropertyTypes
<1>3. \A i \in DOMAIN input.filters :
        FilterClause(input.filters[i], row) /\ input.filters[i].property \in getPropertyTypes
  <2> TAKE i \in DOMAIN input.filters
  <2> DEFINE f == input.filters[i]
  <2>1. FilterOk(f) /\ Plain(f) /\ FilterClause(f, row)
    BY RequestFilters DEF PlainRequest
  <2> HIDE DEF f
  <2>2. row.data[f.property] # {}
    BY <2>1, PlainClause, WantsStored DEF Plain
  <2>3. f.property \in getPropertyTypes
    BY <2>1, <2>2 DEF FilterOk, getPropertyTypes
  <2> QED BY <2>1, <2>3 DEF f
<1>4. /\ DOMAIN in.filters \subseteq Nat
      /\ \A i \in DOMAIN in.filters : in.filters[i] = more \/ \E j \in DOMAIN input.filters : in.filters[i] = input.filters[j]
  <2>1. PICK S : input.filters \in Seq(S)
    BY RequestAssumption DEF input, TypesInv, TypeOK
  <2> HIDE DEF more
  <2>2. /\ Len(input.filters) \in Nat
        /\ DOMAIN input.filters = 1 .. Len(input.filters)
        /\ DOMAIN in.filters = 1 .. (Len(input.filters) + 1)
        /\ \A i \in 1 .. Len(input.filters) : in.filters[i] = input.filters[i]
        /\ in.filters[Len(input.filters) + 1] = more
    <3>1. input.filters \in Seq(S \cup {more}) /\ more \in S \cup {more}
      BY <2>1
    <3> QED BY <3>1
  <2> QED BY <2>2
<1>5. \A f \in used : FilterClause(f, row) /\ f.property \in getPropertyTypes
  <2> HIDE DEF more, in
  <2> QED BY <1>2, <1>3, <1>4 DEF Used
<1>6. where.filters \subseteq used /\ (where.none => \E f \in used : f.property \notin getPropertyTypes)
  <2> HIDE DEF more, in
  <2> QED BY <1>4, WhereFilters
<1> HIDE DEF where, used
<1>7. Matches(where, {}, row)
  BY <1>5, <1>6 DEF Matches
<1> QED BY <1>7 DEF where

(***************************************************************************)
(* SuggestionsLead speaks of the end: before it no value was completed.    *)
(***************************************************************************)
LeadInv ==
  /\ request.op = "complete" =>
       /\ pc \in {"begin", "complete", "done"}
       /\ pc # "done" => answer.values = None
  /\ SuggestionsLead

\* One step of the request, or of the database.
LEMMA LeadStep ==
  ASSUME TypesInv, LeadInv, [Next]_vars
  PROVE  LeadInv'
<1>1. AnswerOk /\ AnswerOk'
  <2>1. TypesInv'
    BY TypesStep
  <2> QED BY <2>1 DEF TypesInv, PermittedInv
<1>2. CASE searchComplete
  <2>1. UNCHANGED <<request, user, fine, db, changes>> /\ pc = "complete" /\ pc' = "done"
    BY <1>2 DEF searchComplete, Goto
  <2>2. SUFFICES ASSUME request.op = "complete", answer'.values # None, known' # {},
                        request.property \in Properties \ {"managedHub"},
                        Type[request.property] # "boolean", PlainRequest,
                        NEW x \in answer'.values \ {"isNumber", "isDate"}
                 PROVE  LET more == [property |-> request.property,
                                     values |-> {[op |-> "=", operand |-> x, star |-> FALSE]}]
                            where == WhereClauseFilter([filters |-> Append(input.filters, more)],
                                                       known', getPropertyTypes)
                        IN \E row \in db : Matches(where, {}, row) /\ Visible(row)
    <3>1. /\ input' = input /\ getPropertyTypes' = getPropertyTypes
          /\ PlainRequest' = PlainRequest /\ \A row : Visible(row)' <=> Visible(row)
      BY <2>1 DEF input, getPropertyTypes, PlainRequest, Visible
    <3> QED BY <2>1, <3>1 DEF LeadInv, SuggestionsLead
  <2>3. PICK stored \in TypeAnswers :
          LET where == WhereClauseFilter(input, known, stored)
          IN /\ Builds(where, stored)
             /\ \/ answer' = [answer EXCEPT !.values = {}]
                \/ \E page \in SUBSET {row.data[request.property] : row \in Offered(where)} :
                     answer' = [answer EXCEPT !.values = Formatted(UNION page)]
                \/ \E e : answer' = [answer EXCEPT !.errors = @ \cup {e}]
    BY <1>2, <2>2 DEF searchComplete, QueryFails, Fails, kSubset
  <2> DEFINE where == WhereClauseFilter(input, known, stored)
  <2>4. answer.values = None
    BY <2>1, <2>2 DEF LeadInv
  <2>5. PICK page \in SUBSET {row.data[request.property] : row \in Offered(where)} :
          answer'.values = Formatted(UNION page)
    BY <1>1, <2>2, <2>3, <2>4 DEF AnswerOk
  <2>6. x \in UNION page
    <3> DEFINE values == UNION page
    <3>1. Formatted(values) \subseteq values \cup {"isNumber", "isDate"}
      <4> HIDE DEF values
      <4> QED BY DEF Formatted
    <3> QED BY <2>2, <2>5, <3>1
  <2>7. PICK row \in Offered(where) : x \in row.data[request.property]
    BY <2>5, <2>6
  <2>8. row \in db /\ Visible(row)
    BY <2>7 DEF Offered
  <2>9. \A i \in DOMAIN input.filters : FilterClause(input.filters[i], row)
    <3>1. CASE input.filters = <<>>
      BY <3>1
    <3>2. CASE input.filters # <<>>
      <4>1. \A i \in DOMAIN input.filters : Plain(input.filters[i])
        BY <2>2 DEF PlainRequest
      <4>2. Used(input.filters) = DOMAIN input.filters
        BY <4>1 DEF Used, Plain
      <4>3. Matches(where, input.keywords, row)
        BY <2>7, <3>2 DEF Offered
      <4>4. ~where.error
        <5>1. \A i \in Used(input.filters) : ~decodeObjectFails(input.filters[i])
          BY <4>1, <4>2 DEF Plain
        <5>2. DOMAIN input.filters \subseteq Nat
          BY RequestFilters
        <5>3. where.error => where.refreshed /\ stored = None
          BY <5>1, <5>2, WhereFilters
        <5> HIDE DEF where
        <5> QED BY <2>2, <2>3, <5>3 DEF Builds, where
      <4>5. where.filters = {input.filters[i] : i \in DOMAIN input.filters}
        BY <4>2, <4>3, <4>4, RequestFilters, WhereFilters DEF Matches
      <4> HIDE DEF where
      <4> QED BY <4>3, <4>5 DEF Matches
    <3> QED BY <3>1, <3>2
  <2>10. LET more == [property |-> request.property,
                      values |-> {[op |-> "=", operand |-> x, star |-> FALSE]}]
             found == WhereClauseFilter([filters |-> Append(input.filters, more)],
                                        known', getPropertyTypes)
         IN Matches(found, {}, row)
    BY <2>2, <2>7, <2>8, <2>9, OfferedIsFound
  <2> QED BY <2>8, <2>10
<1>3. CASE Begin
  <2>1. request' = request /\ answer' = answer /\ (request.op = "complete" => pc' = "complete")
        /\ pc = "begin"
    BY <1>3 DEF Begin, Goto
  <2> QED BY <2>1 DEF LeadInv, SuggestionsLead
<1>4. CASE BeginFails
  <2>1. request' = request /\ answer'.values = answer.values /\ pc = "begin" /\ pc' = "done"
    BY <1>1, <1>4 DEF BeginFails, AnswerOk, Goto
  <2> QED BY <2>1 DEF LeadInv, SuggestionsLead
<1>5. CASE Count \/ Items \/ Related \/ RelationResolvers \/ RelatedItems \/ searchSchema
  <2>1. request' = request /\ pc \notin {"begin", "complete", "done"}
    BY <1>5 DEF Count, Items, Related, RelationResolvers, RelatedItems, searchSchema
  <2> QED BY <2>1 DEF LeadInv, SuggestionsLead
<1>6. CASE DatabaseChanges \/ TypesReadByOthers
  <2>1. request' = request /\ answer' = answer /\ pc' = pc /\ pc # "done"
    BY <1>6 DEF DatabaseChanges, TypesReadByOthers
  <2> QED BY <2>1 DEF LeadInv, SuggestionsLead
<1>7. CASE UNCHANGED vars
  <2>1. SuggestionsLead' <=> SuggestionsLead
    BY <1>7 DEF vars, SuggestionsLead, PlainRequest, input, getPropertyTypes, Visible
  <2> QED BY <1>7, <2>1 DEF vars, LeadInv
<1> QED BY <1>2, <1>3, <1>4, <1>5, <1>6, <1>7 DEF Next

\* A completed value leads to a result as long as nothing changes: whatever the
\* types known before, the filters and the user.
THEOREM SuggestionsFound == Spec => []SuggestionsLead
<1>1. Init => LeadInv
  BY DEF Init, LeadInv, SuggestionsLead
<1>2. TypesInv /\ LeadInv /\ [Next]_vars => LeadInv'
  BY LeadStep
<1>3. LeadInv => SuggestionsLead
  BY DEF LeadInv
<1> QED BY <1>1, <1>2, <1>3, TypesAlways, PTL DEF Spec

-----------------------------------------------------------------------------
\* The conditions that Watchable puts on one filter.
FilterWatchable(f) ==
  /\ f.property # "managedHub" /\ f.values # {}
  /\ IF f.property = "label"
     THEN ~Partial(f.values) /\ \A v \in f.values : v.op = "=" /\ v.operand \in Labels
     ELSE Type[f.property] \in {"string", "number"}
  /\ Partial(f.values) => \A v \in f.values : v.star
  /\ \/ \A v \in f.values : v.op = "="
     \/ Cardinality(f.values) = 1 /\ f.property # "kind" /\ ~Partial(f.values)

(***************************************************************************)
(* What the clause of such a filter selects in Postgres, the comparison in *)
(* Go lets pass: patterns, equality with any of the values and without     *)
(* regard to the case of a kind, one negated value and the comparisons.    *)
(***************************************************************************)
LEMMA WatchFilter ==
  ASSUME NEW f, FilterOk(f), FilterWatchable(f), NEW row, FilterClause(f, row)
  PROVE  /\ row.data[f.property] # {}
         /\ IF f.property = "label" THEN matchAnyLabel(f, row)
            ELSE \E v \in f.values : ValueMatches(f.property, v, row)
<1> DEFINE stored == row.data[f.property]
           operands == {v.operand : v \in f.values}
           style == Style(Type[f.property], f.values)
<1>1. \E o \in Operators : \A v \in f.values : v.op = o
  <2>1. CASE \A v \in f.values : v.op = "="
    BY <2>1 DEF Operators
  <2>2. CASE Cardinality(f.values) = 1
    BY <2>2, OneValue DEF FilterOk
  <2> QED BY <2>1, <2>2 DEF FilterWatchable
<1>2. PICK o \in Operators : \A v \in f.values : v.op = o
  BY <1>1
<1>3. f.values # {} /\ f.property # "managedHub"
  BY DEF FilterWatchable
<1>4. style = IF f.property = "label" THEN "contains"
              ELSE IF Partial(f.values) THEN "pattern" ELSE "plain"
  BY TypeAssumption DEF FilterWatchable, Style
<1> DEFINE group == [op |-> o, style |-> style, operands |-> operands]
<1>5. matchOperatorToProperty(Type[f.property], f.values) = {group}
  <2>1. style # "since"
    BY <1>4
  <2> QED BY <1>2, <1>3, <2>1, OneGroup
<1>6. getWhereClauseExpression(f.property, group, row)
  <2> HIDE DEF group
  <2> QED BY <1>3, <1>5 DEF FilterClause
<1>7. CASE f.property = "label"
  <2>1. group.style = "contains" /\ group.op = "=" /\ group.operands = operands
    BY <1>2, <1>3, <1>4, <1>7 DEF FilterWatchable
  <2>2. stored # {} /\ \E w \in operands : w \in stored
    <3> HIDE DEF group, operands
    <3> QED BY <1>6, <2>1 DEF getWhereClauseExpression
  <2> QED BY <1>7, <2>2 DEF matchAnyLabel
<1>8. CASE f.property # "label"
  <2>1. Text(f.property, row) = stored
    BY <1>8 DEF Text, FilterWatchable
  <2>2. CASE Partial(f.values)
    <3>1. \A v \in f.values : v.star /\ v.op = "="
      BY <2>2 DEF FilterWatchable
    <3>2. group.style = "pattern" /\ group.op = "=" /\ group.operands = operands
      BY <1>2, <1>3, <1>4, <1>8, <2>2, <3>1
    <3>3. \E x \in stored, w \in operands : Like(w, x)
      <4> HIDE DEF group, operands
      <4> QED BY <1>6, <3>2, PatternClause
    <3> QED BY <2>1, <1>8, <3>1, <3>3 DEF ValueMatches
  <2>3. CASE ~Partial(f.values)
    <3>1. \A v \in f.values : ~v.star
      BY <2>3 DEF Partial
    <3>2. group.style = "plain" /\ group.op = o /\ group.operands = operands
      BY <1>4, <1>8, <2>3
    <3>3. CASE o = "="
      <4>1. EqualsAny(f.property, operands, row)
        <5> HIDE DEF group, operands
        <5> QED BY <1>6, <3>2, <3>3 DEF getWhereClauseExpression, Negations
      <4>2. CASE f.property = "kind"
        <5>1. \E x \in stored, v \in f.values : Fold(x) = Fold(v.operand)
          BY <4>1 DEF EqualsAny
        <5>2. PICK v \in f.values : \E x \in stored : Fold(x) = Fold(v.operand)
          BY <5>1
        <5>3. ~v.star /\ v.op = "=" /\ \E x \in Text(f.property, row) : Fold(x) = Fold(v.operand)
          BY <1>2, <2>1, <3>1, <3>3, <5>2
        <5>4. ValueMatches(f.property, v, row)
          BY <4>2, <5>3, Zenon DEF ValueMatches
        <5> QED BY <1>8, <5>2, <5>4
      <4>3. CASE f.property # "kind"
        <5>1. PICK v \in f.values : v.operand \in stored
          BY <4>1, <4>3 DEF EqualsAny
        <5>2. compareWithOperator(v.op, Text(f.property, row), v.operand)
          BY <1>2, <2>1, <3>3, <5>1 DEF compareWithOperator, Negations
        <5>3. ValueMatches(f.property, v, row)
          BY <3>1, <4>3, <5>2, Zenon DEF ValueMatches
        <5> QED BY <1>8, <5>1, <5>3
      <4> QED BY <4>2, <4>3
    <3>4. CASE o # "="
      <4>1. Cardinality(f.values) = 1 /\ f.property # "kind"
        BY <1>2, <1>3, <3>4 DEF FilterWatchable
      <4>2. PICK v : f.values = {v}
        BY <4>1, OneValue
      <4>3. operands = {v.operand} /\ v.op = o /\ ~v.star
        BY <1>2, <3>1, <4>2
      <4>4. CASE o \in Negations
        <5>1. stored # {} /\ v.operand \notin stored
          <6>1. stored # {} /\ stored \cap operands = {}
            <7> HIDE DEF group, operands
            <7> QED BY <1>6, <3>2, <3>4, <4>4 DEF getWhereClauseExpression
          <6> QED BY <4>3, <6>1
        <5>2. ValueMatches(f.property, v, row)
          BY <2>1, <4>1, <4>3, <4>4, <5>1, <3>4 DEF ValueMatches, compareWithOperator
        <5> QED BY <1>8, <4>2, <5>1, <5>2
      <4>5. CASE o \notin Negations
        <5>1. \E x \in stored : Compares(o, x, v.operand)
          <6>1. \E x \in stored, w \in operands : Compares(o, x, w)
            <7> HIDE DEF group, operands
            <7> QED BY <1>6, <3>2, <3>4, <4>5 DEF getWhereClauseExpression
          <6> QED BY <4>3, <6>1
        <5>2. ValueMatches(f.property, v, row)
          BY <2>1, <4>1, <4>3, <4>5, <5>1, <3>4 DEF ValueMatches, compareWithOperator
        <5> QED BY <1>8, <4>2, <5>1, <5>2
      <4> QED BY <4>4, <4>5
    <3> QED BY <3>3, <3>4
  <2> QED BY <2>2, <2>3
<1> QED BY <1>7, <1>8

\* The properties being known, every filter has a clause; so a row that a search
\* selects has an event that all the filters and keywords of a watch let pass.
LEMMA WatchInput ==
  ASSUME TypesInv
  PROVE  WatchCoversSearch
<1> DEFINE where == WhereClauseFilter(input, Properties, Properties)
<1>1. SUFFICES ASSUME Watchable, NEW row \in Rows, Matches(where, input.keywords, row)
               PROVE  eventMatchesAllFilters(input, row)
  BY DEF WatchCoversSearch
<1>2. DOMAIN input.filters \subseteq Nat
  BY RequestFilters
<1>3. \A i \in DOMAIN input.filters : FilterOk(input.filters[i]) /\ FilterWatchable(input.filters[i])
  <2> TAKE i \in DOMAIN input.filters
  <2>1. FilterOk(input.filters[i])
    BY RequestFilters
  <2>2. FilterWatchable(input.filters[i])
    BY <1>1 DEF Watchable, validateInputFilters, FilterWatchable
  <2> QED BY <2>1, <2>2
<1>4. \A i \in DOMAIN input.filters :
        input.filters[i].property \in Properties /\ ~decodeObjectFails(input.filters[i])
  <2> TAKE i \in DOMAIN input.filters
  <2> DEFINE f == input.filters[i]
  <2>1. FilterOk(f) /\ FilterWatchable(f)
    BY <1>3
  <2> HIDE DEF f
  <2>2. f.property \in Properties /\ ~decodeObjectFails(f)
    BY <2>1 DEF FilterOk, FilterWatchable, decodeObjectFails
  <2> QED BY <2>2 DEF f
<1>5. Used(input.filters) = DOMAIN input.filters
  BY <1>3 DEF Used, FilterWatchable
<1>6. where.filters = {input.filters[i] : i \in DOMAIN input.filters}
  <2> HIDE DEF where
  <2> QED BY <1>2, <1>4, <1>5, WhereFilters DEF where
<1>7. \A i \in DOMAIN input.filters :
        /\ row.data[input.filters[i].property] # {}
        /\ IF input.filters[i].property = "label" THEN matchAnyLabel(input.filters[i], row)
           ELSE \E v \in input.filters[i].values : ValueMatches(input.filters[i].property, v, row)
  <2> TAKE i \in DOMAIN input.filters
  <2> HIDE DEF where
  <2>1. FilterClause(input.filters[i], row)
    BY <1>1, <1>6 DEF Matches
  <2> QED BY <1>3, <2>1, WatchFilter
<1>8. \A k \in input.keywords : KeywordFound(k, row)
  <2> TAKE k \in input.keywords
  <2> HIDE DEF where
  <2>1. PICK field \in FieldsWithKeywords(input.keywords, row) : TRUE
    BY <1>1 DEF Matches
  <2>2. PICK p \in Properties : field \in {p} \X row.data[p]
    BY <2>1 DEF FieldsWithKeywords
  <2>3. field[2] \in row.data[p] /\ Like(k, field[2])
    BY <2>1, <2>2 DEF FieldsWithKeywords
  <2> QED BY <2>3 DEF KeywordFound
<1> QED BY <1>7, <1>8 DEF eventMatchesAllFilters

\* A watch does not hold back an event about a row that a search with the same
\* input would return, for any inputs of the sort that Watchable names.
THEOREM WatchCovers == Spec => []WatchCoversSearch
<1>1. TypesInv => WatchCoversSearch
  BY WatchInput
<1> QED BY <1>1, TypesAlways, PTL

-----------------------------------------------------------------------------
\* The edges and paths with which the statement starts, and one step further.
Start(edges, S) ==
  {[edge |-> e, path |-> <<e.source, e.dest>>] : e \in {e \in edges : Ends(e) \cap S # {}}}

Further(edges, G) ==
  G \cup {[edge |-> p[2], path |-> p[1].path] :
            p \in {p \in G \X edges : Followed(p[2]) /\ Ends(p[2]) \cap Ends(p[1].edge) # {}}}

IsGraph(graph, edges, S, d) ==
  \A n \in 1 .. d : graph[n] = IF n = 1 THEN Start(edges, S) ELSE Further(edges, graph[n - 1])

\* The recursive function of Reached exists, and is what its equations say.
LEMMA ReachedGraph ==
  ASSUME NEW edges, NEW S, NEW d \in Nat \ {0}
  PROVE  \E graph : IsGraph(graph, edges, S, d) /\ Reached(edges, S, d) = graph[d]
<1> DEFINE Def(f) == f = [n \in 1 .. d |->
                       IF n = 1
                       THEN {[edge |-> e, path |-> <<e.source, e.dest>>] :
                               e \in {e \in edges : Ends(e) \cap S # {}}}
                       ELSE f[n - 1] \cup
                            {[edge |-> p[2], path |-> p[1].path] :
                               p \in {p \in f[n - 1] \X edges :
                                        Followed(p[2]) /\ Ends(p[2]) \cap Ends(p[1].edge) # {}}}]
           graph == CHOOSE f : Def(f)
           P == [edge : edges, path : {<<e.source, e.dest>> : e \in edges}]
           step == [G \in SUBSET P |-> Further(edges, G)]
<1>1. Start(edges, S) \in SUBSET P
  BY DEF Start
<1>2. step \in [SUBSET P -> SUBSET P]
  <2>1. ASSUME NEW G \in SUBSET P PROVE Further(edges, G) \subseteq P
    <3>1. ASSUME NEW p \in G \X edges PROVE [edge |-> p[2], path |-> p[1].path] \in P
      <4>1. p[1] \in P /\ p[2] \in edges
        BY <2>1
      <4> QED BY <4>1
    <3> HIDE DEF P
    <3> QED BY <2>1, <3>1 DEF Further
  <2> HIDE DEF P
  <2> QED BY <2>1
<1>3. \E f : Iteration(f, d, SUBSET P, Start(edges, S), step)
  <2> HIDE DEF step, P
  <2> QED BY <1>1, <1>2, Iterates
<1>4. \E f : Def(f)
  <2>1. PICK f : /\ f = [n \in 1 .. d |-> IF n = 1 THEN Start(edges, S) ELSE step[f[n - 1]]]
                 /\ f \in [1 .. d -> SUBSET P]
    <3> HIDE DEF step, P
    <3> QED BY <1>3 DEF Iteration
  <2>2. f = [n \in 1 .. d |-> IF n = 1 THEN Start(edges, S) ELSE Further(edges, f[n - 1])]
    <3>1. ASSUME NEW n \in 1 .. d, n # 1 PROVE step[f[n - 1]] = Further(edges, f[n - 1])
      <4> HIDE DEF P, step
      <4>1. n - 1 \in 1 .. d
        BY <3>1
      <4>2. f[n - 1] \in SUBSET P
        BY <2>1, <4>1
      <4> USE DEF step
      <4> QED BY <4>2
    <3> HIDE DEF step, P
    <3> QED BY <2>1, <3>1
  <2>3. Def(f)
    BY <2>2 DEF Start, Further
  <2> QED BY <2>3
<1>5. Def(graph)
  <2> HIDE DEF Def
  <2> QED BY <1>4
<1>6. Reached(edges, S, d) = graph[d]
  BY Zenon DEF Reached
<1>7. graph = [n \in 1 .. d |-> IF n = 1 THEN Start(edges, S) ELSE Further(edges, graph[n - 1])]
  <2> HIDE DEF graph
  <2> QED BY <1>5, Zenon DEF Start, Further
<1> HIDE DEF graph
<1>8. IsGraph(graph, edges, S, d)
  BY <1>7 DEF IsGraph
<1> QED BY <1>6, <1>8

\* The nodes that are near, by the number of steps.
IsNear(near, S, d) ==
  \A n \in 1 .. d : near[n] = IF n = 1 THEN Neighbours(S, Edges)
                              ELSE Neighbours(near[n - 1], {e \in Edges : Followed(e)})

\* An edge that n steps from S cross, and with it the cluster it is in.
Crossed(e, near, S, n) ==
  \/ Ends(e) \cap S # {}
  \/ n > 1 /\ Followed(e) /\ Ends(e) \cap near[n - 1] # {}

\* So is that of Within.
LEMMA WithinNear ==
  ASSUME NEW S, NEW d \in Nat \ {0}
  PROVE  \E near : /\ IsNear(near, S, d)
                   /\ Within(S, d) = near[d] \cup
                        {ClusterUid[e.cluster] : e \in {e \in Edges : Crossed(e, near, S, d)}}
<1> DEFINE Def(f) == f = [i \in 1 .. d |->
                       IF i = 1 THEN Neighbours(S, Edges)
                       ELSE Neighbours(f[i - 1], {e \in Edges : Followed(e)})]
           near == CHOOSE f : Def(f)
           P == S \cup UNION {Ends(e) : e \in Edges}
           step == [N \in SUBSET P |-> Neighbours(N, {e \in Edges : Followed(e)})]
<1>1. \A N \in SUBSET P, E \in SUBSET Edges : Neighbours(N, E) \in SUBSET P
  BY DEF Neighbours
<1>2. Neighbours(S, Edges) \in SUBSET P /\ step \in [SUBSET P -> SUBSET P]
  <2>1. {e \in Edges : Followed(e)} \in SUBSET Edges /\ S \in SUBSET P /\ Edges \in SUBSET Edges
    OBVIOUS
  <2> HIDE DEF P
  <2> QED BY <1>1, <2>1
<1>3. \E f : Iteration(f, d, SUBSET P, Neighbours(S, Edges), step)
  <2> HIDE DEF step, P
  <2> QED BY <1>2, Iterates
<1>4. \E f : Def(f)
  <2>1. PICK f : /\ f = [n \in 1 .. d |-> IF n = 1 THEN Neighbours(S, Edges) ELSE step[f[n - 1]]]
                 /\ f \in [1 .. d -> SUBSET P]
    <3> HIDE DEF step, P
    <3> QED BY <1>3 DEF Iteration
  <2>2. ASSUME NEW n \in 1 .. d, n # 1
        PROVE  step[f[n - 1]] = Neighbours(f[n - 1], {e \in Edges : Followed(e)})
    <3> HIDE DEF P, step
    <3>1. n - 1 \in 1 .. d
      BY <2>2
    <3>2. f[n - 1] \in SUBSET P
      BY <2>1, <3>1
    <3> USE DEF step
    <3> QED BY <3>2
  <2>3. Def(f)
    <3> HIDE DEF step, P
    <3> QED BY <2>1, <2>2
  <2> QED BY <2>3
<1>5. Def(near)
  <2> HIDE DEF Def
  <2> QED BY <1>4
<1>6. Within(S, d) = near[d] \cup
        {ClusterUid[e.cluster] : e \in {e \in Edges : Crossed(e, near, S, d)}}
  BY Zenon DEF Within, Crossed
<1>7. IsNear(near, S, d)
  <2> HIDE DEF near
  <2> QED BY <1>5 DEF IsNear
<1> QED BY <1>6, <1>7

\* The nodes near, and the edges crossed, are more with every step.
LEMMA NearGrows ==
  ASSUME NEW S, NEW d \in Nat, NEW near, IsNear(near, S, d), NEW n \in 1 .. d, n > 1
  PROVE  /\ near[n - 1] \subseteq near[n]
         /\ \A e : Crossed(e, near, S, n - 1) => Crossed(e, near, S, n)
         /\ \A e \in Edges : Crossed(e, near, S, n) => Ends(e) \subseteq near[n]
<1> DEFINE followed == {e \in Edges : Followed(e)}
<1>1. \A N, E : N \subseteq Neighbours(N, E) /\ \A e \in E : Ends(e) \cap N # {} => Ends(e) \subseteq Neighbours(N, E)
  BY DEF Neighbours
<1>2. \A m \in 2 .. d : near[m] = Neighbours(near[m - 1], followed) /\ near[m - 1] \subseteq near[m]
  BY <1>1 DEF IsNear
<1>3. \A e : Crossed(e, near, S, n - 1) => Crossed(e, near, S, n)
  <2> TAKE e
  <2>1. CASE Ends(e) \cap S # {}
    BY <2>1 DEF Crossed
  <2>2. CASE n - 1 > 1 /\ Followed(e) /\ Ends(e) \cap near[n - 2] # {}
    <3>1. near[n - 2] \subseteq near[n - 1]
      <4>1. n - 1 \in 2 .. d /\ (n - 1) - 1 = n - 2
        BY <2>2
      <4> QED BY <1>2, <4>1
    <3> QED BY <2>2, <3>1 DEF Crossed
  <2> QED BY <2>1, <2>2 DEF Crossed
<1>4. ASSUME NEW e \in Edges, Ends(e) \cap S # {} PROVE Ends(e) \subseteq near[n]
  <2> DEFINE T == {m \in 1 .. d : ~(Ends(e) \subseteq near[m])}
  <2>1. SUFFICES T = {}
    OBVIOUS
  <2>2. SUFFICES ASSUME T # {} PROVE FALSE
    OBVIOUS
  <2>3. PICK m \in T : \A k \in T : m <= k
    <3>1. T \subseteq Nat
      OBVIOUS
    <3> HIDE DEF T
    <3> QED BY <2>2, <3>1, Least
  <2>4. CASE m = 1
    <3>1. near[1] = Neighbours(S, Edges)
      BY <2>3, <2>4 DEF IsNear
    <3> QED BY <1>1, <1>4, <2>3, <2>4, <3>1
  <2>5. CASE m # 1
    <3>1. m \in 2 .. d /\ m - 1 \in 1 .. d /\ ~(m <= m - 1)
      BY <2>3, <2>5
    <3>2. m - 1 \notin T
      BY <2>3, <3>1
    <3>3. Ends(e) \subseteq near[m - 1]
      BY <3>1, <3>2
    <3> QED BY <1>2, <2>3, <3>1, <3>3
  <2> QED BY <2>3, <2>4, <2>5
<1>5. ASSUME NEW e \in Edges, Crossed(e, near, S, n) PROVE Ends(e) \subseteq near[n]
  <2>1. CASE Ends(e) \cap S # {}
    BY <1>4, <2>1
  <2>2. CASE Followed(e) /\ Ends(e) \cap near[n - 1] # {}
    <3>1. near[n] = Neighbours(near[n - 1], followed) /\ e \in followed
      BY <1>2, <2>2
    <3> HIDE DEF followed
    <3> QED BY <1>1, <2>2, <3>1
  <2> QED BY <1>5, <2>1, <2>2 DEF Crossed
<1>6. near[n - 1] \subseteq near[n]
  <2>1. n \in 2 .. d
    OBVIOUS
  <2> QED BY <1>2, <2>1
<1> QED BY <1>3, <1>5, <1>6

\* The ends of the edge that a path begins with.
PathEnds(g) == {g.path[1], g.path[2]}

(***************************************************************************)
(* Whatever the recursion reaches in n steps has the path of an edge at a  *)
(* searched uid, and is within n steps of every end of that edge.          *)
(***************************************************************************)
LEMMA GraphSound ==
  ASSUME NEW U, NEW d \in Nat, NEW graph, IsGraph(graph, Edges, U, d),
         NEW S, NEW near, IsNear(near, S, d), NEW n \in 1 .. d, NEW g \in graph[n]
  PROVE  /\ g.edge \in Edges
         /\ \E e \in Edges : g.path = <<e.source, e.dest>>
         /\ PathEnds(g) \cap U # {}
         /\ PathEnds(g) \cap S # {} => Ends(g.edge) \subseteq near[n] /\ Crossed(g.edge, near, S, n)
<1> DEFINE Sound(h, m) ==
             /\ h.edge \in Edges
             /\ \E e \in Edges : h.path = <<e.source, e.dest>>
             /\ PathEnds(h) \cap U # {}
             /\ PathEnds(h) \cap S # {} => Ends(h.edge) \subseteq near[m] /\ Crossed(h.edge, near, S, m)
           T == {m \in 1 .. d : \E h \in graph[m] : ~Sound(h, m)}
<1>1. SUFFICES T = {}
  <2> HIDE DEF Sound
  <2>1. ASSUME T = {} PROVE Sound(g, n)
    BY <2>1
  <2> QED BY <2>1 DEF Sound
<1>2. SUFFICES ASSUME T # {} PROVE FALSE
  OBVIOUS
<1>3. PICK m \in T : \A k \in T : m <= k
  <2>1. T \subseteq Nat
    OBVIOUS
  <2> HIDE DEF T
  <2> QED BY <1>2, <2>1, Least
<1>4. PICK h \in graph[m] : ~Sound(h, m)
  <2> HIDE DEF Sound
  <2> QED BY <1>3
<1>5. m \in 1 .. d
  BY <1>3
<1>6. CASE m = 1
  <2>1. PICK e \in Edges : Ends(e) \cap U # {} /\ h = [edge |-> e, path |-> <<e.source, e.dest>>]
    <3>1. h \in Start(Edges, U)
      BY <1>4, <1>5, <1>6 DEF IsGraph
    <3> QED BY <3>1 DEF Start
  <2>2. h.edge = e /\ h.path = <<e.source, e.dest>> /\ PathEnds(h) = Ends(e)
    BY <2>1 DEF PathEnds, Ends
  <2>3. Ends(e) \cap S # {} => Ends(e) \subseteq near[1] /\ Crossed(e, near, S, 1)
    <3>1. near[1] = Neighbours(S, Edges)
      BY <1>5, <1>6 DEF IsNear
    <3> QED BY <2>1, <3>1 DEF Neighbours, Crossed
  <2> QED BY <1>4, <1>6, <2>1, <2>2, <2>3
<1>7. CASE m # 1
  <2>1. m - 1 \in 1 .. d /\ m > 1 /\ ~(m <= m - 1)
    BY <1>5, <1>7
  <2>2. \A x \in graph[m - 1] : Sound(x, m - 1)
    <3> HIDE DEF Sound
    <3> QED BY <1>3, <2>1
  <2>3. graph[m] = Further(Edges, graph[m - 1])
    BY <1>5, <1>7 DEF IsGraph
  <2>4. /\ near[m - 1] \subseteq near[m]
        /\ \A e : Crossed(e, near, S, m - 1) => Crossed(e, near, S, m)
        /\ \A e \in Edges : Crossed(e, near, S, m) => Ends(e) \subseteq near[m]
    BY <1>5, <2>1, NearGrows
  <2>5. CASE h \in graph[m - 1]
    <3>1. Sound(h, m - 1)
      <4> HIDE DEF Sound
      <4> QED BY <2>2, <2>5
    <3> QED BY <1>4, <2>4, <3>1
  <2>6. CASE h \notin graph[m - 1]
    <3>1. PICK p \in graph[m - 1] \X Edges :
            /\ Followed(p[2]) /\ Ends(p[2]) \cap Ends(p[1].edge) # {}
            /\ h = [edge |-> p[2], path |-> p[1].path]
      BY <1>4, <2>3, <2>6 DEF Further
    <3> DEFINE x == p[1]
               e == p[2]
    <3>2. x \in graph[m - 1] /\ e \in Edges /\ h.edge = e /\ h.path = x.path
      BY <3>1
    <3>3. Sound(x, m - 1)
      <4> HIDE DEF Sound, x
      <4> QED BY <2>2, <3>2
    <3>4. PathEnds(h) = PathEnds(x)
      BY <3>2 DEF PathEnds
    <3>5. Followed(e) /\ Ends(e) \cap Ends(x.edge) # {}
      BY <3>1
    <3>6. Ends(x.edge) \subseteq near[m - 1] => Crossed(e, near, S, m)
      BY <2>1, <3>5 DEF Crossed
    <3> HIDE DEF x, e
    <3>7. Sound(h, m)
      BY <2>4, <3>2, <3>3, <3>4, <3>6
    <3> QED BY <1>4, <3>7
  <2> QED BY <2>5, <2>6
<1> QED BY <1>6, <1>7

\* Conversely the recursion reaches every node that is near the searched uids,
\* and every edge that is crossed on the way.
LEMMA GraphComplete ==
  ASSUME NEW U, NEW d \in Nat, NEW graph, IsGraph(graph, Edges, U, d),
         NEW near, IsNear(near, U, d), NEW n \in 1 .. d
  PROVE  /\ \A u \in near[n] \ U : \E g \in graph[n] : u \in Ends(g.edge)
         /\ \A e \in Edges : Crossed(e, near, U, n) => \E g \in graph[n] : g.edge = e
<1> DEFINE Nodes(m) == \A u \in near[m] \ U : \E g \in graph[m] : u \in Ends(g.edge)
           Edged(m) == \A e \in Edges : Crossed(e, near, U, m) => \E g \in graph[m] : g.edge = e
           T == {m \in 1 .. d : ~(Nodes(m) /\ Edged(m))}
<1>1. SUFFICES T = {}
  <2> HIDE DEF Nodes, Edged
  <2>1. ASSUME T = {} PROVE Nodes(n) /\ Edged(n)
    BY <2>1
  <2> QED BY <2>1 DEF Nodes, Edged
<1>2. SUFFICES ASSUME T # {} PROVE FALSE
  OBVIOUS
<1>3. PICK m \in T : \A k \in T : m <= k
  <2>1. T \subseteq Nat
    OBVIOUS
  <2> HIDE DEF T
  <2> QED BY <1>2, <2>1, Least
<1>4. m \in 1 .. d /\ ~(Nodes(m) /\ Edged(m))
  <2> HIDE DEF Nodes, Edged
  <2> QED BY <1>3
<1>5. ASSUME NEW e \in Edges, Ends(e) \cap U # {}
      PROVE  \E g \in Start(Edges, U) : g.edge = e
  <2>1. [edge |-> e, path |-> <<e.source, e.dest>>] \in Start(Edges, U)
    BY <1>5 DEF Start
  <2> QED BY <2>1
<1>6. CASE m = 1
  <2>1. graph[m] = Start(Edges, U) /\ near[m] = Neighbours(U, Edges)
    BY <1>4, <1>6 DEF IsGraph, IsNear
  <2>2. Edged(m)
    BY <1>5, <1>6, <2>1 DEF Crossed
  <2>3. Nodes(m)
    <3> TAKE u \in near[m] \ U
    <3>1. PICK e \in Edges : Ends(e) \cap U # {} /\ u \in Ends(e)
      BY <2>1 DEF Neighbours
    <3> QED BY <1>5, <2>1, <3>1
  <2> QED BY <1>4, <2>2, <2>3
<1>7. CASE m # 1
  <2>1. m - 1 \in 1 .. d /\ m > 1 /\ ~(m <= m - 1)
    BY <1>4, <1>7
  <2>2. Nodes(m - 1) /\ Edged(m - 1)
    <3> HIDE DEF Nodes, Edged
    <3> QED BY <1>3, <2>1
  <2>3. /\ graph[m] = Further(Edges, graph[m - 1])
        /\ near[m] = Neighbours(near[m - 1], {e \in Edges : Followed(e)})
    BY <1>4, <1>7 DEF IsGraph, IsNear
  <2>4. graph[m - 1] \subseteq graph[m]
    BY <2>3 DEF Further
  <2>5. ASSUME NEW e \in Edges, Followed(e), NEW w \in Ends(e) \cap near[m - 1]
        PROVE  \E g \in graph[m] : g.edge = e
    <3>1. CASE w \in U
      <4>1. Crossed(e, near, U, m - 1)
        BY <2>5, <3>1 DEF Crossed
      <4> QED BY <2>2, <2>4, <4>1
    <3>2. CASE w \notin U
      <4>1. PICK x \in graph[m - 1] : w \in Ends(x.edge)
        BY <2>2, <2>5, <3>2
      <4> DEFINE p == <<x, e>>
      <4>2. p \in graph[m - 1] \X Edges /\ p[1] = x /\ p[2] = e
        OBVIOUS
      <4>3. [edge |-> p[2], path |-> p[1].path] \in graph[m]
        <5>1. Followed(p[2]) /\ Ends(p[2]) \cap Ends(p[1].edge) # {}
          BY <2>5, <4>1, <4>2
        <5> HIDE DEF p
        <5> QED BY <2>3, <4>2, <5>1 DEF Further
      <4> QED BY <4>2, <4>3
    <3> QED BY <3>1, <3>2
  <2>6. Edged(m)
    <3> TAKE e \in Edges
    <3>1. CASE Ends(e) \cap U # {}
      <4>1. Crossed(e, near, U, m - 1)
        BY <3>1 DEF Crossed
      <4> QED BY <2>2, <2>4, <4>1
    <3>2. CASE Followed(e) /\ Ends(e) \cap near[m - 1] # {}
      BY <2>5, <3>2
    <3> QED BY <3>1, <3>2 DEF Crossed
  <2>7. Nodes(m)
    <3> TAKE u \in near[m] \ U
    <3>1. CASE u \in near[m - 1]
      BY <2>2, <2>4, <3>1
    <3>2. CASE u \notin near[m - 1]
      <4>1. PICK e \in Edges : Followed(e) /\ Ends(e) \cap near[m - 1] # {} /\ u \in Ends(e)
        BY <2>3, <3>2 DEF Neighbours
      <4>2. PICK g \in graph[m] : g.edge = e
        BY <2>5, <4>1
      <4> QED BY <4>1, <4>2
    <3> QED BY <3>1, <3>2
  <2> QED BY <1>4, <2>6, <2>7
<1> QED BY <1>6, <1>7

\* The recursion has a first level, whatever is configured.
LEMMA DepthIsPositive == setDepth(input) \in Nat \ {0}
  BY RelationAssumption DEF setDepth

\* All that the statement for the relations reaches, before it is restricted.
AllReached(U, d) == UNION {combineIds(g) : g \in Reached(Edges, U, d)}

(***************************************************************************)
(* What is reached, in terms of distance: each uid is within d steps of    *)
(* the ends of the edge that its path has, one of which is searched; and   *)
(* nothing within d steps is missing.                                      *)
(***************************************************************************)
LEMMA ReachedIsWithin ==
  ASSUME NEW U, NEW d \in Nat \ {0}, NEW r \in AllReached(U, d)
  PROVE  \E a, b : /\ r.path = <<a, b>>
                   /\ {a, b} \cap U # {}
                   /\ \A S : {a, b} \cap S # {} => r.uid \in Within(S, d)
<1>1. PICK graph : IsGraph(graph, Edges, U, d) /\ Reached(Edges, U, d) = graph[d]
  BY ReachedGraph
<1>2. PICK g \in graph[d] : r \in combineIds(g)
  BY <1>1 DEF AllReached
<1>3. r.path = g.path /\ (r.uid \in Ends(g.edge) \/ r.uid = ClusterUid[g.edge.cluster])
  BY <1>2 DEF combineIds, Ends
<1>4. d \in 1 .. d
  OBVIOUS
<1>5. \A S : /\ g.edge \in Edges
             /\ \E e \in Edges : g.path = <<e.source, e.dest>>
             /\ PathEnds(g) \cap U # {}
             /\ PathEnds(g) \cap S # {} => r.uid \in Within(S, d)
  <2> TAKE S
  <2>1. PICK near : /\ IsNear(near, S, d)
                    /\ Within(S, d) = near[d] \cup
                         {ClusterUid[e.cluster] : e \in {e \in Edges : Crossed(e, near, S, d)}}
    BY WithinNear
  <2>2. /\ g.edge \in Edges
        /\ \E e \in Edges : g.path = <<e.source, e.dest>>
        /\ PathEnds(g) \cap U # {}
        /\ PathEnds(g) \cap S # {} => Ends(g.edge) \subseteq near[d] /\ Crossed(g.edge, near, S, d)
    BY <1>1, <1>4, <2>1, GraphSound
  <2> QED BY <1>3, <2>1, <2>2
<1>6. PICK e \in Edges : g.path = <<e.source, e.dest>>
  BY <1>5
<1>7. PathEnds(g) = {e.source, e.dest}
  BY <1>6 DEF PathEnds
<1> QED BY <1>3, <1>5, <1>6, <1>7

\* Nothing that is near, or a cluster on the way, is missing.
LEMMA WithinIsReached ==
  ASSUME NEW U, NEW d \in Nat \ {0}, NEW u \in Within(U, d) \ U
  PROVE  \E r \in AllReached(U, d) : r.uid = u
<1>1. PICK graph : IsGraph(graph, Edges, U, d) /\ Reached(Edges, U, d) = graph[d]
  BY ReachedGraph
<1>2. PICK near : /\ IsNear(near, U, d)
                  /\ Within(U, d) = near[d] \cup
                       {ClusterUid[e.cluster] : e \in {e \in Edges : Crossed(e, near, U, d)}}
  BY WithinNear
<1>3. d \in 1 .. d
  OBVIOUS
<1>4. /\ \A w \in near[d] \ U : \E g \in graph[d] : w \in Ends(g.edge)
      /\ \A e \in Edges : Crossed(e, near, U, d) => \E g \in graph[d] : g.edge = e
  BY <1>1, <1>2, <1>3, GraphComplete
<1>5. PICK g \in graph[d] : u \in Ends(g.edge) \/ u = ClusterUid[g.edge.cluster]
  BY <1>2, <1>4
<1>6. \E r \in combineIds(g) : r.uid = u
  BY <1>5 DEF combineIds, Ends
<1> QED BY <1>1, <1>6 DEF AllReached

(***************************************************************************)
(* The properties of what the relations say of one uid. A path begins with *)
(* an edge at a searched uid, so the first searched end of it is within    *)
(* reach.                                                                  *)
(***************************************************************************)
WellRelated(x, U, d, related) ==
  /\ x \in Within(U, d) \/ \E row \in Rows : row.uid = x /\ ClusterUid[row.cluster] \in U
  /\ x \in Within(U, d) \ U => related # {}
  /\ related \subseteq U
  /\ \A u \in related : x \in Within({u}, d)

\* The first searched end of such a path is there, and is one of its ends.
LEMMA PathIsSearched ==
  ASSUME NEW U, NEW a, NEW b, {a, b} \cap U # {}
  PROVE  /\ FirstIn(<<a, b>>, U) # {}
         /\ FirstIn(<<a, b>>, U) \subseteq U \cap {a, b}
BY DEF FirstIn

\* What the relations query says of each uid that it returns.
LEMMA FoundRelations ==
  ASSUME NEW rows \in SUBSET Rows, NEW U, NEW d \in Nat \ {0}, NEW visible,
         NEW found, found = buildRelationsQuery(Edges, rows, U, d, visible),
         NEW x \in {r.uid : r \in found}
  PROVE  WellRelated(x, U, d, updResultToCurrSearchUidsMap(found, U)[x])
<1> DEFINE related == UNION {FirstIn(r.path, U) : r \in {r \in found : r.uid = x}}
           ofClusters == selectIfClusterUIDPresent(rows, U)
<1>1. updResultToCurrSearchUidsMap(found, U)[x] = related
  BY DEF updResultToCurrSearchUidsMap
<1>2. /\ found \subseteq AllReached(U, d) \cup ofClusters
      /\ \A r \in AllReached(U, d) :
           r.uid \notin U /\ (\E row \in visible : row.uid = r.uid) => r \in found
      /\ \A r \in found : \E row \in visible : row.uid = r.uid
  BY DEF buildRelationsQuery, AllReached
<1>3. \A r \in ofClusters :
        r.path = <<>> /\ \E row \in Rows : row.uid = r.uid /\ ClusterUid[row.cluster] \in U
  BY DEF selectIfClusterUIDPresent
<1>4. ASSUME NEW r \in AllReached(U, d)
      PROVE  /\ r.uid \in Within(U, d)
             /\ FirstIn(r.path, U) # {} /\ FirstIn(r.path, U) \subseteq U
             /\ \A u \in FirstIn(r.path, U) : r.uid \in Within({u}, d)
  <2>1. PICK a, b : /\ r.path = <<a, b>>
                    /\ {a, b} \cap U # {}
                    /\ \A S : {a, b} \cap S # {} => r.uid \in Within(S, d)
    BY <1>4, ReachedIsWithin
  <2>2. FirstIn(r.path, U) # {} /\ FirstIn(r.path, U) \subseteq U \cap {a, b}
    BY <2>1, PathIsSearched
  <2>3. \A u \in {a, b} : r.uid \in Within({u}, d)
    <3> TAKE u \in {a, b}
    <3>1. {a, b} \cap {u} # {}
      OBVIOUS
    <3> QED BY <2>1, <3>1
  <2> QED BY <2>1, <2>2, <2>3
<1>5. \A r \in ofClusters : FirstIn(r.path, U) = {}
  BY <1>3 DEF FirstIn
<1>6. PICK r \in found : r.uid = x
  OBVIOUS
<1>7. x \in Within(U, d) \/ \E row \in Rows : row.uid = x /\ ClusterUid[row.cluster] \in U
  <2> HIDE DEF ofClusters
  <2> QED BY <1>2, <1>3, <1>4, <1>6
<1>8. ASSUME x \in Within(U, d) \ U PROVE related # {}
  <2>1. PICK s \in AllReached(U, d) : s.uid = x
    BY <1>8, WithinIsReached
  <2>2. s \in found /\ FirstIn(s.path, U) # {}
    <3> HIDE DEF ofClusters
    <3> QED BY <1>2, <1>4, <1>6, <1>8, <2>1
  <2> QED BY <2>1, <2>2
<1>9. related \subseteq U /\ \A u \in related : x \in Within({u}, d)
  <2>1. ASSUME NEW s \in found, s.uid = x
        PROVE  FirstIn(s.path, U) \subseteq U /\ \A u \in FirstIn(s.path, U) : x \in Within({u}, d)
    <3> HIDE DEF ofClusters
    <3> QED BY <1>2, <1>4, <1>5, <2>1
  <2> QED BY <2>1
<1> HIDE DEF related
<1> QED BY <1>1, <1>7, <1>8, <1>9 DEF WellRelated

\* What is within reach, and visible, is found.
LEMMA NoneMissing ==
  ASSUME NEW rows, NEW U, NEW d \in Nat \ {0}, NEW visible, NEW row \in visible,
         row.uid \in Within(U, d) \ U
  PROVE  row.uid \in filterRelatedUIDs(buildRelationsQuery(Edges, rows, U, d, visible), {})
<1>1. PICK r \in AllReached(U, d) : r.uid = row.uid
  BY WithinIsReached
<1>2. r \in buildRelationsQuery(Edges, rows, U, d, visible)
  BY <1>1 DEF buildRelationsQuery, AllReached
<1> QED BY <1>1, <1>2 DEF filterRelatedUIDs

(***************************************************************************)
(* Between the statement of the relations and that of the items the uids   *)
(* are well related, and while nothing changes they are all that there     *)
(* are. Before the end no related item has been answered.                  *)
(***************************************************************************)
RelatedInv ==
  /\ pc # "done" => answer.related = None
  /\ pc = "relatedItems" =>
       \A x \in uids : WellRelated(x, relations.searched, setDepth(input), relations.relatedUids[x])
  /\ pc = "relatedItems" /\ changes = 0 /\ input.relatedKinds = {} =>
       \A row \in db :
         row.uid \in Within(relations.searched, setDepth(input)) \ relations.searched /\ MayBeSeen(row)
           => row.uid \in uids
  /\ RelatedIsExact

\* One step of the request, or of the database.
LEMMA RelatedStep ==
  ASSUME TypesInv, RelatedInv, [Next]_vars
  PROVE  RelatedInv'
<1> DEFINE d == setDepth(input)
<1>1. AnswerOk /\ AnswerOk'
  <2>1. TypesInv'
    BY TypesStep
  <2> QED BY <2>1 DEF TypesInv, PermittedInv
<1>2. d \in Nat \ {0}
  BY DepthIsPositive
<1> HIDE DEF d
<1>3. CASE RelatedItems
  <2>1. /\ UNCHANGED <<request, user, fine, db, relations, changes>>
        /\ pc = "relatedItems" /\ pc' = "done"
    BY <1>3 DEF RelatedItems, Goto
  <2> DEFINE found == {row \in db : row.uid \in uids}
             limit == setLimit(input.limit)
             size == IF limit = 0 THEN Cardinality(found) ELSE Min({limit, Cardinality(found)})
  <2>2. \/ answer'.related = {}
        \/ \E items \in kSubset(size, found) :
             answer'.related = searchRelatedResultKindItems(items, relations.relatedUids)
    BY <1>1, <1>3 DEF RelatedItems, AnswerOk
  <2>3. CASE answer'.related = {}
    BY <2>1, <2>3 DEF RelatedInv, RelatedIsExact, RelatedIsReachable, RelatedIsComplete
  <2>4. CASE \E items \in kSubset(size, found) :
               answer'.related = searchRelatedResultKindItems(items, relations.relatedUids)
    <3>1. PICK items \in kSubset(size, found) :
            answer'.related = searchRelatedResultKindItems(items, relations.relatedUids)
      BY <2>4
    <3>2. items \subseteq found /\ Cardinality(items) = size
      BY <3>1 DEF kSubset
    <3>3. /\ input' = input /\ setDepth(input)' = d
          /\ \A S, n : Within(S, n)' = Within(S, n)
      BY <2>1 DEF input, d, setDepth, Within, Neighbours
    <3>4. ASSUME NEW k \in answer'.related, NEW i \in k.items
          PROVE  WellRelated(i.uid, relations.searched, d, i.relatedUids)
      <4>1. PICK row \in items : i = [uid |-> row.uid, relatedUids |-> relations.relatedUids[row.uid]]
        BY <3>1, <3>4 DEF searchRelatedResultKindItems
      <4>2. row.uid \in uids
        BY <3>2, <4>1
      <4> QED BY <2>1, <4>1, <4>2 DEF RelatedInv, d
    <3>5. RelatedIsReachable'
      BY <2>1, <3>3, <3>4 DEF RelatedIsReachable, WellRelated
    <3>6. RelatedIsComplete'
      <4>1. SUFFICES ASSUME changes = 0, answer'.related # None, input.limit = -1, input.relatedKinds = {},
                            NEW row \in db, MayBeSeen(row),
                            row.uid \in Within(relations.searched, d) \ relations.searched
                     PROVE  row \in RelatedRows'
        <5>1. \A row : MayBeSeen(row)' <=> MayBeSeen(row)
          BY <2>1 DEF MayBeSeen
        <5> QED BY <2>1, <3>3, <5>1 DEF RelatedIsComplete
      <4>2. row \in found /\ row \in Rows
        BY <2>1, <4>1 DEF RelatedInv, TypesInv, TypeOK, d
      <4>3. items = found
        <5>1. IsFiniteSet(found)
          BY FS_Subset DEF TypesInv
        <5>2. size = Cardinality(found)
          BY <4>1 DEF setLimit
        <5> HIDE DEF found
        <5> QED BY <3>2, <5>1, <5>2, FS_Subset
      <4> DEFINE k == [kind |-> row.kind,
                       items |-> {[uid |-> x.uid, relatedUids |-> relations.relatedUids[x.uid]] :
                                    x \in {x \in items : x.kind = row.kind}}]
                 i == [uid |-> row.uid, relatedUids |-> relations.relatedUids[row.uid]]
      <4>4. k \in answer'.related
        BY <3>1, <4>2, <4>3 DEF searchRelatedResultKindItems
      <4>5. i \in k.items /\ i.uid = row.uid
        BY <4>2, <4>3
      <4> HIDE DEF k, i
      <4> QED BY <4>1, <4>2, <4>4, <4>5 DEF RelatedRows
    <3> QED BY <2>1, <3>5, <3>6 DEF RelatedInv, RelatedIsExact
  <2> QED BY <2>2, <2>3, <2>4
<1>4. CASE RelationResolvers
  <2>1. UNCHANGED <<request, user, fine, db, changes>> /\ pc = "relations"
    BY <1>4 DEF RelationResolvers
  <2>2. answer.related = None /\ user # None /\ db \in SUBSET Rows /\ db \subseteq Rows
    BY <2>1 DEF RelatedInv, TypesInv, PermittedInv, UidsOk, TypeOK
  <2> DEFINE visible == {row \in db : Visible(row)}
             found == buildRelationsQuery(Edges, db, uids, d, visible)
             wanted == filterRelatedUIDs(found, input.relatedKinds)
  <2>3. \/ answer'.related = {} /\ pc' = "done"
        \/ /\ relations' = [searched |-> uids, relatedUids |-> updResultToCurrSearchUidsMap(found, uids)]
           /\ uids' = wanted /\ answer' = answer /\ pc' = "relatedItems"
    BY <1>1, <1>4 DEF RelationResolvers, AnswerOk, Goto, d
  <2>4. CASE answer'.related = {} /\ pc' = "done"
    BY <2>4 DEF RelatedInv, RelatedIsExact, RelatedIsReachable, RelatedIsComplete
  <2>5. CASE /\ relations' = [searched |-> uids, relatedUids |-> updResultToCurrSearchUidsMap(found, uids)]
             /\ uids' = wanted /\ answer' = answer /\ pc' = "relatedItems"
    <3>1. /\ input' = input /\ setDepth(input)' = d
          /\ \A S, n : Within(S, n)' = Within(S, n)
          /\ \A row : MayBeSeen(row)' <=> MayBeSeen(row)
      BY <2>1 DEF input, d, setDepth, Within, Neighbours, MayBeSeen
    <3>2. \A x \in wanted :
            WellRelated(x, uids, d, updResultToCurrSearchUidsMap(found, uids)[x])
      <4> TAKE x \in wanted
      <4>1. x \in {r.uid : r \in found}
        BY DEF filterRelatedUIDs
      <4> HIDE DEF wanted, visible
      <4>2. found = buildRelationsQuery(Edges, db, uids, d, visible)
        OBVIOUS
      <4> HIDE DEF found
      <4> QED BY <1>2, <2>2, <4>1, <4>2, FoundRelations
    <3>3. ASSUME input.relatedKinds = {}, NEW row \in db, MayBeSeen(row),
                 row.uid \in Within(uids, d) \ uids
          PROVE  row.uid \in wanted
      <4>1. Visible(row)
        BY <2>2, <3>3, VisibleIsPermitted DEF MayBeSeen, TypesInv, TypeOK
      <4>2. row \in visible
        BY <4>1
      <4> HIDE DEF visible
      <4> QED BY <1>2, <3>3, <4>2, NoneMissing
    <3>4. /\ relations'.searched = uids
          /\ relations'.relatedUids = updResultToCurrSearchUidsMap(found, uids)
      BY <2>5
    <3> HIDE DEF found, wanted
    <3>5. \A x \in uids' : WellRelated(x, relations.searched, setDepth(input), relations.relatedUids[x])'
      BY <2>5, <3>1, <3>2, <3>4 DEF WellRelated
    <3>6. (pc = "relatedItems" /\ changes = 0 /\ input.relatedKinds = {} =>
             \A row \in db :
               row.uid \in Within(relations.searched, setDepth(input)) \ relations.searched /\ MayBeSeen(row)
                 => row.uid \in uids)'
      BY <2>1, <2>5, <3>1, <3>3, <3>4
    <3>7. RelatedIsExact'
      BY <2>5 DEF RelatedIsExact, RelatedIsReachable, RelatedIsComplete
    <3> QED BY <2>2, <2>5, <3>5, <3>6, <3>7 DEF RelatedInv
  <2> QED BY <2>3, <2>4, <2>5
<1>5. CASE Related
  <2>1. UNCHANGED request /\ pc = "related"
    BY <1>5 DEF Related
  <2>2. answer.related = None
    BY <2>1 DEF RelatedInv
  <2>3. \/ answer'.related \in {{}, None} /\ pc' = "done"
        \/ answer' = answer /\ pc' \in {"relations", "related"}
    BY <1>1, <1>5, <2>2 DEF Related, AnswerOk, Goto, Fails, QueryFails
  <2> QED BY <2>2, <2>3 DEF RelatedInv, RelatedIsExact, RelatedIsReachable, RelatedIsComplete
<1>6. CASE \/ Begin \/ BeginFails \/ Count \/ Items \/ searchComplete \/ searchSchema
           \/ TypesReadByOthers
  <2>1. pc # "done" /\ pc' # "relatedItems"
    <3>1. \A n \in {0, 1, 2} : After(n) # "relatedItems"
      BY AfterIsPlace
    <3>2. request.op # "relatedItems"
      BY RequestAssumption DEF TypesInv, TypeOK
    <3> QED BY <1>6, <3>1, <3>2 DEF Begin, BeginFails, Count, Items, searchComplete,
                                    searchSchema, TypesReadByOthers, Goto
  <2>2. answer.related = None
    BY <2>1 DEF RelatedInv
  <2>3. answer'.related = None
    BY <1>1, <1>6, <2>2 DEF Begin, BeginFails, Count, Items, searchComplete, searchSchema,
                            TypesReadByOthers, AnswerOk, Fails, QueryFails
  <2> QED BY <2>1, <2>3 DEF RelatedInv, RelatedIsExact, RelatedIsReachable, RelatedIsComplete
<1>7. CASE DatabaseChanges
  <2>1. /\ UNCHANGED <<request, user, fine, uids, relations, answer, pc>>
        /\ pc # "done" /\ changes' # 0
    BY <1>7 DEF DatabaseChanges, TypesInv, TypeOK
  <2>2. /\ input' = input /\ setDepth(input)' = d
        /\ \A S, n : Within(S, n)' = Within(S, n)
    BY <2>1 DEF input, d, setDepth, Within, Neighbours
  <2> QED BY <2>1, <2>2 DEF RelatedInv, WellRelated, RelatedIsExact, RelatedIsReachable,
                            RelatedIsComplete, d
<1>8. CASE UNCHANGED vars
  <2>1. UNCHANGED <<request, user, fine, db, uids, relations, answer, pc, changes>>
    BY <1>8 DEF vars
  <2>2. /\ input' = input /\ setDepth(input)' = d
        /\ \A S, n : Within(S, n)' = Within(S, n)
        /\ \A row : MayBeSeen(row)' <=> MayBeSeen(row)
        /\ RelatedRows' = RelatedRows
    BY <2>1 DEF input, d, setDepth, Within, Neighbours, MayBeSeen, RelatedRows
  <2>3. RelatedIsExact' <=> RelatedIsExact
    BY <2>1, <2>2 DEF RelatedIsExact, RelatedIsReachable, RelatedIsComplete, d
  <2> QED BY <2>1, <2>2, <2>3 DEF RelatedInv, WellRelated, d
<1> QED BY <1>3, <1>4, <1>5, <1>6, <1>7, <1>8 DEF Next

\* The related items are those within the number of steps that the search has,
\* whatever the edges, the rows, the depth and the user; and each is said to be
\* related to searched items within that distance only, and to one at least.
THEOREM RelatedExact == Spec => []RelatedIsExact
<1>1. Init => RelatedInv
  BY DEF Init, RelatedInv, RelatedIsExact, RelatedIsReachable, RelatedIsComplete
<1>2. TypesInv /\ RelatedInv /\ [Next]_vars => RelatedInv'
  BY RelatedStep
<1>3. RelatedInv => RelatedIsExact
  BY DEF RelatedInv
<1> QED BY <1>1, <1>2, <1>3, TypesAlways, PTL DEF Spec
=============================================================================
