----------------------------- MODULE EventFilter -----------------------------
(***************************************************************************)
(* Which events a watch sends (watchSubscription.go): the filters of its   *)
(* input, evaluated in Go on the data of the event, and the permission of  *)
(* its user to watch. The data of an event are those of a row.             *)
(***************************************************************************)
EXTENDS SearchFilters

(***************************************************************************)
(* A filter without values, a value that is empty, and a label that is not *)
(* key=value or has an operator are refused when the watch is opened.      *)
(***************************************************************************)
validateInputFilters(input) ==
  \A i \in DOMAIN input.filters :
    LET f == input.filters[i]
    IN /\ f.values # {}
       /\ \A v \in f.values : v.operand # ""
       /\ f.property = "label" =>
            \A v \in f.values : v.op = "=" /\ v.operand \in Labels

\* A value that is no string is compared by its text: that of an array or
\* of an object is no single one of the values in it.
Text(property, row) ==
  IF Type[property] \in {"array", "object"} THEN {} ELSE row.data[property]

compareWithOperator(op, texts, operand) ==
  CASE op = "=" -> operand \in texts
    [] op \in Negations -> operand \notin texts
    [] OTHER -> \E v \in texts : Compares(op, v, operand)

\* Mutant: a kind compared as any other value.
ValueMatchesCase(property, v, row) ==
  LET texts == Text(property, row)
  IN IF v.star THEN v.op = "=" /\ \E t \in texts : Like(v.operand, t)
     ELSE compareWithOperator(v.op, texts, v.operand)

ValueMatches(property, v, row) ==
  LET texts == Text(property, row)
  IN CASE v.star -> v.op = "=" /\ \E t \in texts : Like(v.operand, t)
       [] ~v.star /\ property = "kind" /\ v.op \in {"="} \cup Negations ->
            (v.op = "=") = (\E t \in texts : Fold(t) = Fold(v.operand))
       [] OTHER -> compareWithOperator(v.op, texts, v.operand)

matchAnyLabel(f, row) == \E v \in f.values : v.operand \in row.data["label"]

KeywordFound(keyword, row) ==
  \E p \in Properties : \E v \in row.data[p] : Like(keyword, v)

eventMatchesAllFilters(input, row) ==
  /\ \A k \in input.keywords : KeywordFound(k, row)
  /\ \A i \in DOMAIN input.filters :
       LET f == input.filters[i]
       IN /\ row.data[f.property] # {}
          /\ IF f.property = "label" THEN matchAnyLabel(f, row)
             ELSE \E v \in f.values : ValueMatches(f.property, v, row)

(***************************************************************************)
(* What the API server is asked before an event is sent, or the            *)
(* fine-grained permissions: a managed cluster's resources are watched by  *)
(* whoever may create a ManagedClusterView in the cluster's namespace.     *)
(***************************************************************************)
MayCreateView == [verb |-> "create", group |-> "view.open-cluster-management.io",
                  plural |-> "managedclusterviews"]

\* granted are the pairs of a question and a namespace with the answer yes.
checkAndCache(granted, row) ==
  IF row.hub
  THEN <<[verb |-> "watch", group |-> GroupOf(row), plural |-> row.plural], row.ns>> \in granted
  ELSE <<MayCreateView, row.cluster>> \in granted

eventMatchesRbac(granted, u, fine, row) ==
  IF fine /\ ~row.hub THEN CheckUserHasAccess(u, "watch", row)
  ELSE checkAndCache(granted, row)
=============================================================================
