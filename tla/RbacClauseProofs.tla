-------------------------- MODULE RbacClauseProofs --------------------------
(***************************************************************************)
(* The clause of a user selects, on every row the collectors can have      *)
(* stored, exactly what the user may list: for all data of a user and all  *)
(* permissions of the shapes that UserDataOk and ItemOk describe.          *)
(***************************************************************************)
EXTENDS RbacClause, TLAPS

\* A conjunction of an expression and one that may be empty.
LEMMA AndYes ==
  ASSUME NEW a \in {"yes", "no"}, NEW b
  PROVE  /\ And({a, b}) \in {"yes", "no"}
         /\ And({a, b}) = "yes" <=> (a = "yes" /\ b # "no")
BY DEF And, Is

\* A disjunction with a member that is not empty holds if one member holds.
LEMMA OrYes ==
  ASSUME NEW S, NEW x \in S, x # "none"
  PROVE  /\ Or(S) \in {"yes", "no"}
         /\ Or(S) = "yes" <=> "yes" \in S
BY DEF Or, Is

\* The resources of a user select what they allow.
LEMMA ResourcesSelect ==
  ASSUME NEW row, RowOk(row), NEW R, R # {}, \A r \in R : ResourceOk(r)
  PROVE  /\ matchApigroupKind(R, row) # "no" <=> \E r \in R : Allows(r, row)
         /\ matchApigroupKind(R, row) \in {"yes", "no", "none"}
<1> DEFINE clause(r) == And({GroupClause(r.group, row), PluralClause(r.plural, row)})
<1>1. ASSUME NEW r \in R, r # Everything
      PROVE  clause(r) \in {"yes", "no"} /\ (clause(r) = "yes" <=> Allows(r, row))
  <2>1. r.group # "*" \/ r.plural # "*"
    BY <1>1 DEF ResourceOk, Everything
  <2>2. GroupClause(r.group, row) = IF r.group = "*" THEN "none" ELSE Is(r.group = GroupOf(row))
    BY DEF GroupClause, GroupOf, Is, RowOk, ResourceOk
  <2>3. PluralClause(r.plural, row) = IF r.plural = "*" THEN "none" ELSE Is(r.plural = row.plural)
    BY DEF PluralClause, Is
  <2> QED BY <2>1, <2>2, <2>3 DEF And, Is, Allows
<1>2. CASE Everything \in R
  BY <1>2 DEF matchApigroupKind, Allows, Everything
<1>3. CASE Everything \notin R
  <2>1. matchApigroupKind(R, row) = Or({clause(r) : r \in R})
    BY <1>3 DEF matchApigroupKind
  <2>2. PICK q \in R : TRUE
    OBVIOUS
  <2>3. clause(q) \in {clause(r) : r \in R} /\ clause(q) # "none"
    BY <1>1, <1>3
  <2> HIDE DEF clause
  <2>4. /\ Or({clause(r) : r \in R}) \in {"yes", "no"}
        /\ Or({clause(r) : r \in R}) = "yes" <=> "yes" \in {clause(r) : r \in R}
    BY <2>3, OrYes
  <2> QED BY <1>1, <1>3, <2>1, <2>4
<1> QED BY <1>2, <1>3

\* The clause of the cluster-scoped resources.
LEMMA ClusterScopedSelect ==
  ASSUME NEW row, RowOk(row), NEW cs,
         \A r \in cs : ResourceOk(r) /\ r.group # "*" /\ r.plural # "*"
  PROVE  LET clause == matchClusterScopedResources(cs, row)
         IN /\ clause \in {"yes", "no"}
            /\ clause = "yes" <=> (row.ns = None /\ \E r \in cs : Allows(r, row))
<1>1. CASE cs = {}
  BY <1>1 DEF matchClusterScopedResources
<1>2. CASE cs # {}
  <2>1. cs # {Everything}
    <3>1. PICK r \in cs : r.group # "*"
      BY <1>2
    <3> QED BY <3>1 DEF Everything
  <2>2. matchClusterScopedResources(cs, row) = And({Is(row.ns = None), matchApigroupKind(cs, row)})
    BY <1>2, <2>1 DEF matchClusterScopedResources
  <2>3. Is(row.ns = None) \in {"yes", "no"} /\ (Is(row.ns = None) = "yes" <=> row.ns = None)
    BY DEF Is
  <2>4. matchApigroupKind(cs, row) # "no" <=> \E r \in cs : Allows(r, row)
    BY <1>2, ResourcesSelect
  <2>5. /\ And({Is(row.ns = None), matchApigroupKind(cs, row)}) \in {"yes", "no"}
        /\ And({Is(row.ns = None), matchApigroupKind(cs, row)}) = "yes" <=>
             (row.ns = None /\ matchApigroupKind(cs, row) # "no")
    BY <2>3, AndYes
  <2> QED BY <2>2, <2>4, <2>5
<1> QED BY <1>1, <1>2

\* The clause of the namespaced resources: grouping namespaces by their resources
\* (consolidateNsResources) selects what the namespaces would one by one.
LEMMA NamespacedSelect ==
  ASSUME NEW row, RowOk(row), NEW ns, DOMAIN ns # {}, DOMAIN ns \cap {"*", None} = {},
         \A n \in DOMAIN ns : ns[n] # {} /\ \A r \in ns[n] : ResourceOk(r)
  PROVE  LET clause == matchNamespacedResources(ns, row)
         IN /\ clause \in {"yes", "no"}
            /\ clause = "yes" <=> (row.ns \in DOMAIN ns /\ \E r \in ns[row.ns] : Allows(r, row))
<1> DEFINE clause(g) == And({Is(row.ns \in g.namespaces), matchApigroupKind(g.resources, row)})
           clauses == {clause(g) : g \in consolidateNsResources(ns)}
           group(n) == [resources |-> ns[n], namespaces |-> {m \in DOMAIN ns : ns[m] = ns[n]}]
<1>1. matchNamespacedResources(ns, row) = Or(clauses)
  BY DEF matchNamespacedResources
<1>2. \A n \in DOMAIN ns : group(n) \in consolidateNsResources(ns)
  BY DEF consolidateNsResources, Range1
<1>3. ASSUME NEW g \in consolidateNsResources(ns)
      PROVE  /\ \E n \in DOMAIN ns : g = group(n)
             /\ clause(g) \in {"yes", "no"}
             /\ clause(g) = "yes" <=>
                  (row.ns \in g.namespaces /\ \E r \in g.resources : Allows(r, row))
  <2>1. PICK n \in DOMAIN ns : g = group(n)
    BY DEF consolidateNsResources, Range1
  <2>2. g.resources # {} /\ \A r \in g.resources : ResourceOk(r)
    BY <2>1
  <2>3. /\ Is(row.ns \in g.namespaces) \in {"yes", "no"}
        /\ Is(row.ns \in g.namespaces) = "yes" <=> row.ns \in g.namespaces
    BY DEF Is
  <2>4. matchApigroupKind(g.resources, row) # "no" <=> \E r \in g.resources : Allows(r, row)
    BY <2>2, ResourcesSelect
  <2>5. /\ clause(g) \in {"yes", "no"}
        /\ clause(g) = "yes" <=>
             (row.ns \in g.namespaces /\ matchApigroupKind(g.resources, row) # "no")
    BY <2>3, AndYes
  <2> HIDE DEF clause
  <2> QED BY <2>1, <2>4, <2>5
<1>4. PICK n \in DOMAIN ns : TRUE
  OBVIOUS
<1>5. clause(group(n)) \in clauses /\ clause(group(n)) # "none"
  BY <1>2, <1>3
<1>6. Or(clauses) \in {"yes", "no"} /\ (Or(clauses) = "yes" <=> "yes" \in clauses)
  <2> HIDE DEF clauses
  <2> QED BY <1>5, OrYes
<1>7. "yes" \in clauses <=> (row.ns \in DOMAIN ns /\ \E r \in ns[row.ns] : Allows(r, row))
  <2>1. ASSUME "yes" \in clauses
        PROVE  row.ns \in DOMAIN ns /\ \E r \in ns[row.ns] : Allows(r, row)
    <3>1. PICK g \in consolidateNsResources(ns) : clause(g) = "yes"
      BY <2>1
    <3>2. PICK m \in DOMAIN ns : g = group(m)
      BY <1>3
    <3>3. row.ns \in g.namespaces /\ \E r \in g.resources : Allows(r, row)
      BY <1>3, <3>1
    <3> QED BY <3>2, <3>3
  <2>2. ASSUME row.ns \in DOMAIN ns, \E r \in ns[row.ns] : Allows(r, row)
        PROVE  "yes" \in clauses
    <3>1. group(row.ns) \in consolidateNsResources(ns)
      BY <2>2, <1>2
    <3>2. clause(group(row.ns)) = "yes"
      BY <3>1, <2>2, <1>3
    <3> QED BY <3>1, <3>2
  <2> QED BY <2>1, <2>2
<1> QED BY <1>1, <1>6, <1>7

\* The clause of the hub.
LEMMA HubSelect ==
  ASSUME NEW row, RowOk(row), NEW u, ~u.admin, UserDataOk(u)
  PROVE  /\ matchHubClusterRbac(u, row) \in {"yes", "no"}
         /\ matchHubClusterRbac(u, row) = "yes" <=> MayListOnHub(u, row)
<1> DEFINE cs == matchClusterScopedResources(u.cs, row)
           ns == matchNamespacedResources(u.ns, row)
<1>1. CASE u.cs = {} /\ DOMAIN u.ns = {}
  BY <1>1 DEF matchHubClusterRbac, MayListOnHub
<1>2. CASE ~(u.cs = {} /\ DOMAIN u.ns = {})
  <2>1. matchHubClusterRbac(u, row) = And({Is(row.hub), Or({cs, ns})})
    BY <1>2 DEF matchHubClusterRbac
  <2>2. /\ cs \in {"yes", "no"}
        /\ cs = "yes" <=> (row.ns = None /\ \E r \in u.cs : Allows(r, row))
    BY ClusterScopedSelect DEF UserDataOk
  <2>3. ns = "yes" <=> (row.ns \in DOMAIN u.ns /\ \E r \in u.ns[row.ns] : Allows(r, row))
    <3>1. CASE DOMAIN u.ns = {}
      BY <3>1 DEF matchNamespacedResources
    <3>2. CASE DOMAIN u.ns # {}
      BY <3>2, NamespacedSelect DEF UserDataOk
    <3> QED BY <3>1, <3>2
  <2>4. Or({cs, ns}) \in {"yes", "no"} /\ (Or({cs, ns}) = "yes" <=> (cs = "yes" \/ ns = "yes"))
    BY <2>2 DEF Or, Is
  <2>5. Is(row.hub) \in {"yes", "no"} /\ (Is(row.hub) = "yes" <=> row.hub)
    BY DEF Is
  <2>6. /\ And({Is(row.hub), Or({cs, ns})}) \in {"yes", "no"}
        /\ And({Is(row.hub), Or({cs, ns})}) = "yes" <=>
             (row.hub /\ (cs = "yes" \/ ns = "yes"))
    BY <2>4, <2>5, AndYes
  <2>7. (cs = "yes" \/ ns = "yes") <=>
          IF row.ns = None THEN \E r \in u.cs : Allows(r, row)
          ELSE \E n \in DOMAIN u.ns \cap {"*", row.ns} : \E r \in u.ns[n] : Allows(r, row)
    BY <2>2, <2>3 DEF UserDataOk
  <2> QED BY <2>1, <2>6, <2>7 DEF MayListOnHub
<1> QED BY <1>1, <1>2

(***************************************************************************)
(* The fine-grained clause.                                                *)
(***************************************************************************)
LEMMA PlacesSelect ==
  ASSUME NEW row, RowOk(row), NEW item, ItemOk(item)
  PROVE  /\ matchClusterAndNamespaces(item, row) \in {"yes", "no"}
         /\ matchClusterAndNamespaces(item, row) = "yes" <=>
              \E b \in item.bindings :
                /\ b.cluster = row.cluster
                /\ b.scope = "cluster" \/ b.namespaces \cap {row.ns, "*"} # {}
<1> DEFINE clause(b) ==
             IF WholeCluster(b) THEN Is(row.cluster = b.cluster)
             ELSE And({Is(row.cluster = b.cluster), Is(row.ns \in b.namespaces)})
           clauses == {clause(b) : b \in item.bindings}
<1>1. ASSUME NEW b \in item.bindings
      PROVE  /\ clause(b) \in {"yes", "no"}
             /\ clause(b) = "yes" <=>
                  /\ b.cluster = row.cluster
                  /\ b.scope = "cluster" \/ b.namespaces \cap {row.ns, "*"} # {}
  <2>1. /\ "*" \in b.namespaces => b.namespaces = {"*"}
        /\ row.ns # "*"
    BY DEF ItemOk, RowOk
  <2>2. CASE WholeCluster(b)
    BY <2>1, <2>2 DEF WholeCluster, Is
  <2>3. CASE ~WholeCluster(b)
    <3>1. "*" \notin b.namespaces /\ b.scope # "cluster"
      BY <2>1, <2>3 DEF WholeCluster
    <3> QED BY <2>3, <3>1 DEF And, Is
  <2> QED BY <2>2, <2>3
<1>2. PICK b \in item.bindings : TRUE
  BY DEF ItemOk
<1>3. clause(b) \in clauses /\ clause(b) # "none"
  BY <1>1
<1>4. matchClusterAndNamespaces(item, row) = Or(clauses)
  BY DEF matchClusterAndNamespaces
<1>5. Or(clauses) \in {"yes", "no"} /\ (Or(clauses) = "yes" <=> "yes" \in clauses)
  <2> HIDE DEF clauses
  <2> QED BY <1>3, OrYes
<1>6. "yes" \in clauses <=> \E c \in item.bindings : clause(c) = "yes"
  OBVIOUS
<1> HIDE DEF clause, clauses
<1> QED BY <1>1, <1>4, <1>5, <1>6

RuleAllows(rule, row) ==
  /\ rule.verbs \cap {"list", "*"} # {}
  /\ rule.groups \cap {GroupOf(row), "*"} # {}
  /\ rule.plurals \cap {row.plural, "*"} # {}

\* The rules of an item with list or the wildcard as verb.
LEMMA RulesSelect ==
  ASSUME NEW row, RowOk(row), NEW item, ItemOk(item)
  PROVE  /\ matchApiGroupAndKind(item, row) \in {"yes", "no"}
         /\ matchApiGroupAndKind(item, row) = "yes" <=>
              \E rule \in item.rules : RuleAllows(rule, row)
<1> DEFINE clauses == {RuleClause(rule, row) : rule \in ListRules(item)}
<1>1. ASSUME NEW rule \in ListRules(item)
      PROVE  /\ rule.plurals # {} => RuleClause(rule, row) # "none"
             /\ RuleClause(rule, row) = "yes" <=> RuleAllows(rule, row)
  <2>1. rule.verbs \cap {"list", "*"} # {} /\ None \notin rule.groups
    BY DEF ListRules, ItemOk
  <2>2. GroupsClause(rule.groups, row) =
          IF "*" \in rule.groups THEN "none" ELSE Is(GroupOf(row) \in rule.groups)
    <3>1. CASE row.group = None
      BY <2>1, <3>1 DEF GroupsClause, GroupOf, Is
    <3>2. CASE row.group # None
      BY <3>2 DEF GroupsClause, GroupOf, Is, RowOk
    <3> QED BY <3>1, <3>2
  <2>3. PluralsClause(rule, row) =
          IF "*" \in rule.plurals THEN "none" ELSE Is(row.plural \in rule.plurals)
    BY DEF PluralsClause, Is
  <2>4. RuleAllows(rule, row) <=>
          /\ "*" \in rule.groups \/ GroupOf(row) \in rule.groups
          /\ "*" \in rule.plurals \/ row.plural \in rule.plurals
    BY <2>1 DEF RuleAllows
  <2>5. CASE "*" \in rule.groups \cap rule.plurals
    BY <2>4, <2>5 DEF RuleClause
  <2>6. CASE "*" \notin rule.groups \cap rule.plurals /\ rule.plurals = {}
    BY <2>4, <2>6 DEF RuleClause
  <2>7. CASE "*" \notin rule.groups \cap rule.plurals /\ rule.plurals # {}
    <3>1. RuleClause(rule, row) = And({GroupsClause(rule.groups, row), PluralsClause(rule, row)})
      BY <2>7 DEF RuleClause
    <3>2. ("*" \notin rule.groups) \/ "*" \notin rule.plurals
      BY <2>7
    <3>3. And({GroupsClause(rule.groups, row), PluralsClause(rule, row)}) =
            Is(RuleAllows(rule, row))
      BY <2>2, <2>3, <2>4, <3>2 DEF And, Is
    <3> QED BY <2>7, <3>1, <3>3 DEF Is
  <2> QED BY <2>5, <2>6, <2>7
<1>2. PICK q \in ListRules(item) : q.plurals # {}
  BY DEF ItemOk
<1>3. RuleClause(q, row) \in clauses /\ RuleClause(q, row) # "none"
  BY <1>1, <1>2
<1>4. Or(clauses) \in {"yes", "no"} /\ (Or(clauses) = "yes" <=> "yes" \in clauses)
  <2> HIDE DEF clauses
  <2> QED BY <1>3, OrYes
<1>5. "yes" \in clauses <=> \E rule \in ListRules(item) : RuleAllows(rule, row)
  BY <1>1
<1>6. (\E rule \in ListRules(item) : RuleAllows(rule, row))
        <=> \E rule \in item.rules : RuleAllows(rule, row)
  BY DEF ListRules, RuleAllows
<1> QED BY <1>4, <1>5, <1>6 DEF matchApiGroupAndKind

\* The clause of the namespaces themselves.
LEMMA NamespacesSelect ==
  ASSUME NEW row, RowOk(row), NEW perms, perms # {}, \A item \in perms : ItemOk(item),
         NEW u, u.perms = perms
  PROVE  /\ matchNamespaces(perms, row) \in {"yes", "no"}
         /\ matchNamespaces(perms, row) = "yes" <=> SeesNamespace(u, row)
<1> DEFINE bindings == UNION {item.bindings : item \in perms}
           some == {b.cluster : b \in bindings}
           whole == BoundClusters(perms)
           named(c) == And({Is(row.cluster = c), Is(row.name \in BoundNamespaces(perms, c))})
           clauses == {named(c) : c \in some \ whole} \cup {Is(row.cluster = c) : c \in whole}
<1>1. matchNamespaces(perms, row) = And({Is(IsNamespace(row)), Or(clauses)})
  BY DEF matchNamespaces
<1>2. \A c : named(c) \in {"yes", "no"}
              /\ (named(c) = "yes" <=> (row.cluster = c /\ row.name \in BoundNamespaces(perms, c)))
  BY DEF And, Is
<1>3. \A c : Is(row.cluster = c) \in {"yes", "no"} /\ (Is(row.cluster = c) = "yes" <=> row.cluster = c)
  BY DEF Is
<1>4. PICK b \in bindings : TRUE
  <2>1. PICK item \in perms : item.bindings # {}
    BY DEF ItemOk
  <2> QED BY <2>1
<1>5. \E x \in clauses : x # "none"
  <2>1. CASE b.cluster \in whole
    <3>1. Is(row.cluster = b.cluster) \in clauses
      BY <2>1
    <3> QED BY <1>3, <3>1
  <2>2. CASE b.cluster \notin whole
    <3>1. b.cluster \in some \ whole
      BY <1>4, <2>2
    <3>2. named(b.cluster) \in clauses
      BY <3>1
    <3>3. named(b.cluster) \in {"yes", "no"}
      BY <1>2
    <3> HIDE DEF named, clauses
    <3> QED BY <3>2, <3>3
  <2> QED BY <2>1, <2>2
<1>6. Or(clauses) \in {"yes", "no"} /\ (Or(clauses) = "yes" <=> "yes" \in clauses)
  <2> HIDE DEF clauses
  <2> QED BY <1>5, OrYes
<1>7. "yes" \in clauses <=>
        \/ row.cluster \in whole
        \/ row.cluster \in some \ whole /\ row.name \in BoundNamespaces(perms, row.cluster)
  <2>1. "yes" \in clauses <=> \/ \E c \in some \ whole : named(c) = "yes"
                             \/ \E c \in whole : Is(row.cluster = c) = "yes"
    BY DEF clauses
  <2> HIDE DEF named, some, whole, clauses
  <2> QED BY <1>2, <1>3, <2>1
<1> DEFINE binds(c) == /\ c.cluster = row.cluster
                       /\ c.scope = "cluster" \/ c.namespaces \cap {row.name, "*"} # {}
<1>8. (\/ row.cluster \in whole
       \/ row.cluster \in some \ whole /\ row.name \in BoundNamespaces(perms, row.cluster))
      <=> \E c \in bindings : binds(c)
  <2>1. row.cluster \in whole <=>
          \E c \in bindings : c.cluster = row.cluster /\ (c.scope = "cluster" \/ "*" \in c.namespaces)
    BY DEF BoundClusters
  <2>2. row.name \in BoundNamespaces(perms, row.cluster) <=>
          \E c \in bindings : c.cluster = row.cluster /\ row.name \in c.namespaces
    BY DEF BoundNamespaces
  <2>3. row.cluster \in some <=> \E c \in bindings : c.cluster = row.cluster
    OBVIOUS
  <2> HIDE DEF bindings, some, whole
  <2> QED BY <2>1, <2>2, <2>3
<1>9. (IsNamespace(row) /\ \E c \in bindings : binds(c)) <=> SeesNamespace(u, row)
  <2>1. (\E c \in bindings : binds(c)) <=> \E item \in perms : \E c \in item.bindings : binds(c)
    <3> HIDE DEF binds
    <3> QED OBVIOUS
  <2> QED BY <2>1 DEF SeesNamespace
<1>10. Is(IsNamespace(row)) \in {"yes", "no"} /\ (Is(IsNamespace(row)) = "yes" <=> IsNamespace(row))
  BY DEF Is
<1> HIDE DEF bindings, some, whole, named, clauses, binds
<1>11. /\ And({Is(IsNamespace(row)), Or(clauses)}) \in {"yes", "no"}
       /\ And({Is(IsNamespace(row)), Or(clauses)}) = "yes" <=> (IsNamespace(row) /\ Or(clauses) # "no")
  BY <1>10, AndYes
<1> QED BY <1>1, <1>6, <1>7, <1>8, <1>9, <1>11

\* The clause of the fine-grained permissions.
LEMMA FineGrainedSelect ==
  ASSUME NEW row, RowOk(row), NEW u, ~u.admin, u.perms # {}, \A item \in u.perms : ItemOk(item)
  PROVE  /\ matchFineGrainedRbac(u.perms, row) \in {"yes", "no"}
         /\ matchFineGrainedRbac(u.perms, row) = "yes" <=>
              (CheckUserHasAccess(u, "list", row) \/ SeesNamespace(u, row))
<1> DEFINE places(item) == matchClusterAndNamespaces(item, row)
           rules(item) == matchApiGroupAndKind(item, row)
           clause(item) == And({places(item), rules(item)})
           clauses == {clause(item) : item \in u.perms} \cup {matchNamespaces(u.perms, row)}
<1>1. ASSUME NEW item \in u.perms
      PROVE  clause(item) = "yes" <=>
               /\ \E b \in item.bindings :
                    /\ b.cluster = row.cluster
                    /\ b.scope = "cluster" \/ b.namespaces \cap {row.ns, "*"} # {}
               /\ \E rule \in item.rules : RuleAllows(rule, row)
  <2>1. clause(item) = "yes" <=> (places(item) = "yes" /\ rules(item) # "no")
    <3>1. places(item) \in {"yes", "no"}
      BY PlacesSelect
    <3> QED BY <3>1, AndYes
  <2>2. rules(item) # "no" <=> \E rule \in item.rules : RuleAllows(rule, row)
    BY RulesSelect
  <2>3. places(item) = "yes" <=> \E b \in item.bindings :
                                   /\ b.cluster = row.cluster
                                   /\ b.scope = "cluster" \/ b.namespaces \cap {row.ns, "*"} # {}
    BY PlacesSelect
  <2> HIDE DEF places, rules, clause
  <2> QED BY <2>1, <2>2, <2>3
<1>2. /\ matchNamespaces(u.perms, row) \in {"yes", "no"}
      /\ matchNamespaces(u.perms, row) = "yes" <=> SeesNamespace(u, row)
  BY NamespacesSelect
<1>3. matchNamespaces(u.perms, row) \in clauses /\ matchNamespaces(u.perms, row) # "none"
  BY <1>2
<1>4. Or(clauses) \in {"yes", "no"} /\ (Or(clauses) = "yes" <=> "yes" \in clauses)
  <2> HIDE DEF clauses
  <2> QED BY <1>3, OrYes
<1>5. "yes" \in clauses <=> \/ \E item \in u.perms : clause(item) = "yes"
                           \/ matchNamespaces(u.perms, row) = "yes"
  <2> HIDE DEF clause
  <2> QED OBVIOUS
<1>6. matchFineGrainedRbac(u.perms, row) = Or(clauses)
  BY DEF matchFineGrainedRbac
<1>7. CheckUserHasAccess(u, "list", row) <=> \E item \in u.perms : clause(item) = "yes"
  <2> HIDE DEF clause
  <2> QED BY <1>1 DEF CheckUserHasAccess, RuleAllows
<1> HIDE DEF clause, clauses
<1> QED BY <1>2, <1>4, <1>5, <1>6, <1>7

\* The clause of the managed clusters, without the fine-grained permissions.
LEMMA ManagedSelect ==
  ASSUME NEW row, RowOk(row), NEW clusters, "*" \in clusters => clusters = {"*"}
  PROVE  /\ matchManagedCluster(clusters, row) \in {"yes", "no"}
         /\ matchManagedCluster(clusters, row) = "yes" <=>
              (row.cluster \in clusters \/ ("*" \in clusters /\ row.cluster # HubCluster))
BY DEF matchManagedCluster, Is, RowOk

(***************************************************************************)
(* The clause that buildRbacWhereClause makes of a user's data selects     *)
(* the rows the user may list, whatever the data, the row and the feature. *)
(***************************************************************************)
THEOREM ClauseExact ==
  ASSUME NEW u, UserDataOk(u), NEW fine \in BOOLEAN, NEW row, RowOk(row)
  PROVE  Selected(u, fine, row) <=> MayList(u, fine, row)
<1>1. CASE u.admin
  BY <1>1 DEF Selected, buildRbacWhereClause, MayList
<1>2. CASE ~u.admin
  <2> DEFINE hub == matchHubClusterRbac(u, row)
  <2>1. hub \in {"yes", "no"} /\ (hub = "yes" <=> MayListOnHub(u, row))
    BY <1>2, HubSelect
  <2>2. CASE fine /\ u.perms = {}
    <3>1. ~CheckUserHasAccess(u, "list", row) /\ ~SeesNamespace(u, row)
      BY <1>2, <2>2 DEF CheckUserHasAccess, SeesNamespace
    <3>2. Selected(u, fine, row) <=> hub # "no"
      BY <1>2, <2>2 DEF Selected, buildRbacWhereClause
    <3> HIDE DEF hub
    <3> QED BY <1>2, <2>1, <2>2, <3>1, <3>2 DEF MayList, MayListInFleet
  <2>3. CASE ~(fine /\ u.perms = {})
    <3> DEFINE fleet == IF fine THEN matchFineGrainedRbac(u.perms, row)
                        ELSE matchManagedCluster(u.clusters, row)
    <3>1. fleet \in {"yes", "no"} /\ (fleet = "yes" <=> MayListInFleet(u, fine, row))
      <4>1. CASE fine
        BY <1>2, <2>3, <4>1, FineGrainedSelect DEF UserDataOk, MayListInFleet
      <4>2. CASE ~fine
        BY <1>2, <4>2, ManagedSelect DEF UserDataOk, MayListInFleet
      <4> QED BY <4>1, <4>2
    <3>2. buildRbacWhereClause(u, fine, row) = Or({hub, fleet})
      BY <1>2, <2>3 DEF buildRbacWhereClause
    <3> HIDE DEF hub, fleet
    <3>3. Or({hub, fleet}) # "no" <=> (hub = "yes" \/ fleet = "yes")
      BY <2>1, <3>1 DEF Or, Is
    <3> QED BY <1>2, <2>1, <3>1, <3>2, <3>3 DEF Selected, MayList
  <2> QED BY <2>2, <2>3
<1> QED BY <1>1, <1>2
=============================================================================
