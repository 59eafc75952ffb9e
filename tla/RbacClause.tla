----------------------------- MODULE RbacClause -----------------------------
(***************************************************************************)
(* The clause that restricts every statement to what its user may list     *)
(* (rbacHelper.go, rbacFineGrainedHelper.go), beside the predicate it      *)
(* stands for.                                                             *)
(*                                                                         *)
(* A clause is evaluated on one row and is "yes", "no" or "none". "none"   *)
(* is a clause without a condition, such as goqu.Or(): goqu leaves it out  *)
(* of the And, Or or Where it is put in, so that it restricts nothing and  *)
(* adds nothing.                                                           *)
(*                                                                         *)
(* A row has a cluster, hub (it carries _hubClusterResource), its kind and *)
(* name, and a namespace ns, an API group and a plural kind, of which ns   *)
(* and group may be None.                                                  *)
(***************************************************************************)
CONSTANTS
  None,         \* a property the row does not have
  HubCluster    \* the cluster this API runs on

Is(condition) == IF condition THEN "yes" ELSE "no"

And(clauses) ==
  IF clauses \subseteq {"none"} THEN "none" ELSE Is("no" \notin clauses)

Or(clauses) ==
  IF clauses \subseteq {"none"} THEN "none" ELSE Is("yes" \in clauses)

Range1(f) == {f[x] : x \in DOMAIN f}

(***************************************************************************)
(* Hub resources: pairs of an API group ("" for the core group) and a      *)
(* plural kind, each of which may be "*".                                  *)
(***************************************************************************)
Everything == [group |-> "*", plural |-> "*"]

GroupClause(group, row) ==
  IF group = "*" THEN "none"
  ELSE IF group = "" THEN Is(row.group = None) ELSE Is(row.group = group)

PluralClause(plural, row) ==
  IF plural = "*" THEN "none" ELSE Is(row.plural = plural)

matchApigroupKind(resources, row) ==
  IF Everything \in resources THEN "none"
  ELSE Or({And({GroupClause(r.group, row), PluralClause(r.plural, row)}) :
             r \in resources})

matchClusterScopedResources(cs, row) ==
  IF cs = {} THEN "no"
  ELSE IF cs = {Everything} THEN "none"
  ELSE And({Is(row.ns = None), matchApigroupKind(cs, row)})

\* The namespaces with the same resources, and those resources once.
consolidateNsResources(ns) ==
  {[resources |-> R, namespaces |-> {n \in DOMAIN ns : ns[n] = R}] :
     R \in Range1(ns)}

matchNamespacedResources(ns, row) ==
  IF DOMAIN ns \subseteq {"*"} THEN "none"
  ELSE Or({And({Is(row.ns \in g.namespaces), matchApigroupKind(g.resources, row)}) :
             g \in consolidateNsResources(ns)})

matchHubClusterRbac(u, row) ==
  IF u.cs = {} /\ DOMAIN u.ns = {} THEN "no"
  ELSE And({Is(row.hub),
            Or({matchClusterScopedResources(u.cs, row),
                matchNamespacedResources(u.ns, row)})})

matchManagedCluster(clusters, row) ==
  IF clusters = {"*"} THEN Is(row.cluster # HubCluster)
  ELSE Is(row.cluster \in clusters)

(***************************************************************************)
(* Fine-grained permissions: an item binds rules to clusters and           *)
(* namespaces.                                                             *)
(***************************************************************************)
WholeCluster(binding) == binding.scope = "cluster" \/ binding.namespaces = {"*"}

matchClusterAndNamespaces(item, row) ==
  Or({IF WholeCluster(b) THEN Is(row.cluster = b.cluster)
      ELSE And({Is(row.cluster = b.cluster), Is(row.ns \in b.namespaces)}) :
        b \in item.bindings})

\* Mutant: the core group compared as a name.
GroupsClauseByName(groups, row) ==
  IF "*" \in groups THEN "none" ELSE Is(row.group \in groups)

GroupsClause(groups, row) ==
  IF "*" \in groups THEN "none"
  ELSE Is(row.group \in groups \/ ("" \in groups /\ row.group = None))

\* Only resources: the names of sub-resources are not in the database.
PluralsClause(rule, row) ==
  IF "*" \in rule.plurals THEN "none" ELSE Is(row.plural \in rule.plurals)

\* A rule whose resources are all sub-resources adds nothing.
RuleClause(rule, row) ==
  IF "*" \in rule.groups \cap rule.plurals THEN "yes"
  ELSE IF rule.plurals = {} THEN "none"
  ELSE And({GroupsClause(rule.groups, row), PluralsClause(rule, row)})

ListRules(item) == {rule \in item.rules : rule.verbs \cap {"list", "*"} # {}}

matchApiGroupAndKind(item, row) ==
  Or({RuleClause(rule, row) : rule \in ListRules(item)})

\* Clusters bound as a whole; the namespaces bound one by one in the others.
BoundClusters(perms) ==
  {b.cluster : b \in {b \in UNION {item.bindings : item \in perms} :
                        b.scope = "cluster" \/ "*" \in b.namespaces}}

BoundNamespaces(perms, cluster) ==
  UNION {b.namespaces : b \in {b \in UNION {item.bindings : item \in perms} :
                                 b.cluster = cluster}}

IsNamespace(row) == row.group = None /\ row.kind = "Namespace"

matchNamespaces(perms, row) ==
  LET some == {b.cluster : b \in UNION {item.bindings : item \in perms}}
      whole == BoundClusters(perms)
  IN And({Is(IsNamespace(row)),
          Or({And({Is(row.cluster = c), Is(row.name \in BoundNamespaces(perms, c))}) :
                c \in some \ whole}
             \cup {Is(row.cluster = c) : c \in whole})})

matchFineGrainedRbac(perms, row) ==
  Or({And({matchClusterAndNamespaces(item, row), matchApiGroupAndKind(item, row)}) :
        item \in perms}
     \cup {matchNamespaces(perms, row)})

(***************************************************************************)
(* A user's data: admin, cs (his cluster-scoped resources of the hub), ns  *)
(* (the others, by namespace), clusters, and perms. fine is the feature    *)
(* FineGrainedRbac.                                                        *)
(***************************************************************************)
buildRbacWhereClause(u, fine, row) ==
  IF u.admin THEN "none"
  ELSE IF fine /\ u.perms = {} THEN matchHubClusterRbac(u, row)
  ELSE Or({matchHubClusterRbac(u, row),
           IF fine THEN matchFineGrainedRbac(u.perms, row)
           ELSE matchManagedCluster(u.clusters, row)})

Selected(u, fine, row) == buildRbacWhereClause(u, fine, row) # "no"

(***************************************************************************)
(* What the user may list.                                                 *)
(***************************************************************************)
GroupOf(row) == IF row.group = None THEN "" ELSE row.group

Allows(r, row) == r.group \in {"*", GroupOf(row)} /\ r.plural \in {"*", row.plural}

MayListOnHub(u, row) ==
  /\ row.hub
  /\ IF row.ns = None THEN \E r \in u.cs : Allows(r, row)
     ELSE \E n \in DOMAIN u.ns \cap {"*", row.ns} : \E r \in u.ns[n] : Allows(r, row)

\* Mutant: a rule with any verb and group.
CheckUserHasAnyVerb(u, verb, row) ==
  \/ u.admin
  \/ \E item \in u.perms :
       /\ \E b \in item.bindings :
            /\ b.cluster = row.cluster
            /\ b.scope = "cluster" \/ b.namespaces \cap {row.ns, "*"} # {}
       /\ \E rule \in item.rules : rule.plurals \cap {row.plural, "*"} # {}

CheckUserHasAccess(u, verb, row) ==
  \/ u.admin
  \/ \E item \in u.perms :
       /\ \E b \in item.bindings :
            /\ b.cluster = row.cluster
            /\ b.scope = "cluster" \/ b.namespaces \cap {row.ns, "*"} # {}
       /\ \E rule \in item.rules :
            /\ rule.verbs \cap {verb, "*"} # {}
            /\ rule.groups \cap {GroupOf(row), "*"} # {}
            /\ rule.plurals \cap {row.plural, "*"} # {}

\* A namespace a user has a role in is shown to him, whatever the role.
SeesNamespace(u, row) ==
  /\ IsNamespace(row)
  /\ \E item \in u.perms : \E b \in item.bindings :
       /\ b.cluster = row.cluster
       /\ b.scope = "cluster" \/ b.namespaces \cap {row.name, "*"} # {}

MayListInFleet(u, fine, row) ==
  IF fine THEN CheckUserHasAccess(u, "list", row) \/ SeesNamespace(u, row)
  ELSE row.cluster \in u.clusters \/ ("*" \in u.clusters /\ row.cluster # HubCluster)

MayList(u, fine, row) ==
  u.admin \/ MayListOnHub(u, row) \/ MayListInFleet(u, fine, row)

(***************************************************************************)
(* The data the caches make. Access to everything is that of an            *)
(* administrator; the cluster-scoped resources are names from the          *)
(* database; a namespace without resources has no entry. An item of the    *)
(* permissions binds something and has a rule that lists a resource: of    *)
(* one that does not, the clause keeps only the places, or only the rules. *)
(***************************************************************************)
ItemOk(item) ==
  /\ item.bindings # {}
  /\ \A b \in item.bindings : /\ b.scope \in {"cluster", "namespace"}
                              /\ "*" \in b.namespaces => b.namespaces = {"*"}
                              /\ None \notin b.namespaces
  /\ \E rule \in ListRules(item) : rule.plurals # {}
  /\ \A rule \in item.rules : None \notin rule.groups

ResourceOk(r) == r = [group |-> r.group, plural |-> r.plural] /\ r.group # None

UserDataOk(u) ==
  ~u.admin =>
    /\ \A r \in u.cs : ResourceOk(r) /\ r.group # "*" /\ r.plural # "*"
    /\ DOMAIN u.ns \cap {"*", None} = {}
    /\ \A n \in DOMAIN u.ns : u.ns[n] # {} /\ \A r \in u.ns[n] : ResourceOk(r)
    /\ "*" \in u.clusters => u.clusters = {"*"}
    /\ \A item \in u.perms : ItemOk(item)

\* None is no string, "*" no name of a cluster or a kind, "" no API group.
RowOk(row) ==
  /\ row.cluster # "*" /\ row.plural # "*" /\ row.ns # "*" /\ row.name # "*"
  /\ row.group \notin {"", "*"}

=============================================================================
