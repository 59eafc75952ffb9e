------------------------------ MODULE MCSearch ------------------------------
(***************************************************************************)
(* An instance of SearchRequest for TLC: the rows of a hub and of a        *)
(* managed cluster, the edges between them, the inputs that take the       *)
(* branches of the clause, and users of each sort.                         *)
(***************************************************************************)
EXTENDS SearchRequest

MCProperties == {"cluster", "managedHub", "kind", "name", "label", "replicas", "created",
                 "rules", "hosted", "_rbac"}

MCType == [p \in MCProperties |->
  CASE p = "label" -> "object" [] p = "rules" -> "array" [] p = "replicas" -> "number"
    [] p = "created" -> "timestamp" [] p = "hosted" -> "boolean" [] OTHER -> "string"]

Ranked == <<"", "1", "3", "10", "t1", "t2", "t5", "api", "Deployment", "local", "c1", "web">>
Rank(v) == IF \E i \in DOMAIN Ranked : Ranked[i] = v
           THEN CHOOSE i \in DOMAIN Ranked : Ranked[i] = v ELSE 0
MCBefore(v, w) == Rank(v) > 0 /\ Rank(v) < Rank(w)

Patterns == {<<"w*", "web">>, <<"app:*", "app=web">>, <<"app:*", "app=api">>, <<"g*", "get">>,
             <<"g*", "get2">>, <<"web", "web">>, <<"web", "app=web">>, <<"app", "app=web">>,
             <<"app", "app=api">>, <<"hub*", "hub1">>}
MCLike(pattern, v) == <<pattern, v>> \in Patterns

MCFold(v) == CASE v = "Pod" -> "pod" [] v = "Deployment" -> "deployment"
               [] v = "Application" -> "application" [] v = "Cluster" -> "cluster"
               [] v = "Node" -> "node" [] OTHER -> v
MCLower == {"pod", "deployment"}
MCLabels == {"app=web", "app=api", "tier=front"}
MCSince(operand) == IF operand = "day" THEN "t2" ELSE ""

\* Rows.
Data(kind, f) ==
  [p \in MCProperties |->
     CASE p \in DOMAIN f -> f[p] [] p = "kind" -> {kind} [] OTHER -> {}]

Row(uid, kind, cluster, hub, ns, group, plural, name, f) ==
  [uid |-> uid, kind |-> kind, cluster |-> cluster, hub |-> hub, ns |-> ns, group |-> group,
   plural |-> plural, name |-> name,
   data |-> [Data(kind, f) EXCEPT !["cluster"] = {cluster}, !["name"] = {name}]]

application == Row("a1", "Application", "local", TRUE, "n1", "app", "applications", "web",
                   [label |-> {"app=web"}, created |-> {"t1"}])
deployment == Row("d1", "Deployment", "local", TRUE, "n1", "apps", "deployments", "web",
                  [label |-> {"app=web", "tier=front"}, created |-> {"t5"}, replicas |-> {"3"}])
managed == Row("d2", "Deployment", "c1", FALSE, "n1", "apps", "deployments", "api",
               [label |-> {"app=api"}, created |-> {"t5"}, replicas |-> {"10"}, hosted |-> {"true"}])
pod == Row("p1", "Pod", "c1", FALSE, "n2", None, "pods", "web", [label |-> {"app=web"}])
node == Row("o1", "Node", "c1", FALSE, None, None, "nodes", "n", [name |-> {"n"}])
namespace == Row("s1", "Namespace", "c1", FALSE, None, None, "namespaces", "n1", [created |-> {"t2"}])
role == Row("c0", "ClusterRole", "local", TRUE, None, "rbac", "clusterroles", "api",
            [rules |-> {"get", "list"}, _rbac |-> {"x"}])
cluster == Row("cluster__c1", "Cluster", "c1", TRUE, None, "internal", "managedclusterinfos", "c1",
               [label |-> {"tier=front"}])

MCRows == {application, deployment, managed, pod, node, namespace, role, cluster}
MCDatabases == {MCRows, MCRows \ {deployment, role}, {pod, managed}}

MCClusterUid == [c \in {"local", "c1"} |-> IF c = "c1" THEN "cluster__c1" ELSE "cluster__local"]

Edge(r1, r2) == [source |-> r1.uid, dest |-> r2.uid, sourcekind |-> r1.kind, destkind |-> r2.kind,
                 cluster |-> r1.cluster]
MCEdges == {Edge(application, deployment), Edge(deployment, managed), Edge(managed, node),
            Edge(pod, node), Edge(managed, namespace)}

\* Users.
Nobody == [admin |-> FALSE, cs |-> {}, ns |-> [n \in {} |-> {}], clusters |-> {}, perms |-> {}]
Admin == [Nobody EXCEPT !.admin = TRUE]
OnHub == [Nobody EXCEPT !.cs = {[group |-> "rbac", plural |-> "clusterroles"]},
                        !.ns = [n \in {"n1"} |-> {[group |-> "*", plural |-> "deployments"]}]]
Fleet == [OnHub EXCEPT
  !.clusters = {"c1"},
  !.perms = {[bindings |-> {[cluster |-> "c1", scope |-> "namespace", namespaces |-> {"n1"}]},
              rules |-> {[groups |-> {"apps", ""}, plurals |-> {"deployments"},
                          verbs |-> {"list", "watch"}]}],
             [bindings |-> {[cluster |-> "c1", scope |-> "cluster", namespaces |-> {}]},
              rules |-> {[groups |-> {""}, plurals |-> {"pods"}, verbs |-> {"list"}],
                         [groups |-> {"*"}, plurals |-> {"nodes"}, verbs |-> {"get"}]}]}]
MCUsers == {None, Admin, OnHub, Fleet, Nobody}

\* Inputs.
V(op, operand) == [op |-> op, operand |-> operand, star |-> FALSE]
Star(op, operand) == [op |-> op, operand |-> operand, star |-> TRUE]
F(property, values) == [property |-> property, values |-> values]
In(filters) == [filters |-> filters, keywords |-> {}, relatedKinds |-> {}, limit |-> -1,
                offset |-> None, order |-> None]
All == {"count", "items", "related"}
Ask(fields, in) == [op |-> "search", fields |-> fields, input |-> in, property |-> None]
Complete(property, in) == [op |-> "complete", fields |-> {}, input |-> in, property |-> property]
Schema(in) == [op |-> "schema", fields |-> {}, input |-> in, property |-> None]

KindIs(k) == F("kind", {V("=", k)})

MCRequests ==
  {Ask(All, In(<<KindIs("deployment")>>)),
   Ask(All, In(<<F("kind", {V("=", "Pod"), V("=", "Node")})>>)),
   Ask({"related"}, [In(<<KindIs("Application")>>) EXCEPT !.relatedKinds = {"pod", "deployment"}]),
   Ask({"related"}, In(<<KindIs("Application")>>)),
   Ask({"items", "related"}, In(<<KindIs("Cluster")>>)),
   Ask({"items", "count"}, In(<<F("label", {V("=", "app=web")}), F("name", {Star("=", "w*")})>>)),
   Ask({"items"}, In(<<F("label", {Star("!", "app:*")})>>)),
   Ask({"items"}, In(<<F("label", {V("!=", "app=web")})>>)),
   Ask({"items"}, In(<<F("label", {V("=", "web")})>>)),
   Ask({"items", "count"}, In(<<F("replicas", {V(">=", "3"), V(">=", "10")})>>)),
   Ask({"items", "count"}, In(<<F("replicas", {V("<", "10"), V("!", "3")})>>)),
   Ask({"items"}, In(<<F("created", {V("=", "day")}), F("name", {V("!", "api")})>>)),
   Ask({"items", "count"}, In(<<F("created", {V("<=", "t2")})>>)),
   Ask({"items", "count"}, In(<<F("rules", {Star("=", "g*")})>>)),
   Ask({"items"}, In(<<F("rules", {V("=", "list")}), F("hosted", {V("=", "true")})>>)),
   Ask({"items"}, In(<<F("name", {V("!=", "api"), V("!=", "web")}), F("kind", {})>>)),
   Ask({"items"}, In(<<F("name", {Star("!", "w*")}), F("cluster", {V("=", "c1")})>>)),
   Ask({"count", "items"}, [In(<<>>) EXCEPT !.keywords = {"web"}]),
   Ask({"count", "related"}, [In(<<KindIs("Pod")>>) EXCEPT !.keywords = {"web", "app"}]),
   Ask({"items"}, [In(<<F("cluster", {V("=", "c1")})>>)
                     EXCEPT !.limit = 2, !.offset = 1, !.order = [property |-> "created", desc |-> TRUE]]),
   Ask({"items"}, [In(<<F("cluster", {V("=", "c1")})>>)
                     EXCEPT !.limit = None, !.order = [property |-> "uid", desc |-> FALSE]]),
   Ask({"count", "items"}, [In(<<KindIs("Pod")>>) EXCEPT !.offset = -1]),
   Ask({"count", "items"}, [In(<<KindIs("Pod")>>) EXCEPT !.order = BadOrder]),
   Ask(All, In(<<F("managedHub", {V("!", "hub1")}), KindIs("Pod")>>)),
   Ask({"items"}, In(<<F("managedHub", {Star("=", "hub*")}), KindIs("Pod")>>)),
   Ask({"items"}, In(<<>>)),
   Complete("name", In(<<KindIs("deployment")>>)),
   Complete("kind", [In(<<>>) EXCEPT !.keywords = {"web"}]),
   Complete("replicas", In(<<>>)),
   Complete("created", In(<<F("label", {V("=", "web")})>>)),
   Complete("label", [In(<<F("cluster", {V("=", "c1")})>>) EXCEPT !.limit = 1]),
   Complete("managedHub", In(<<>>)),
   Complete("", In(<<>>)),
   Schema(In(<<>>)),
   Schema(In(<<KindIs("Pod")>>))}
=============================================================================
