------------------------------ MODULE Relations ------------------------------
(***************************************************************************)
(* The resources related to the results of a search (related.go): one      *)
(* recursive statement over the edges between resources, which returns the *)
(* uids, kinds and paths of what it reaches; then one over the resources.  *)
(*                                                                         *)
(* An edge is [source, dest, sourcekind, destkind, cluster]. A row is that *)
(* of SearchFilters with its uid and kind. ClusterUid is the uid of the    *)
(* row that stands for a cluster (cluster__<name>).                        *)
(***************************************************************************)
EXTENDS SearchFilters

CONSTANTS ClusterUid, RelationLevel

\* The configured level is a number of steps, 0 where none is configured.
ASSUME RelationAssumption == RelationLevel \in Nat

Application == "application"

\* How far to go: the configured level, 3 for an Application, or else 1.
setDepth(input) ==
  LET application ==
        \/ \E i \in DOMAIN input.filters : \E v \in input.filters[i].values :
             v.op = "=" /\ ~v.star /\ Fold(v.operand) = Application
        \/ \E kind \in input.relatedKinds : Fold(kind) = Application
  IN IF RelationLevel # 0 THEN RelationLevel ELSE IF application THEN 3 ELSE 1

Ends(e) == {e.source, e.dest}

\* Everything is on a node, so that the recursion does not go through one.
Followed(e) == {e.sourcekind, e.destkind} \cap {"Node", "Channel"} = {}

\* The path of whatever the recursion reaches is that of the edge it began with.
Reached(edges, uids, depth) ==
  LET graph[n \in 1 .. depth] ==
        IF n = 1
        THEN {[edge |-> e, path |-> <<e.source, e.dest>>] :
                e \in {e \in edges : Ends(e) \cap uids # {}}}
        ELSE graph[n - 1] \cup
             {[edge |-> p[2], path |-> p[1].path] :
                p \in {p \in graph[n - 1] \X edges :
                         Followed(p[2]) /\ Ends(p[2]) \cap Ends(p[1].edge) # {}}}
  IN graph[depth]

\* Mutant: the cluster left out.
combineEnds(g) ==
  {[uid |-> g.edge.source, kind |-> g.edge.sourcekind, path |-> g.path],
   [uid |-> g.edge.dest, kind |-> g.edge.destkind, path |-> g.path]}

\* An edge relates its ends, and the cluster it is in.
combineIds(g) ==
  {[uid |-> g.edge.source, kind |-> g.edge.sourcekind, path |-> g.path],
   [uid |-> g.edge.dest, kind |-> g.edge.destkind, path |-> g.path],
   [uid |-> ClusterUid[g.edge.cluster], kind |-> "Cluster", path |-> g.path]}

\* No edge joins a cluster to what it has: its resources are added as such,
\* the ones searched for among them.
selectIfClusterUIDPresent(rows, uids) ==
  {[uid |-> row.uid, kind |-> row.kind, path |-> <<>>] :
     row \in {row \in rows : ClusterUid[row.cluster] \in uids}}

\* visible are the rows that the clause of the statement selects.
buildRelationsQuery(edges, rows, uids, depth, visible) ==
  LET reached == UNION {combineIds(g) : g \in Reached(edges, uids, depth)}
      related == {r \in reached : r.uid \notin uids} \cup selectIfClusterUIDPresent(rows, uids)
  IN {r \in related : \E row \in visible : row.uid = r.uid}

\* The uids of the wanted kinds, or all of them.
filterRelatedUIDs(relations, relatedKinds) ==
  {r.uid : r \in {r \in relations :
     relatedKinds = {} \/ Fold(r.kind) \in {Fold(kind) : kind \in relatedKinds}}}

\* By related uid, the searched ones: the first of those on each of its paths.
FirstIn(path, uids) ==
  IF path = <<>> THEN {}
  ELSE IF path[1] \in uids THEN {path[1]} ELSE {path[2]} \cap uids

updResultToCurrSearchUidsMap(relations, uids) ==
  [uid \in {r.uid : r \in relations} |->
     UNION {FirstIn(r.path, uids) : r \in {r \in relations : r.uid = uid}}]

\* The items by kind, each with the uids it is related to.
searchRelatedResultKindItems(items, relatedUids) ==
  {[kind |-> kind,
    items |-> {[uid |-> row.uid, relatedUids |-> relatedUids[row.uid]] :
                 row \in {row \in items : row.kind = kind}}] :
     kind \in {row.kind : row \in items}}
=============================================================================
