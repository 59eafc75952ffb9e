---------------------------- MODULE MCFederation ----------------------------
(***************************************************************************)
(* An instance of Federation for TLC: two clients, the local service and   *)
(* one hub of an older version.                                            *)
(***************************************************************************)
EXTENDS Federation

CONSTANTS q1, q2, h1

Kind(count, items) == [count |-> count, items |-> items]

MCHeld == [n \in Names |->
  IF n = Local
  THEN [search |-> <<[count |-> 2, items |-> {"a", "b"},
                      related |-> [pod |-> Kind(1, {"c"}), node |-> Kind(1, {"d"})]]>>,
        complete |-> <<"x", "y">>, schema |-> <<"kind", "name">>, messages |-> <<"m">>]
  ELSE [search |-> <<[count |-> 1, items |-> {"a"}, related |-> [pod |-> Kind(1, {"c"})]]>>,
        complete |-> <<"y", "z">>, schema |-> <<"managedHub", "name", "label">>,
        messages |-> <<"m">>]]

Ask(op, query, input) == [op |-> op, filtered |-> op = "schema", query |-> query, input |-> input]

MCInputs == [q \in Callers |->
  IF q = q1 THEN {Ask("search", None, <<{}>>)}
  ELSE {Ask("schema", {}, <<>>), Ask("complete", {h1}, <<>>)}]
=============================================================================
