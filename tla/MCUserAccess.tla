---------------------------- MODULE MCUserAccess ----------------------------
(***************************************************************************)
(* An instance of UserAccess for TLC: two callers of every sort. The core  *)
(* group is the first of the rule's two or three API groups, as in the     *)
(* roles of Kubernetes.                                                    *)
(***************************************************************************)
EXTENDS UserAccess

CONSTANTS c1, c2

MCOps == [c \in Callers |-> IF c = c1 THEN {"search", "subscribe"} ELSE {"messages"}]
TwoGroups == <<"", "apps">>
ThreeGroups == <<"", "apps", "batch">>
=============================================================================
