----------------------------- MODULE MCListener -----------------------------
(***************************************************************************)
(* Instances of Listener for TLC: the watches come over WebSocket          *)
(* connections of their own, or share one and with it a subscription ID.   *)
(***************************************************************************)
EXTENDS Listener

CONSTANTS w1, w2, w3, c1, c2, c3, l1, l2

SharedIdOf   == [w \in Watches |-> c1]
DistinctIdOf == [w \in Watches |-> CASE w = w1 -> c1 [] w = w2 -> c2 [] w = w3 -> c3]

=============================================================================
