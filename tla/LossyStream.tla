---------------------------- MODULE LossyStream ----------------------------
(***************************************************************************)
(* What a GraphQL watch promises to its client: the changes of the search  *)
(* index arrive in the order they were committed, none of them twice and   *)
(* none that was never committed.  Any change may be missing: it may be    *)
(* filtered out, refused by RBAC, or dropped on the way.                   *)
(***************************************************************************)
EXTENDS Integers, Sequences

CONSTANTS Watches, MaxChanges

VARIABLES
  committed,  \* number of changes committed so far
  received    \* received[w]: numbers of the changes the client of w was sent

Init ==
  /\ committed = 0
  /\ received = [w \in Watches |-> <<>>]

Commit ==
  /\ committed < MaxChanges
  /\ committed' = committed + 1
  /\ UNCHANGED received

Newer(n, s) == s = <<>> \/ n > s[Len(s)]

Deliver(w) ==
  /\ \E n \in 1..committed :
       /\ Newer(n, received[w])
       /\ received' = [received EXCEPT ![w] = Append(@, n)]
  /\ UNCHANGED committed

Next == Commit \/ \E w \in Watches : Deliver(w)

Spec == Init /\ [][Next]_<<committed, received>>
=============================================================================
