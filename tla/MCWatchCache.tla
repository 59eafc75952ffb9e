---------------------------- MODULE MCWatchCache ----------------------------
(***************************************************************************)
(* Instances of WatchCache for TLC: two watches of one user, whose groups  *)
(* may change once or never.                                               *)
(***************************************************************************)
EXTENDS WatchCache

CONSTANTS w1, w2, k1, before, after
=============================================================================
