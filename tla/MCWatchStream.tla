--------------------------- MODULE MCWatchStream ---------------------------
(***************************************************************************)
(* An instance of WatchStream for TLC: one watch, which wants one of two   *)
(* resources.  Watches do not interact in this module.                     *)
(***************************************************************************)
EXTENDS WatchStream

CONSTANTS w1, u1, u2

WantsU1 == [w \in Watches |-> {u1}]
=============================================================================
