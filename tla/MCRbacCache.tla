---------------------------- MODULE MCRbacCache ----------------------------
(***************************************************************************)
(* Instances of RbacCache for TLC: two requests that can overlap.          *)
(***************************************************************************)
EXTENDS RbacCache

CONSTANTS r1, r2, a, b
=============================================================================
