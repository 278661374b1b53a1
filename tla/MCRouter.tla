------------------------------ MODULE MCRouter ------------------------------
(***************************************************************************)
(* An instance of Router.tla for TLC.                                      *)
(***************************************************************************)
EXTENDS Router

CONSTANTS m1, m2, m3, t1
=============================================================================
