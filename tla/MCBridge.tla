------------------------------ MODULE MCBridge ------------------------------
(***************************************************************************)
(* An instance of Bridge.tla for TLC: two telegrams from each side, and a  *)
(* confirmation from the other side, which is not relayed.                 *)
(***************************************************************************)
EXTENDS Bridge

MCOrigin(t) == IF t \in {"a", "b"} THEN "tunnel" ELSE "other"
MCRelayed(t) == t # "con"
=============================================================================
