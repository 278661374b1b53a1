------------------------------ MODULE MCSocket ------------------------------
(***************************************************************************)
(* Instances of Socket.tla for TLC.                                        *)
(***************************************************************************)
EXTENDS Socket
=============================================================================
