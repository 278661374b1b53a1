--------------------------- MODULE MCTunnelSystem ---------------------------
(***************************************************************************)
(* Instances of TunnelSystem.tla for TLC.                                  *)
(***************************************************************************)
EXTENDS TunnelSystem, TLC

CONSTANTS c1, c2, ch1, ch2, ch3

Symmetry == Permutations({c1, c2}) \cup Permutations({ch1, ch2, ch3})

NoFaults  == {}
Lossy     == {"loss", "resend"}
Impatient == {"loss", "resend", "timeout"}
Patient   == {"loss", "timeout"}
=============================================================================
