------------------------------ MODULE MCTunnel ------------------------------
(***************************************************************************)
(* Instances of Tunnel.tla for TLC.  Payloads and calls only ever compare  *)
(* for equality, and so do channels: the sets are symmetric.               *)
(***************************************************************************)
EXTENDS Tunnel, TLC

CONSTANTS c1, c2, ch1, ch2, t1

Symmetry == Permutations({c1, c2}) \cup Permutations({ch1, ch2})

(* Every fault, and every fault but those that the run does not need.      *)
AllFaults == FaultKinds
Patient   == {"loss", "timeout"}
=============================================================================
