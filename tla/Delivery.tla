------------------------------ MODULE Delivery ------------------------------
(***************************************************************************)
(* What a tunnel promises the two who communicate over it, without frames, *)
(* connections, sequence numbers and timers:                               *)
(*                                                                         *)
(*   - a telegram of the gateway is handed to the application once at      *)
(*     most, over Inbound() or a goroutine that holds it until the tunnel  *)
(*     ends; it is acknowledged only after that (tunnel.go, pushInbound,   *)
(*     handleTunnelReq);                                                   *)
(*   - the message of a call of Send is accepted by the gateway once at    *)
(*     most, however often the request is repeated (requestTunnel).        *)
(*                                                                         *)
(* TunnelSystem.tla implements it.                                         *)
(***************************************************************************)
EXTENDS Sequences, Naturals, BagsExt, SequencesExt

CONSTANTS Telegrams, Calls

VARIABLES
  held,          \* bag of telegrams that goroutines hold for the application
  received,      \* telegrams the application has received, in order
  acknowledged,  \* telegrams of which the gateway knows
  ended,         \* the tunnel has ended: what was held is lost
  accepted       \* calls whose message the gateway has accepted, in order

vars == <<held, received, acknowledged, ended, accepted>>

Init ==
  /\ held = EmptyBag /\ received = <<>> /\ acknowledged = {} /\ ended = FALSE
  /\ accepted = <<>>

Handed == BagToSet(held) \cup ToSet(received)

HandOver(t) ==
  /\ ~ended /\ t \notin Handed
  /\ \/ held' = BagAdd(held, t) /\ UNCHANGED received
     \/ received' = Append(received, t) /\ UNCHANGED held
  /\ UNCHANGED <<acknowledged, ended, accepted>>

Receive(t) ==
  /\ BagIn(t, held) /\ held' = BagRemove(held, t) /\ received' = Append(received, t)
  /\ UNCHANGED <<acknowledged, ended, accepted>>

Acknowledge(t) ==
  /\ ended \/ t \in Handed
  /\ acknowledged' = acknowledged \cup {t}
  /\ UNCHANGED <<held, received, ended, accepted>>

End ==
  /\ ~ended /\ ended' = TRUE /\ held' = EmptyBag
  /\ UNCHANGED <<received, acknowledged, accepted>>

Accept(c) ==
  /\ c \notin ToSet(accepted) /\ accepted' = Append(accepted, c)
  /\ UNCHANGED <<held, received, acknowledged, ended>>

Next ==
  \/ \E t \in Telegrams : HandOver(t) \/ Receive(t) \/ Acknowledge(t)
  \/ End \/ \E c \in Calls : Accept(c)

Spec == Init /\ [][Next]_vars
-----------------------------------------------------------------------------
(* The application gets a telegram once at most, and what is acknowledged  *)
(* is not lost before the tunnel ends (handleTunnelReq).                   *)
ReceivedOnce ==
  /\ \A i, j \in DOMAIN received : received[i] = received[j] => i = j
  /\ \A t \in BagToSet(held) : t \notin ToSet(received)
AcknowledgedIsHanded == ~ended => acknowledged \subseteq Handed

(* The gateway accepts the message of a call once at most                  *)
(* (requestTunnel).                                                        *)
AcceptedOnce == \A i, j \in DOMAIN accepted : accepted[i] = accepted[j] => i = j
=============================================================================
