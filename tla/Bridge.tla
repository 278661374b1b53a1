------------------------------- MODULE Bridge -------------------------------
(***************************************************************************)
(* knxctl bridge (cmd/knxctl/bridge.go): one goroutine connects a tunnel   *)
(* and a second endpoint, a tunnel or a router, relays L_Data.ind between  *)
(* them one at a time, and starts again when either of them fails.         *)
(*                                                                         *)
(* A client is as Tunnel.tla and Router.tla leave it: what it receives is  *)
(* held by goroutines of pushInbound, in no order; it may end, which loses *)
(* them; Send returns, and an error does not tell whether the message was  *)
(* transmitted; Close returns.                                             *)
(***************************************************************************)
EXTENDS Naturals, Sequences

CONSTANTS
  Telegrams,   \* messages received by either side, each once
  Origin(_),   \* Origin(t): the side that receives t
  Relayed(_),  \* Relayed(t): t is an L_Data.ind
  MaxRestarts  \* bound: times the loop starts again

Sides == {"tunnel", "other"}
Across(side) == IF side = "tunnel" THEN "other" ELSE "tunnel"

ASSUME BridgeAssumption ==
  /\ \A t \in Telegrams : Origin(t) \in Sides /\ Relayed(t) \in BOOLEAN
  /\ MaxRestarts \in Nat

Nothing == "nothing"
ASSUME NothingAssumption == Nothing \notin Telegrams

VARIABLES
  at,        \* where the goroutine is
  msg,       \* the message it is relaying
  restarts,  \* how often the loop has started again
  open,      \* open[s]: clients of the side s that have not been closed
  up,        \* up[s]: the inbound channel of its client is open
  waiting,   \* messages held by the clients' goroutines
  arrived,   \* messages received so far
  sent       \* messages transmitted by the clients, in order

vars == <<at, msg, restarts, open, up, waiting, arrived, sent>>
netVars == <<arrived, waiting, up>>

TypeOK ==
  /\ at \in {"tunnel", "other", "undo", "serve", "relay", "close", "closeOther", "sleep"}
  /\ msg \in Telegrams \cup {Nothing} /\ (msg # Nothing) = (at = "relay")
  /\ restarts \in 0..MaxRestarts
  /\ open \in [Sides -> Nat] /\ up \in [Sides -> BOOLEAN]
  /\ waiting \subseteq arrived /\ arrived \subseteq Telegrams
  /\ sent \in Seq(Telegrams)

Init ==
  /\ at = "tunnel" /\ msg = Nothing /\ restarts = 0
  /\ open = [s \in Sides |-> 0] /\ up = [s \in Sides |-> FALSE]
  /\ waiting = {} /\ arrived = {} /\ sent = <<>>
-----------------------------------------------------------------------------
(* newBridge.                                                              *)

Connects(side, next) ==
  /\ at' = next
  /\ open' = [open EXCEPT ![side] = @ + 1] /\ up' = [up EXCEPT ![side] = TRUE]
  /\ UNCHANGED <<msg, restarts, waiting, arrived, sent>>

Fails(next) ==
  at' = next /\ UNCHANGED <<msg, restarts, open, netVars, sent>>

ConnectTunnel == at = "tunnel" /\ (Connects("tunnel", "other") \/ Fails("sleep"))

(* Mutant: the error path forgets the first tunnel.                        *)
OtherFailed_sleeps == "sleep"

OtherFailed == "undo"

(* The address may not resolve, or the second connection fails.            *)
ConnectOther == at = "other" /\ (Connects("other", "serve") \/ Fails(OtherFailed))

(* Close of the client of a side: its goroutines are left with nothing.    *)
Close(side, next) ==
  /\ at' = next
  /\ open' = [open EXCEPT ![side] = @ - 1] /\ up' = [up EXCEPT ![side] = FALSE]
  /\ waiting' = {t \in waiting : Origin(t) # side}
  /\ UNCHANGED <<msg, restarts, arrived, sent>>

Undo == at = "undo" /\ Close("tunnel", "sleep")
-----------------------------------------------------------------------------
(* serve.                                                                  *)

(* A message is taken from either side; only L_Data.ind is relayed.        *)
Take(t) ==
  /\ at = "serve" /\ t \in waiting /\ waiting' = waiting \ {t}
  /\ IF Relayed(t) THEN at' = "relay" /\ msg' = t ELSE UNCHANGED <<at, msg>>
  /\ UNCHANGED <<restarts, open, up, arrived, sent>>

(* Mutant: a message that could not be sent is tried again at once.        *)
AfterError_again == at' = "relay" /\ UNCHANGED msg

(* Mutant: the message is kept over the error.                             *)
AfterError_kept == at' = "close" /\ UNCHANGED msg

(* An error ends serve; the message is not sent again.                     *)
AfterError == at' = "close" /\ msg' = Nothing

(* relay, or Send to the tunnel: while it waits nothing else is relayed.   *)
Relay ==
  /\ at = "relay"
  /\ \/ up[Across(Origin(msg))] /\ sent' = Append(sent, msg) /\ at' = "serve" /\ msg' = Nothing
     \/ sent' \in {sent, Append(sent, msg)} /\ AfterError
  /\ UNCHANGED <<restarts, open, netVars>>

(* Mutant: only the end of the tunnel is noticed.                          *)
Noticed_tunnel == {"tunnel"}

Noticed == Sides

(* An inbound channel is found closed.                                     *)
Ended ==
  /\ at = "serve" /\ \E s \in Noticed : ~up[s]
  /\ at' = "close" /\ UNCHANGED <<msg, restarts, open, netVars, sent>>

CloseTunnel == at = "close" /\ Close("tunnel", "closeOther")
CloseOther == at = "closeOther" /\ Close("other", "sleep")

(* runBridgeLoop starts again, a second later.                             *)
Restart ==
  /\ at = "sleep" /\ restarts < MaxRestarts
  /\ restarts' = restarts + 1 /\ at' = "tunnel"
  /\ UNCHANGED <<msg, open, netVars, sent>>
-----------------------------------------------------------------------------
(* The clients.                                                            *)

Arrives(t) ==
  /\ t \notin arrived /\ up[Origin(t)]
  /\ arrived' = arrived \cup {t} /\ waiting' = waiting \cup {t}
  /\ UNCHANGED <<at, msg, restarts, open, up, sent>>

(* A client's server ends: its gateway is gone, or its socket fails.       *)
Ends(side) ==
  /\ up[side] /\ up' = [up EXCEPT ![side] = FALSE]
  /\ waiting' = {t \in waiting : Origin(t) # side}
  /\ UNCHANGED <<at, msg, restarts, open, arrived, sent>>

Taking == \E t \in Telegrams : Take(t)

Next ==
  \/ ConnectTunnel \/ ConnectOther \/ Undo
  \/ Taking \/ Relay \/ Ended \/ CloseTunnel \/ CloseOther \/ Restart
  \/ \E t \in Telegrams : Arrives(t)
  \/ \E s \in Sides : Ends(s)

(* The goroutine goes on: connecting, Send, Close and the pause all come   *)
(* to an end, and a select that finds something ready takes it.            *)
Fairness ==
  /\ WF_vars(ConnectTunnel) /\ WF_vars(ConnectOther) /\ WF_vars(Undo)
  /\ WF_vars(Taking) /\ WF_vars(Relay) /\ WF_vars(Ended)
  /\ WF_vars(CloseTunnel) /\ WF_vars(CloseOther) /\ WF_vars(Restart)

Spec == Init /\ [][Next]_vars /\ Fairness
-----------------------------------------------------------------------------
(* Whatever fails and however often the loop starts again, the bridge      *)
(* keeps one client of each side at most, and none while it waits for the  *)
(* next attempt (the error paths of newBridge, bridge.go:108-127, and      *)
(* close, bridge.go:169).                                                  *)
NoConnectionLeft ==
  /\ \A s \in Sides : open[s] <= 1
  /\ at \in {"sleep", "tunnel"} => \A s \in Sides : open[s] = 0

(* A message is relayed at most once, although Send may fail after it has  *)
(* transmitted it and the bridge starts again (serve, bridge.go:148).      *)
RelayedOnce == \A i, j \in DOMAIN sent : sent[i] = sent[j] => i = j

(* No message is held up for good while the bridge waits for the other     *)
(* side: it is taken, or its connection is given up; and a bridge one of   *)
(* whose clients has ended starts again (bridge.go:136-166).               *)
Progress ==
  /\ \A t \in Telegrams : t \in waiting ~> t \notin waiting
  /\ \A s \in Sides : at = "serve" /\ ~up[s] ~> at \in {"sleep", "tunnel"}
=============================================================================
