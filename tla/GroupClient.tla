---------------------------- MODULE GroupClient ----------------------------
(***************************************************************************)
(* Group communication of knx/groups.go over a tunnel or a router: the     *)
(* worker (serveGroupInbound) that hands the group events among the        *)
(* client's messages to one reader, over the unbuffered channel of         *)
(* GroupTunnel.Inbound() or GroupRouter.Inbound().                         *)
(*                                                                         *)
(* The client underneath is as Tunnel.tla and Router.tla leave it: each    *)
(* message is held by a goroutine of pushInbound until the worker takes    *)
(* it, in no order, and those left when the channel is closed are lost.    *)
(***************************************************************************)
EXTENDS CEMI, FiniteSets

CONSTANTS
  Inbound,    \* messages for the client's channel, each comes once
  Frame(_)    \* Frame(e): the cEMI message e is

VARIABLES
  clientUp,   \* the client's inbound channel is open
  worker,     \* the worker runs, or it has closed its own channel
  at          \* at[e]: how far the message e has come

groupVars == <<clientUp, worker, at>>

(* bus: not yet received; pushed: in a goroutine of pushInbound; held: the *)
(* worker is about to send it on; received: by the reader.                 *)
Places == {"bus", "pushed", "held", "received", "filtered", "lost"}

GroupTypeOK ==
  /\ clientUp \in BOOLEAN /\ worker \in {"running", "exited"}
  /\ at \in [Inbound -> Places]
  /\ Cardinality({e \in Inbound : at[e] = "held"}) <= 1

GroupInit ==
  clientUp = TRUE /\ worker = "running" /\ at = [e \in Inbound |-> "bus"]
-----------------------------------------------------------------------------
GroupRead == 0
GroupResponse == 1
GroupWrite == 2

(* The messages that are group events, and the event of such a message.    *)
IsGroupEvent(m) ==
  /\ m.type = "LDataInd" /\ IsGroupAddr(m.control2)
  /\ ~m.unit.control /\ IsGroupCommand(m.unit.command)

GroupEvent(m) ==
  [command |-> m.unit.command, source |-> m.source,
   destination |-> m.destination, data |-> m.unit.data]

(* defaultGroupLData: no repetition, no system broadcast, with an          *)
(* acknowledgement and low priority; to a group over at most 6 hops.       *)
DefaultControl1 == 32 + 16 + 2 + Control1Prio(3)
DefaultControl2 == Control2GroupAddr + Control2Hops(6)

(* The frame of an event: a standard frame up to 15 octets.                *)
BuildGroupOutbound(type, event) ==
  [type |-> type, info |-> <<>>,
   control1 |-> DefaultControl1 + (IF Len(event.data) <= 15 THEN 128 ELSE 0),
   control2 |-> DefaultControl2,
   source |-> event.source, destination |-> event.destination,
   unit |-> [control |-> FALSE, numbered |-> FALSE, seq |-> 0,
             command |-> event.command, data |-> event.data]]
-----------------------------------------------------------------------------
(* The client takes a message from the network (pushInbound).              *)
Push(e) ==
  /\ clientUp /\ at[e] = "bus" /\ at' = [at EXCEPT ![e] = "pushed"]
  /\ UNCHANGED <<clientUp, worker>>

Holding == \E e \in Inbound : at[e] = "held"

(* Mutant: it takes the next before the last one has been received.        *)
Ready_always == worker = "running"

Ready == worker = "running" /\ ~Holding

(* The worker takes one: it filters it out, or has to send it on.          *)
Take(e) ==
  /\ Ready /\ at[e] = "pushed"
  /\ at' = [at EXCEPT ![e] = IF IsGroupEvent(Frame(e)) THEN "held" ELSE "filtered"]
  /\ UNCHANGED <<clientUp, worker>>

(* The client's server goroutine has ended and closes the channel: the     *)
(* goroutines blocked on it panic and recover.                             *)
ClientEnds ==
  /\ clientUp /\ clientUp' = FALSE
  /\ at' = [e \in Inbound |-> IF at[e] = "pushed" THEN "lost" ELSE at[e]]
  /\ UNCHANGED worker

(* The worker has taken everything and closes its own channel.             *)
WorkerEnds ==
  /\ Ready /\ ~clientUp
  /\ worker' = "exited" /\ UNCHANGED <<clientUp, at>>

(* The reader's side of the channel: it receives e, finds it closed, or    *)
(* finds nothing to receive.                                               *)
Receive(e) == at[e] = "held" /\ at' = [at EXCEPT ![e] = "received"] /\ UNCHANGED <<clientUp, worker>>
InboundClosed == worker = "exited"
NothingToReceive == ~Holding /\ ~InboundClosed
=============================================================================
