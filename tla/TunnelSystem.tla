---------------------------- MODULE TunnelSystem ----------------------------
(***************************************************************************)
(* A tunnel client, a gateway and the datagram network between them.       *)
(*                                                                         *)
(* The client is Tunnel.tla.  The gateway is not part of the repository:   *)
(* it is modelled from what the client expects of it, as a KNXnet/IP       *)
(* tunnelling server that counts sequence numbers per connection from 0,   *)
(* accepts a request with the expected number, acknowledges a repetition   *)
(* of the one before and discards any other.  The network keeps the order  *)
(* of frames and may lose them; repetitions come from the resend timers.   *)
(***************************************************************************)
EXTENDS Tunnel, SequencesExt

CONSTANTS
  ReuseChannels,  \* the gateway hands out a channel again after a connection
  MaxDrops        \* bound: connections the gateway ends by itself

ASSUME SystemAssumption ==
  /\ ReuseChannels \in BOOLEAN
  /\ MaxDrops \in Nat
  /\ Telegrams \subseteq Nat \ {0}
  /\ NoChannel \notin Channels

VARIABLES
  gw,        \* gw[ch]: the gateway's side of the connection on channel ch
  accepted,  \* calls whose message the gateway has accepted, in order
  nextTel,   \* the next telegram for the client
  confirmed, \* telegrams the client has acknowledged
  drops,     \* connections ended by the gateway
  toClient   \* frames on their way to the client

gwVars  == <<gw, accepted, nextTel, confirmed, drops>>
sysVars == <<vars, gwVars, toClient>>

NoTelegram == 0
Closed == [state |-> "closed", rseq |-> 0, sseq |-> 0, pending |-> NoTelegram]

SystemTypeOK ==
  /\ TypeOK
  /\ gw \in [Channels -> [state : {"unused", "open", "closed"}, rseq : 0..SeqSpace-1,
                          sseq : 0..SeqSpace-1, pending : Telegrams \cup {NoTelegram}]]
  /\ accepted \in Seq(Calls)
  /\ confirmed \subseteq Telegrams
  /\ toClient \in Seq(GatewayFrames)

SystemInit ==
  /\ Init
  /\ gw = [ch \in Channels |-> [Closed EXCEPT !.state = "unused"]]
  /\ accepted = <<>> /\ nextTel = 1 /\ confirmed = {} /\ drops = 0
  /\ toClient = <<>>

Open(ch) == gw[ch].state = "open"
Free(ch) == gw[ch].state = "unused" \/ (ReuseChannels /\ gw[ch].state = "closed")

(* The gateway writes the frame f, which may be lost.                      *)
Answers(f) ==
  \/ Len(toClient) < MaxNet /\ toClient' = Append(toClient, f)
  \/ "loss" \in Faults /\ UNCHANGED toClient
-----------------------------------------------------------------------------
(* The gateway handles the frame f of a client.                            *)

GwConnect ==
  \/ \E ch \in Channels :
        /\ Free(ch)
        /\ gw' = [gw EXCEPT ![ch] = [Closed EXCEPT !.state = "open"]]
        /\ Answers([type |-> "ConnRes", channel |-> ch, status |-> "ok"])
  \/ /\ \A ch \in Channels : ~Free(ch)
     /\ \E ch \in Channels : Answers([type |-> "ConnRes", channel |-> ch, status |-> "busy"])
     /\ UNCHANGED gw

GwRequest(f) ==
  LET conn == gw[f.channel] IN
  IF conn.state = "open" /\ f.seq \in {conn.rseq, Dec(conn.rseq)}
  THEN /\ Answers([type |-> "TunnelRes", channel |-> f.channel, seq |-> f.seq, status |-> "ok"])
       /\ IF f.seq = conn.rseq
          THEN /\ gw' = [gw EXCEPT ![f.channel].rseq = Inc(@)]
               /\ accepted' = Append(accepted, f.payload)
          ELSE UNCHANGED <<gw, accepted>>
  ELSE UNCHANGED <<gw, accepted, toClient>>

GwState(f) ==
  Answers([type |-> "ConnStateRes", channel |-> f.channel,
           status |-> IF Open(f.channel) THEN "ok" ELSE "bad"])

GwDisconnect(f) ==
  IF Open(f.channel)
  THEN /\ gw' = [gw EXCEPT ![f.channel] = Closed]
       /\ Answers([type |-> "DiscRes", channel |-> f.channel])
  ELSE UNCHANGED <<gw, toClient>>

GwAcknowledged(f) ==
  IF Open(f.channel) /\ gw[f.channel].pending # NoTelegram /\ gw[f.channel].sseq = f.seq
  THEN /\ gw' = [gw EXCEPT ![f.channel].sseq = Inc(@), ![f.channel].pending = NoTelegram]
       /\ confirmed' = confirmed \cup {gw[f.channel].pending}
  ELSE UNCHANGED <<gw, confirmed>>

GwHandle ==
  /\ toGateway # <<>> /\ toGateway' = Tail(toGateway)
  /\ LET f == Head(toGateway) IN
     \/ f.type = "ConnReq" /\ GwConnect /\ UNCHANGED <<accepted, confirmed>>
     \/ f.type = "TunnelReq" /\ GwRequest(f) /\ UNCHANGED confirmed
     \/ f.type = "ConnStateReq" /\ GwState(f) /\ UNCHANGED <<gw, accepted, confirmed>>
     \/ f.type = "DiscReq" /\ GwDisconnect(f) /\ UNCHANGED <<accepted, confirmed>>
     \/ f.type = "TunnelRes" /\ GwAcknowledged(f) /\ UNCHANGED <<accepted, toClient>>
     \/ f.type = "DiscRes" /\ UNCHANGED <<gw, accepted, confirmed, toClient>>
  /\ UNCHANGED <<callVars, srvVars, beatVars, appVars, endVars, nextTel, drops>>
-----------------------------------------------------------------------------
(* What the gateway does by itself.                                        *)

GwTelegram(ch) ==
  /\ Open(ch) /\ gw[ch].pending = NoTelegram /\ nextTel \in Telegrams
  /\ gw' = [gw EXCEPT ![ch].pending = nextTel] /\ nextTel' = nextTel + 1
  /\ Answers([type |-> "TunnelReq", channel |-> ch, seq |-> gw[ch].sseq, payload |-> nextTel])
  /\ UNCHANGED <<vars, accepted, confirmed, drops>>

GwRepeat(ch) ==
  /\ Open(ch) /\ gw[ch].pending # NoTelegram /\ "resend" \in Faults
  /\ Answers([type |-> "TunnelReq", channel |-> ch, seq |-> gw[ch].sseq,
              payload |-> gw[ch].pending])
  /\ UNCHANGED <<vars, gwVars>>

(* It ends a connection, or has restarted and says nothing.                *)
GwDrop(ch) ==
  /\ Open(ch) /\ drops < MaxDrops /\ drops' = drops + 1
  /\ gw' = [gw EXCEPT ![ch] = Closed]
  /\ Answers([type |-> "DiscReq", channel |-> ch])
  /\ UNCHANGED <<vars, accepted, nextTel, confirmed>>

Gateway == GwHandle \/ \E ch \in Channels : GwTelegram(ch) \/ GwRepeat(ch) \/ GwDrop(ch)

(* The frame at the head of the queue reaches the server goroutine.        *)
Arrives ==
  /\ toClient # <<>> /\ Receive(Head(toClient)) /\ toClient' = Tail(toClient)
  /\ UNCHANGED gwVars

SystemNext == (Client /\ UNCHANGED <<gwVars, toClient>>) \/ Arrives \/ Gateway

SystemSpec == SystemInit /\ [][SystemNext]_sysVars
-----------------------------------------------------------------------------
(* A tunnel with its gateway delivers each telegram and each message once  *)
(* at most, and acknowledges only what it delivers, over lost and repeated *)
(* frames and reconnects: the comments of handleTunnelReq (tunnel.go:397)  *)
(* and requestTunnel as the abstract specification Delivery.tla.           *)
D == INSTANCE Delivery WITH
       held <- pushers, received <- delivered, acknowledged <- confirmed,
       ended <- (srv \in {"inboundClosed", "exited"})

Delivers == D!Spec

(* The comment in requestTunnel, tunnel.go:321, "Gateway has received the  *)
(* request": Send returns nil only for a message the gateway accepted.     *)
ConfirmedIsAccepted == \A c \in Calls : pc[c] = "ok" => c \in ToSet(accepted)

(* On the first connection, and while no call has timed out, that holds:   *)
(* late and repeated acknowledgements never confirm the next call.         *)
ConfirmedUndisturbed ==
  epoch <= 1 /\ (\A c \in Calls : pc[c] # "timeout") => ConfirmedIsAccepted

(* The comment of Close, tunnel.go:673, "terminate the connection": when   *)
(* Close has returned and the gateway has handled everything the client    *)
(* sent, no connection is left at the gateway.                             *)
CloseDisconnects == closer = "closed" /\ toGateway = <<>> => \A ch \in Channels : ~Open(ch)
-----------------------------------------------------------------------------
(* With the fairness of Tunnel.tla, heartbeats that come due, a select     *)
(* that does not overlook a failed one for ever, and a gateway and a       *)
(* network that handle frames in the end, or lose them.                    *)
SystemLiveSpec ==
  /\ SystemSpec /\ Fairness
  /\ WF_sysVars(HeartbeatDue /\ UNCHANGED <<gwVars, toClient>>)
  /\ SF_sysVars(HeartbeatFailed /\ UNCHANGED <<gwVars, toClient>>)
  /\ WF_sysVars(GwHandle) /\ WF_sysVars(Arrives)

(* A connection the gateway no longer knows is given up: heartbeats find   *)
(* it even when the disconnect request was lost or the gateway restarted.  *)
(* (The bound on connections ends the last one.)                           *)
LostConnectionNoticed ==
  \A ch \in Channels :
     srv = "process" /\ channel = ch /\ ~Open(ch) /\ epoch < MaxConns ~> srv # "process"
=============================================================================
